------------------------------ MODULE GuestWait ------------------------------
(***************************************************************************)
(* How a command finds the guest it has launched: vfkit's guests by the    *)
(* leases of the host's DHCP server (vfkit.rs launch, discover_guest_ip,   *)
(* find_lease), then, as every guest, by asking it over SSH until it       *)
(* answers or the time is up (ssh.rs wait_ready).                          *)
(*                                                                         *)
(* The lease file belongs to the host: all work directories and other      *)
(* software have their records in it.  A MAC belongs to a work directory   *)
(* and not to a VM, so a record may be left from an earlier VM.            *)
(*                                                                         *)
(* A command may be killed while it waits; its guest goes on.  A directory *)
(* has one guest at a time: nothing is launched beside such a guest before *)
(* `down` has stopped it.                                                  *)
(***************************************************************************)
EXTENDS Naturals, Sequences

CONSTANTS
    Dirs,          \* work directories, and by deterministic_mac their MACs
    Short,         \* those whose MAC has an octet that is written without its zero
    Ips,           \* addresses the DHCP server hands out
    LeaseTimeout,  \* polls of the lease file before discovery gives up
    SshTimeout,    \* wait_ready's timeout, in ticks
    Interval,      \* its interval, in ticks
    MaxAttempt,    \* the ticks that one ssh lasts at most
    MaxRecords     \* bound: records in the lease file

None == "none"
Foreign == "foreign"    \* a machine that is not of fcos-harness

ASSUME ConstantsAssumption ==
    /\ Short \subseteq Dirs
    /\ Foreign \notin Dirs /\ None \notin Ips
    /\ {LeaseTimeout, SshTimeout, Interval, MaxAttempt, MaxRecords} \subseteq Nat
    /\ Interval > 0

VARIABLES
    leases,    \* /var/db/dhcpd_leases: its lines, those that find_lease looks at
    guest,     \* the guest of each directory
    wait,      \* the command of each directory: what it waits for, and since when
    readyAt,   \* history: wait_ready's time when the guest began to answer
    kept       \* history: MACs of which a VM left its lease in the file

vars == <<leases, guest, wait, readyAt, kept>>

Macs  == [of: Dirs \cup {Foreign}, padded: BOOLEAN]
Lines == [tag: {"{", "}"}, value: {None}]
            \cup [tag: {"ip"}, value: Ips \cup {None}]    \* None: it does not parse
            \cup [tag: {"mac"}, value: Macs]

Guests == [state: {"off", "booting", "up"}, ip: Ips \cup {None}]
Waits  == [pc: {"idle", "lease", "ssh", "asked", "unheard"}, ip: Ips \cup {None},
           waited: {n \in Nat : n <= LeaseTimeout \/ n <= SshTimeout},
           result: {"none", "ok", "failed", "killed"}]

TypeOK ==
    /\ leases \in Seq(Lines) /\ Len(leases) <= 4 * MaxRecords
    /\ guest \in [Dirs -> Guests]
    /\ wait \in [Dirs -> Waits]
    /\ readyAt \in [Dirs -> Nat]
    /\ kept \subseteq Dirs

-----------------------------------------------------------------------------
Line(tag, value) == [tag |-> tag, value |-> value]

Record(mac, ip) ==
    <<Line("{", None), Line("ip", ip), Line("mac", mac), Line("}", None)>>

(* Mutant: the MAC is made from the hostname alone.                        *)
MacOfHostname(d) == [of |-> CHOOSE e \in Dirs : TRUE, padded |-> TRUE]

(* deterministic_mac.                                                      *)
Mac(d) == [of |-> d, padded |-> TRUE]

(* How the server writes it.                                               *)
Written(d) == [Mac(d) EXCEPT !.padded = d \notin Short]

(* Mutant: MACs are compared as they are written.                          *)
NormalizeNothing(m) == m

Normalize(m) == [m EXCEPT !.padded = TRUE]

(* The lines of that tag that are in force before line n: the last one     *)
(* since a brace.                                                          *)
InForce(lines, n, tag) ==
    {m \in 1..(n - 1) :
        /\ lines[m].tag = tag
        /\ \A k \in (m + 1)..(n - 1) : lines[k].tag \notin {"{", "}", tag}}

(* find_lease: the address of the first "}" with an address and this MAC.  *)
FindLease(lines, d) ==
    LET want == Normalize(Mac(d))
        closes == {n \in 1..Len(lines) :
                     /\ lines[n].tag = "}"
                     /\ \E m \in InForce(lines, n, "mac") : Normalize(lines[m].value) = want
                     /\ \E m \in InForce(lines, n, "ip") : lines[m].value # None}
        first == CHOOSE n \in closes : \A k \in closes : n <= k
    IN IF closes = {} THEN None
       ELSE lines[CHOOSE m \in InForce(lines, first, "ip") : lines[m].value # None].value

-----------------------------------------------------------------------------
Init ==
    /\ leases = <<>>
    /\ guest = [d \in Dirs |-> [state |-> "off", ip |-> None]]
    /\ wait = [d \in Dirs |-> [pc |-> "idle", ip |-> None, waited |-> 0, result |-> "none"]]
    /\ readyAt = [d \in Dirs |-> 0]
    /\ kept = {}

Waiting(pc, ip) == [pc |-> pc, ip |-> ip, waited |-> 0, result |-> "none"]
Ended(result) == [Waiting("idle", None) EXCEPT !.result = result]
Off == [state |-> "off", ip |-> None]

InUse(i) == \E d \in Dirs : guest[d].ip = i

(* The file has n records; this is without the i-th.                       *)
Size == Len(leases) \div 4
IpAt(i)  == leases[4 * i - 2].value
MacAt(i) == leases[4 * i - 1].value
Without(i) == SubSeq(leases, 1, 4 * i - 4) \o SubSeq(leases, 4 * i + 1, Len(leases))

Leased(d, i) == MacAt(i).of = d /\ IpAt(i) = guest[d].ip

(* SIGKILL: the guest's lease stays.                                       *)
VfkitKilled(d) ==
    /\ guest' = [guest EXCEPT ![d] = Off]
    /\ kept' = kept \cup {e \in {d} : guest[e].ip # None}
    /\ UNCHANGED leases

(* SIGTERM: vfkit's handler gives the lease back, unless SIGKILL comes     *)
(* first.                                                                  *)
VfkitEnds(d) ==
    \/ /\ guest' = [guest EXCEPT ![d] = Off]
       /\ \E i \in 1..Size : Leased(d, i) /\ leases' = Without(i)
       /\ UNCHANGED kept
    \/ VfkitKilled(d)

Launch(d) ==
    /\ wait[d].pc = "idle" /\ guest[d].state = "off"
    /\ guest' = [guest EXCEPT ![d].state = "booting"]
    /\ wait' = [wait EXCEPT ![d] = Waiting("lease", None)]
    /\ readyAt' = [readyAt EXCEPT ![d] = 0]
    /\ kept' = {e \in kept : e = d => \E n \in 1..Size : MacAt(n).of = d}
    /\ UNCHANGED leases

(* The file is read, and read again after the pause; the time is looked at *)
(* after a read.                                                           *)
LeaseFound(d) ==
    LET ip == FindLease(leases, d) IN
    /\ wait[d].pc = "lease" /\ ip # None
    /\ wait' = [wait EXCEPT ![d] = Waiting("ssh", ip)]
    /\ UNCHANGED <<leases, guest, readyAt, kept>>

(* Mutant: the time is not looked at.                                      *)
LeasePollForever(d) ==
    /\ wait[d].pc = "lease"
    /\ UNCHANGED vars

(* No lease in what was read, which may be less than the file; or the file *)
(* could not be read.                                                      *)
LeasePoll(d) ==
    /\ wait[d].pc = "lease"
    /\ wait[d].waited < LeaseTimeout
    /\ wait' = [wait EXCEPT ![d].waited = @ + 1]
    /\ UNCHANGED <<leases, guest, readyAt, kept>>

(* Nor in the last one: vfkit is killed.                                   *)
NoLease(d) ==
    /\ wait[d].pc = "lease"
    /\ wait[d].waited >= LeaseTimeout
    /\ wait' = [wait EXCEPT ![d] = Ended("failed")]
    /\ VfkitKilled(d)
    /\ UNCHANGED readyAt

-----------------------------------------------------------------------------
Answers(i) == \E d \in Dirs : guest[d].state = "up" /\ guest[d].ip = i

(* An ssh that begins when the guest answers succeeds, one that begins     *)
(* before may.                                                             *)
AskGuest(d) ==
    /\ wait[d].pc = "ssh"
    /\ wait' = [wait EXCEPT ![d].pc = IF Answers(wait[d].ip) THEN "asked" ELSE "unheard"]
    /\ UNCHANGED <<leases, guest, readyAt, kept>>

SshAnswers(d) ==
    /\ wait[d].pc \in {"asked", "unheard"} /\ Answers(wait[d].ip)
    /\ wait' = [wait EXCEPT ![d] = [Ended("ok") EXCEPT !.ip = wait[d].ip]]
    /\ UNCHANGED <<leases, guest, readyAt, kept>>

(* It has lasted for so many ticks and failed: unheard, or the guest that  *)
(* answered is gone.                                                       *)
SshFailed(d) == wait[d].pc = "unheard" \/ (wait[d].pc = "asked" /\ ~Answers(wait[d].ip))

(* Mutant: the deadline is not looked at.                                  *)
SshPauseOn(d, ticks) ==
    /\ SshFailed(d)
    /\ wait' = [wait EXCEPT ![d].pc = "ssh", ![d].waited = @ + ticks + Interval]
    /\ UNCHANGED <<leases, guest, readyAt, kept>>

(* The pause must end by the deadline.                                     *)
SshPause(d, ticks) ==
    LET next == wait[d].waited + ticks + Interval IN
    /\ SshFailed(d)
    /\ next <= SshTimeout
    /\ wait' = [wait EXCEPT ![d].pc = "ssh", ![d].waited = next]
    /\ UNCHANGED <<leases, guest, readyAt, kept>>

(* Mutant: gives up when one pause more would not fit.                     *)
SshGivesUpEarly(d, ticks) ==
    /\ SshFailed(d)
    /\ wait[d].waited + ticks + 2 * Interval > SshTimeout
    /\ wait' = [wait EXCEPT ![d] = Ended("failed")]
    /\ VfkitEnds(d)
    /\ UNCHANGED readyAt

SshGivesUp(d, ticks) ==
    /\ SshFailed(d)
    /\ wait[d].waited + ticks + Interval > SshTimeout
    /\ wait' = [wait EXCEPT ![d] = Ended("failed")]
    /\ VfkitEnds(d)
    /\ UNCHANGED readyAt

(* The command is killed, and its VM is not.                               *)
Kill(d) ==
    /\ wait[d].pc # "idle"
    /\ wait' = [wait EXCEPT ![d] = Ended("killed")]
    /\ UNCHANGED <<leases, guest, readyAt, kept>>

(* `down`, once the VM was handed over or its command was killed.          *)
Down(d) ==
    /\ wait[d].pc = "idle" /\ guest[d].state # "off"
    /\ VfkitEnds(d)
    /\ UNCHANGED <<wait, readyAt>>

-----------------------------------------------------------------------------
(* The DHCP server: a guest gets an address that no guest uses.  A record  *)
(* of its MAC is renewed, or there is one more (the guest's client id is a *)
(* new one), which the server may write before or after the others.        *)
Acquire(d, i) ==
    /\ guest[d].state = "booting" /\ guest[d].ip = None
    /\ ~InUse(i)
    /\ guest' = [guest EXCEPT ![d].ip = i]
    /\ \/ (\E n \in 1..Size : MacAt(n).of = d /\ IpAt(n) = i) /\ UNCHANGED leases
       \/ /\ Size < MaxRecords
          /\ leases' \in {Record(Written(d), i) \o leases, leases \o Record(Written(d), i)}
    /\ UNCHANGED <<wait, readyAt, kept>>

(* Other software's machines have records too, some that cannot be read.   *)
OtherLease(i) ==
    /\ Size < MaxRecords
    /\ ~InUse(i) \/ i = None
    /\ leases' = leases \o Record([of |-> Foreign, padded |-> FALSE], i)
    /\ UNCHANGED <<guest, wait, readyAt, kept>>

Expire(n) ==
    /\ n \in 1..Size
    /\ ~\E d \in Dirs : Leased(d, n)
    /\ leases' = Without(n)
    /\ kept' = {d \in kept : wait[d].ip # None \/ \E m \in 1..Size \ {n} : MacAt(m).of = d}
    /\ UNCHANGED <<guest, wait, readyAt>>

(* sshd begins to answer.                                                  *)
Booted(d) ==
    /\ guest[d].state = "booting" /\ guest[d].ip # None
    /\ guest' = [guest EXCEPT ![d].state = "up"]
    /\ readyAt' = [readyAt EXCEPT ![d] = IF wait[d].pc = "lease" THEN 0 ELSE wait[d].waited]
    /\ UNCHANGED <<leases, wait, kept>>

Step(d) ==
    \/ LeaseFound(d) \/ LeasePoll(d) \/ NoLease(d)
    \/ AskGuest(d) \/ SshAnswers(d)
    \/ \E ticks \in 0..MaxAttempt : SshPause(d, ticks) \/ SshGivesUp(d, ticks)

Next ==
    \/ \E d \in Dirs :
          \/ Launch(d) \/ Step(d) \/ Kill(d) \/ Down(d)
          \/ (\E i \in Ips : Acquire(d, i)) \/ Booted(d)
    \/ \E i \in Ips \cup {None} : OtherLease(i)
    \/ \E n \in 1..MaxRecords : Expire(n)

Spec == Init /\ [][Next]_vars

(* A command polls on by itself, and each ssh ends.                        *)
FairSpec == Spec /\ \A d \in Dirs : WF_wait(Step(d))

-----------------------------------------------------------------------------
(* find_lease returns the address of the first record of the MAC, however  *)
(* its octets are written, and never puts two records together; when the   *)
(* file is read while it is being written, it returns that address or none.*)
LookupMatchesRecords ==
    \A d \in Dirs :
        LET known == {i \in 1..Size : MacAt(i).of = d /\ IpAt(i) # None}
            lease == IF known = {} THEN None
                     ELSE IpAt(CHOOSE i \in known : \A k \in known : i <= k)
        IN /\ FindLease(leases, d) = lease
           /\ \A n \in 0..Len(leases) :
                 FindLease(SubSeq(leases, 1, n), d) \in {None, lease}

(* The address that a command waits on, or has reported ready, is that of  *)
(* the guest it launched (vfkit.rs:156), unless a VM of the same MAC has   *)
(* left its lease in the file.                                             *)
WaitsForOwnGuest ==
    \A d \in Dirs \ kept :
        wait[d].ip # None /\ guest[d].state # "off" => wait[d].ip = guest[d].ip

(* A guest that answers from an interval and one ssh before the deadline   *)
(* on is found.                                                            *)
GuestInTimeIsFound ==
    [][\A d \in Dirs :
          wait[d].pc \in {"asked", "unheard"} /\ wait'[d].result = "failed"
          /\ guest[d].state = "up" /\ guest[d].ip = wait[d].ip
             => readyAt[d] + Interval + MaxAttempt > SshTimeout]_vars

(* Every launch ends, with the guest's answer or without.                  *)
LaunchesEnd == \A d \in Dirs : wait[d].pc # "idle" ~> wait[d].pc = "idle"

=============================================================================
