------------------------------ MODULE GossRun ------------------------------
(***************************************************************************)
(* Goss validations (goss.rs): each ensures the cached goss binary, copies *)
(* it and its gossfile to fixed paths in the guest, and runs it there.     *)
(* Validations share the cache directory and the guest, may overlap, and   *)
(* may be killed; the cached binary is written in place, and whatever the  *)
(* server replied is kept.                                                 *)
(***************************************************************************)
EXTENDS Naturals

CONSTANTS
    Cmds,         \* commands that validate (goss, or up with --snapshot-goss)
    Gossfiles,    \* the gossfiles they are given
    Replies,      \* bodies of the server's replies: "goss", "page", "empty"
    MaxReboots    \* bound: guests after the first

None == "none"

ASSUME ConstantsAssumption ==
    /\ Replies \subseteq {"goss", "page", "empty"}
    /\ None \notin Gossfiles /\ "partial" \notin Gossfiles
    /\ MaxReboots \in Nat

VARIABLES
    cache,        \* <cache dir>/goss-linux-<arch>: what it holds and whether it may run
    guest,        \* the guest's /tmp/goss and /tmp/goss.yaml
    cmd,          \* the commands
    reboots,
    clash         \* history: a download has begun to write over the file of another

vars == <<cache, guest, cmd, reboots, clash>>

Contents  == {"absent", "empty", "partial", "page", "goss"}
Binaries  == [content: Contents, exec: BOOLEAN]
Gossdocs  == Gossfiles \cup {None, "partial"}
Commands  == [pc: {"idle", "look", "get", "create", "write", "chmod", "goss", "yaml", "run"},
              gossfile: Gossfiles \cup {None}, body: Replies \cup {None},
              result: {"none", "passed", "failed"},
              ran: Gossdocs,        \* history: what the last goss of it was run on
              alone: BOOLEAN]       \* history: no other command ran meanwhile

TypeOK ==
    /\ cache \in Binaries
    /\ guest \in [goss: Binaries, yaml: Gossdocs]
    /\ cmd \in [Cmds -> Commands]
    /\ reboots \in 0..MaxReboots
    /\ clash \in BOOLEAN

-----------------------------------------------------------------------------
Absent == [content |-> "absent", exec |-> FALSE]
NewGuest == [goss |-> Absent, yaml |-> None]
Idle(result) == [pc |-> "idle", gossfile |-> None, body |-> None,
                 result |-> result, ran |-> None, alone |-> TRUE]

Init ==
    /\ cache = Absent
    /\ guest = NewGuest
    /\ cmd = [c \in Cmds |-> Idle("none")]
    /\ reboots = 0
    /\ clash = FALSE

Running(c) == cmd[c].pc # "idle"
At(c, pc)  == cmd[c].pc = pc
Goto(c, pc) == cmd' = [cmd EXCEPT ![c].pc = pc]
Fail(c)     == cmd' = [cmd EXCEPT ![c] = Idle("failed")]

Begun(g, alone) ==
    [pc |-> "look", gossfile |-> g, body |-> None,
     result |-> "none", ran |-> None, alone |-> alone]

Start(c, g) ==
    LET others == {d \in Cmds \ {c} : Running(d)} IN
    /\ ~Running(c)
    /\ cmd' = [d \in Cmds |->
                 IF d = c THEN Begun(g, others = {})
                 ELSE IF d \in others THEN [cmd[d] EXCEPT !.alone = FALSE]
                 ELSE cmd[d]]
    /\ UNCHANGED <<cache, guest, reboots, clash>>

-----------------------------------------------------------------------------
(* ensure_binary.  A file of that name will do.                            *)
Cached(c) ==
    /\ At(c, "look") /\ cache.content # "absent"
    /\ Goto(c, "goss")
    /\ UNCHANGED <<cache, guest, reboots, clash>>

(* Mutant: the binary is downloaded whether it is there or not.            *)
DownloadAlways(c) ==
    /\ At(c, "look")
    /\ Goto(c, "get")
    /\ UNCHANGED <<cache, guest, reboots, clash>>

Download(c) ==
    /\ At(c, "look") /\ cache.content = "absent"
    /\ Goto(c, "get")
    /\ UNCHANGED <<cache, guest, reboots, clash>>

(* The status of the reply is not looked at.                               *)
Reply(c, body) ==
    /\ At(c, "get")
    /\ cmd' = [cmd EXCEPT ![c].pc = "create", ![c].body = body]
    /\ UNCHANGED <<cache, guest, reboots, clash>>

(* tokio::fs::write: it empties a file that is there, whose mode stays.    *)
Create(c) ==
    /\ At(c, "create")
    /\ cache' = [cache EXCEPT !.content = "empty"]
    /\ Goto(c, "write")
    /\ clash' = (clash \/ cache.content # "absent")
    /\ UNCHANGED <<guest, reboots>>

Write(c) ==
    /\ At(c, "write")
    /\ cache' = [cache EXCEPT !.content = cmd[c].body]
    /\ Goto(c, "chmod")
    /\ UNCHANGED <<guest, reboots, clash>>

MakeExecutable(c) ==
    /\ At(c, "chmod")
    /\ cache' = [cache EXCEPT !.exec = TRUE]
    /\ Goto(c, "goss")
    /\ UNCHANGED <<guest, reboots, clash>>

-----------------------------------------------------------------------------
(* validate: scp to /tmp/goss, with the mode of the cached file; a file    *)
(* that is there may keep its own.                                         *)
UploadGoss(c) ==
    /\ At(c, "goss")
    /\ \E exec \in {cache.exec} \cup
                   (IF guest.goss.content = "absent" THEN {} ELSE {guest.goss.exec}) :
          guest' = [guest EXCEPT !.goss = [content |-> cache.content, exec |-> exec]]
    /\ Goto(c, "yaml")
    /\ UNCHANGED <<cache, reboots, clash>>

(* Mutant: the two paths in the guest are swapped.                         *)
UploadSwapped(c) ==
    /\ At(c, "yaml")
    /\ guest' = [guest EXCEPT !.goss.content = cmd[c].gossfile]
    /\ Goto(c, "run")
    /\ UNCHANGED <<cache, reboots, clash>>

UploadGossfile(c) ==
    /\ At(c, "yaml")
    /\ guest' = [guest EXCEPT !.yaml = cmd[c].gossfile]
    /\ Goto(c, "run")
    /\ UNCHANGED <<cache, reboots, clash>>

(* Mutant: the exit status of scp is not looked at.                        *)
UploadFailsUnseen(c) ==
    /\ \/ At(c, "goss") /\ Goto(c, "yaml")
       \/ At(c, "yaml") /\ Goto(c, "run")
    /\ UNCHANGED <<cache, guest, reboots, clash>>

(* Mutant: an upload that fails is tried again.                            *)
UploadTriedAgain(c) ==
    /\ cmd[c].pc \in {"goss", "yaml"}
    /\ Goto(c, "goss")
    /\ UNCHANGED <<cache, guest, reboots, clash>>

(* scp fails, at once or on its way.                                       *)
UploadFails(c) ==
    /\ \/ At(c, "goss") /\ guest' \in {guest, [guest EXCEPT !.goss.content = "partial"]}
       \/ At(c, "yaml") /\ guest' \in {guest, [guest EXCEPT !.yaml = "partial"]}
    /\ Fail(c)
    /\ UNCHANGED <<cache, reboots, clash>>

(* The exit status of `/tmp/goss validate`, which the guest's shell runs:  *)
(* an executable file without a byte is a script that succeeds.  Whether   *)
(* goss itself finds what the gossfile asks for is up to the guest.        *)
Verdicts ==
    IF ~guest.goss.exec THEN {"failed"}
    ELSE IF guest.goss.content = "empty" THEN {"passed"}
    ELSE IF guest.goss.content = "goss" /\ guest.yaml # None THEN {"passed", "failed"}
    ELSE {"failed"}

RunGoss(c) ==
    /\ At(c, "run")
    /\ \E verdict \in Verdicts :
          cmd' = [cmd EXCEPT ![c].pc = "idle", ![c].body = None, ![c].result = verdict,
                             ![c].ran = IF guest.goss = [content |-> "goss", exec |-> TRUE]
                                        THEN guest.yaml ELSE None]
    /\ UNCHANGED <<cache, guest, reboots, clash>>

(* No reply, a reply cut short, or no connection.                          *)
NetworkFails(c) ==
    /\ cmd[c].pc \in {"get", "run"}
    /\ Fail(c)
    /\ UNCHANGED <<cache, guest, reboots, clash>>

(* The command is killed, or its write fails.                              *)
Stop(c) ==
    /\ Running(c)
    /\ cache' \in {cache} \cup
          (IF At(c, "write") THEN {[cache EXCEPT !.content = "partial"]} ELSE {})
    /\ guest' \in {guest} \cup
          (IF At(c, "goss") THEN {[guest EXCEPT !.goss.content = "partial"]} ELSE {}) \cup
          (IF At(c, "yaml") THEN {[guest EXCEPT !.yaml = "partial"]} ELSE {})
    /\ Fail(c)
    /\ UNCHANGED <<reboots, clash>>

-----------------------------------------------------------------------------
(* The guest is another one, or /tmp was cleared.                          *)
Reboot ==
    /\ reboots < MaxReboots
    /\ guest' = NewGuest
    /\ reboots' = reboots + 1
    /\ UNCHANGED <<cache, cmd, clash>>

Step(c) ==
    \/ Cached(c) \/ Download(c) \/ (\E body \in Replies : Reply(c, body))
    \/ Create(c) \/ Write(c) \/ MakeExecutable(c)
    \/ UploadGoss(c) \/ UploadGossfile(c) \/ UploadFails(c)
    \/ RunGoss(c) \/ NetworkFails(c)

Next ==
    \/ \E c \in Cmds : (\E g \in Gossfiles : Start(c, g)) \/ Step(c) \/ Stop(c)
    \/ Reboot

Spec == Init /\ [][Next]_vars

(* Every download, scp and ssh ends, and a command goes on by itself.      *)
FairSpec == Spec /\ \A c \in Cmds : WF_vars(Step(c))

-----------------------------------------------------------------------------
(* "Deploy goss to the VM and run the given gossfile" (goss.rs:88): a      *)
(* validation that no other one disturbed and that passed has run goss on  *)
(* its own gossfile, and not on what an earlier one left in the guest;     *)
(* provided that no download has written over the file of another.         *)
PassedRanOwnGossfile ==
    \A c \in Cmds :
        cmd[c].result = "passed" /\ cmd[c].alone /\ ~clash => cmd[c].ran = cmd[c].gossfile

Good == cache = [content |-> "goss", exec |-> TRUE]
NoDownload == \A c \in Cmds : cmd[c].pc \notin {"get", "create", "write", "chmod"}

(* Once the binary is whole and executable, and no download that began     *)
(* before that is left, nothing changes it: not overlapping validations,   *)
(* their ends and failures, nor the server's bad replies.                  *)
GoodBinaryStays == [](Good /\ NoDownload => []Good)

(* Every validation ends.                                                  *)
ValidationsEnd == \A c \in Cmds : Running(c) ~> ~Running(c)

=============================================================================
