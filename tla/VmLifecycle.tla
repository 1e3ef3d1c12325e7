------------------------------ MODULE VmLifecycle ------------------------------
(***************************************************************************)
(* The VM processes of one work directory and the commands that start,     *)
(* stop and reach them: `up` from the launch of the VM on (cli/up.rs run,  *)
(* qemu.rs and vfkit.rs launch), `down` (cli/up.rs down), `boot`           *)
(* (cli/boot.rs), `start` and `stop` (bin/fcos-harness.rs) and `ssh`       *)
(* (cli/ssh.rs).                                                           *)
(*                                                                         *)
(* A command remembers its VM only in memory until it writes the PID file; *)
(* `down` and `stop` know a VM by its PID file only; `ssh` finds it        *)
(* through vm-state.json.  Commands are processes of their own, may run at *)
(* the same time and may be killed at any step.                            *)
(***************************************************************************)
EXTENDS Naturals, FiniteSets

CONSTANTS
    Pids,       \* process ids the kernel hands out, used again once forgotten
    Ports,      \* host ports a user passes with --ssh-port
    DefaultPort, \* the one of them that is the default, 2223
    Cmds,       \* command processes
    Kinds,      \* the commands in use
    Overlap,    \* do commands of one work directory run at the same time?
    Rerun       \* does a user run `up` again before `down`?

Backends == {"qemu", "vfkit"}
PidFiles == Backends \cup {"start"}    \* qemu.pid, vfkit.pid, and start's --pid-file
NoPid    == "nopid"
Lease    == "lease"    \* the address vmnet leases to the directory's MAC
NoState  == [backend |-> "none", endpoint |-> Lease]    \* no vm-state.json

ASSUME ConstantsAssumption ==
    /\ Overlap \in BOOLEAN /\ Rerun \in BOOLEAN
    /\ Kinds \subseteq {"up", "down", "boot", "start", "stop", "ssh"}
    /\ DefaultPort \in Ports
    /\ NoPid \notin Pids
    /\ Lease \notin Ports

VARIABLES
    vms,        \* the VM process of each pid
    pidFile,    \* the pid in each PID file
    vmState,    \* vm-state.json
    cmd,        \* where each command is, and its locals
    lost,       \* history: VMs given up, by a kill, an impatient `down` or a failed `start`
    marred,     \* history: since `down` last cleaned up, was a command killed, or
                \* has vm-state.json outlived its removal?
    due         \* history: the VMs that the PID files of `up` named when a `down`
                \* began, less those whose PID file was rewritten since

vars == <<vms, pidFile, vmState, cmd, lost, marred, due>>
files == <<pidFile, vmState>>
history == <<lost, marred, due>>

Endpoints == Ports \cup {Lease}

(* "refused" exited at once, without ever running a guest; "term" has      *)
(* received SIGTERM and not gone yet.                                      *)
VMs == [state: {"none", "up", "term", "dead", "refused"},
        backend: Backends, endpoint: Endpoints]

States == [backend: Backends, endpoint: Endpoints]

Idle == "idle"

Commands == [kind: {"up", "down", "boot", "start", "stop", "ssh"},
             pc: {Idle, "launch", "ready", "pid", "state", "probe", "keep", "shutdown",
                  "console", "find", "read", "poll", "unlink", "clean", "connect"},
             backend: Backends, file: PidFiles,
             endpoint: Endpoints, pid: Pids \cup {NoPid},
             stopped: BOOLEAN, result: {"none", "ok", "failed", "killed"}]

TypeOK ==
    /\ vms \in [Pids -> VMs]
    /\ pidFile \in [PidFiles -> Pids \cup {NoPid}]
    /\ vmState \in States \cup {NoState}
    /\ cmd \in [Cmds -> Commands]
    /\ lost \subseteq Pids
    /\ marred \in BOOLEAN
    /\ due \in [Cmds -> SUBSET Pids]

Alive(p)   == vms[p].state \in {"up", "term"}
Filed(p)   == \E f \in PidFiles : pidFile[f] = p
Running(c) == cmd[c].pc # Idle
Quiet      == \A c \in Cmds : ~Running(c)

Launchers == {"up", "boot", "start"}

(* A pid nobody remembers is handed out again.                             *)
Forgotten(p) ==
    /\ ~Alive(p)
    /\ ~Filed(p)
    /\ \A c \in Cmds : cmd[c].pid # p

Answers(e) == \E p \in Pids : Alive(p) /\ vms[p].endpoint = e

PortTaken(e) == \E p \in Pids : Alive(p) /\ vms[p].backend = "qemu" /\ vms[p].endpoint = e

(* c goes on, holding the process p.                                       *)
Step(c, kinds, from, to, p) ==
    /\ cmd[c].kind \in kinds /\ cmd[c].pc = from
    /\ cmd' = [cmd EXCEPT ![c].pc = to, ![c].pid = p]

New(kind, pc, b, f, e) ==
    [kind |-> kind, pc |-> pc, backend |-> b, file |-> f, endpoint |-> e,
     pid |-> NoPid, stopped |-> FALSE, result |-> "none"]

(* A command ends; its locals are gone.                                    *)
Ended(c, result) ==
    [cmd EXCEPT ![c] = [New(cmd[c].kind, Idle, "qemu", "qemu", Lease) EXCEPT !.result = result]]

Exited(state) == [state |-> state, backend |-> "qemu", endpoint |-> Lease]

(* History only: no `down` under way answers for these VMs any more.       *)
Forget(ps) == due' = [c \in Cmds |-> due[c] \ ps]

Started(c) == [state |-> "up", backend |-> cmd[c].backend, endpoint |-> cmd[c].endpoint]

-----------------------------------------------------------------------------
Init ==
    /\ vms = [p \in Pids |-> Exited("none")]
    /\ pidFile = [f \in PidFiles |-> NoPid]
    /\ vmState = NoState
    /\ cmd = [c \in Cmds |-> New("down", Idle, "qemu", "qemu", Lease)]
    /\ lost = {}
    /\ marred = FALSE
    /\ due = [c \in Cmds |-> {}]

MayStart(c, kind) == kind \in Kinds /\ ~Running(c) /\ (Overlap \/ Quiet)

(* Bound: as many VMs and commands at a time as there are pids.            *)
FreePid == Cardinality({p \in Pids : Forgotten(p)})
             > Cardinality({c \in Cmds : cmd[c].pc = "launch"})

(* QEMU forwards a port of the host, vfkit's guest has an address.         *)
StartUp(c, b, e) ==
    /\ MayStart(c, "up")
    /\ Rerun \/ \A f \in Backends : pidFile[f] = NoPid
    /\ FreePid
    /\ (b = "vfkit") <=> (e = Lease)
    /\ cmd' = [cmd EXCEPT ![c] = New("up", "launch", b, b, e)]
    /\ UNCHANGED <<vms, files, history>>

(* `boot` writes no file; `start` writes the PID file its user names, and  *)
(* no vm-state.json.  Both run QEMU only.                                  *)
StartBoot(c, e) ==
    /\ MayStart(c, "boot") /\ FreePid
    /\ cmd' = [cmd EXCEPT ![c] = New("boot", "launch", "qemu", "qemu", e)]
    /\ UNCHANGED <<vms, files, history>>

StartStart(c, e) ==
    /\ MayStart(c, "start") /\ FreePid
    /\ Rerun \/ pidFile["start"] = NoPid
    /\ cmd' = [cmd EXCEPT ![c] = New("start", "launch", "qemu", "start", e)]
    /\ UNCHANGED <<vms, files, history>>

(* The process is spawned.  QEMU refuses to run when its port is taken, or *)
(* for other reasons; is_running looks at the child's id, which it has     *)
(* until it is waited for, so the launch succeeds all the same; `start`    *)
(* does not ask at this point.  --interactive keeps the console instead.   *)
LaunchQemu(c, p, refused) ==
    /\ cmd[c].backend = "qemu"
    /\ \/ Step(c, {"up", "boot"}, "launch", "ready", p)
       \/ Step(c, {"start"}, "launch", "pid", p)
       \/ Step(c, {"boot", "start"}, "launch", "console", p)
    /\ Forgotten(p)
    /\ PortTaken(cmd[c].endpoint) => refused
    /\ vms' = [vms EXCEPT ![p] = IF refused THEN Exited("refused") ELSE Started(c)]
    /\ lost' = lost \ {p} /\ Forget({p})
    /\ UNCHANGED <<files, marred>>

(* vfkit writes its own PID file.  Its launch asks try_wait, and fails.    *)
LaunchVfkit(c, p) ==
    /\ cmd[c].backend = "vfkit"
    /\ Step(c, {"up"}, "launch", "ready", p)
    /\ Forgotten(p)
    /\ vms' = [vms EXCEPT ![p] = Started(c)]
    /\ pidFile' = [pidFile EXCEPT !["vfkit"] = p]
    /\ lost' = lost \ {p} /\ Forget({p, pidFile["vfkit"]})
    /\ UNCHANGED <<vmState, marred>>

(* The program cannot be spawned; or vfkit has exited at once.             *)
LaunchFails(c) ==
    /\ cmd[c].pc = "launch"
    /\ cmd' = Ended(c, "failed")
    /\ UNCHANGED <<vms, files, history>>

(* ssh.wait_ready asks the endpoint, whoever answers there.  `boot --keep` *)
(* then waits for Ctrl-C.                                                  *)
Ready(c) ==
    /\ \/ Step(c, {"up"}, "ready", "pid", cmd[c].pid)
       \/ Step(c, {"boot"}, "ready", "keep", cmd[c].pid)
       \/ Step(c, {"boot"}, "ready", "shutdown", cmd[c].pid)
    /\ Answers(cmd[c].endpoint)
    /\ UNCHANGED <<vms, files, history>>

(* Mutant: the endpoint is written where the pid should be.                *)
WriteEndpoint(c) ==
    /\ Step(c, {"up"}, "pid", "state", cmd[c].pid)
    /\ pidFile' = [pidFile EXCEPT ![cmd[c].file] = cmd[c].endpoint]
    /\ UNCHANGED <<vms, vmState, history>>

WritePid(c) ==
    /\ \/ Step(c, {"up"}, "pid", "state", cmd[c].pid)
       \/ Step(c, {"start"}, "pid", "probe", cmd[c].pid)
    /\ pidFile' = [pidFile EXCEPT ![cmd[c].file] = cmd[c].pid]
    /\ Forget({pidFile[cmd[c].file], cmd[c].pid})
    /\ UNCHANGED <<vms, vmState, lost, marred>>

(* vm-state.json is written and the VM is detached.                        *)
WriteState(c) ==
    /\ cmd[c].kind = "up" /\ cmd[c].pc = "state"
    /\ vmState' = [backend |-> cmd[c].backend, endpoint |-> cmd[c].endpoint]
    /\ cmd' = [cmd EXCEPT ![c].pc = Idle, ![c].result = "ok"]
    /\ UNCHANGED <<vms, pidFile, history>>

(* Mutant: the handle is dropped without killing the process.              *)
UpFailsKeepsVm(c) ==
    /\ cmd[c].kind \in {"up", "boot"} /\ cmd[c].pc \in {"ready", "pid", "state"}
    /\ cmd' = Ended(c, "failed")
    /\ UNCHANGED <<vms, files, history>>

(* Mutant: the wait for SSH has no timeout.                                *)
UpFailsLate(c) ==
    /\ cmd[c].kind = "up" /\ cmd[c].pc = "state"
    /\ vms' = IF Alive(cmd[c].pid) THEN [vms EXCEPT ![cmd[c].pid] = Exited("dead")] ELSE vms
    /\ cmd' = Ended(c, "failed")
    /\ UNCHANGED <<files, history>>

(* SSH timed out, the snapshot steps failed, or --ssh-key could not be     *)
(* resolved after the PID file was written: the handle's own process is    *)
(* killed and no file is touched.                                          *)
UpFails(c) ==
    LET p == cmd[c].pid IN
    /\ cmd[c].kind \in {"up", "boot"} /\ cmd[c].pc \in {"ready", "pid", "state"}
    /\ vms' = IF Alive(p) THEN [vms EXCEPT ![p] = Exited("dead")] ELSE vms
    /\ cmd' = Ended(c, "failed")
    /\ UNCHANGED <<files, history>>

(* kill(pid, 0) succeeds for the child, also when it has exited: it is not *)
(* waited for.                                                             *)
Probe(c) ==
    /\ cmd[c].kind = "start" /\ cmd[c].pc = "probe"
    /\ cmd' = [cmd EXCEPT ![c].pc = Idle, ![c].result = "ok"]
    /\ UNCHANGED <<vms, files, history>>

(* The PID file cannot be written: `start` ends, its child goes on.        *)
StartFails(c) ==
    /\ cmd[c].kind = "start" /\ cmd[c].pc = "pid"
    /\ lost' = lost \cup {q \in {cmd[c].pid} : Alive(q)}
    /\ cmd' = Ended(c, "failed")
    /\ UNCHANGED <<vms, files, marred, due>>

CtrlC(c) ==
    /\ Step(c, {"boot"}, "keep", "shutdown", cmd[c].pid)
    /\ UNCHANGED <<vms, files, history>>

(* The end of `boot`: SIGKILL, and the child is waited for.                *)
Shutdown(c) ==
    LET p == cmd[c].pid IN
    /\ cmd[c].kind = "boot" /\ cmd[c].pc = "shutdown"
    /\ vms' = IF Alive(p) THEN [vms EXCEPT ![p] = Exited("dead")] ELSE vms
    /\ cmd' = Ended(c, "ok")
    /\ UNCHANGED <<files, history>>

(* An interactive VM ends its command by its own end.                      *)
ConsoleCloses(c) ==
    /\ cmd[c].pc = "console" /\ ~Alive(cmd[c].pid)
    /\ cmd' = Ended(c, IF vms[cmd[c].pid].state = "refused" THEN "failed" ELSE "ok")
    /\ UNCHANGED <<vms, files, history>>

-----------------------------------------------------------------------------
StartDown(c) ==
    /\ MayStart(c, "down")
    /\ cmd' = [cmd EXCEPT ![c] = New("down", "find", "qemu", "qemu", Lease)]
    /\ due' = [due EXCEPT ![c] = {p \in Pids : \E b \in Backends : pidFile[b] = p}]
    /\ UNCHANGED <<vms, files, lost, marred>>

(* `stop` reads the PID file without asking whether there is one, and does *)
(* as `down` does with it.                                                 *)
StartStop(c) ==
    /\ MayStart(c, "stop")
    /\ cmd' = [cmd EXCEPT ![c] = New("stop", "read", "qemu", "start", Lease)]
    /\ UNCHANGED <<vms, files, history>>

(* The two PID files in turn: exists(), then read and SIGTERM, then up to  *)
(* 20 probes, then remove.                                                 *)
FindPid(c) ==
    /\ pidFile[cmd[c].file] # NoPid
    /\ Step(c, {"down"}, "find", "read", cmd[c].pid)
    /\ UNCHANGED <<vms, files, history>>

(* Mutant: once a VM is stopped the other PID file is not looked at.       *)
NextFileUntilOne(c, stopped) ==
    IF cmd[c].file = "vfkit" /\ ~stopped
    THEN Ended(c, "failed")
    ELSE [cmd EXCEPT ![c].pc = IF stopped THEN "clean" ELSE "find",
                     ![c].file = "vfkit",
                     ![c].pid = NoPid, ![c].stopped = stopped]

NextFile(c, stopped) ==
    IF cmd[c].file = "vfkit" /\ ~stopped
    THEN Ended(c, "failed")    \* "no VM running"
    ELSE [cmd EXCEPT ![c].pc = IF cmd[c].file = "qemu" THEN "find" ELSE "clean",
                     ![c].file = "vfkit",
                     ![c].pid = NoPid, ![c].stopped = stopped]

FindNoPid(c) ==
    /\ cmd[c].kind = "down" /\ cmd[c].pc = "find"
    /\ pidFile[cmd[c].file] = NoPid
    /\ cmd' = NextFile(c, cmd[c].stopped)
    /\ UNCHANGED <<vms, files, history>>

(* Mutant: the process is probed, not signalled.                           *)
ReadPidOnly(c) ==
    LET p == pidFile[cmd[c].file] IN
    /\ cmd[c].kind \in {"down", "stop"} /\ cmd[c].pc = "read"
    /\ cmd' = IF p = NoPid THEN Ended(c, "failed")
              ELSE [cmd EXCEPT ![c].pc = "poll", ![c].pid = p]
    /\ UNCHANGED <<vms, files, history>>

ReadPid(c) ==
    LET p == pidFile[cmd[c].file] IN
    /\ cmd[c].kind \in {"down", "stop"} /\ cmd[c].pc = "read"
    /\ IF p = NoPid
       THEN cmd' = Ended(c, "failed") /\ UNCHANGED vms
       ELSE /\ cmd' = [cmd EXCEPT ![c].pc = "poll", ![c].pid = p]
            /\ vms' = IF vms[p].state = "up"
                      THEN [vms EXCEPT ![p].state = "term"] ELSE vms
    /\ UNCHANGED <<files, history>>

Gone(c) ==
    /\ Step(c, {"down", "stop"}, "poll", "unlink", cmd[c].pid)
    /\ ~Alive(cmd[c].pid)
    /\ UNCHANGED <<vms, files, history>>

(* After the last probe the PID file goes although the VM has not.         *)
PollExpires(c) ==
    /\ Step(c, {"down", "stop"}, "poll", "unlink", cmd[c].pid)
    /\ Alive(cmd[c].pid)
    /\ lost' = lost \cup {cmd[c].pid}
    /\ UNCHANGED <<vms, files, marred, due>>

(* The PID file is removed, whichever pid it has by now; that the removal  *)
(* fails is not noticed.                                                   *)
Unlink(c) ==
    LET f == cmd[c].file IN
    /\ cmd[c].kind \in {"down", "stop"} /\ cmd[c].pc = "unlink"
    /\ pidFile' = [pidFile EXCEPT ![f] = NoPid] \/ UNCHANGED pidFile
    /\ cmd' = IF cmd[c].kind = "stop" THEN Ended(c, "ok") ELSE NextFile(c, TRUE)
    /\ Forget({pidFile[f]} \ {cmd[c].pid})
    /\ UNCHANGED <<vms, vmState, lost, marred>>

(* Mutant: vm-state.json stays.                                            *)
CleanUpKeepsState(c) ==
    /\ cmd[c].kind = "down" /\ cmd[c].pc = "clean"
    /\ cmd' = Ended(c, "ok")
    /\ marred' = FALSE
    /\ UNCHANGED <<vms, files, lost, due>>

(* Here too a removal that fails is not noticed.                           *)
CleanUp(c) ==
    /\ cmd[c].kind = "down" /\ cmd[c].pc = "clean"
    /\ \/ vmState' = NoState /\ marred' = FALSE
       \/ UNCHANGED vmState /\ marred' = TRUE
    /\ cmd' = Ended(c, "ok")
    /\ UNCHANGED <<vms, pidFile, lost, due>>

-----------------------------------------------------------------------------
(* Mutant: vm-state.json is not read.                                      *)
StartSshUnread(c) ==
    /\ MayStart(c, "ssh")
    /\ cmd' = [cmd EXCEPT ![c] = New("ssh", "connect", "qemu", "qemu", DefaultPort)]
    /\ UNCHANGED <<vms, files, history>>

(* `ssh` without --host: vm-state.json, or 127.0.0.1 and the default port  *)
(* (a user without a state file has to name a key).                        *)
StartSsh(c) ==
    /\ MayStart(c, "ssh")
    /\ cmd' = [cmd EXCEPT ![c] = New("ssh", "connect", "qemu", "qemu",
                   IF vmState = NoState THEN DefaultPort ELSE vmState.endpoint)]
    /\ UNCHANGED <<vms, files, history>>

(* The remote command runs on whichever guest answers, once --wait is over.*)
Connect(c, p) ==
    /\ cmd[c].kind = "ssh" /\ cmd[c].pc = "connect"
    /\ Alive(p) /\ vms[p].endpoint = cmd[c].endpoint
    /\ cmd' = [cmd EXCEPT ![c].pc = Idle, ![c].pid = p, ![c].result = "ok"]
    /\ UNCHANGED <<vms, files, history>>

SshFails(c) ==
    /\ cmd[c].kind = "ssh" /\ cmd[c].pc = "connect"
    /\ cmd' = Ended(c, "failed")
    /\ UNCHANGED <<vms, files, history>>

-----------------------------------------------------------------------------
(* A command is killed: a VM of which no PID file tells yet is on its own. *)
Kill(c) ==
    LET p == cmd[c].pid IN
    /\ Running(c)
    /\ cmd' = Ended(c, "killed")
    /\ lost' = IF cmd[c].kind \in Launchers
               THEN lost \cup {q \in Pids \cap {p} : Alive(q) /\ ~Filed(q)} ELSE lost
    /\ marred' = TRUE
    /\ UNCHANGED <<vms, files, due>>

(* SIGTERM takes effect; or the guest powers itself off.                   *)
VmExits(p) ==
    /\ Alive(p)
    /\ vms' = [vms EXCEPT ![p] = Exited("dead")]
    /\ UNCHANGED <<files, cmd, history>>

LaunchStep(c) ==
    \/ \E p \in Pids, refused \in BOOLEAN : LaunchQemu(c, p, refused)
    \/ (\E p \in Pids : LaunchVfkit(c, p)) \/ LaunchFails(c)
    \/ Ready(c) \/ WritePid(c) \/ WriteState(c) \/ UpFails(c)
    \/ Probe(c) \/ StartFails(c) \/ Shutdown(c) \/ ConsoleCloses(c)

SshStep(c) == (\E p \in Pids : Connect(c, p)) \/ SshFails(c)

DownStep(c) ==
    \/ FindPid(c) \/ FindNoPid(c) \/ ReadPid(c) \/ Gone(c) \/ PollExpires(c)
    \/ Unlink(c) \/ CleanUp(c)

Next ==
    \/ \E c \in Cmds :
          \/ \E b \in Backends, e \in Endpoints : StartUp(c, b, e)
          \/ \E e \in Ports : StartBoot(c, e) \/ StartStart(c, e)
          \/ StartDown(c) \/ StartStop(c) \/ StartSsh(c)
          \/ LaunchStep(c) \/ CtrlC(c)
          \/ DownStep(c)
          \/ SshStep(c)
          \/ Kill(c)
    \/ \E p \in Pids : VmExits(p)

Spec == Init /\ [][Next]_vars

(* Commands go on by themselves, and a VM told to terminate does so some   *)
(* time; nothing makes a user start a command or a guest power off.        *)
FairSpec ==
    /\ Spec
    /\ \A c \in Cmds : WF_vars(LaunchStep(c)) /\ WF_vars(DownStep(c)) /\ WF_vars(SshStep(c))
    /\ \A p \in Pids : WF_vars(vms[p].state = "term" /\ VmExits(p))

-----------------------------------------------------------------------------
Owned(p) ==
    \E c \in Cmds : cmd[c].kind \in Launchers /\ Running(c) /\ cmd[c].pid = p

(* A VM that runs can be found by a later `down` or `stop`: it is named in *)
(* a PID file, or its command still holds it, or a command was killed over *)
(* it, gave it up after five seconds, or could not write its PID file.     *)
NoVmLeaks ==
    \A p \in Pids : vms[p].state = "up" => Filed(p) \/ Owned(p) \/ p \in lost

(* Between commands, none of which was killed, vm-state.json names a VM    *)
(* that `down` would stop: the PID file of its backend exists, and its VM  *)
(* has that endpoint; unless vm-state.json is one that could not be        *)
(* removed.                                                                *)
StateHasPid ==
    Quiet /\ vmState # NoState /\ ~marred =>
        LET p == pidFile[vmState.backend] IN
        /\ p # NoPid
        /\ Alive(p) => vms[p].endpoint = vmState.endpoint

(* An `up` or `start` that reports its VM to be up has started that VM     *)
(* (qemu.rs:304 "Check that QEMU is still running").                       *)
ReportedVmStarted ==
    \A c \in Cmds : cmd[c].kind \in {"up", "start"} /\ cmd[c].result = "ok"
                       => vms[cmd[c].pid].state # "refused"

(* `ssh` without arguments runs on the VM that `up` handed over while that *)
(* lives, whatever `start` and `boot` run beside it; unless a command was  *)
(* killed, a removal of vm-state.json failed, or a VM is about that was    *)
(* given up.                                                               *)
SshReachesUpsVm ==
    [][\A c \in Cmds :
          LET p == pidFile[vmState.backend] IN
          cmd[c].kind = "ssh" /\ Running(c) /\ cmd'[c].result = "ok"
          /\ vmState # NoState /\ ~marred /\ (\A q \in lost : ~Alive(q)) /\ Alive(p)
             => cmd'[c].pid = p]_vars

(* A `down` that reports success has told every VM to terminate that the   *)
(* PID files named when it began: although another `down` may take a PID   *)
(* file from it at any step, or be killed with a part of the work done, a  *)
(* removal may fail, and `up` may write meanwhile.  It does not answer for *)
(* the VM of a PID file that was rewritten.                                *)
DownStopsNamed ==
    [][\A c \in Cmds :
          cmd[c].kind = "down" /\ Running(c) /\ cmd'[c].result = "ok"
             => \A p \in due[c] : vms[p].state # "up"]_vars

(* Every command ends: `down` waits for no VM for ever, `up` for no guest. *)
(* Those that hold a console, or a VM until Ctrl-C, need their user.       *)
CommandsEnd ==
    \A c \in Cmds : Running(c) ~> ~Running(c) \/ cmd[c].pc \in {"keep", "console"}

(* The VM whose PID `down` or `stop` has read terminates.                  *)
DownStopsVm ==
    \A p \in Pids :
        (\E c \in Cmds : cmd[c].kind \in {"down", "stop"}
                            /\ cmd[c].pc = "poll" /\ cmd[c].pid = p)
            ~> ~Alive(p)

=============================================================================
