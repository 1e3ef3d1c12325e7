-------------------------- MODULE VmLifecycleProofs --------------------------
(***************************************************************************)
(* Theorems of VmLifecycle: its type correctness, that a `down` which      *)
(* reports success has stopped what the PID files named, and that no VM is *)
(* lost by commands that run one after another, for any pids, ports and    *)
(* commands.                                                               *)
(***************************************************************************)
EXTENDS VmLifecycle, TLAPS

(* The actions of Next, as the proofs split them.                          *)
LEMMA Actions ==
    ASSUME Next
    PROVE  \/ \E c \in Cmds : \/ \E b \in Backends, e \in Endpoints : StartUp(c, b, e)
                              \/ \E e \in Ports : StartBoot(c, e) \/ StartStart(c, e)
           \/ \E c \in Cmds : StartDown(c) \/ StartStop(c) \/ StartSsh(c)
           \/ \E c \in Cmds, p \in Pids, refused \in BOOLEAN : LaunchQemu(c, p, refused)
           \/ \E c \in Cmds, p \in Pids : LaunchVfkit(c, p)
           \/ \E c \in Cmds : Ready(c) \/ CtrlC(c) \/ FindPid(c) \/ Gone(c)
           \/ \E c \in Cmds : LaunchFails(c) \/ ConsoleCloses(c) \/ SshFails(c) \/ Probe(c)
           \/ \E c \in Cmds : WritePid(c)
           \/ \E c \in Cmds : WriteState(c)
           \/ \E c \in Cmds : UpFails(c) \/ Shutdown(c)
           \/ \E c \in Cmds : StartFails(c)
           \/ \E c \in Cmds : FindNoPid(c)
           \/ \E c \in Cmds : ReadPid(c)
           \/ \E c \in Cmds : PollExpires(c)
           \/ \E c \in Cmds : Unlink(c)
           \/ \E c \in Cmds : CleanUp(c)
           \/ \E c \in Cmds, p \in Pids : Connect(c, p)
           \/ \E c \in Cmds : Kill(c)
           \/ \E p \in Pids : VmExits(p)
BY DEF Next, LaunchStep, SshStep, DownStep

Pcs == {Idle, "launch", "ready", "pid", "state", "probe", "keep", "shutdown",
        "console", "find", "read", "poll", "unlink", "clean", "connect"}

LEMMA NewType ==
    ASSUME NEW kind \in {"up", "down", "boot", "start", "stop", "ssh"}, NEW pc \in Pcs,
           NEW b \in Backends, NEW f \in PidFiles, NEW e \in Endpoints
    PROVE  New(kind, pc, b, f, e) \in Commands
BY DEF New, Commands, Pcs

LEMMA EndedType ==
    ASSUME TypeOK, NEW c \in Cmds, NEW result \in {"none", "ok", "failed", "killed"}
    PROVE  Ended(c, result) \in [Cmds -> Commands]
<1>1. New(cmd[c].kind, Idle, "qemu", "qemu", Lease) \in Commands
  <2>1. cmd[c].kind \in {"up", "down", "boot", "start", "stop", "ssh"}
    BY DEF TypeOK, Commands
  <2> QED
    BY <2>1, NewType DEF Pcs, Backends, PidFiles, Endpoints
<1>2. [New(cmd[c].kind, Idle, "qemu", "qemu", Lease) EXCEPT !.result = result] \in Commands
  BY <1>1 DEF Commands
<1> QED
  BY <1>2 DEF Ended, TypeOK

LEMMA EndedEffect ==
    ASSUME TypeOK, NEW c \in Cmds, NEW result, cmd' = Ended(c, result)
    PROVE  /\ cmd'[c].pc = Idle /\ cmd'[c].kind = cmd[c].kind /\ cmd'[c].pid = NoPid
           /\ cmd'[c].result = result /\ cmd'[c].file = "qemu" /\ cmd'[c].backend = "qemu"
           /\ \A d \in Cmds \ {c} : cmd'[d] = cmd[d]
BY DEF TypeOK, Ended, New

LEMMA MoveType ==
    ASSUME cmd \in [Cmds -> Commands], NEW c \in Cmds, NEW pc \in Pcs, NEW p \in Pids \cup {NoPid}
    PROVE  [cmd EXCEPT ![c].pc = pc, ![c].pid = p] \in [Cmds -> Commands]
<1>1. \A k \in Commands : [k EXCEPT !.pc = pc, !.pid = p] \in Commands
  BY DEF Commands, Pcs
<1>2. [cmd[c] EXCEPT !.pc = pc, !.pid = p] \in Commands
  BY <1>1
<1> QED
  BY <1>2

LEMMA DoneType ==
    ASSUME NEW k \in Commands, NEW p \in Pids \cup {NoPid}
    PROVE  /\ [k EXCEPT !.pc = Idle, !.result = "ok"] \in Commands
           /\ [k EXCEPT !.pc = Idle, !.pid = p, !.result = "ok"] \in Commands
BY DEF Commands

LEMMA ExitedType ==
    ASSUME NEW state \in {"none", "up", "term", "dead", "refused"}
    PROVE  Exited(state) \in VMs
BY DEF Exited, VMs, Backends, Endpoints

LEMMA FieldsType ==
    ASSUME NEW k \in Commands, NEW pc \in {"find", "clean"}, NEW stopped \in BOOLEAN
    PROVE  [k EXCEPT !.pc = pc, !.file = "vfkit", !.pid = NoPid, !.stopped = stopped] \in Commands
BY DEF Commands, PidFiles, Backends

LEMMA NextFileType ==
    ASSUME TypeOK, NEW c \in Cmds, NEW stopped \in BOOLEAN
    PROVE  NextFile(c, stopped) \in [Cmds -> Commands]
<1>1. \A pc \in {"find", "clean"} :
         [cmd[c] EXCEPT !.pc = pc, !.file = "vfkit", !.pid = NoPid, !.stopped = stopped] \in Commands
  BY FieldsType DEF TypeOK
<1>2. CASE cmd[c].file = "vfkit" /\ ~stopped
  BY <1>2, EndedType DEF NextFile
<1>3. CASE ~(cmd[c].file = "vfkit" /\ ~stopped)
  BY <1>1, <1>3 DEF NextFile, TypeOK
<1> QED
  BY <1>2, <1>3

LEMMA NextFileEffect ==
    ASSUME TypeOK, NEW c \in Cmds, NEW stopped, cmd' = NextFile(c, stopped)
    PROVE  /\ cmd'[c].pc \in {Idle, "find", "clean"} /\ cmd'[c].kind = cmd[c].kind
           /\ \A d \in Cmds \ {c} : cmd'[d] = cmd[d]
<1>1. CASE cmd[c].file = "vfkit" /\ ~stopped
  BY <1>1, EndedEffect DEF NextFile
<1>2. CASE ~(cmd[c].file = "vfkit" /\ ~stopped)
  <2>1. cmd' = [cmd EXCEPT ![c].pc = IF cmd[c].file = "qemu" THEN "find" ELSE "clean",
                           ![c].file = "vfkit",
                           ![c].pid = NoPid, ![c].stopped = stopped]
    BY <1>2 DEF NextFile
  <2> QED
    BY <2>1 DEF TypeOK, Commands
<1> QED
  BY <1>1, <1>2

LEMMA UnlinkEffect ==
    ASSUME TypeOK, NEW c \in Cmds, Unlink(c)
    PROVE  /\ cmd'[c].pc \in {Idle, "find", "clean"} /\ cmd'[c].kind = cmd[c].kind
           /\ \A d \in Cmds \ {c} : cmd'[d] = cmd[d]
<1>1. CASE cmd[c].kind = "stop"
  <2>1. cmd' = Ended(c, "ok")
    BY <1>1 DEF Unlink
  <2> QED
    BY <2>1, EndedEffect
<1>2. CASE ~(cmd[c].kind = "stop")
  <2>1. cmd' = NextFile(c, TRUE)
    BY <1>2 DEF Unlink
  <2> QED
    BY <2>1, NextFileEffect
<1> QED
  BY <1>1, <1>2

(* TypeOK alone is not inductive: what is waited for, or written to a PID  *)
(* file, is a process.                                                     *)
HoldsPid ==
    \A c \in Cmds :
        cmd[c].pc \in {"ready", "pid", "state", "probe", "keep", "shutdown", "console", "poll", "unlink"}
            => cmd[c].pid \in Pids

LEMMA HoldsPidStep ==
    ASSUME TypeOK, HoldsPid, [Next]_vars
    PROVE  HoldsPid'
<1> USE DEF TypeOK, HoldsPid, Commands, Idle
<1>0. CASE UNCHANGED vars
  BY <1>0 DEF vars, files, history
<1>1. CASE \E c \in Cmds : \/ \E b \in Backends, e \in Endpoints : StartUp(c, b, e)
                           \/ \E e \in Ports : StartBoot(c, e) \/ StartStart(c, e)
  BY <1>1 DEF StartUp, StartBoot, StartStart, MayStart, New, files, history
<1>2. CASE \E c \in Cmds : StartDown(c) \/ StartStop(c) \/ StartSsh(c)
  BY <1>2 DEF StartDown, StartStop, StartSsh, MayStart, New, files, history
<1>3. CASE \E c \in Cmds, p \in Pids, refused \in BOOLEAN : LaunchQemu(c, p, refused)
  BY <1>3 DEF LaunchQemu, Step, files, history
<1>4. CASE \E c \in Cmds, p \in Pids : LaunchVfkit(c, p)
  BY <1>4 DEF LaunchVfkit, Step, files, history
<1>5. CASE \E c \in Cmds : Ready(c) \/ CtrlC(c) \/ FindPid(c) \/ Gone(c)
  BY <1>5 DEF Ready, CtrlC, FindPid, Gone, Step, files, history
<1>6. CASE \E c \in Cmds : LaunchFails(c) \/ ConsoleCloses(c) \/ SshFails(c) \/ Probe(c)
  BY <1>6, EndedEffect DEF LaunchFails, ConsoleCloses, SshFails, Probe, files, history
<1>7. CASE \E c \in Cmds : WritePid(c)
  <2>1. PICK c \in Cmds : \E to \in {"state", "probe"} :
           cmd' = [cmd EXCEPT ![c].pc = to, ![c].pid = cmd[c].pid] /\ cmd[c].pc = "pid"
    BY <1>7 DEF WritePid, Step
  <2> QED
    BY <2>1
<1>8. CASE \E c \in Cmds : WriteState(c)
  BY <1>8 DEF WriteState, files, history
<1>9. CASE \E c \in Cmds : UpFails(c) \/ Shutdown(c)
  BY <1>9, EndedEffect DEF UpFails, Shutdown, files, history
<1>10. CASE \E c \in Cmds : StartFails(c)
  BY <1>10, EndedEffect DEF StartFails, files, history
<1>11. CASE \E c \in Cmds : FindNoPid(c)
  <2>1. PICK c \in Cmds : FindNoPid(c)
    BY <1>11
  <2>2. \A d \in Cmds \ {c} : cmd'[d] = cmd[d]
    BY <2>1, NextFileEffect DEF FindNoPid
  <2>3. cmd'[c].pc \in {Idle, "find", "clean"}
    BY <2>1, NextFileEffect DEF FindNoPid
  <2> QED
    BY <2>2, <2>3
<1>12. CASE \E c \in Cmds : ReadPid(c)
  <2>1. PICK c \in Cmds : ReadPid(c)
    BY <1>12
  <2>2. \A d \in Cmds \ {c} : cmd'[d] = cmd[d]
    BY <2>1, EndedEffect DEF ReadPid
  <2>3. CASE pidFile[cmd[c].file] = NoPid
    BY <2>1, <2>2, <2>3, EndedEffect DEF ReadPid
  <2>4. CASE ~(pidFile[cmd[c].file] = NoPid)
    <3>1. cmd'[c].pid = pidFile[cmd[c].file]
      BY <2>1, <2>4 DEF ReadPid
    <3>2. pidFile[cmd[c].file] \in Pids
      BY <2>4
    <3> QED
      BY <2>2, <3>1, <3>2
  <2> QED
    BY <2>3, <2>4
<1>13. CASE \E c \in Cmds : PollExpires(c)
  BY <1>13 DEF PollExpires, Step, files, history
<1>14. CASE \E c \in Cmds : Unlink(c)
  BY <1>14, UnlinkEffect DEF Unlink, files, history
<1>15. CASE \E c \in Cmds : CleanUp(c)
  BY <1>15, EndedEffect DEF CleanUp, files, history
<1>16. CASE \E c \in Cmds, p \in Pids : Connect(c, p)
  BY <1>16 DEF Connect, files, history
<1>17. CASE \E c \in Cmds : Kill(c)
  BY <1>17, EndedEffect DEF Kill, files, history
<1>18. CASE \E p \in Pids : VmExits(p)
  BY <1>18 DEF VmExits, files, history
<1> QED
  BY <1>0, <1>1, <1>2, <1>3, <1>4, <1>5, <1>6, <1>7, <1>8, <1>9,
     <1>10, <1>11, <1>12, <1>13, <1>14, <1>15, <1>16, <1>17, <1>18, Actions

LEMMA DueTypeStep ==
    ASSUME TypeOK, [Next]_vars
    PROVE  due' \in [Cmds -> SUBSET Pids]
<1> USE DEF TypeOK
<1>1. CASE \E c \in Cmds : StartDown(c)
  BY <1>1 DEF StartDown
<1>2. CASE \/ \E c \in Cmds, p \in Pids : LaunchVfkit(c, p) \/ \E refused \in BOOLEAN : LaunchQemu(c, p, refused)
           \/ \E c \in Cmds : WritePid(c) \/ Unlink(c)
  <2>1. \E ps : Forget(ps)
    BY <1>2, Zenon DEF LaunchVfkit, LaunchQemu, WritePid, Unlink
  <2> QED
    BY <2>1 DEF Forget
<1>3. CASE due' = due
  BY <1>3
<1>4. CASE UNCHANGED vars
  BY <1>4 DEF vars, history
<1>5. CASE \E c \in Cmds : \/ \E b \in Backends, e \in Endpoints : StartUp(c, b, e)
                           \/ \E e \in Ports : StartBoot(c, e) \/ StartStart(c, e)
                           \/ StartStop(c) \/ StartSsh(c)
  BY <1>3, <1>5 DEF StartUp, StartBoot, StartStart, StartStop, StartSsh, history
<1>6. CASE \E c \in Cmds : \/ Ready(c) \/ CtrlC(c) \/ FindPid(c) \/ Gone(c) \/ PollExpires(c)
                           \/ LaunchFails(c) \/ ConsoleCloses(c) \/ SshFails(c) \/ Probe(c)
  BY <1>3, <1>6 DEF Ready, CtrlC, FindPid, Gone, PollExpires, LaunchFails, ConsoleCloses, SshFails, Probe, history
<1>7. CASE \E c \in Cmds : \/ WriteState(c) \/ UpFails(c) \/ Shutdown(c) \/ StartFails(c)
                           \/ FindNoPid(c) \/ ReadPid(c) \/ CleanUp(c) \/ Kill(c)
  BY <1>3, <1>7 DEF WriteState, UpFails, Shutdown, StartFails, FindNoPid, ReadPid, CleanUp, Kill, history
<1>8. CASE \/ \E c \in Cmds, p \in Pids : Connect(c, p)
           \/ \E p \in Pids : VmExits(p)
  BY <1>3, <1>8 DEF Connect, VmExits, history
<1> QED
  BY <1>1, <1>2, <1>4, <1>5, <1>6, <1>7, <1>8, Actions

(* Every step keeps the state well-typed.                                  *)
LEMMA TypeStep ==
    ASSUME TypeOK, HoldsPid, [Next]_vars
    PROVE  TypeOK'
<1> due' \in [Cmds -> SUBSET Pids]
  BY DueTypeStep
<1> USE DEF TypeOK
<1>0. CASE UNCHANGED vars
  BY <1>0 DEF vars, files, history
<1>1. CASE \E c \in Cmds : \/ \E b \in Backends, e \in Endpoints : StartUp(c, b, e)
                           \/ \E e \in Ports : StartBoot(c, e) \/ StartStart(c, e)
  <2>1. PICK c \in Cmds : \/ \E b \in Backends, e \in Endpoints : StartUp(c, b, e)
                          \/ \E e \in Ports : StartBoot(c, e) \/ StartStart(c, e)
    BY <1>1
  <2>2. \E kind \in {"up", "boot", "start"}, b \in Backends, f \in PidFiles, e \in Endpoints :
            cmd' = [cmd EXCEPT ![c] = New(kind, "launch", b, f, e)]
    BY <2>1 DEF StartUp, StartBoot, StartStart, Backends, PidFiles, Endpoints
  <2>3. cmd' \in [Cmds -> Commands]
    BY <2>2, NewType DEF Pcs
  <2> QED
    BY <2>1, <2>3 DEF StartUp, StartBoot, StartStart, files, history
<1>2. CASE \E c \in Cmds : StartDown(c) \/ StartStop(c) \/ StartSsh(c)
  <2>1. PICK c \in Cmds : StartDown(c) \/ StartStop(c) \/ StartSsh(c)
    BY <1>2
  <2>2. vmState.endpoint \in Endpoints
    BY DEF States, NoState, Endpoints
  <2>3. \E kind \in {"down", "stop", "ssh"}, pc \in Pcs, b \in Backends, f \in PidFiles, e \in Endpoints :
            cmd' = [cmd EXCEPT ![c] = New(kind, pc, b, f, e)]
    BY <2>1, <2>2, ConstantsAssumption
       DEF StartDown, StartStop, StartSsh, Backends, PidFiles, Endpoints, Pcs
  <2>4. cmd' \in [Cmds -> Commands]
    BY <2>3, NewType
  <2> QED
    BY <2>1, <2>4 DEF StartDown, StartStop, StartSsh, files, history
<1>3. CASE \E c \in Cmds, p \in Pids, refused \in BOOLEAN : LaunchQemu(c, p, refused)
  <2>1. PICK c \in Cmds, p \in Pids, refused \in BOOLEAN : LaunchQemu(c, p, refused)
    BY <1>3
  <2>2. cmd' \in [Cmds -> Commands]
    <3>1. PICK pc \in {"ready", "pid", "console"} : cmd' = [cmd EXCEPT ![c].pc = pc, ![c].pid = p]
      BY <2>1 DEF LaunchQemu, Step
    <3>2. pc \in Pcs
      BY DEF Pcs
    <3> QED
      BY <3>1, <3>2, MoveType
  <2>3. Started(c) \in VMs
    BY DEF Started, VMs, Commands
  <2> QED
    BY <2>1, <2>2, <2>3, ExitedType DEF LaunchQemu, PidFiles, Backends, files, history
<1>4. CASE \E c \in Cmds, p \in Pids : LaunchVfkit(c, p)
  <2>1. PICK c \in Cmds, p \in Pids : LaunchVfkit(c, p)
    BY <1>4
  <2>2. cmd' \in [Cmds -> Commands]
    <3>1. PICK pc \in {"ready"} : cmd' = [cmd EXCEPT ![c].pc = pc, ![c].pid = p]
      BY <2>1 DEF LaunchVfkit, Step
    <3>2. pc \in Pcs
      BY DEF Pcs
    <3> QED
      BY <3>1, <3>2, MoveType
  <2>3. Started(c) \in VMs
    BY DEF Started, VMs, Commands
  <2> QED
    BY <2>1, <2>2, <2>3, ExitedType DEF LaunchVfkit, PidFiles, Backends, files, history
<1>5. CASE \E c \in Cmds : Ready(c) \/ CtrlC(c) \/ FindPid(c) \/ Gone(c)
  <2>1. PICK c \in Cmds : Ready(c) \/ CtrlC(c) \/ FindPid(c) \/ Gone(c)
    BY <1>5
  <2>2. cmd[c].pid \in Pids \cup {NoPid}
    BY DEF Commands
  <2>3. cmd' \in [Cmds -> Commands]
    <3>1. PICK pc \in {"pid", "keep", "shutdown", "read", "unlink"} : cmd' = [cmd EXCEPT ![c].pc = pc, ![c].pid = cmd[c].pid]
      BY <2>1 DEF Ready, CtrlC, FindPid, Gone, Step
    <3>2. pc \in Pcs
      BY DEF Pcs
    <3> QED
      BY <2>2, <3>1, <3>2, MoveType
  <2> QED
    BY <2>1, <2>3 DEF Ready, CtrlC, FindPid, Gone, files, history
<1>6. CASE \E c \in Cmds : LaunchFails(c) \/ ConsoleCloses(c) \/ SshFails(c) \/ Probe(c)
  <2>1. PICK c \in Cmds : LaunchFails(c) \/ ConsoleCloses(c) \/ SshFails(c) \/ Probe(c)
    BY <1>6
  <2>2. [cmd[c] EXCEPT !.pc = Idle, !.result = "ok"] \in Commands
    BY DoneType
  <2>3. cmd' \in [Cmds -> Commands]
    BY <2>1, <2>2, EndedType DEF LaunchFails, ConsoleCloses, SshFails, Probe
  <2> QED
    BY <2>1, <2>3 DEF LaunchFails, ConsoleCloses, SshFails, Probe, files, history
<1>7. CASE \E c \in Cmds : WritePid(c)
  <2>1. PICK c \in Cmds : WritePid(c)
    BY <1>7
  <2>2. cmd[c].pid \in Pids \cup {NoPid} /\ cmd[c].file \in PidFiles
    BY DEF Commands
  <2>3. cmd' \in [Cmds -> Commands]
    <3>1. PICK pc \in {"state", "probe"} : cmd' = [cmd EXCEPT ![c].pc = pc, ![c].pid = cmd[c].pid]
      BY <2>1 DEF WritePid, Step
    <3>2. pc \in Pcs
      BY DEF Pcs
    <3> QED
      BY <2>2, <3>1, <3>2, MoveType
  <2> QED
    BY <2>1, <2>2, <2>3 DEF WritePid, history
<1>8. CASE \E c \in Cmds : WriteState(c)
  <2>1. PICK c \in Cmds : WriteState(c)
    BY <1>8
  <2>2. [cmd[c] EXCEPT !.pc = Idle, !.result = "ok"] \in Commands
    BY DoneType
  <2>3. [backend |-> cmd[c].backend, endpoint |-> cmd[c].endpoint] \in States
    BY DEF Commands, States
  <2>4. cmd' \in [Cmds -> Commands]
    BY <2>1, <2>2 DEF WriteState
  <2> QED
    BY <2>1, <2>3, <2>4 DEF WriteState, history
<1>9. CASE \E c \in Cmds : UpFails(c) \/ Shutdown(c)
  <2>1. PICK c \in Cmds : UpFails(c) \/ Shutdown(c)
    BY <1>9
  <2>2. cmd' \in [Cmds -> Commands]
    BY <2>1, EndedType DEF UpFails, Shutdown
  <2>3. vms' \in [Pids -> VMs]
    BY <2>1, ExitedType DEF UpFails, Shutdown
  <2> QED
    BY <2>1, <2>2, <2>3 DEF UpFails, Shutdown, files, history
<1>10. CASE \E c \in Cmds : StartFails(c)
  <2>1. PICK c \in Cmds : StartFails(c)
    BY <1>10
  <2>2. cmd[c].pid \in Pids
    BY <2>1 DEF HoldsPid, StartFails
  <2>3. cmd' \in [Cmds -> Commands]
    BY <2>1, EndedType DEF StartFails
  <2> QED
    BY <2>1, <2>2, <2>3 DEF StartFails, files
<1>11. CASE \E c \in Cmds : FindNoPid(c)
  <2>1. PICK c \in Cmds : FindNoPid(c)
    BY <1>11
  <2>2. cmd' \in [Cmds -> Commands]
    BY <2>1, NextFileType DEF FindNoPid, Commands
  <2> QED
    BY <2>1, <2>2 DEF FindNoPid, files, history
<1>12. CASE \E c \in Cmds : ReadPid(c)
  <2>1. PICK c \in Cmds : ReadPid(c)
    BY <1>12
  <2> DEFINE p == pidFile[cmd[c].file]
  <2>2. p \in Pids \cup {NoPid}
    BY DEF Commands
  <2>3. CASE p = NoPid
    BY <2>1, <2>3, EndedType, SMTT(20) DEF ReadPid, files, history
  <2>4. CASE p \in Pids
    <3>1. cmd' = [cmd EXCEPT ![c].pc = "poll", ![c].pid = p]
      BY <2>1, <2>4, ConstantsAssumption DEF ReadPid
    <3>2. cmd' \in [Cmds -> Commands]
      BY <2>2, <3>1, MoveType DEF Pcs
    <3>3. [vms[p] EXCEPT !.state = "term"] \in VMs
      BY <2>2, <2>4 DEF VMs
    <3>4. vms' \in [Pids -> VMs]
      BY <2>1, <2>4, <3>3, ConstantsAssumption DEF ReadPid
    <3> QED
      BY <2>1, <3>2, <3>4 DEF ReadPid, files, history
  <2> QED
    BY <2>2, <2>3, <2>4
<1>13. CASE \E c \in Cmds : PollExpires(c)
  <2>1. PICK c \in Cmds : PollExpires(c)
    BY <1>13
  <2>2. cmd[c].pid \in Pids
    BY <2>1 DEF HoldsPid, PollExpires, Step
  <2>3. cmd' \in [Cmds -> Commands]
    <3>1. PICK pc \in {"unlink"} : cmd' = [cmd EXCEPT ![c].pc = pc, ![c].pid = cmd[c].pid]
      BY <2>1 DEF PollExpires, Step
    <3>2. pc \in Pcs
      BY DEF Pcs
    <3> QED
      BY <2>2, <3>1, <3>2, MoveType
  <2> QED
    BY <2>1, <2>2, <2>3 DEF PollExpires, files
<1>14. CASE \E c \in Cmds : Unlink(c)
  <2>1. PICK c \in Cmds : Unlink(c)
    BY <1>14
  <2>2. cmd' \in [Cmds -> Commands]
    BY <2>1, NextFileType, EndedType DEF Unlink
  <2> QED
    BY <2>1, <2>2 DEF Unlink, history
<1>15. CASE \E c \in Cmds : CleanUp(c)
  BY <1>15, EndedType DEF CleanUp, files
<1>16. CASE \E c \in Cmds, p \in Pids : Connect(c, p)
  <2>1. PICK c \in Cmds, p \in Pids : Connect(c, p)
    BY <1>16
  <2>2. [cmd[c] EXCEPT !.pc = Idle, !.pid = p, !.result = "ok"] \in Commands
    BY DoneType
  <2> QED
    BY <2>1, <2>2 DEF Connect, files, history
<1>17. CASE \E c \in Cmds : Kill(c)
  <2>1. PICK c \in Cmds : Kill(c)
    BY <1>17
  <2>2. cmd' \in [Cmds -> Commands]
    BY <2>1, EndedType DEF Kill
  <2> QED
    BY <2>1, <2>2 DEF Kill, files
<1>18. CASE \E p \in Pids : VmExits(p)
  BY <1>18, ExitedType DEF VmExits, files, history
<1> QED
  BY <1>0, <1>1, <1>2, <1>3, <1>4, <1>5, <1>6, <1>7, <1>8, <1>9,
     <1>10, <1>11, <1>12, <1>13, <1>14, <1>15, <1>16, <1>17, <1>18, Actions

(* Every reachable state is well typed, for any pids, ports and commands,  *)
(* overlapping or not.                                                     *)
THEOREM TypeCorrect == Spec => [](TypeOK /\ HoldsPid)
<1>1. Init => TypeOK /\ HoldsPid
  <2> SUFFICES ASSUME Init
               PROVE  TypeOK /\ HoldsPid
    OBVIOUS
  <2>1. New("down", Idle, "qemu", "qemu", Lease) \in Commands
    BY NewType DEF Pcs, Backends, PidFiles, Endpoints
  <2>2. cmd \in [Cmds -> Commands]
    BY <2>1 DEF Init
  <2>3. vms \in [Pids -> VMs]
    BY ExitedType DEF Init
  <2>4. HoldsPid
    BY DEF Init, HoldsPid, New, Idle
  <2> QED
    BY <2>2, <2>3, <2>4 DEF Init, TypeOK
<1>2. TypeOK /\ HoldsPid /\ [Next]_vars => (TypeOK /\ HoldsPid)'
  BY TypeStep, HoldsPidStep
<1> QED
  BY <1>1, <1>2, PTL DEF Spec

-----------------------------------------------------------------------------
(* A `down` takes the PID files in order, and cleans up after the last.    *)
DownOrder(c) ==
    cmd[c].kind = "down" /\ Running(c) =>
        /\ cmd[c].pc \in {"find", "read", "poll", "unlink", "clean"}
        /\ cmd[c].file \in Backends
        /\ cmd[c].pc = "clean" => cmd[c].file = "vfkit"
        /\ cmd[c].result = "none"

(* What it waits for, or forgets, has its SIGTERM.                         *)
Told(c) == cmd[c].pc \in {"poll", "unlink"} => vms[cmd[c].pid].state # "up"

(* A PID file c has still to come to names p.                              *)
ToCome(c, p) ==
    \/ pidFile["vfkit"] = p /\ cmd[c].pc # "clean"
    \/ pidFile["qemu"] = p /\ cmd[c].file = "qemu"

DueToCome(c) ==
    cmd[c].kind = "down" /\ Running(c) =>
        \A p \in due[c] : vms[p].state = "up" => ToCome(c, p)

DownsInv == \A c \in Cmds : DownOrder(c) /\ Told(c) /\ DueToCome(c)

LEMMA NextFileMoves ==
    ASSUME TypeOK, NEW c \in Cmds, NEW stopped, cmd' = NextFile(c, stopped)
    PROVE  \/ cmd'[c].pc = Idle /\ cmd[c].file = "vfkit"
           \/ /\ cmd'[c].file = "vfkit" /\ cmd'[c].result = cmd[c].result
              /\ cmd'[c].pc = IF cmd[c].file = "qemu" THEN "find" ELSE "clean"
<1>1. CASE cmd[c].file = "vfkit" /\ ~stopped
  BY <1>1, EndedEffect DEF NextFile
<1>2. CASE ~(cmd[c].file = "vfkit" /\ ~stopped)
  <2>1. cmd' = [cmd EXCEPT ![c].pc = IF cmd[c].file = "qemu" THEN "find" ELSE "clean",
                           ![c].file = "vfkit",
                           ![c].pid = NoPid, ![c].stopped = stopped]
    BY <1>2 DEF NextFile
  <2> QED
    BY <2>1 DEF TypeOK, Commands
<1> QED
  BY <1>1, <1>2

(* Steps that start no VM, rewrite no PID file and leave `down` alone.     *)
LEMMA DownsFrame ==
    ASSUME TypeOK, DownsInv, NEW d \in Cmds,
           \A p \in Pids : vms'[p].state = "up" => vms[p].state = "up",
           pidFile' = pidFile, due'[d] \subseteq due[d], cmd'[d] = cmd[d], HoldsPid
    PROVE  (DownOrder(d) /\ Told(d) /\ DueToCome(d))'
BY DEF TypeOK, DownsInv, DownOrder, Told, DueToCome, ToCome, Running, HoldsPid

LEMMA DownsStep ==
    ASSUME TypeOK, HoldsPid, DownsInv, [Next]_vars
    PROVE  DownsInv'
<1> due' \in [Cmds -> SUBSET Pids]
  BY DueTypeStep
<1> USE DEF TypeOK
<1>s. \A c \in Cmds : ~Running(c)' => DownOrder(c)' /\ Told(c)' /\ DueToCome(c)'
  BY DEF Running, DownOrder, Told, DueToCome, Idle
<1>0. CASE UNCHANGED vars
  BY <1>0, DownsFrame DEF vars, DownsInv
<1>1. CASE \E c \in Cmds : \/ \E b \in Backends, e \in Endpoints : StartUp(c, b, e)
                           \/ \E e \in Ports : StartBoot(c, e) \/ StartStart(c, e)
  <2>1. PICK c \in Cmds : \/ \E b \in Backends, e \in Endpoints : StartUp(c, b, e)
                          \/ \E e \in Ports : StartBoot(c, e) \/ StartStart(c, e)
    BY <1>1
  <2>2. /\ cmd'[c].pc = "launch" /\ cmd'[c].kind \in Launchers
        /\ \A d \in Cmds \ {c} : cmd'[d] = cmd[d]
    BY <2>1 DEF StartUp, StartBoot, StartStart, New, Launchers
  <2>3. vms' = vms /\ pidFile' = pidFile /\ due' = due
    BY <2>1 DEF StartUp, StartBoot, StartStart, files, history
  <2>4. DownOrder(c)' /\ Told(c)' /\ DueToCome(c)'
    BY <2>2 DEF DownOrder, Told, DueToCome, Launchers
  <2> QED
    BY <2>2, <2>3, <2>4, DownsFrame DEF DownsInv
<1>2. CASE \E c \in Cmds : StartDown(c) \/ StartStop(c) \/ StartSsh(c)
  <2>1. PICK c \in Cmds : StartDown(c) \/ StartStop(c) \/ StartSsh(c)
    BY <1>2
  <2>2. \A d \in Cmds \ {c} : cmd'[d] = cmd[d] /\ due'[d] = due[d]
    BY <2>1 DEF StartDown, StartStop, StartSsh, history
  <2>3. vms' = vms /\ pidFile' = pidFile
    BY <2>1 DEF StartDown, StartStop, StartSsh, files
  <2>4. CASE StartDown(c)
    <3>1. /\ cmd'[c].pc = "find" /\ cmd'[c].file = "qemu" /\ cmd'[c].result = "none"
          /\ due'[c] = {p \in Pids : \E b \in Backends : pidFile[b] = p}
      BY <2>4 DEF StartDown, New
    <3>2. DownOrder(c)' /\ Told(c)'
      BY <3>1 DEF DownOrder, Told, Backends
    <3>3. DueToCome(c)'
      BY <2>3, <3>1 DEF DueToCome, ToCome, Backends
    <3> QED
      BY <2>2, <2>3, <3>2, <3>3, DownsFrame DEF DownsInv
  <2>5. CASE StartStop(c) \/ StartSsh(c)
    <3>1. cmd'[c].pc \in {"read", "connect"} /\ cmd'[c].kind \in {"stop", "ssh"}
      BY <2>5 DEF StartStop, StartSsh, New
    <3>2. DownOrder(c)' /\ Told(c)' /\ DueToCome(c)'
      BY <3>1 DEF DownOrder, Told, DueToCome
    <3> QED
      BY <2>2, <2>3, <3>2, DownsFrame DEF DownsInv
  <2> QED
    BY <2>1, <2>4, <2>5
<1>3. CASE \E c \in Cmds, p \in Pids : LaunchVfkit(c, p) \/ \E refused \in BOOLEAN : LaunchQemu(c, p, refused)
  <2>1. PICK c \in Cmds, p \in Pids : LaunchVfkit(c, p) \/ \E refused \in BOOLEAN : LaunchQemu(c, p, refused)
    BY <1>3
  <2>2. /\ cmd'[c].pc \in {"ready", "pid", "console"} /\ cmd'[c].kind = cmd[c].kind
        /\ cmd[c].pc = "launch" /\ Forgotten(p)
        /\ \A d \in Cmds \ {c} : cmd'[d] = cmd[d]
    BY <2>1 DEF LaunchQemu, LaunchVfkit, Step, Commands
  <2>3. \A q \in Pids : q # p => vms'[q] = vms[q]
    BY <2>1 DEF LaunchQemu, LaunchVfkit
  <2>4. cmd[c].kind # "down"
    BY <2>2 DEF DownsInv, DownOrder, Running, Idle
  <2>5. ASSUME NEW d \in Cmds \ {c}
        PROVE  DownOrder(d)' /\ Told(d)' /\ DueToCome(d)'
    <3>1. DownOrder(d)'
      BY <2>2 DEF DownsInv, DownOrder, Running
    <3>2. Told(d)'
      <4>1. cmd[d].pid # p
        BY <2>2 DEF Forgotten
      <4> QED
        BY <2>2, <2>3, <4>1 DEF DownsInv, Told, HoldsPid
    <3>3. \A q \in due'[d] : q \in due[d] /\ q # p
      BY <2>1 DEF LaunchQemu, LaunchVfkit, Forget
    <3>4. \A q \in due'[d] : ToCome(d, q) => ToCome(d, q)'
      <4>1. CASE \E refused \in BOOLEAN : LaunchQemu(c, p, refused)
        BY <2>2, <4>1 DEF LaunchQemu, files, ToCome
      <4>2. CASE LaunchVfkit(c, p)
        <5>1. pidFile' = [pidFile EXCEPT !["vfkit"] = p] /\ \A q \in due'[d] : q # pidFile["vfkit"]
          BY <4>2 DEF LaunchVfkit, Forget
        <5> QED
          BY <2>2, <5>1 DEF ToCome, PidFiles, Backends
      <4> QED
        BY <2>1, <4>1, <4>2
    <3>5. DueToCome(d)'
      BY <2>2, <2>3, <3>3, <3>4 DEF DownsInv, DueToCome, Running
    <3> QED
      BY <3>1, <3>2, <3>5
  <2>6. DownOrder(c)' /\ Told(c)' /\ DueToCome(c)'
    BY <2>2, <2>4 DEF DownOrder, Told, DueToCome
  <2> QED
    BY <2>5, <2>6 DEF DownsInv
<1>4. CASE \E c \in Cmds : Ready(c) \/ CtrlC(c) \/ FindPid(c) \/ Gone(c) \/ PollExpires(c)
  <2>1. PICK c \in Cmds : Ready(c) \/ CtrlC(c) \/ FindPid(c) \/ Gone(c) \/ PollExpires(c)
    BY <1>4
  <2>2. /\ \A d \in Cmds \ {c} : cmd'[d] = cmd[d]
        /\ vms' = vms /\ pidFile' = pidFile /\ due' = due
    BY <2>1 DEF Ready, CtrlC, FindPid, Gone, PollExpires, Step, files, history
  <2>3. /\ cmd'[c].kind = cmd[c].kind /\ cmd'[c].file = cmd[c].file /\ cmd'[c].pid = cmd[c].pid
        /\ cmd'[c].result = cmd[c].result
        /\ cmd[c].kind = "down" => cmd'[c].pc \in {"read", "unlink"}
        /\ cmd'[c].pc \in {"poll", "unlink"} => cmd[c].pc = "poll"
        /\ cmd[c].pc \notin {Idle, "clean"}
    BY <2>1 DEF Ready, CtrlC, FindPid, Gone, PollExpires, Step, Commands, Idle
  <2>4. DownOrder(c)' /\ Told(c)'
    BY <2>2, <2>3 DEF DownsInv, DownOrder, Told, Running
  <2>5. DueToCome(c)'
    BY <2>2, <2>3 DEF DownsInv, DueToCome, ToCome, Running
  <2> QED
    BY <2>2, <2>4, <2>5, DownsFrame DEF DownsInv
<1>5. CASE \E c \in Cmds : \/ LaunchFails(c) \/ ConsoleCloses(c) \/ SshFails(c) \/ Probe(c) \/ WriteState(c)
                           \/ UpFails(c) \/ Shutdown(c) \/ StartFails(c) \/ CleanUp(c) \/ Kill(c)
                           \/ \E p \in Pids : Connect(c, p)
  <2>1. PICK c \in Cmds : \/ LaunchFails(c) \/ ConsoleCloses(c) \/ SshFails(c) \/ Probe(c) \/ WriteState(c)
                          \/ UpFails(c) \/ Shutdown(c) \/ StartFails(c) \/ CleanUp(c) \/ Kill(c)
                          \/ \E p \in Pids : Connect(c, p)
    BY <1>5
  <2>2. ~Running(c)' /\ \A d \in Cmds \ {c} : cmd'[d] = cmd[d]
    <3>1. CASE \/ LaunchFails(c) \/ ConsoleCloses(c) \/ SshFails(c) \/ UpFails(c)
               \/ Shutdown(c) \/ StartFails(c) \/ CleanUp(c) \/ Kill(c)
      <4>1. \E r \in {"ok", "failed", "killed"} : cmd' = Ended(c, r)
        BY <3>1 DEF LaunchFails, ConsoleCloses, SshFails, UpFails, Shutdown, StartFails, CleanUp, Kill
      <4> QED
        BY <4>1, EndedEffect DEF Running
    <3>2. CASE Probe(c) \/ WriteState(c) \/ \E p \in Pids : Connect(c, p)
      <4>1. \E p : cmd' = [cmd EXCEPT ![c].pc = Idle, ![c].pid = p, ![c].result = "ok"]
                  \/ cmd' = [cmd EXCEPT ![c].pc = Idle, ![c].result = "ok"]
        BY <3>2 DEF Probe, WriteState, Connect
      <4> QED
        BY <4>1 DEF Running, Commands
    <3> QED
      BY <2>1, <3>1, <3>2
  <2>3. pidFile' = pidFile /\ due' = due
    BY <2>1 DEF LaunchFails, ConsoleCloses, SshFails, Probe, WriteState, UpFails, Shutdown, StartFails,
                CleanUp, Kill, Connect, files, history
  <2>4. \A p \in Pids : vms'[p].state = "up" => vms[p].state = "up"
    <3>1. CASE UpFails(c) \/ Shutdown(c)
      BY <3>1 DEF UpFails, Shutdown, Exited
    <3>2. CASE ~(UpFails(c) \/ Shutdown(c))
      BY <2>1, <3>2 DEF LaunchFails, ConsoleCloses, SshFails, Probe, WriteState, StartFails, CleanUp, Kill, Connect
    <3> QED
      BY <3>1, <3>2
  <2> QED
    BY <1>s, <2>2, <2>3, <2>4, DownsFrame DEF DownsInv
<1>6. CASE \E c \in Cmds : WritePid(c)
  <2>1. PICK c \in Cmds : WritePid(c)
    BY <1>6
  <2>2. /\ \A d \in Cmds \ {c} : cmd'[d] = cmd[d]
        /\ cmd'[c].kind \in {"up", "start"} /\ cmd'[c].pc \in {"state", "probe"}
        /\ vms' = vms
    BY <2>1 DEF WritePid, Step, Commands
  <2>3. \A d \in Cmds : \A q \in due'[d] : q \in due[d] /\ q # pidFile[cmd[c].file]
    BY <2>1 DEF WritePid, Forget
  <2>4. \A f \in PidFiles : \A q \in Pids : pidFile[f] = q /\ q # pidFile[cmd[c].file] => pidFile'[f] = q
    BY <2>1 DEF WritePid
  <2>5. ASSUME NEW d \in Cmds \ {c}
        PROVE  DownOrder(d)' /\ Told(d)' /\ DueToCome(d)'
    <3>1. DownOrder(d)' /\ Told(d)'
      BY <2>2 DEF DownsInv, DownOrder, Told, Running
    <3>2. \A q \in due'[d] : ToCome(d, q) => ToCome(d, q)'
      BY <2>2, <2>3, <2>4 DEF ToCome, PidFiles, Backends
    <3> QED
      BY <2>2, <2>3, <3>1, <3>2 DEF DownsInv, DueToCome, Running
  <2>6. DownOrder(c)' /\ Told(c)' /\ DueToCome(c)'
    BY <2>2 DEF DownOrder, Told, DueToCome
  <2> QED
    BY <2>5, <2>6 DEF DownsInv
<1>7. CASE \E c \in Cmds : FindNoPid(c)
  <2>1. PICK c \in Cmds : FindNoPid(c)
    BY <1>7
  <2>2. /\ \A d \in Cmds \ {c} : cmd'[d] = cmd[d]
        /\ cmd'[c].kind = "down" /\ cmd[c].kind = "down" /\ Running(c)
        /\ vms' = vms /\ pidFile' = pidFile /\ due' = due
    BY <2>1, NextFileEffect DEF FindNoPid, files, history, Running, Idle
  <2>3. /\ DownOrder(c) /\ DueToCome(c) /\ pidFile[cmd[c].file] = NoPid
        /\ cmd[c].file \in Backends
    BY <2>1, <2>2 DEF FindNoPid, DownsInv, DownOrder
  <2>4. CASE cmd'[c].pc = Idle
    BY <1>s, <2>2, <2>4, DownsFrame DEF DownsInv, Running
  <2>5. CASE ~(cmd'[c].pc = Idle)
    <3>1. /\ cmd'[c].file = "vfkit" /\ cmd'[c].result = cmd[c].result
          /\ cmd'[c].pc = IF cmd[c].file = "qemu" THEN "find" ELSE "clean"
      BY <2>1, <2>5, NextFileMoves DEF FindNoPid
    <3>2. DownOrder(c)' /\ Told(c)'
      BY <2>2, <2>3, <3>1 DEF DownOrder, Told, Backends
    <3>3. DueToCome(c)'
      BY <2>2, <2>3, <3>1, ConstantsAssumption DEF DueToCome, ToCome, Backends
    <3> QED
      BY <2>2, <3>2, <3>3, DownsFrame DEF DownsInv
  <2> QED
    BY <2>4, <2>5
<1>8. CASE \E c \in Cmds : ReadPid(c)
  <2>1. PICK c \in Cmds : ReadPid(c)
    BY <1>8
  <2>2. /\ \A d \in Cmds \ {c} : cmd'[d] = cmd[d]
        /\ pidFile' = pidFile /\ due' = due
    BY <2>1, EndedEffect DEF ReadPid, files, history
  <2>3. CASE pidFile[cmd[c].file] = NoPid
    <3>1. vms' = vms /\ ~Running(c)'
      BY <2>1, <2>3, EndedEffect DEF ReadPid, Running
    <3> QED
      BY <1>s, <2>2, <3>1, DownsFrame DEF DownsInv
  <2>4. CASE ~(pidFile[cmd[c].file] = NoPid)
    <3> DEFINE p == pidFile[cmd[c].file]
    <3>1. p \in Pids
      BY <2>4 DEF Commands
    <3>2. /\ cmd'[c].pid = p /\ cmd'[c].file = cmd[c].file /\ cmd'[c].kind = cmd[c].kind
          /\ cmd'[c].pc = "poll" /\ cmd'[c].result = cmd[c].result
          /\ cmd[c].pc = "read"
      BY <2>1, <2>4 DEF ReadPid, Commands
    <3>3. vms' = IF vms[p].state = "up" THEN [vms EXCEPT ![p].state = "term"] ELSE vms
      BY <2>1, <2>4 DEF ReadPid
    <3>4. vms'[p].state # "up" /\ \A q \in Pids : vms'[q].state = "up" => vms[q].state = "up"
      BY <3>1, <3>3 DEF VMs
    <3>5. DownOrder(c)' /\ Told(c)'
      BY <3>2, <3>4 DEF DownsInv, DownOrder, Told, Running, Idle
    <3>6. DueToCome(c)'
      BY <2>2, <3>2, <3>4 DEF DownsInv, DueToCome, ToCome, Running, Idle
    <3> QED
      BY <2>2, <3>4, <3>5, <3>6, DownsFrame DEF DownsInv
  <2> QED
    BY <2>3, <2>4
<1>9. CASE \E c \in Cmds : Unlink(c)
  <2>1. PICK c \in Cmds : Unlink(c)
    BY <1>9
  <2>2. /\ \A d \in Cmds \ {c} : cmd'[d] = cmd[d]
        /\ cmd'[c].kind = cmd[c].kind /\ vms' = vms
        /\ cmd[c].pc = "unlink"
    BY <2>1, UnlinkEffect DEF Unlink
  <2>3. vms[cmd[c].pid].state # "up"
    BY <2>2 DEF DownsInv, Told
  <2>4. \A d \in Cmds : \A q \in due'[d] : q \in due[d] /\ (q # pidFile[cmd[c].file] \/ q = cmd[c].pid)
    BY <2>1 DEF Unlink, Forget
  <2>5. \A f \in PidFiles : f # cmd[c].file => pidFile'[f] = pidFile[f]
    BY <2>1 DEF Unlink
  <2>6. ASSUME NEW d \in Cmds, NEW q \in due'[d], vms[q].state = "up", ToCome(d, q)
        PROVE  \/ pidFile'["vfkit"] = q /\ cmd[d].pc # "clean" /\ cmd[c].file # "vfkit"
               \/ pidFile'["qemu"] = q /\ cmd[d].file = "qemu" /\ cmd[c].file # "qemu"
    <3>1. q # pidFile[cmd[c].file]
      BY <2>3, <2>4, <2>6
    <3> QED
      BY <2>5, <2>6, <3>1 DEF ToCome, PidFiles, Backends
  <2>7. ASSUME NEW d \in Cmds \ {c}
        PROVE  DownOrder(d)' /\ Told(d)' /\ DueToCome(d)'
    <3>1. DownOrder(d)' /\ Told(d)'
      BY <2>2 DEF DownsInv, DownOrder, Told, Running
    <3>2. DueToCome(d)'
      BY <2>2, <2>4, <2>6 DEF DownsInv, DueToCome, ToCome, Running
    <3> QED
      BY <3>1, <3>2
  <2>8. CASE cmd'[c].pc = Idle
    BY <1>s, <2>7, <2>8 DEF DownsInv, Running
  <2>9. CASE ~(cmd'[c].pc = Idle)
    <3>1. cmd' = NextFile(c, TRUE) /\ cmd[c].kind = "down"
      BY <2>1, <2>9, EndedEffect DEF Unlink
    <3>2. /\ cmd'[c].file = "vfkit" /\ cmd'[c].result = cmd[c].result
          /\ cmd'[c].pc = IF cmd[c].file = "qemu" THEN "find" ELSE "clean"
      BY <2>9, <3>1, NextFileMoves
    <3>3. DownOrder(c) /\ DueToCome(c) /\ Running(c) /\ cmd[c].file \in Backends
      BY <2>2, <3>1 DEF DownsInv, DownOrder, Running, Idle
    <3>4. DownOrder(c)' /\ Told(c)'
      BY <2>2, <3>1, <3>2, <3>3 DEF DownOrder, Told, Backends
    <3>5. DueToCome(c)'
      BY <2>2, <2>4, <2>6, <3>1, <3>2, <3>3 DEF DueToCome, ToCome, Backends
    <3> QED
      BY <2>7, <3>4, <3>5 DEF DownsInv
  <2> QED
    BY <2>8, <2>9
<1>10. CASE \E p \in Pids : VmExits(p)
  <2>1. /\ cmd' = cmd /\ pidFile' = pidFile /\ due' = due
        /\ \A q \in Pids : vms'[q].state = "up" => vms[q].state = "up"
    BY <1>10 DEF VmExits, files, history, Exited
  <2> QED
    BY <2>1, DownsFrame DEF DownsInv
<1> QED
  BY <1>0, <1>1, <1>2, <1>3, <1>4, <1>5, <1>6, <1>7, <1>8, <1>9, <1>10, Actions

(* The step of a `down` that reports success.                              *)
LEMMA DownEnds ==
    ASSUME TypeOK, DownsInv, [Next]_vars, NEW c \in Cmds,
           cmd[c].kind = "down", Running(c), cmd'[c].result = "ok"
    PROVE  CleanUp(c)
<1> USE DEF TypeOK
<1>1. cmd[c].result = "none" /\ cmd[c].pc \in {"find", "read", "poll", "unlink", "clean"}
  BY DEF DownsInv, DownOrder
<1>2. cmd' # cmd
  BY <1>1
<1>3. Next
  BY <1>2 DEF vars
<1>4. ASSUME NEW d \in Cmds \ {c},
             \/ \E b \in Backends, e \in Endpoints : StartUp(d, b, e)
             \/ \E e \in Ports : StartBoot(d, e) \/ StartStart(d, e)
             \/ StartDown(d) \/ StartStop(d) \/ StartSsh(d)
             \/ LaunchStep(d) \/ CtrlC(d) \/ DownStep(d) \/ SshStep(d) \/ Kill(d)
      PROVE  FALSE
  <2>1. \A r : cmd' = Ended(d, r) => cmd'[c] = cmd[c]
    BY DEF Ended
  <2>2. \A st : cmd' = NextFile(d, st) => cmd'[c] = cmd[c]
    BY <2>1 DEF NextFile
  <2>3. cmd'[c] = cmd[c]
    BY <1>4, <2>1, <2>2
       DEF StartUp, StartBoot, StartStart, StartDown, StartStop, StartSsh, LaunchStep, CtrlC, DownStep, SshStep, Kill,
           LaunchQemu, LaunchVfkit, LaunchFails, Ready, WritePid, WriteState, UpFails, Probe, StartFails, Shutdown,
           ConsoleCloses, FindPid, FindNoPid, ReadPid, Gone, PollExpires, Unlink, CleanUp, Connect, SshFails, Step
  <2> QED
    BY <1>1, <2>3
<1>5. ~\E p \in Pids : VmExits(p)
  BY <1>2 DEF VmExits
<1>6. DownStep(c)
  <2>1. ~LaunchStep(c) /\ ~CtrlC(c) /\ ~SshStep(c)
    BY <1>1 DEF LaunchStep, CtrlC, SshStep, LaunchQemu, LaunchVfkit, LaunchFails, Ready, WritePid, WriteState, UpFails,
                Probe, StartFails, Shutdown, ConsoleCloses, Connect, SshFails, Step
  <2>2. ~Kill(c)
    BY EndedEffect DEF Kill
  <2>3. /\ ~\E b \in Backends, e \in Endpoints : StartUp(c, b, e)
        /\ ~\E e \in Ports : StartBoot(c, e) \/ StartStart(c, e)
        /\ ~StartDown(c) /\ ~StartStop(c) /\ ~StartSsh(c)
    BY DEF StartUp, StartBoot, StartStart, StartDown, StartStop, StartSsh, MayStart
  <2> QED
    BY <1>3, <1>4, <1>5, <2>1, <2>2, <2>3 DEF Next
<1>7. ~FindPid(c) /\ ~Gone(c) /\ ~PollExpires(c)
  BY <1>1 DEF FindPid, Gone, PollExpires, Step, Commands
<1>8. ~ReadPid(c)
  <2>1. cmd' # Ended(c, "failed")
    BY EndedEffect
  <2>2. \A p : cmd' # [cmd EXCEPT ![c].pc = "poll", ![c].pid = p]
    BY <1>1 DEF Commands
  <2> QED
    BY <2>1, <2>2 DEF ReadPid
<1>9. \A stopped : ~(cmd' = NextFile(c, stopped))
  <2>1. SUFFICES ASSUME NEW stopped, cmd' = NextFile(c, stopped) PROVE FALSE
    OBVIOUS
  <2>2. CASE cmd[c].file = "vfkit" /\ ~stopped
    BY <2>1, <2>2, EndedEffect DEF NextFile
  <2>3. CASE ~(cmd[c].file = "vfkit" /\ ~stopped)
    BY <1>1, <2>1, <2>3 DEF NextFile, Commands
  <2> QED
    BY <2>2, <2>3
<1>10. ~FindNoPid(c) /\ ~Unlink(c)
  BY <1>9 DEF FindNoPid, Unlink
<1> QED
  BY <1>6, <1>7, <1>8, <1>10 DEF DownStep

(* A `down` that reports success has told every VM to terminate that a PID *)
(* file of `up` named when it began and names since: for any commands,     *)
(* which may overlap, be killed, or fail to remove a file.                 *)
THEOREM DownsStopNamed == Spec => DownStopsNamed
<1>1. Init => DownsInv
  BY DEF Init, DownsInv, DownOrder, Told, DueToCome, Running, New, Idle
<1>2. TypeOK /\ HoldsPid /\ DownsInv /\ [Next]_vars => DownsInv'
  BY DownsStep
<1>3. TypeOK /\ DownsInv /\ [Next]_vars =>
        [\A c \in Cmds :
            cmd[c].kind = "down" /\ Running(c) /\ cmd'[c].result = "ok"
               => \A p \in due[c] : vms[p].state # "up"]_vars
  <2> SUFFICES ASSUME TypeOK, DownsInv, [Next]_vars, NEW c \in Cmds,
                      cmd[c].kind = "down", Running(c), cmd'[c].result = "ok", NEW p \in due[c]
               PROVE  vms[p].state # "up"
    OBVIOUS
  <2>1. cmd[c].pc = "clean"
    BY DownEnds DEF CleanUp
  <2>2. cmd[c].file = "vfkit"
    BY <2>1 DEF DownsInv, DownOrder
  <2> QED
    BY <2>1, <2>2 DEF DownsInv, DueToCome, ToCome
<1> QED
  BY <1>1, <1>2, <1>3, TypeCorrect, PTL DEF Spec, DownStopsNamed

-----------------------------------------------------------------------------
(* From here on commands run one after another, and the user does not run  *)
(* `up` or `start` again while there is a PID file.                        *)
OneAtATime == \A c, d \in Cmds : Running(c) /\ Running(d) => c = d

(* The PID file of a command that launches is free, or has its VM.         *)
LaunchersFile ==
    \A c \in Cmds :
        /\ cmd[c].kind = "up" => cmd[c].file = cmd[c].backend
        /\ cmd[c].kind = "start" /\ Running(c) => cmd[c].file = "start"
        /\ cmd[c].pc = "launch" =>
              /\ cmd[c].kind \in Launchers /\ cmd[c].pid = NoPid
              /\ cmd[c].kind = "up" => \A b \in Backends : pidFile[b] = NoPid
              /\ cmd[c].kind = "start" => pidFile["start"] = NoPid
        /\ cmd[c].kind = "up" /\ cmd[c].pc = "ready" => pidFile[cmd[c].file] \in {NoPid, cmd[c].pid}
        /\ cmd[c].pc = "pid" => pidFile[cmd[c].file] \in {NoPid, cmd[c].pid}
        /\ cmd[c].pc \in {"state", "probe"} => pidFile[cmd[c].file] = cmd[c].pid

(* What `down` or `stop` waits for, and then forgets, has its SIGTERM.     *)
StoppedVm ==
    \A c \in Cmds :
        cmd[c].pc \in {"poll", "unlink"} =>
            /\ cmd[c].kind \notin Launchers
            /\ pidFile[cmd[c].file] = cmd[c].pid
            /\ ~(vms[cmd[c].pid].state = "up")

LEMMA OneAtATimeStep ==
    ASSUME TypeOK, ~Overlap, OneAtATime, [Next]_vars
    PROVE  OneAtATime'
<1> USE DEF TypeOK, OneAtATime, Commands, Running, Quiet, Idle
<1>0. CASE UNCHANGED vars
  BY <1>0 DEF vars, files, history
<1>1. CASE \E c \in Cmds : \/ \E b \in Backends, e \in Endpoints : StartUp(c, b, e)
                           \/ \E e \in Ports : StartBoot(c, e) \/ StartStart(c, e)
  BY <1>1 DEF StartUp, StartBoot, StartStart, MayStart, New, files, history
<1>2. CASE \E c \in Cmds : StartDown(c) \/ StartStop(c) \/ StartSsh(c)
  BY <1>2 DEF StartDown, StartStop, StartSsh, MayStart, New, files, history
<1>3. CASE \E c \in Cmds, p \in Pids, refused \in BOOLEAN : LaunchQemu(c, p, refused)
  BY <1>3 DEF LaunchQemu, Step, files, history
<1>4. CASE \E c \in Cmds, p \in Pids : LaunchVfkit(c, p)
  BY <1>4 DEF LaunchVfkit, Step, files, history
<1>5. CASE \E c \in Cmds : Ready(c) \/ CtrlC(c) \/ FindPid(c) \/ Gone(c)
  BY <1>5 DEF Ready, CtrlC, FindPid, Gone, Step, files, history
<1>6. CASE \E c \in Cmds : LaunchFails(c) \/ ConsoleCloses(c) \/ SshFails(c) \/ Probe(c)
  BY <1>6, EndedEffect DEF LaunchFails, ConsoleCloses, SshFails, Probe, files, history
<1>7. CASE \E c \in Cmds : WritePid(c)
  BY <1>7 DEF WritePid, Step, files, history
<1>8. CASE \E c \in Cmds : WriteState(c)
  BY <1>8 DEF WriteState, files, history
<1>9. CASE \E c \in Cmds : UpFails(c) \/ Shutdown(c)
  BY <1>9, EndedEffect DEF UpFails, Shutdown, files, history
<1>10. CASE \E c \in Cmds : StartFails(c)
  BY <1>10, EndedEffect DEF StartFails, files, history
<1>11. CASE \E c \in Cmds : FindNoPid(c)
  BY <1>11, EndedEffect, NextFileEffect DEF FindNoPid, files, history
<1>12. CASE \E c \in Cmds : ReadPid(c)
  BY <1>12, EndedEffect DEF ReadPid, files, history
<1>13. CASE \E c \in Cmds : PollExpires(c)
  BY <1>13 DEF PollExpires, Step, files, history
<1>14. CASE \E c \in Cmds : Unlink(c)
  <2>1. PICK c \in Cmds : Unlink(c)
    BY <1>14
  <2>2. Running(c) /\ \A d \in Cmds \ {c} : cmd'[d] = cmd[d]
    BY <2>1, UnlinkEffect DEF Unlink
  <2> QED
    BY <2>2
<1>15. CASE \E c \in Cmds : CleanUp(c)
  BY <1>15, EndedEffect DEF CleanUp, files, history
<1>16. CASE \E c \in Cmds, p \in Pids : Connect(c, p)
  BY <1>16 DEF Connect, files, history
<1>17. CASE \E c \in Cmds : Kill(c)
  BY <1>17, EndedEffect DEF Kill, files, history
<1>18. CASE \E p \in Pids : VmExits(p)
  BY <1>18 DEF VmExits, files, history
<1> QED
  BY <1>0, <1>1, <1>2, <1>3, <1>4, <1>5, <1>6, <1>7, <1>8, <1>9,
     <1>10, <1>11, <1>12, <1>13, <1>14, <1>15, <1>16, <1>17, <1>18, Actions

LEMMA LaunchersFileStep ==
    ASSUME TypeOK, HoldsPid, ~Overlap, ~Rerun, OneAtATime,
           LaunchersFile, [Next]_vars
    PROVE  LaunchersFile'
<1> USE DEF TypeOK, OneAtATime, LaunchersFile, Commands, Running, Quiet, Launchers, Idle, PidFiles, Backends
<1>0. CASE UNCHANGED vars
  BY <1>0 DEF vars, files, history
<1>1. CASE \E c \in Cmds : \/ \E b \in Backends, e \in Endpoints : StartUp(c, b, e)
                           \/ \E e \in Ports : StartBoot(c, e) \/ StartStart(c, e)
  BY <1>1 DEF StartUp, StartBoot, StartStart, MayStart, New, files, history
<1>2. CASE \E c \in Cmds : StartDown(c) \/ StartStop(c) \/ StartSsh(c)
  BY <1>2 DEF StartDown, StartStop, StartSsh, MayStart, New, files, history
<1>3. CASE \E c \in Cmds, p \in Pids, refused \in BOOLEAN : LaunchQemu(c, p, refused)
  BY <1>3 DEF LaunchQemu, Step, files, history
<1>4. CASE \E c \in Cmds, p \in Pids : LaunchVfkit(c, p)
  BY <1>4 DEF LaunchVfkit, Step, files, history
<1>5. CASE \E c \in Cmds : Ready(c) \/ CtrlC(c) \/ FindPid(c) \/ Gone(c)
  BY <1>5 DEF Ready, CtrlC, FindPid, Gone, Step, files, history
<1>6. CASE \E c \in Cmds : LaunchFails(c) \/ ConsoleCloses(c) \/ SshFails(c) \/ Probe(c)
  <2>1. PICK c \in Cmds : LaunchFails(c) \/ ConsoleCloses(c) \/ SshFails(c) \/ Probe(c)
    BY <1>6
  <2>2. \A d \in Cmds \ {c} : cmd'[d] = cmd[d]
    BY <2>1, EndedEffect DEF LaunchFails, ConsoleCloses, SshFails, Probe
  <2>3. cmd'[c].pc = Idle /\ cmd'[c].kind = cmd[c].kind
    BY <2>1, EndedEffect DEF LaunchFails, ConsoleCloses, SshFails, Probe
  <2>4. cmd[c].kind = "up" => cmd'[c].file = cmd'[c].backend
    BY <2>1, EndedEffect DEF LaunchFails, ConsoleCloses, SshFails, Probe
  <2>5. pidFile' = pidFile
    BY <2>1 DEF LaunchFails, ConsoleCloses, SshFails, Probe, files
  <2> QED
    BY <2>2, <2>3, <2>4, <2>5
<1>7. CASE \E c \in Cmds : WritePid(c)
  BY <1>7 DEF WritePid, Step, files, history
<1>8. CASE \E c \in Cmds : WriteState(c)
  BY <1>8 DEF WriteState, files, history
<1>9. CASE \E c \in Cmds : UpFails(c) \/ Shutdown(c)
  <2>1. PICK c \in Cmds : UpFails(c) \/ Shutdown(c)
    BY <1>9
  <2>2. \A d \in Cmds \ {c} : cmd'[d] = cmd[d]
    BY <2>1, EndedEffect DEF UpFails, Shutdown
  <2>3. cmd'[c].pc = Idle /\ cmd'[c].kind = cmd[c].kind
    BY <2>1, EndedEffect DEF UpFails, Shutdown
  <2>4. cmd[c].kind = "up" => cmd'[c].file = cmd'[c].backend
    BY <2>1, EndedEffect DEF UpFails, Shutdown
  <2>5. pidFile' = pidFile
    BY <2>1 DEF UpFails, Shutdown, files
  <2> QED
    BY <2>2, <2>3, <2>4, <2>5
<1>10. CASE \E c \in Cmds : StartFails(c)
  BY <1>10, EndedEffect DEF StartFails, files, history
<1>11. CASE \E c \in Cmds : FindNoPid(c)
  BY <1>11, EndedEffect, NextFileEffect DEF FindNoPid, files, history
<1>12. CASE \E c \in Cmds : ReadPid(c)
  BY <1>12, EndedEffect DEF ReadPid, files, history
<1>13. CASE \E c \in Cmds : PollExpires(c)
  BY <1>13 DEF PollExpires, Step, files, history
<1>14. CASE \E c \in Cmds : Unlink(c)
  <2>1. PICK c \in Cmds : Unlink(c)
    BY <1>14
  <2>2. Running(c) /\ \A d \in Cmds \ {c} : cmd'[d] = cmd[d]
    BY <2>1, UnlinkEffect DEF Unlink
  <2>3. \A d \in Cmds \ {c} : cmd[d].pc = Idle
    BY <2>2
  <2>4. cmd'[c].pc \in {Idle, "find", "clean"} /\ cmd'[c].kind \in {"down", "stop"}
    BY <2>1, UnlinkEffect DEF Unlink
  <2> QED
    BY <2>2, <2>3, <2>4
<1>15. CASE \E c \in Cmds : CleanUp(c)
  BY <1>15, EndedEffect DEF CleanUp, files, history
<1>16. CASE \E c \in Cmds, p \in Pids : Connect(c, p)
  BY <1>16 DEF Connect, files, history
<1>17. CASE \E c \in Cmds : Kill(c)
  <2>1. PICK c \in Cmds : Kill(c)
    BY <1>17
  <2>2. \A d \in Cmds \ {c} : cmd'[d] = cmd[d]
    BY <2>1, EndedEffect DEF Kill
  <2>3. cmd'[c].pc = Idle /\ cmd'[c].kind = cmd[c].kind
    BY <2>1, EndedEffect DEF Kill
  <2>4. cmd[c].kind = "up" => cmd'[c].file = cmd'[c].backend
    BY <2>1, EndedEffect DEF Kill
  <2>5. pidFile' = pidFile
    BY <2>1 DEF Kill, files
  <2> QED
    BY <2>2, <2>3, <2>4, <2>5
<1>18. CASE \E p \in Pids : VmExits(p)
  BY <1>18 DEF VmExits, files, history
<1> QED
  BY <1>0, <1>1, <1>2, <1>3, <1>4, <1>5, <1>6, <1>7, <1>8, <1>9,
     <1>10, <1>11, <1>12, <1>13, <1>14, <1>15, <1>16, <1>17, <1>18, Actions

LEMMA StoppedVmStep ==
    ASSUME TypeOK, HoldsPid, ~Overlap, ~Rerun, OneAtATime,
           StoppedVm, [Next]_vars
    PROVE  StoppedVm'
<1> USE DEF TypeOK, HoldsPid, OneAtATime, StoppedVm, Commands, Running, Quiet, Launchers, Idle, Alive, Forgotten, Exited
<1>0. CASE UNCHANGED vars
  BY <1>0 DEF vars, files, history
<1>1. CASE \E c \in Cmds : \/ \E b \in Backends, e \in Endpoints : StartUp(c, b, e)
                           \/ \E e \in Ports : StartBoot(c, e) \/ StartStart(c, e)
  BY <1>1 DEF StartUp, StartBoot, StartStart, MayStart, New, files, history
<1>2. CASE \E c \in Cmds : StartDown(c) \/ StartStop(c) \/ StartSsh(c)
  BY <1>2 DEF StartDown, StartStop, StartSsh, MayStart, New, files, history
<1>3. CASE \E c \in Cmds, p \in Pids, refused \in BOOLEAN : LaunchQemu(c, p, refused)
  BY <1>3 DEF LaunchQemu, Step, files, history
<1>4. CASE \E c \in Cmds, p \in Pids : LaunchVfkit(c, p)
  BY <1>4 DEF LaunchVfkit, Step, files, history
<1>5. CASE \E c \in Cmds : Ready(c) \/ CtrlC(c) \/ FindPid(c) \/ Gone(c)
  BY <1>5 DEF Ready, CtrlC, FindPid, Gone, Step, files, history
<1>6. CASE \E c \in Cmds : LaunchFails(c) \/ ConsoleCloses(c) \/ SshFails(c) \/ Probe(c)
  BY <1>6, EndedEffect DEF LaunchFails, ConsoleCloses, SshFails, Probe, files, history
<1>7. CASE \E c \in Cmds : WritePid(c)
  BY <1>7 DEF WritePid, Step, files, history
<1>8. CASE \E c \in Cmds : WriteState(c)
  BY <1>8 DEF WriteState, files, history
<1>9. CASE \E c \in Cmds : UpFails(c) \/ Shutdown(c)
  BY <1>9, EndedEffect DEF UpFails, Shutdown, files, history
<1>10. CASE \E c \in Cmds : StartFails(c)
  BY <1>10, EndedEffect DEF StartFails, files, history
<1>11. CASE \E c \in Cmds : FindNoPid(c)
  BY <1>11, EndedEffect, NextFileEffect DEF FindNoPid, files, history
<1>12. CASE \E c \in Cmds : ReadPid(c)
  <2>1. PICK c \in Cmds : ReadPid(c)
    BY <1>12
  <2>2. Running(c) /\ \A d \in Cmds \ {c} : cmd'[d] = cmd[d]
    BY <2>1, EndedEffect DEF ReadPid
  <2>3. \A d \in Cmds \ {c} : cmd'[d].pc = Idle
    BY <2>2
  <2>4. CASE pidFile[cmd[c].file] = NoPid
    <3>1. cmd'[c].pc = Idle
      BY <2>1, <2>4, EndedEffect DEF ReadPid
    <3> QED
      BY <2>3, <3>1
  <2>5. CASE ~(pidFile[cmd[c].file] = NoPid)
    <3> DEFINE p == pidFile[cmd[c].file]
    <3>1. p \in Pids
      BY <2>5
    <3>2. /\ cmd'[c].pid = p /\ cmd'[c].file = cmd[c].file /\ cmd'[c].kind \in {"down", "stop"}
          /\ pidFile' = pidFile
      BY <2>1, <2>5 DEF ReadPid, files
    <3>3. ~(vms'[p].state = "up")
      BY <2>1, <2>5, <3>1 DEF ReadPid, VMs
    <3> QED
      BY <2>3, <3>2, <3>3
  <2> QED
    BY <2>4, <2>5
<1>13. CASE \E c \in Cmds : PollExpires(c)
  BY <1>13 DEF PollExpires, Step, files, history
<1>14. CASE \E c \in Cmds : Unlink(c)
  <2>1. PICK c \in Cmds : Unlink(c)
    BY <1>14
  <2>2. Running(c) /\ \A d \in Cmds \ {c} : cmd'[d] = cmd[d]
    BY <2>1, UnlinkEffect DEF Unlink
  <2>3. \A d \in Cmds \ {c} : cmd'[d].pc = Idle
    BY <2>2
  <2>4. cmd'[c].pc \in {Idle, "find", "clean"}
    BY <2>1, UnlinkEffect DEF Unlink
  <2> QED
    BY <2>3, <2>4
<1>15. CASE \E c \in Cmds : CleanUp(c)
  BY <1>15, EndedEffect DEF CleanUp, files, history
<1>16. CASE \E c \in Cmds, p \in Pids : Connect(c, p)
  BY <1>16 DEF Connect, files, history
<1>17. CASE \E c \in Cmds : Kill(c)
  BY <1>17, EndedEffect DEF Kill, files, history
<1>18. CASE \E p \in Pids : VmExits(p)
  BY <1>18 DEF VmExits, files, history
<1> QED
  BY <1>0, <1>1, <1>2, <1>3, <1>4, <1>5, <1>6, <1>7, <1>8, <1>9,
     <1>10, <1>11, <1>12, <1>13, <1>14, <1>15, <1>16, <1>17, <1>18, Actions

LEMMA NoVmLeaksStep ==
    ASSUME TypeOK, HoldsPid, ~Overlap, ~Rerun, OneAtATime,
           LaunchersFile, StoppedVm, NoVmLeaks, [Next]_vars
    PROVE  NoVmLeaks'
<1> USE DEF TypeOK, OneAtATime, LaunchersFile, StoppedVm, NoVmLeaks, Commands, Running, Quiet, Launchers, Idle, Alive, Forgotten, Exited, Owned, Filed
<1>0. CASE UNCHANGED vars
  BY <1>0 DEF vars, files, history
<1>1. CASE \E c \in Cmds : \/ \E b \in Backends, e \in Endpoints : StartUp(c, b, e)
                           \/ \E e \in Ports : StartBoot(c, e) \/ StartStart(c, e)
  BY <1>1 DEF StartUp, StartBoot, StartStart, MayStart, New, files, history
<1>2. CASE \E c \in Cmds : StartDown(c) \/ StartStop(c) \/ StartSsh(c)
  BY <1>2 DEF StartDown, StartStop, StartSsh, MayStart, New, files, history
<1>3. CASE \E c \in Cmds, p \in Pids, refused \in BOOLEAN : LaunchQemu(c, p, refused)
  BY <1>3 DEF LaunchQemu, Step, files, history
<1>4. CASE \E c \in Cmds, p \in Pids : LaunchVfkit(c, p)
  BY <1>4 DEF LaunchVfkit, Step, files, history
<1>5. CASE \E c \in Cmds : Ready(c) \/ CtrlC(c) \/ FindPid(c) \/ Gone(c)
  BY <1>5 DEF Ready, CtrlC, FindPid, Gone, Step, files, history
<1>6. CASE \E c \in Cmds : LaunchFails(c) \/ ConsoleCloses(c) \/ SshFails(c) \/ Probe(c)
  <2>1. PICK c \in Cmds : LaunchFails(c) \/ ConsoleCloses(c) \/ SshFails(c) \/ Probe(c)
    BY <1>6
  <2> SUFFICES ASSUME NEW v \in Pids, vms'[v].state = "up"
               PROVE  Filed(v)' \/ Owned(v)' \/ v \in lost'
    OBVIOUS
  <2>2. \A d \in Cmds \ {c} : cmd'[d] = cmd[d]
    BY <2>1, EndedEffect DEF LaunchFails, ConsoleCloses, SshFails, Probe
  <2>3. vms' = vms /\ pidFile' = pidFile /\ lost' = lost
    BY <2>1 DEF LaunchFails, ConsoleCloses, SshFails, Probe, files, history
  <2>4. cmd[c].kind \in Launchers /\ cmd[c].pid = v => Filed(v)
    BY <2>1, <2>3, ConstantsAssumption DEF LaunchFails, ConsoleCloses, SshFails, Probe
  <2> QED
    BY <2>2, <2>3, <2>4
<1>7. CASE \E c \in Cmds : WritePid(c)
  <2>1. PICK c \in Cmds : WritePid(c)
    BY <1>7
  <2> SUFFICES ASSUME NEW v \in Pids, vms'[v].state = "up"
               PROVE  Filed(v)' \/ Owned(v)' \/ v \in lost'
    OBVIOUS
  <2>2. vms' = vms /\ lost' = lost
    BY <2>1 DEF WritePid, history
  <2>3. \A d \in Cmds : Running(d) => Running(d)' /\ cmd'[d].kind = cmd[d].kind /\ cmd'[d].pid = cmd[d].pid
    BY <2>1 DEF WritePid, Step
  <2>4. Filed(v) => Filed(v)'
    BY <2>1, ConstantsAssumption DEF WritePid, Step
  <2> QED
    BY <2>2, <2>3, <2>4
<1>8. CASE \E c \in Cmds : WriteState(c)
  BY <1>8 DEF WriteState, files, history
<1>9. CASE \E c \in Cmds : UpFails(c) \/ Shutdown(c)
  BY <1>9, EndedEffect DEF UpFails, Shutdown, files, history
<1>10. CASE \E c \in Cmds : StartFails(c)
  BY <1>10, EndedEffect DEF StartFails, files, history
<1>11. CASE \E c \in Cmds : FindNoPid(c)
  BY <1>11, EndedEffect, NextFileEffect DEF FindNoPid, files, history
<1>12. CASE \E c \in Cmds : ReadPid(c)
  BY <1>12, EndedEffect DEF ReadPid, files, history
<1>13. CASE \E c \in Cmds : PollExpires(c)
  BY <1>13 DEF PollExpires, Step, files, history
<1>14. CASE \E c \in Cmds : Unlink(c)
  <2>1. PICK c \in Cmds : Unlink(c)
    BY <1>14
  <2> SUFFICES ASSUME NEW v \in Pids, vms'[v].state = "up"
               PROVE  Filed(v)' \/ Owned(v)' \/ v \in lost'
    OBVIOUS
  <2>2. \A d \in Cmds \ {c} : cmd'[d] = cmd[d]
    BY <2>1, UnlinkEffect DEF Unlink
  <2>3. vms' = vms /\ lost' = lost
    BY <2>1 DEF Unlink, history
  <2>4. ~(pidFile[cmd[c].file] = v)
    BY <2>1, <2>3 DEF Unlink
  <2>5. Filed(v) => Filed(v)'
    BY <2>1, <2>4 DEF Unlink
  <2>6. ~(cmd[c].kind \in Launchers)
    BY <2>1 DEF Unlink
  <2> QED
    BY <2>2, <2>3, <2>5, <2>6
<1>15. CASE \E c \in Cmds : CleanUp(c)
  BY <1>15, EndedEffect DEF CleanUp, files, history
<1>16. CASE \E c \in Cmds, p \in Pids : Connect(c, p)
  BY <1>16 DEF Connect, files, history
<1>17. CASE \E c \in Cmds : Kill(c)
  BY <1>17, EndedEffect DEF Kill, files, history
<1>18. CASE \E p \in Pids : VmExits(p)
  BY <1>18 DEF VmExits, files, history
<1> QED
  BY <1>0, <1>1, <1>2, <1>3, <1>4, <1>5, <1>6, <1>7, <1>8, <1>9,
     <1>10, <1>11, <1>12, <1>13, <1>14, <1>15, <1>16, <1>17, <1>18, Actions

(* The inductive invariant of NoVmLeaks for commands one after another.    *)
NoVmLeaksInv == OneAtATime /\ LaunchersFile /\ StoppedVm /\ NoVmLeaks

(* Commands that run one after another lose no VM that is up, whichever of *)
(* them fail or are killed: a later `down` or `stop` finds it, unless it   *)
(* was given up.                                                           *)
THEOREM OneAtATimeKeepsVms ==
    ASSUME ~Overlap, ~Rerun
    PROVE  Spec => []NoVmLeaks
<1>1. Init => NoVmLeaksInv
  BY DEF Init, NoVmLeaksInv, OneAtATime, LaunchersFile, StoppedVm, NoVmLeaks, Running, New, Exited, Idle
<1>2. TypeOK /\ HoldsPid /\ NoVmLeaksInv /\ [Next]_vars => NoVmLeaksInv'
  BY OneAtATimeStep, LaunchersFileStep, StoppedVmStep, NoVmLeaksStep DEF NoVmLeaksInv
<1>3. NoVmLeaksInv => NoVmLeaks
  BY DEF NoVmLeaksInv
<1> QED
  BY <1>1, <1>2, <1>3, TypeCorrect, PTL DEF Spec


=============================================================================
