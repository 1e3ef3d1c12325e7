----------------------------- MODULE VmStateProofs -----------------------------
(***************************************************************************)
(* What vm-state.json says, proved of VmLifecycle for commands that run    *)
(* one after another without an `up` or `start` over a PID file: it names  *)
(* a VM that `down` will stop (StateHasPid), and `ssh` reaches that VM     *)
(* (SshReachesUpsVm).                                                      *)
(***************************************************************************)
EXTENDS VmLifecycleProofs

(* A VM that runs has the backend and the endpoint of its command.         *)
LaunchedVm ==
    \A c \in Cmds :
        cmd[c].pc \in {"ready", "pid", "state", "probe"} /\ Alive(cmd[c].pid) =>
            /\ vms[cmd[c].pid].backend = cmd[c].backend
            /\ vms[cmd[c].pid].endpoint = cmd[c].endpoint

(* What `down` has found is there when it is read; `stop` has a PID file   *)
(* of its own; a console is a launcher's.                                  *)
ReadsPid ==
    \A c \in Cmds :
        /\ cmd[c].pc = "console" => cmd[c].kind \in Launchers
        /\ cmd[c].kind = "stop" /\ Running(c) => cmd[c].file = "start"
        /\ cmd[c].kind = "down" /\ Running(c) => cmd[c].file \in Backends
        /\ cmd[c].kind = "down" /\ cmd[c].pc = "read" => pidFile[cmd[c].file] # NoPid

(* An `up` that has not written vm-state.json finds none.                  *)
UpBeforeState ==
    \A c \in Cmds : cmd[c].kind = "up" /\ Running(c) => vmState = NoState \/ marred

(* vm-state.json is right, or the `down` that will remove it is at work.   *)
StateKnown ==
    vmState # NoState /\ ~marred =>
        \/ \E c \in Cmds : cmd[c].kind = "down" /\ Running(c) /\ cmd[c].stopped
        \/ LET p == pidFile[vmState.backend] IN
           p # NoPid /\ (Alive(p) => vms[p].endpoint = vmState.endpoint)

(* vfkit's guests have leases, QEMU's have ports.                          *)
EndpointOfBackend ==
    /\ \A c \in Cmds : cmd[c].pc = "launch" => (cmd[c].backend = "vfkit" <=> cmd[c].endpoint = Lease)
    /\ \A p \in Pids : Alive(p) => (vms[p].backend = "vfkit" <=> vms[p].endpoint = Lease)

(* A second QEMU on a port of a living one refuses to run.                 *)
PortsApart ==
    \A p, q \in Pids :
        /\ Alive(p) /\ Alive(q)
        /\ vms[p].backend = "qemu" /\ vms[q].backend = "qemu"
        /\ vms[p].endpoint = vms[q].endpoint
        => p = q

(* A PID file names VMs of its backend.                                    *)
FileOfBackend ==
    /\ \A c \in Cmds : cmd[c].kind = "start" /\ Running(c) => cmd[c].backend = "qemu"
    /\ \A f \in PidFiles :
        pidFile[f] # NoPid /\ Alive(pidFile[f]) => (vms[pidFile[f]].backend = "vfkit" <=> f = "vfkit")

(* NoVmLeaks also of VMs that have their SIGTERM.                          *)
AliveKnown ==
    /\ \A p \in Pids : Alive(p) => Filed(p) \/ Owned(p) \/ p \in lost
    /\ \A c \in Cmds : cmd[c].pc = "unlink" => ~Alive(cmd[c].pid) \/ cmd[c].pid \in lost

(* `ssh` has the endpoint that vm-state.json names.                        *)
SshKnows ==
    \A c \in Cmds : cmd[c].kind = "ssh" /\ Running(c) /\ vmState # NoState =>
                        cmd[c].endpoint = vmState.endpoint

(* A command that runs has no result yet.                                  *)
Undecided ==
    \A c \in Cmds : Running(c) => cmd[c].result = "none"

-----------------------------------------------------------------------------
LEMMA NextFileMore ==
    ASSUME TypeOK, NEW c \in Cmds, NEW stopped \in BOOLEAN, cmd' = NextFile(c, stopped)
    PROVE  /\ cmd'[c].kind = cmd[c].kind
           /\ \/ cmd'[c].pc = Idle /\ ~stopped /\ cmd[c].file = "vfkit"
              \/ /\ cmd'[c].pc \in {"find", "clean"} /\ cmd'[c].file = "vfkit"
                 /\ cmd'[c].stopped = stopped /\ cmd'[c].pid = NoPid
                 /\ cmd'[c].result = cmd[c].result
           /\ \A d \in Cmds \ {c} : cmd'[d] = cmd[d]
<1>1. CASE cmd[c].file = "vfkit" /\ ~stopped
  BY <1>1, EndedEffect DEF NextFile
<1>2. CASE ~(cmd[c].file = "vfkit" /\ ~stopped)
  <2>1. cmd' = [cmd EXCEPT ![c].pc = IF cmd[c].file = "qemu" THEN "find" ELSE "clean",
                           ![c].file = "vfkit",
                           ![c].pid = NoPid, ![c].stopped = stopped]
    BY <1>2 DEF NextFile
  <2>2. cmd[c] \in Commands
    BY DEF TypeOK
  <2> QED
    BY <2>1, <2>2 DEF TypeOK, Commands
<1> QED
  BY <1>1, <1>2

LEMMA UnlinkMore ==
    ASSUME TypeOK, NEW c \in Cmds, Unlink(c)
    PROVE  /\ cmd'[c].kind = cmd[c].kind
           /\ \/ cmd'[c].pc = Idle /\ cmd[c].kind = "stop"
              \/ /\ cmd[c].kind = "down" /\ cmd'[c].pc \in {"find", "clean"}
                 /\ cmd'[c].file = "vfkit" /\ cmd'[c].stopped
                 /\ cmd'[c].result = cmd[c].result
           /\ \A d \in Cmds \ {c} : cmd'[d] = cmd[d]
<1>1. CASE cmd[c].kind = "stop"
  <2>1. cmd' = Ended(c, "ok")
    BY <1>1 DEF Unlink
  <2> QED
    BY <1>1, <2>1, EndedEffect
<1>2. CASE cmd[c].kind = "down"
  <2>1. cmd' = NextFile(c, TRUE)
    BY <1>2 DEF Unlink
  <2> QED
    BY <1>2, <2>1, NextFileMore
<1> QED
  BY <1>1, <1>2 DEF Unlink

LEMMA ReadEffect ==
    ASSUME TypeOK, NEW c \in Cmds, ReadPid(c)
    PROVE  /\ UNCHANGED <<pidFile, vmState, lost, marred>>
           /\ \A p \in Pids : /\ Alive(p)' <=> Alive(p)
                              /\ vms'[p].backend = vms[p].backend
                              /\ vms'[p].endpoint = vms[p].endpoint
           /\ \A d \in Cmds \ {c} : cmd'[d] = cmd[d]
           /\ Running(c) /\ cmd[c].kind \in {"down", "stop"} /\ cmd'[c].kind = cmd[c].kind
           /\ \/ pidFile[cmd[c].file] = NoPid /\ cmd'[c].pc = Idle
              \/ /\ pidFile[cmd[c].file] # NoPid /\ cmd'[c].pc = "poll"
                 /\ cmd'[c].file = cmd[c].file /\ cmd'[c].stopped = cmd[c].stopped
                 /\ cmd'[c].result = cmd[c].result
<1> DEFINE q == pidFile[cmd[c].file]
<1>1. UNCHANGED <<pidFile, vmState, lost, marred>> /\ Running(c) /\ cmd[c].kind \in {"down", "stop"}
  BY DEF ReadPid, files, history, Running, Idle
<1>2. CASE q = NoPid
  <2>1. cmd' = Ended(c, "failed") /\ vms' = vms
    BY <1>2 DEF ReadPid
  <2> QED
    BY <1>1, <1>2, <2>1, EndedEffect DEF Alive
<1>3. CASE q # NoPid
  <2>1. cmd' = [cmd EXCEPT ![c].pc = "poll", ![c].pid = q]
    BY <1>3 DEF ReadPid
  <2>2. \A p \in Pids : /\ Alive(p)' <=> Alive(p)
                        /\ vms'[p].backend = vms[p].backend
                        /\ vms'[p].endpoint = vms[p].endpoint
    BY <1>3 DEF ReadPid, Alive, TypeOK, VMs
  <2>3. cmd[c] \in Commands
    BY DEF TypeOK
  <2> QED
    BY <1>1, <1>3, <2>1, <2>2, <2>3 DEF TypeOK, Commands
<1> QED
  BY <1>2, <1>3

LEMMA KillEffect ==
    ASSUME TypeOK, NEW c \in Cmds, UpFails(c) \/ Shutdown(c)
    PROVE  /\ UNCHANGED <<pidFile, vmState, lost, marred>>
           /\ \A p \in Pids : Alive(p)' => vms'[p] = vms[p] /\ Alive(p)
           /\ \A p \in Pids : p # cmd[c].pid => vms'[p] = vms[p] /\ (Alive(p)' <=> Alive(p))
           /\ \A p \in Pids : p = cmd[c].pid => ~Alive(p)'
           /\ \A d \in Cmds \ {c} : cmd'[d] = cmd[d]
           /\ cmd'[c].pc = Idle /\ cmd'[c].kind = cmd[c].kind
           /\ cmd[c].kind \in {"up", "boot"} /\ Running(c)
<1>1. PICK result : cmd' = Ended(c, result)
  BY DEF UpFails, Shutdown
<1>2. /\ \A d \in Cmds \ {c} : cmd'[d] = cmd[d]
      /\ cmd'[c].pc = Idle /\ cmd'[c].kind = cmd[c].kind
  BY <1>1, EndedEffect
<1>3. vms' = IF Alive(cmd[c].pid) THEN [vms EXCEPT ![cmd[c].pid] = Exited("dead")] ELSE vms
  BY DEF UpFails, Shutdown
<1>4. UNCHANGED <<pidFile, vmState, lost, marred>> /\ cmd[c].kind \in {"up", "boot"} /\ Running(c)
  BY DEF UpFails, Shutdown, files, history, Running, Idle
<1>5. /\ \A p \in Pids : p # cmd[c].pid => vms'[p] = vms[p]
      /\ \A p \in Pids : p = cmd[c].pid => vms'[p].state \notin {"up", "term"}
  <2>1. CASE Alive(cmd[c].pid)
    BY <1>3, <2>1 DEF TypeOK, Exited
  <2>2. CASE ~Alive(cmd[c].pid)
    BY <1>3, <2>2 DEF Alive
  <2> QED
    BY <2>1, <2>2
<1> QED
  BY <1>2, <1>4, <1>5 DEF Alive

LEMMA UnlinkFiles ==
    ASSUME TypeOK, NEW c \in Cmds, Unlink(c)
    PROVE  /\ UNCHANGED <<vms, vmState, lost, marred>>
           /\ pidFile' = [pidFile EXCEPT ![cmd[c].file] = NoPid] \/ pidFile' = pidFile
           /\ cmd[c].file \in PidFiles /\ Running(c)
BY DEF Unlink, history, TypeOK, Commands, Running, Idle

LEMMA MoveEffect ==
    ASSUME TypeOK, NEW c \in Cmds,
           Ready(c) \/ CtrlC(c) \/ FindPid(c) \/ Gone(c) \/ WritePid(c)
    PROVE  /\ UNCHANGED <<vms, vmState, lost, marred>>
           /\ Ready(c) \/ CtrlC(c) \/ FindPid(c) \/ Gone(c) => UNCHANGED pidFile
           /\ Running(c) /\ cmd'[c].pc \in {"pid", "keep", "shutdown", "read", "unlink", "state", "probe"}
           /\ cmd'[c].pc = "unlink" => ~Alive(cmd[c].pid)
           /\ cmd'[c].kind = cmd[c].kind /\ cmd'[c].pid = cmd[c].pid
           /\ cmd'[c].result = cmd[c].result /\ cmd'[c].backend = cmd[c].backend
           /\ cmd'[c].endpoint = cmd[c].endpoint
           /\ \A d \in Cmds \ {c} : cmd'[d] = cmd[d]
<1>1. /\ UNCHANGED <<vms, vmState, lost, marred>>
      /\ Ready(c) \/ CtrlC(c) \/ FindPid(c) \/ Gone(c) => UNCHANGED pidFile
  BY DEF Ready, CtrlC, FindPid, Gone, WritePid, Step, files, history
<1>2. PICK pc \in {"pid", "keep", "shutdown", "read", "unlink", "state", "probe"} :
        /\ cmd' = [cmd EXCEPT ![c].pc = pc, ![c].pid = cmd[c].pid]
        /\ Running(c) /\ (pc = "unlink" => ~Alive(cmd[c].pid))
  BY DEF Ready, CtrlC, FindPid, Gone, WritePid, Step, Running, Idle
<1>3. cmd[c] \in Commands
  BY DEF TypeOK
<1> QED
  BY <1>1, <1>2, <1>3 DEF TypeOK, Commands

LEMMA EndEffect ==
    ASSUME TypeOK, NEW c \in Cmds,
           LaunchFails(c) \/ ConsoleCloses(c) \/ SshFails(c) \/ Probe(c)
    PROVE  /\ UNCHANGED <<vms, pidFile, vmState, lost, marred>>
           /\ Running(c) /\ cmd'[c].pc = Idle /\ cmd'[c].kind = cmd[c].kind
           /\ \A d \in Cmds \ {c} : cmd'[d] = cmd[d]
<1>1. UNCHANGED <<vms, pidFile, vmState, lost, marred>> /\ Running(c)
  BY DEF LaunchFails, ConsoleCloses, SshFails, Probe, files, history, Running, Idle
<1>2. CASE Probe(c)
  BY <1>1, <1>2 DEF Probe, TypeOK, Commands
<1>3. CASE ~Probe(c)
  BY <1>1, <1>3, EndedEffect DEF LaunchFails, ConsoleCloses, SshFails
<1> QED
  BY <1>2, <1>3

LEMMA FindNoPidEffect ==
    ASSUME TypeOK, NEW c \in Cmds, FindNoPid(c)
    PROVE  /\ UNCHANGED <<vms, pidFile, vmState, lost, marred>>
           /\ cmd[c].kind = "down" /\ cmd'[c].kind = "down"
           /\ cmd'[c].pc \in {Idle, "find", "clean"}
           /\ \A d \in Cmds \ {c} : cmd'[d] = cmd[d]
<1>1. UNCHANGED <<vms, pidFile, vmState, lost, marred>> /\ cmd[c].kind = "down"
  BY DEF FindNoPid, files, history
<1>2. cmd[c].stopped \in BOOLEAN /\ cmd' = NextFile(c, cmd[c].stopped)
  BY DEF FindNoPid, TypeOK, Commands
<1> QED
  BY <1>1, <1>2, NextFileMore

LEMMA CleanEffect ==
    ASSUME TypeOK, NEW c \in Cmds, CleanUp(c)
    PROVE  /\ UNCHANGED <<vms, pidFile, lost>>
           /\ cmd[c].kind = "down" /\ cmd'[c].kind = "down" /\ cmd'[c].pc = Idle
           /\ \A d \in Cmds \ {c} : cmd'[d] = cmd[d]
<1>1. cmd' = Ended(c, "ok") /\ cmd[c].kind = "down" /\ UNCHANGED <<vms, pidFile, lost>>
  BY DEF CleanUp
<1> QED
  BY <1>1, EndedEffect

LEMMA StartEffect ==
    ASSUME TypeOK, NEW c \in Cmds,
           \/ \E b \in Backends, e \in Endpoints : StartUp(c, b, e)
           \/ \E e \in Ports : StartBoot(c, e) \/ StartStart(c, e)
    PROVE  /\ UNCHANGED <<vms, pidFile, vmState, lost, marred>>
           /\ ~Running(c)
           /\ \A d \in Cmds \ {c} : cmd'[d] = cmd[d]
<1>1. UNCHANGED <<vms, pidFile, vmState, lost, marred>> /\ ~Running(c)
  BY DEF StartUp, StartBoot, StartStart, MayStart, files, history
<1>2. PICK k : cmd' = [cmd EXCEPT ![c] = k]
  BY DEF StartUp, StartBoot, StartStart
<1> QED
  BY <1>1, <1>2 DEF TypeOK

(* What keeps vm-state.json right.                                         *)
LEMMA StateKept ==
    ASSUME TypeOK, StateKnown, UNCHANGED <<vmState, marred>>,
           \A b \in Backends : pidFile'[b] = pidFile[b],
           \A p \in Pids : Alive(p)' => Alive(p) /\ vms'[p].endpoint = vms[p].endpoint,
           \A d \in Cmds : cmd[d].kind = "down" /\ Running(d) /\ cmd[d].stopped =>
               cmd'[d].kind = "down" /\ Running(d)' /\ cmd'[d].stopped
    PROVE  StateKnown'
<1>1. CASE \E d \in Cmds : cmd[d].kind = "down" /\ Running(d) /\ cmd[d].stopped
  <2>1. \E d \in Cmds : cmd'[d].kind = "down" /\ Running(d)' /\ cmd'[d].stopped
    BY <1>1
  <2> QED
    BY <2>1 DEF StateKnown
<1>2. CASE vmState = NoState \/ marred
  BY <1>2 DEF StateKnown
<1>3. CASE /\ vmState # NoState /\ ~marred
           /\ ~\E d \in Cmds : cmd[d].kind = "down" /\ Running(d) /\ cmd[d].stopped
  <2>1. vmState.backend \in Backends
    BY <1>3 DEF TypeOK, States
  <2>2. pidFile[vmState.backend] \in Pids
    BY <1>3, <2>1 DEF StateKnown, TypeOK, PidFiles
  <2>3. PICK p \in Pids : p = pidFile[vmState.backend]
    BY <2>2
  <2>4. p # NoPid /\ (Alive(p) => vms[p].endpoint = vmState.endpoint)
    BY <1>3, <2>3 DEF StateKnown
  <2>5. (pidFile[vmState.backend] = p)'
    BY <2>1, <2>3
  <2>6. (Alive(p) => vms[p].endpoint = vmState.endpoint)'
    BY <2>4
  <2> QED
    BY <2>4, <2>5, <2>6 DEF StateKnown, Alive
<1> QED
  BY <1>1, <1>2, <1>3

LEMMA LaunchedVmStep ==
    ASSUME TypeOK, HoldsPid, LaunchedVm, [Next]_vars
    PROVE  LaunchedVm'
<1> USE DEF TypeOK, Commands, Running, Idle, HoldsPid, LaunchedVm, Alive, Forgotten, Exited, Started
<1>0. CASE UNCHANGED vars
  BY <1>0 DEF vars, files, history
<1>1. CASE \E c \in Cmds : \/ \E b \in Backends, e \in Endpoints : StartUp(c, b, e)
                           \/ \E e \in Ports : StartBoot(c, e) \/ StartStart(c, e)
  BY <1>1 DEF StartUp, StartBoot, StartStart, MayStart, New, files, history
<1>2. CASE \E c \in Cmds : StartDown(c) \/ StartStop(c) \/ StartSsh(c)
  BY <1>2 DEF StartDown, StartStop, StartSsh, MayStart, New, files, history
<1>3. CASE \E c \in Cmds, p \in Pids, refused \in BOOLEAN : LaunchQemu(c, p, refused)
  BY <1>3 DEF LaunchQemu, Step, files, history
<1>4. CASE \E c \in Cmds, p \in Pids : LaunchVfkit(c, p)
  BY <1>4 DEF LaunchVfkit, Step, files, history
<1>5. CASE \E c \in Cmds : Ready(c) \/ CtrlC(c) \/ FindPid(c) \/ Gone(c)
  <2>1. PICK c \in Cmds : Ready(c) \/ CtrlC(c) \/ FindPid(c) \/ Gone(c)
    BY <1>5
  <2>2. cmd'[c].pc = "pid" => cmd[c].pc = "ready"
    BY <2>1 DEF Ready, CtrlC, FindPid, Gone, Step
  <2>3. cmd'[c].pc \in {"pid", "keep", "shutdown", "read", "unlink"}
    BY <2>1 DEF Ready, CtrlC, FindPid, Gone, Step
  <2>4. vms' = vms /\ (\A d \in Cmds \ {c} : cmd'[d] = cmd[d])
        /\ cmd'[c].backend = cmd[c].backend /\ cmd'[c].endpoint = cmd[c].endpoint
        /\ cmd'[c].pid = cmd[c].pid
    BY <2>1, MoveEffect
  <2>5. cmd'[c].pc \in {"ready", "pid", "state", "probe"} =>
            cmd[c].pc \in {"ready", "pid", "state", "probe"}
    BY <2>2, <2>3
  <2> QED
    BY <2>4, <2>5
<1>6. CASE \E c \in Cmds : LaunchFails(c) \/ ConsoleCloses(c) \/ SshFails(c) \/ Probe(c)
  <2>1. PICK c \in Cmds : LaunchFails(c) \/ ConsoleCloses(c) \/ SshFails(c) \/ Probe(c)
    BY <1>6
  <2> QED
    BY <2>1, EndEffect
<1>7. CASE \E c \in Cmds : WritePid(c)
  BY <1>7 DEF WritePid, Step, files, history
<1>8. CASE \E c \in Cmds : WriteState(c)
  BY <1>8 DEF WriteState, files, history
<1>9. CASE \E c \in Cmds : UpFails(c) \/ Shutdown(c)
  <2>1. PICK c \in Cmds : UpFails(c) \/ Shutdown(c)
    BY <1>9
  <2> QED
    BY <2>1, KillEffect
<1>10. CASE \E c \in Cmds : StartFails(c)
  BY <1>10, EndedEffect DEF StartFails, files, history
<1>11. CASE \E c \in Cmds : FindNoPid(c)
  BY <1>11, EndedEffect, NextFileMore DEF FindNoPid, files, history
<1>12. CASE \E c \in Cmds : ReadPid(c)
  <2>1. PICK c \in Cmds : ReadPid(c)
    BY <1>12
  <2> QED
    BY <2>1, ReadEffect
<1>13. CASE \E c \in Cmds : PollExpires(c)
  BY <1>13 DEF PollExpires, Step, files, history
<1>14. CASE \E c \in Cmds : Unlink(c)
  <2>1. PICK c \in Cmds : Unlink(c)
    BY <1>14
  <2> QED
    BY <2>1, UnlinkMore, UnlinkFiles
<1>15. CASE \E c \in Cmds : CleanUp(c)
  BY <1>15, EndedEffect DEF CleanUp, files, history
<1>16. CASE \E c \in Cmds, p \in Pids : Connect(c, p)
  BY <1>16 DEF Connect, files, history
<1>17. CASE \E c \in Cmds : Kill(c)
  BY <1>17, EndedEffect DEF Kill, files, history
<1>18. CASE \E p \in Pids : VmExits(p)
  BY <1>18 DEF VmExits, files, history
<1> QED
  BY <1>0, <1>1, <1>2, <1>3, <1>4, <1>5, <1>6, <1>7, <1>8, <1>9,
     <1>10, <1>11, <1>12, <1>13, <1>14, <1>15, <1>16, <1>17, <1>18, Actions

LEMMA ReadsPidStep ==
    ASSUME TypeOK, HoldsPid, ~Overlap, ~Rerun, OneAtATime, ReadsPid, [Next]_vars
    PROVE  ReadsPid'
<1> USE DEF TypeOK, Commands, Running, Idle, HoldsPid, OneAtATime, ReadsPid, Launchers, Backends, PidFiles
<1>0. CASE UNCHANGED vars
  BY <1>0 DEF vars, files, history
<1>1. CASE \E c \in Cmds : \/ \E b \in Backends, e \in Endpoints : StartUp(c, b, e)
                           \/ \E e \in Ports : StartBoot(c, e) \/ StartStart(c, e)
  BY <1>1 DEF StartUp, StartBoot, StartStart, MayStart, New, files, history
<1>2. CASE \E c \in Cmds : StartDown(c) \/ StartStop(c) \/ StartSsh(c)
  BY <1>2 DEF StartDown, StartStop, StartSsh, MayStart, New, files, history
<1>3. CASE \E c \in Cmds, p \in Pids, refused \in BOOLEAN : LaunchQemu(c, p, refused)
  BY <1>3 DEF LaunchQemu, Step, files, history
<1>4. CASE \E c \in Cmds, p \in Pids : LaunchVfkit(c, p)
  BY <1>4 DEF LaunchVfkit, Step, files, history
<1>5. CASE \E c \in Cmds : Ready(c) \/ CtrlC(c) \/ FindPid(c) \/ Gone(c)
  BY <1>5 DEF Ready, CtrlC, FindPid, Gone, Step, files, history
<1>6. CASE \E c \in Cmds : LaunchFails(c) \/ ConsoleCloses(c) \/ SshFails(c) \/ Probe(c)
  BY <1>6, EndedEffect DEF LaunchFails, ConsoleCloses, SshFails, Probe, files, history
<1>7. CASE \E c \in Cmds : WritePid(c)
  BY <1>7 DEF WritePid, Step, files, history
<1>8. CASE \E c \in Cmds : WriteState(c)
  BY <1>8 DEF WriteState, files, history
<1>9. CASE \E c \in Cmds : UpFails(c) \/ Shutdown(c)
  <2>1. PICK c \in Cmds : UpFails(c) \/ Shutdown(c)
    BY <1>9
  <2> QED
    BY <2>1, KillEffect
<1>10. CASE \E c \in Cmds : StartFails(c)
  BY <1>10, EndedEffect DEF StartFails, files, history
<1>11. CASE \E c \in Cmds : FindNoPid(c)
  BY <1>11, EndedEffect, NextFileMore DEF FindNoPid, files, history
<1>12. CASE \E c \in Cmds : ReadPid(c)
  <2>1. PICK c \in Cmds : ReadPid(c)
    BY <1>12
  <2> QED
    BY <2>1, ReadEffect
<1>13. CASE \E c \in Cmds : PollExpires(c)
  BY <1>13 DEF PollExpires, Step, files, history
<1>14. CASE \E c \in Cmds : Unlink(c)
  <2>1. PICK c \in Cmds : Unlink(c)
    BY <1>14
  <2> QED
    BY <2>1, UnlinkMore, UnlinkFiles
<1>15. CASE \E c \in Cmds : CleanUp(c)
  BY <1>15, EndedEffect DEF CleanUp, files, history
<1>16. CASE \E c \in Cmds, p \in Pids : Connect(c, p)
  BY <1>16 DEF Connect, files, history
<1>17. CASE \E c \in Cmds : Kill(c)
  BY <1>17, EndedEffect DEF Kill, files, history
<1>18. CASE \E p \in Pids : VmExits(p)
  BY <1>18 DEF VmExits, files, history
<1> QED
  BY <1>0, <1>1, <1>2, <1>3, <1>4, <1>5, <1>6, <1>7, <1>8, <1>9,
     <1>10, <1>11, <1>12, <1>13, <1>14, <1>15, <1>16, <1>17, <1>18, Actions

LEMMA UpBeforeStateStep ==
    ASSUME TypeOK, HoldsPid, ~Overlap, ~Rerun, OneAtATime, StateKnown, UpBeforeState, [Next]_vars
    PROVE  UpBeforeState'
<1> USE DEF TypeOK, Commands, Running, Idle, OneAtATime, UpBeforeState, Quiet, StateKnown
<1>0. CASE UNCHANGED vars
  BY <1>0 DEF vars, files, history
<1>1. CASE \E c \in Cmds : \/ \E b \in Backends, e \in Endpoints : StartUp(c, b, e)
                           \/ \E e \in Ports : StartBoot(c, e) \/ StartStart(c, e)
  <2>1. PICK c \in Cmds : \/ \E b \in Backends, e \in Endpoints : StartUp(c, b, e)
                          \/ \E e \in Ports : StartBoot(c, e) \/ StartStart(c, e)
    BY <1>1
  <2>2. UNCHANGED <<vmState, marred>> /\ \A d \in Cmds : ~Running(d)
    BY <2>1 DEF StartUp, StartBoot, StartStart, MayStart, files, history
  <2>3. CASE \E b \in Backends, e \in Endpoints : StartUp(c, b, e)
    <3>1. \A b \in Backends : pidFile[b] = NoPid
      BY <2>3 DEF StartUp
    <3>2. vmState # NoState => vmState.backend \in Backends
      BY DEF States
    <3>3. vmState = NoState \/ marred
      BY <2>2, <3>1, <3>2
    <3> QED
      BY <2>2, <3>3
  <2>4. CASE \E e \in Ports : StartBoot(c, e) \/ StartStart(c, e)
    BY <2>2, <2>4 DEF StartBoot, StartStart, New
  <2> QED
    BY <2>1, <2>3, <2>4
<1>2. CASE \E c \in Cmds : StartDown(c) \/ StartStop(c) \/ StartSsh(c)
  BY <1>2 DEF StartDown, StartStop, StartSsh, MayStart, New, files, history
<1>3. CASE \E c \in Cmds, p \in Pids, refused \in BOOLEAN : LaunchQemu(c, p, refused)
  BY <1>3 DEF LaunchQemu, Step, files, history
<1>4. CASE \E c \in Cmds, p \in Pids : LaunchVfkit(c, p)
  BY <1>4 DEF LaunchVfkit, Step, files, history
<1>5. CASE \E c \in Cmds : Ready(c) \/ CtrlC(c) \/ FindPid(c) \/ Gone(c)
  BY <1>5 DEF Ready, CtrlC, FindPid, Gone, Step, files, history
<1>6. CASE \E c \in Cmds : LaunchFails(c) \/ ConsoleCloses(c) \/ SshFails(c) \/ Probe(c)
  BY <1>6, EndedEffect DEF LaunchFails, ConsoleCloses, SshFails, Probe, files, history
<1>7. CASE \E c \in Cmds : WritePid(c)
  BY <1>7 DEF WritePid, Step, files, history
<1>8. CASE \E c \in Cmds : WriteState(c)
  BY <1>8 DEF WriteState, files, history
<1>9. CASE \E c \in Cmds : UpFails(c) \/ Shutdown(c)
  <2>1. PICK c \in Cmds : UpFails(c) \/ Shutdown(c)
    BY <1>9
  <2> QED
    BY <2>1, KillEffect
<1>10. CASE \E c \in Cmds : StartFails(c)
  BY <1>10, EndedEffect DEF StartFails, files, history
<1>11. CASE \E c \in Cmds : FindNoPid(c)
  BY <1>11, EndedEffect, NextFileMore DEF FindNoPid, files, history
<1>12. CASE \E c \in Cmds : ReadPid(c)
  <2>1. PICK c \in Cmds : ReadPid(c)
    BY <1>12
  <2> QED
    BY <2>1, ReadEffect
<1>13. CASE \E c \in Cmds : PollExpires(c)
  BY <1>13 DEF PollExpires, Step, files, history
<1>14. CASE \E c \in Cmds : Unlink(c)
  <2>1. PICK c \in Cmds : Unlink(c)
    BY <1>14
  <2> QED
    BY <2>1, UnlinkMore, UnlinkFiles
<1>15. CASE \E c \in Cmds : CleanUp(c)
  BY <1>15, EndedEffect DEF CleanUp, files, history
<1>16. CASE \E c \in Cmds, p \in Pids : Connect(c, p)
  BY <1>16 DEF Connect, files, history
<1>17. CASE \E c \in Cmds : Kill(c)
  BY <1>17, EndedEffect DEF Kill, files, history
<1>18. CASE \E p \in Pids : VmExits(p)
  BY <1>18 DEF VmExits, files, history
<1> QED
  BY <1>0, <1>1, <1>2, <1>3, <1>4, <1>5, <1>6, <1>7, <1>8, <1>9,
     <1>10, <1>11, <1>12, <1>13, <1>14, <1>15, <1>16, <1>17, <1>18, Actions

LEMMA StateKnownStep ==
    ASSUME TypeOK, HoldsPid, ~Overlap, ~Rerun, OneAtATime, LaunchersFile, ReadsPid, LaunchedVm, UpBeforeState, StateKnown, [Next]_vars
    PROVE  StateKnown'
<1> USE DEF TypeOK, Commands, Running, Idle, HoldsPid, OneAtATime, LaunchersFile, ReadsPid, LaunchedVm, StateKnown, Alive, Exited, PidFiles, Backends
<1>0. CASE UNCHANGED vars
  BY <1>0 DEF vars, files, history
<1>1. CASE \E c \in Cmds : \/ \E b \in Backends, e \in Endpoints : StartUp(c, b, e)
                           \/ \E e \in Ports : StartBoot(c, e) \/ StartStart(c, e)
  <2>1. PICK c \in Cmds : \/ \E b \in Backends, e \in Endpoints : StartUp(c, b, e)
                          \/ \E e \in Ports : StartBoot(c, e) \/ StartStart(c, e)
    BY <1>1
  <2> HIDE DEF Backends
  <2>2. /\ UNCHANGED <<vms, pidFile, vmState, marred>>
        /\ ~Running(c) /\ \A d \in Cmds \ {c} : cmd'[d] = cmd[d]
    BY <2>1, StartEffect
  <2> QED
    BY <2>2, StateKept
<1>2. CASE \E c \in Cmds : StartDown(c) \/ StartStop(c) \/ StartSsh(c)
  BY <1>2 DEF StartDown, StartStop, StartSsh, MayStart, New, files, history
<1>3. CASE \E c \in Cmds, p \in Pids, refused \in BOOLEAN : LaunchQemu(c, p, refused)
  BY <1>3 DEF LaunchQemu, Step, files, history
<1>4. CASE \E c \in Cmds, p \in Pids : LaunchVfkit(c, p)
  BY <1>4 DEF LaunchVfkit, Step, files, history
<1>5. CASE \E c \in Cmds : Ready(c) \/ CtrlC(c) \/ FindPid(c) \/ Gone(c)
  BY <1>5 DEF Ready, CtrlC, FindPid, Gone, Step, files, history
<1>6. CASE \E c \in Cmds : LaunchFails(c) \/ ConsoleCloses(c) \/ SshFails(c) \/ Probe(c)
  <2>1. PICK c \in Cmds : LaunchFails(c) \/ ConsoleCloses(c) \/ SshFails(c) \/ Probe(c)
    BY <1>6
  <2>2. /\ UNCHANGED <<vms, pidFile, vmState, marred>>
        /\ cmd[c].kind # "down"
    BY <2>1 DEF LaunchFails, ConsoleCloses, SshFails, Probe, files, history, Launchers
  <2>3. \A d \in Cmds \ {c} : cmd'[d] = cmd[d]
    BY <2>1, EndedEffect DEF LaunchFails, ConsoleCloses, SshFails, Probe
  <2> QED
    BY <2>2, <2>3, StateKept
<1>7. CASE \E c \in Cmds : WritePid(c)
  BY <1>7 DEF WritePid, Step, files, history
<1>8. CASE \E c \in Cmds : WriteState(c)
  <2>1. PICK c \in Cmds : WriteState(c)
    BY <1>8
  <2>2. /\ vmState' = [backend |-> cmd[c].backend, endpoint |-> cmd[c].endpoint]
        /\ UNCHANGED <<vms, pidFile>> /\ cmd[c].kind = "up" /\ cmd[c].pc = "state"
    BY <2>1 DEF WriteState
  <2>3. pidFile[cmd[c].backend] = cmd[c].pid /\ cmd[c].pid \in Pids
    BY <2>2
  <2>4. Alive(cmd[c].pid) => vms[cmd[c].pid].endpoint = cmd[c].endpoint
    BY <2>2
  <2>5. cmd[c].pid # NoPid
    BY <2>3, ConstantsAssumption
  <2> QED
    BY <2>2, <2>3, <2>4, <2>5
<1>9. CASE \E c \in Cmds : UpFails(c) \/ Shutdown(c)
  <2>1. PICK c \in Cmds : UpFails(c) \/ Shutdown(c)
    BY <1>9
  <2> HIDE DEF Alive, Running
  <2> QED
    BY <2>1, KillEffect, StateKept
<1>10. CASE \E c \in Cmds : StartFails(c)
  BY <1>10, EndedEffect DEF StartFails, files, history
<1>11. CASE \E c \in Cmds : FindNoPid(c)
  <2>1. PICK c \in Cmds : FindNoPid(c)
    BY <1>11
  <2>2. UNCHANGED <<vms, pidFile, vmState, marred>>
    BY <2>1 DEF FindNoPid, files, history
  <2>3. cmd[c].kind = "down" /\ Running(c) /\ cmd[c].stopped =>
            cmd'[c].kind = "down" /\ Running(c)' /\ cmd'[c].stopped
    BY <2>1, NextFileMore DEF FindNoPid
  <2>4. \A d \in Cmds \ {c} : cmd'[d] = cmd[d]
    BY <2>1, NextFileMore DEF FindNoPid
  <2>5. \A p \in Pids : Alive(p)' => Alive(p) /\ vms'[p].endpoint = vms[p].endpoint
    BY <2>2
  <2>6. \A d \in Cmds : cmd[d].kind = "down" /\ Running(d) /\ cmd[d].stopped =>
            cmd'[d].kind = "down" /\ Running(d)' /\ cmd'[d].stopped
    BY <2>3, <2>4
  <2> HIDE DEF Alive, Running
  <2> QED
    BY <2>2, <2>5, <2>6, StateKept
<1>12. CASE \E c \in Cmds : ReadPid(c)
  <2>1. PICK c \in Cmds : ReadPid(c)
    BY <1>12
  <2>2. cmd[c].kind = "down" => cmd'[c].pc = "poll" /\ cmd'[c].stopped = cmd[c].stopped
    BY <2>1, ReadEffect DEF ReadPid
  <2>3. cmd'[c].pc = "poll" => Running(c)'
    OBVIOUS
  <2> HIDE DEF Alive, Running
  <2> QED
    BY <2>1, <2>2, <2>3, ReadEffect, StateKept
<1>13. CASE \E c \in Cmds : PollExpires(c)
  BY <1>13 DEF PollExpires, Step, files, history
<1>14. CASE \E c \in Cmds : Unlink(c)
  <2>1. PICK c \in Cmds : Unlink(c)
    BY <1>14
  <2>2. CASE cmd[c].kind = "stop"
    <3>1. cmd[c].file = "start"
      BY <2>1, <2>2, UnlinkFiles
    <3>2. \A b \in Backends : pidFile'[b] = pidFile[b]
      BY <2>1, <3>1, UnlinkFiles
    <3> HIDE DEF Alive, Running
    <3> QED
      BY <2>1, <2>2, <3>2, UnlinkFiles, UnlinkMore, StateKept DEF Alive
  <2>3. CASE cmd[c].kind # "stop"
    BY <2>1, <2>3, UnlinkMore
  <2> QED
    BY <2>2, <2>3
<1>15. CASE \E c \in Cmds : CleanUp(c)
  BY <1>15, EndedEffect DEF CleanUp, files, history
<1>16. CASE \E c \in Cmds, p \in Pids : Connect(c, p)
  BY <1>16 DEF Connect, files, history
<1>17. CASE \E c \in Cmds : Kill(c)
  BY <1>17, EndedEffect DEF Kill, files, history
<1>18. CASE \E p \in Pids : VmExits(p)
  BY <1>18 DEF VmExits, files, history
<1> QED
  BY <1>0, <1>1, <1>2, <1>3, <1>4, <1>5, <1>6, <1>7, <1>8, <1>9,
     <1>10, <1>11, <1>12, <1>13, <1>14, <1>15, <1>16, <1>17, <1>18, Actions

LEMMA EndpointOfBackendStep ==
    ASSUME TypeOK, HoldsPid, EndpointOfBackend, [Next]_vars
    PROVE  EndpointOfBackend'
<1> USE DEF TypeOK, Commands, Running, Idle, EndpointOfBackend, Alive, Exited, Started
<1>0. CASE UNCHANGED vars
  BY <1>0 DEF vars, files, history
<1>1. CASE \E c \in Cmds : \/ \E b \in Backends, e \in Endpoints : StartUp(c, b, e)
                           \/ \E e \in Ports : StartBoot(c, e) \/ StartStart(c, e)
  <2>1. PICK c \in Cmds, b \in Backends, e \in Endpoints :
            /\ \/ StartUp(c, b, e)
               \/ b = "qemu" /\ e \in Ports /\ (StartBoot(c, e) \/ StartStart(c, e))
    BY <1>1 DEF Backends, Endpoints
  <2>2. (b = "vfkit" <=> e = Lease) /\ vms' = vms
    BY <2>1, ConstantsAssumption DEF StartUp, StartBoot, StartStart
  <2>3. cmd'[c].backend = b /\ cmd'[c].endpoint = e /\ \A d \in Cmds \ {c} : cmd'[d] = cmd[d]
    BY <2>1 DEF StartUp, StartBoot, StartStart, New
  <2> QED
    BY <2>2, <2>3
<1>2. CASE \E c \in Cmds : StartDown(c) \/ StartStop(c) \/ StartSsh(c)
  BY <1>2 DEF StartDown, StartStop, StartSsh, MayStart, New, files, history
<1>3. CASE \E c \in Cmds, p \in Pids, refused \in BOOLEAN : LaunchQemu(c, p, refused)
  <2>1. PICK c \in Cmds, p \in Pids, refused \in BOOLEAN : LaunchQemu(c, p, refused)
    BY <1>3
  <2>2. \A d \in Cmds : cmd'[d].pc = "launch" => cmd'[d] = cmd[d]
    BY <2>1 DEF LaunchQemu, Step
  <2>3. cmd[c].backend = "qemu" /\ cmd[c].pc = "launch"
    BY <2>1 DEF LaunchQemu, Step
  <2>4. vms' = [vms EXCEPT ![p] = IF refused THEN Exited("refused") ELSE Started(c)]
    BY <2>1 DEF LaunchQemu
  <2>5. \A q \in Pids : Alive(q)' => (vms'[q].backend = "vfkit" <=> vms'[q].endpoint = Lease)
    BY <2>3, <2>4
  <2> QED
    BY <2>2, <2>5
<1>4. CASE \E c \in Cmds, p \in Pids : LaunchVfkit(c, p)
  BY <1>4 DEF LaunchVfkit, Step, files, history
<1>5. CASE \E c \in Cmds : Ready(c) \/ CtrlC(c) \/ FindPid(c) \/ Gone(c)
  <2>1. PICK c \in Cmds : Ready(c) \/ CtrlC(c) \/ FindPid(c) \/ Gone(c)
    BY <1>5
  <2>2. /\ vms' = vms /\ cmd'[c].pc # "launch"
        /\ \A d \in Cmds \ {c} : cmd'[d] = cmd[d]
    BY <2>1, MoveEffect
  <2> QED
    BY <2>2
<1>6. CASE \E c \in Cmds : LaunchFails(c) \/ ConsoleCloses(c) \/ SshFails(c) \/ Probe(c)
  BY <1>6, EndedEffect DEF LaunchFails, ConsoleCloses, SshFails, Probe, files, history
<1>7. CASE \E c \in Cmds : WritePid(c)
  <2>1. PICK c \in Cmds : WritePid(c)
    BY <1>7
  <2>2. /\ vms' = vms /\ cmd'[c].pc # "launch"
        /\ \A d \in Cmds \ {c} : cmd'[d] = cmd[d]
    BY <2>1, MoveEffect
  <2> QED
    BY <2>2
<1>8. CASE \E c \in Cmds : WriteState(c)
  BY <1>8 DEF WriteState, files, history
<1>9. CASE \E c \in Cmds : UpFails(c) \/ Shutdown(c)
  <2>1. PICK c \in Cmds : UpFails(c) \/ Shutdown(c)
    BY <1>9
  <2>2. \A d \in Cmds : cmd'[d].pc = "launch" => cmd'[d] = cmd[d]
    BY <2>1, KillEffect
  <2>3. \A p \in Pids : Alive(p)' => vms'[p] = vms[p] /\ Alive(p)
    BY <2>1, KillEffect
  <2> HIDE DEF Alive, Running
  <2> QED
    BY <2>2, <2>3
<1>10. CASE \E c \in Cmds : StartFails(c)
  BY <1>10, EndedEffect DEF StartFails, files, history
<1>11. CASE \E c \in Cmds : FindNoPid(c)
  BY <1>11, EndedEffect, NextFileMore DEF FindNoPid, files, history
<1>12. CASE \E c \in Cmds : ReadPid(c)
  <2>1. PICK c \in Cmds : ReadPid(c)
    BY <1>12
  <2>2. \A d \in Cmds : cmd'[d].pc = "launch" => cmd'[d] = cmd[d]
    BY <2>1, ReadEffect
  <2> HIDE DEF Alive, Running
  <2> QED
    BY <2>1, <2>2, ReadEffect
<1>13. CASE \E c \in Cmds : PollExpires(c)
  BY <1>13 DEF PollExpires, Step, files, history
<1>14. CASE \E c \in Cmds : Unlink(c)
  <2>1. PICK c \in Cmds : Unlink(c)
    BY <1>14
  <2> QED
    BY <2>1, UnlinkMore, UnlinkFiles
<1>15. CASE \E c \in Cmds : CleanUp(c)
  BY <1>15, EndedEffect DEF CleanUp, files, history
<1>16. CASE \E c \in Cmds, p \in Pids : Connect(c, p)
  BY <1>16 DEF Connect, files, history
<1>17. CASE \E c \in Cmds : Kill(c)
  BY <1>17, EndedEffect DEF Kill, files, history
<1>18. CASE \E p \in Pids : VmExits(p)
  BY <1>18 DEF VmExits, files, history
<1> QED
  BY <1>0, <1>1, <1>2, <1>3, <1>4, <1>5, <1>6, <1>7, <1>8, <1>9,
     <1>10, <1>11, <1>12, <1>13, <1>14, <1>15, <1>16, <1>17, <1>18, Actions

LEMMA PortsApartStep ==
    ASSUME TypeOK, EndpointOfBackend, PortsApart, [Next]_vars
    PROVE  PortsApart'
<1> USE DEF TypeOK, Commands, Running, Idle, EndpointOfBackend, PortsApart, Alive, Exited, Started
<1>0. CASE UNCHANGED vars
  BY <1>0 DEF vars, files, history
<1>1. CASE \E c \in Cmds : \/ \E b \in Backends, e \in Endpoints : StartUp(c, b, e)
                           \/ \E e \in Ports : StartBoot(c, e) \/ StartStart(c, e)
  BY <1>1 DEF StartUp, StartBoot, StartStart, MayStart, New, files, history
<1>2. CASE \E c \in Cmds : StartDown(c) \/ StartStop(c) \/ StartSsh(c)
  BY <1>2 DEF StartDown, StartStop, StartSsh, MayStart, New, files, history
<1>3. CASE \E c \in Cmds, p \in Pids, refused \in BOOLEAN : LaunchQemu(c, p, refused)
  <2>1. PICK c \in Cmds, p \in Pids, refused \in BOOLEAN : LaunchQemu(c, p, refused)
    BY <1>3
  <2>2. CASE refused
    BY <2>1, <2>2 DEF LaunchQemu
  <2>3. CASE ~refused
    <3>1. vms' = [vms EXCEPT ![p] = Started(c)] /\ ~PortTaken(cmd[c].endpoint)
      BY <2>1, <2>3 DEF LaunchQemu
    <3>2. \A q \in Pids \ {p} : vms'[q] = vms[q]
      BY <3>1
    <3>3. vms'[p].endpoint = cmd[c].endpoint
      BY <3>1
    <3> QED
      BY <3>1, <3>2, <3>3 DEF PortTaken
  <2> QED
    BY <2>2, <2>3
<1>4. CASE \E c \in Cmds, p \in Pids : LaunchVfkit(c, p)
  BY <1>4 DEF LaunchVfkit, Step, files, history
<1>5. CASE \E c \in Cmds : Ready(c) \/ CtrlC(c) \/ FindPid(c) \/ Gone(c)
  BY <1>5 DEF Ready, CtrlC, FindPid, Gone, Step, files, history
<1>6. CASE \E c \in Cmds : LaunchFails(c) \/ ConsoleCloses(c) \/ SshFails(c) \/ Probe(c)
  BY <1>6, EndedEffect DEF LaunchFails, ConsoleCloses, SshFails, Probe, files, history
<1>7. CASE \E c \in Cmds : WritePid(c)
  BY <1>7 DEF WritePid, Step, files, history
<1>8. CASE \E c \in Cmds : WriteState(c)
  BY <1>8 DEF WriteState, files, history
<1>9. CASE \E c \in Cmds : UpFails(c) \/ Shutdown(c)
  <2>1. PICK c \in Cmds : UpFails(c) \/ Shutdown(c)
    BY <1>9
  <2> QED
    BY <2>1, KillEffect
<1>10. CASE \E c \in Cmds : StartFails(c)
  BY <1>10, EndedEffect DEF StartFails, files, history
<1>11. CASE \E c \in Cmds : FindNoPid(c)
  BY <1>11, EndedEffect, NextFileMore DEF FindNoPid, files, history
<1>12. CASE \E c \in Cmds : ReadPid(c)
  <2>1. PICK c \in Cmds : ReadPid(c)
    BY <1>12
  <2> QED
    BY <2>1, ReadEffect
<1>13. CASE \E c \in Cmds : PollExpires(c)
  BY <1>13 DEF PollExpires, Step, files, history
<1>14. CASE \E c \in Cmds : Unlink(c)
  <2>1. PICK c \in Cmds : Unlink(c)
    BY <1>14
  <2> QED
    BY <2>1, UnlinkMore, UnlinkFiles
<1>15. CASE \E c \in Cmds : CleanUp(c)
  BY <1>15, EndedEffect DEF CleanUp, files, history
<1>16. CASE \E c \in Cmds, p \in Pids : Connect(c, p)
  BY <1>16 DEF Connect, files, history
<1>17. CASE \E c \in Cmds : Kill(c)
  BY <1>17, EndedEffect DEF Kill, files, history
<1>18. CASE \E p \in Pids : VmExits(p)
  BY <1>18 DEF VmExits, files, history
<1> QED
  BY <1>0, <1>1, <1>2, <1>3, <1>4, <1>5, <1>6, <1>7, <1>8, <1>9,
     <1>10, <1>11, <1>12, <1>13, <1>14, <1>15, <1>16, <1>17, <1>18, Actions

LEMMA FileOfBackendStep ==
    ASSUME TypeOK, HoldsPid, LaunchersFile, LaunchedVm, ReadsPid, FileOfBackend, [Next]_vars
    PROVE  FileOfBackend'
<1> USE DEF TypeOK, Commands, Running, Idle, HoldsPid, LaunchersFile, LaunchedVm, FileOfBackend, Alive, Exited, Started, Forgotten, Filed, PidFiles, Backends
<1>0. CASE UNCHANGED vars
  BY <1>0 DEF vars, files, history
<1>1. CASE \E c \in Cmds : \/ \E b \in Backends, e \in Endpoints : StartUp(c, b, e)
                           \/ \E e \in Ports : StartBoot(c, e) \/ StartStart(c, e)
  BY <1>1 DEF StartUp, StartBoot, StartStart, MayStart, New, files, history
<1>2. CASE \E c \in Cmds : StartDown(c) \/ StartStop(c) \/ StartSsh(c)
  <2>1. PICK c \in Cmds : StartDown(c) \/ StartStop(c) \/ StartSsh(c)
    BY <1>2
  <2>2. vms' = vms /\ pidFile' = pidFile
    BY <2>1 DEF StartDown, StartStop, StartSsh, files
  <2>3. \A d \in Cmds : cmd'[d].kind = "start" /\ Running(d)' =>
                            cmd[d].kind = "start" /\ Running(d) /\ cmd'[d].backend = cmd[d].backend
    BY <2>1 DEF StartDown, StartStop, StartSsh, MayStart, New
  <2> QED
    BY <2>2, <2>3
<1>3. CASE \E c \in Cmds, p \in Pids, refused \in BOOLEAN : LaunchQemu(c, p, refused)
  BY <1>3 DEF LaunchQemu, Step, files, history
<1>4. CASE \E c \in Cmds, p \in Pids : LaunchVfkit(c, p)
  BY <1>4 DEF LaunchVfkit, Step, files, history
<1>5. CASE \E c \in Cmds : Ready(c) \/ CtrlC(c) \/ FindPid(c) \/ Gone(c)
  <2>1. PICK c \in Cmds : Ready(c) \/ CtrlC(c) \/ FindPid(c) \/ Gone(c)
    BY <1>5
  <2>2. vms' = vms /\ pidFile' = pidFile
    BY <2>1 DEF Ready, CtrlC, FindPid, Gone, files
  <2>3. \A d \in Cmds : cmd'[d].kind = "start" /\ Running(d)' =>
                            cmd[d].kind = "start" /\ Running(d) /\ cmd'[d].backend = cmd[d].backend
    BY <2>1, MoveEffect
  <2> QED
    BY <2>2, <2>3
<1>6. CASE \E c \in Cmds : LaunchFails(c) \/ ConsoleCloses(c) \/ SshFails(c) \/ Probe(c)
  BY <1>6, EndedEffect DEF LaunchFails, ConsoleCloses, SshFails, Probe, files, history
<1>7. CASE \E c \in Cmds : WritePid(c)
  <2>1. PICK c \in Cmds : WritePid(c)
    BY <1>7
  <2>2. /\ vms' = vms /\ pidFile' = [pidFile EXCEPT ![cmd[c].file] = cmd[c].pid]
        /\ cmd[c].kind \in {"up", "start"} /\ cmd[c].pc = "pid"
    BY <2>1 DEF WritePid, Step
  <2>3. \A d \in Cmds : cmd'[d].kind = "start" /\ Running(d)' =>
                            cmd[d].kind = "start" /\ Running(d) /\ cmd'[d].backend = cmd[d].backend
    BY <2>1, MoveEffect
  <2> QED
    BY <2>2, <2>3
<1>8. CASE \E c \in Cmds : WriteState(c)
  BY <1>8 DEF WriteState, files, history
<1>9. CASE \E c \in Cmds : UpFails(c) \/ Shutdown(c)
  <2>1. PICK c \in Cmds : UpFails(c) \/ Shutdown(c)
    BY <1>9
  <2> QED
    BY <2>1, KillEffect
<1>10. CASE \E c \in Cmds : StartFails(c)
  BY <1>10, EndedEffect DEF StartFails, files, history
<1>11. CASE \E c \in Cmds : FindNoPid(c)
  BY <1>11, EndedEffect, NextFileMore DEF FindNoPid, files, history
<1>12. CASE \E c \in Cmds : ReadPid(c)
  <2>1. PICK c \in Cmds : ReadPid(c)
    BY <1>12
  <2> QED
    BY <2>1, ReadEffect
<1>13. CASE \E c \in Cmds : PollExpires(c)
  BY <1>13 DEF PollExpires, Step, files, history
<1>14. CASE \E c \in Cmds : Unlink(c)
  <2>1. PICK c \in Cmds : Unlink(c)
    BY <1>14
  <2> QED
    BY <2>1, UnlinkMore, UnlinkFiles
<1>15. CASE \E c \in Cmds : CleanUp(c)
  BY <1>15, EndedEffect DEF CleanUp, files, history
<1>16. CASE \E c \in Cmds, p \in Pids : Connect(c, p)
  BY <1>16 DEF Connect, files, history
<1>17. CASE \E c \in Cmds : Kill(c)
  BY <1>17, EndedEffect DEF Kill, files, history
<1>18. CASE \E p \in Pids : VmExits(p)
  BY <1>18 DEF VmExits, files, history
<1> QED
  BY <1>0, <1>1, <1>2, <1>3, <1>4, <1>5, <1>6, <1>7, <1>8, <1>9,
     <1>10, <1>11, <1>12, <1>13, <1>14, <1>15, <1>16, <1>17, <1>18, Actions

LEMMA AliveKnownStep ==
    ASSUME TypeOK, HoldsPid, ~Overlap, ~Rerun, OneAtATime, LaunchersFile, StoppedVm, AliveKnown, [Next]_vars
    PROVE  AliveKnown'
<1> USE DEF TypeOK, Commands, Running, Idle, HoldsPid, OneAtATime, LaunchersFile, StoppedVm, AliveKnown, Quiet, Launchers, Alive, Forgotten, Exited, Owned, Filed
<1>0. CASE UNCHANGED vars
  BY <1>0 DEF vars, files, history
<1>1. CASE \E c \in Cmds : \/ \E b \in Backends, e \in Endpoints : StartUp(c, b, e)
                           \/ \E e \in Ports : StartBoot(c, e) \/ StartStart(c, e)
  BY <1>1 DEF StartUp, StartBoot, StartStart, MayStart, New, files, history
<1>2. CASE \E c \in Cmds : StartDown(c) \/ StartStop(c) \/ StartSsh(c)
  BY <1>2 DEF StartDown, StartStop, StartSsh, MayStart, New, files, history
<1>3. CASE \E c \in Cmds, p \in Pids, refused \in BOOLEAN : LaunchQemu(c, p, refused)
  BY <1>3 DEF LaunchQemu, Step, files, history
<1>4. CASE \E c \in Cmds, p \in Pids : LaunchVfkit(c, p)
  BY <1>4 DEF LaunchVfkit, Step, files, history
<1>5. CASE \E c \in Cmds : Ready(c) \/ CtrlC(c) \/ FindPid(c) \/ Gone(c)
  <2>1. PICK c \in Cmds : Ready(c) \/ CtrlC(c) \/ FindPid(c) \/ Gone(c)
    BY <1>5
  <2>2. /\ vms' = vms /\ pidFile' = pidFile /\ lost' = lost
        /\ \A d \in Cmds \ {c} : cmd'[d] = cmd[d]
        /\ Running(c) /\ Running(c)' /\ cmd'[c].kind = cmd[c].kind /\ cmd'[c].pid = cmd[c].pid
        /\ cmd'[c].pc = "unlink" => ~Alive(cmd[c].pid)
    BY <2>1, MoveEffect
  <2> HIDE DEF Alive
  <2>3. \A p \in Pids : /\ Alive(p)' <=> Alive(p)
                        /\ Filed(p)' <=> Filed(p)
                        /\ Owned(p) => Owned(p)'
    BY <2>2 DEF Alive
  <2> HIDE DEF Owned, Filed
  <2>4. \A p \in Pids : Alive(p)' => Filed(p)' \/ Owned(p)' \/ p \in lost'
    BY <2>2, <2>3
  <2>5. \A d \in Cmds : (cmd[d].pc = "unlink" => ~Alive(cmd[d].pid) \/ cmd[d].pid \in lost)'
    BY <2>2 DEF Alive
  <2> QED
    BY <2>4, <2>5
<1>6. CASE \E c \in Cmds : LaunchFails(c) \/ ConsoleCloses(c) \/ SshFails(c) \/ Probe(c)
  <2>1. PICK c \in Cmds : LaunchFails(c) \/ ConsoleCloses(c) \/ SshFails(c) \/ Probe(c)
    BY <1>6
  <2>2. /\ \A d \in Cmds \ {c} : cmd'[d] = cmd[d]
        /\ cmd'[c].pc = Idle
    BY <2>1, EndedEffect DEF LaunchFails, ConsoleCloses, SshFails, Probe
  <2>3. vms' = vms /\ pidFile' = pidFile /\ lost' = lost
    BY <2>1 DEF LaunchFails, ConsoleCloses, SshFails, Probe, files, history
  <2>4. \A p \in Pids : Alive(p) /\ cmd[c].kind \in Launchers /\ cmd[c].pid = p => Filed(p)
    BY <2>1, <2>3, ConstantsAssumption DEF LaunchFails, ConsoleCloses, SshFails, Probe
  <2> QED
    BY <2>2, <2>3, <2>4
<1>7. CASE \E c \in Cmds : WritePid(c)
  <2>1. PICK c \in Cmds : WritePid(c)
    BY <1>7
  <2>2. vms' = vms /\ lost' = lost
    BY <2>1 DEF WritePid, history
  <2>3. \A d \in Cmds : /\ Running(d) => Running(d)'
                        /\ cmd'[d].kind = cmd[d].kind /\ cmd'[d].pid = cmd[d].pid
                        /\ cmd'[d].pc = "unlink" => cmd[d].pc = "unlink"
    BY <2>1 DEF WritePid, Step
  <2>4. \A p \in Pids : Filed(p) => Filed(p)'
    BY <2>1, ConstantsAssumption DEF WritePid, Step
  <2>5. \A p \in Pids : Owned(p) => Owned(p)'
    BY <2>3
  <2>6. \A p \in Pids : Alive(p)' <=> Alive(p)
    BY <2>2
  <2> HIDE DEF Alive, Owned, Filed
  <2>7. \A p \in Pids : Alive(p)' => Filed(p)' \/ Owned(p)' \/ p \in lost'
    BY <2>2, <2>4, <2>5, <2>6
  <2>8. \A d \in Cmds : (cmd[d].pc = "unlink" => ~Alive(cmd[d].pid) \/ cmd[d].pid \in lost)'
    BY <2>2, <2>3 DEF Alive
  <2> QED
    BY <2>7, <2>8
<1>8. CASE \E c \in Cmds : WriteState(c)
  <2>1. PICK c \in Cmds : WriteState(c)
    BY <1>8
  <2>2. /\ vms' = vms /\ pidFile' = pidFile /\ lost' = lost
        /\ cmd'[c].pc = Idle /\ \A d \in Cmds \ {c} : cmd'[d] = cmd[d]
    BY <2>1 DEF WriteState, history
  <2>3. Filed(cmd[c].pid)
    BY <2>1 DEF WriteState
  <2> HIDE DEF Alive
  <2>4. \A p \in Pids : /\ Alive(p)' <=> Alive(p)
                        /\ Filed(p)' <=> Filed(p)
                        /\ Owned(p) => Owned(p)' \/ Filed(p)
    BY <2>2, <2>3 DEF Alive
  <2> HIDE DEF Owned, Filed
  <2>5. \A p \in Pids : Alive(p)' => Filed(p)' \/ Owned(p)' \/ p \in lost'
    BY <2>2, <2>4
  <2>6. \A d \in Cmds : (cmd[d].pc = "unlink" => ~Alive(cmd[d].pid) \/ cmd[d].pid \in lost)'
    BY <2>2 DEF Alive
  <2> QED
    BY <2>5, <2>6
<1>9. CASE \E c \in Cmds : UpFails(c) \/ Shutdown(c)
  <2>1. PICK c \in Cmds : UpFails(c) \/ Shutdown(c)
    BY <1>9
  <2>2. \A d \in Cmds \ {c} : cmd'[d] = cmd[d]
    BY <2>1, KillEffect
  <2>3. \A p \in Pids : Alive(p)' => Alive(p) /\ p # cmd[c].pid
    BY <2>1, KillEffect
  <2>4. UNCHANGED <<pidFile, lost>> /\ cmd'[c].pc = Idle
    BY <2>1, KillEffect
  <2> HIDE DEF Alive
  <2> QED
    BY <2>2, <2>3, <2>4
<1>10. CASE \E c \in Cmds : StartFails(c)
  <2>1. PICK c \in Cmds : StartFails(c)
    BY <1>10
  <2>2. (\A d \in Cmds \ {c} : cmd'[d] = cmd[d]) /\ cmd'[c].pc = Idle
    BY <2>1, EndedEffect DEF StartFails
  <2>3. vms' = vms /\ pidFile' = pidFile /\ lost' = lost \cup {q \in {cmd[c].pid} : Alive(q)}
    BY <2>1 DEF StartFails, files
  <2>4. \A p \in Pids : (Alive(p)' <=> Alive(p)) /\ (Filed(p)' <=> Filed(p))
    BY <2>3
  <2>5. \A p \in Pids : Alive(p) /\ Owned(p) => Owned(p)' \/ p \in lost'
    BY <2>2, <2>3
  <2> HIDE DEF Alive, Owned, Filed
  <2>6. \A p \in Pids : Alive(p)' => Filed(p)' \/ Owned(p)' \/ p \in lost'
    BY <2>3, <2>4, <2>5
  <2>7. \A d \in Cmds : (cmd[d].pc = "unlink" => ~Alive(cmd[d].pid) \/ cmd[d].pid \in lost)'
    BY <2>2, <2>3 DEF Alive
  <2> QED
    BY <2>6, <2>7
<1>11. CASE \E c \in Cmds : FindNoPid(c)
  <2>1. PICK c \in Cmds : FindNoPid(c)
    BY <1>11
  <2>2. /\ pidFile' = pidFile /\ lost' = lost /\ cmd[c].kind \notin Launchers
        /\ \A p \in Pids : Alive(p)' <=> Alive(p)
        /\ \A d \in Cmds \ {c} : cmd'[d] = cmd[d]
        /\ cmd'[c].pc # "unlink"
    BY <2>1, FindNoPidEffect
  <2> HIDE DEF Alive
  <2>3. \A p \in Pids : (Filed(p)' <=> Filed(p)) /\ (Owned(p) => Owned(p)')
    BY <2>2
  <2> HIDE DEF Owned, Filed
  <2>4. \A p \in Pids : Alive(p)' => Filed(p)' \/ Owned(p)' \/ p \in lost'
    BY <2>2, <2>3
  <2>5. \A d \in Cmds : cmd'[d].pc = "unlink" => d # c /\ cmd[d].pc = "unlink" /\ cmd'[d].pid = cmd[d].pid
    BY <2>2
  <2>6. \A d \in Cmds : cmd[d].pc = "unlink" => cmd[d].pid \in Pids
    OBVIOUS
  <2>7. \A d \in Cmds : (cmd[d].pc = "unlink" => ~Alive(cmd[d].pid) \/ cmd[d].pid \in lost)'
    BY <2>2, <2>5, <2>6 
  <2> QED
    BY <2>4, <2>7
<1>12. CASE \E c \in Cmds : ReadPid(c)
  <2>1. PICK c \in Cmds : ReadPid(c)
    BY <1>12
  <2>2. /\ pidFile' = pidFile /\ lost' = lost /\ cmd[c].kind \notin Launchers
        /\ \A p \in Pids : Alive(p)' <=> Alive(p)
        /\ \A d \in Cmds \ {c} : cmd'[d] = cmd[d]
        /\ cmd'[c].pc # "unlink"
    BY <2>1, ReadEffect
  <2> HIDE DEF Alive
  <2>3. \A p \in Pids : (Filed(p)' <=> Filed(p)) /\ (Owned(p) => Owned(p)')
    BY <2>2
  <2> HIDE DEF Owned, Filed
  <2>4. \A p \in Pids : Alive(p)' => Filed(p)' \/ Owned(p)' \/ p \in lost'
    BY <2>2, <2>3
  <2>5. \A d \in Cmds : cmd'[d].pc = "unlink" => d # c /\ cmd[d].pc = "unlink" /\ cmd'[d].pid = cmd[d].pid
    BY <2>2
  <2>6. \A d \in Cmds : cmd[d].pc = "unlink" => cmd[d].pid \in Pids
    OBVIOUS
  <2>7. \A d \in Cmds : (cmd[d].pc = "unlink" => ~Alive(cmd[d].pid) \/ cmd[d].pid \in lost)'
    BY <2>2, <2>5, <2>6 
  <2> QED
    BY <2>4, <2>7
<1>13. CASE \E c \in Cmds : PollExpires(c)
  <2>1. PICK c \in Cmds : PollExpires(c)
    BY <1>13
  <2>2. vms' = vms /\ pidFile' = pidFile /\ lost' = lost \cup {cmd[c].pid}
    BY <2>1 DEF PollExpires, files
  <2>3. \A d \in Cmds : /\ Running(d) => Running(d)'
                        /\ cmd'[d].kind = cmd[d].kind /\ cmd'[d].pid = cmd[d].pid
                        /\ cmd'[d].pc = "unlink" => d = c \/ cmd[d].pc = "unlink"
    BY <2>1 DEF PollExpires, Step
  <2>4. \A p \in Pids : /\ Alive(p)' <=> Alive(p)
                        /\ Filed(p)' <=> Filed(p)
                        /\ Owned(p) => Owned(p)'
    BY <2>2, <2>3
  <2> HIDE DEF Alive, Owned, Filed
  <2>5. \A p \in Pids : Alive(p)' => Filed(p)' \/ Owned(p)' \/ p \in lost'
    BY <2>2, <2>4
  <2>6. \A d \in Cmds : (cmd[d].pc = "unlink" => ~Alive(cmd[d].pid) \/ cmd[d].pid \in lost)'
    BY <2>2, <2>3 DEF Alive
  <2> QED
    BY <2>5, <2>6
<1>14. CASE \E c \in Cmds : Unlink(c)
  <2>1. PICK c \in Cmds : Unlink(c)
    BY <1>14
  <2>2. vms' = vms /\ lost' = lost /\ \A d \in Cmds \ {c} : cmd'[d] = cmd[d]
    BY <2>1, UnlinkFiles, UnlinkMore
  <2>3. cmd'[c].pc # "unlink" /\ cmd[c].kind \notin Launchers
    BY <2>1, UnlinkMore DEF Unlink
  <2>4. pidFile[cmd[c].file] = cmd[c].pid /\ cmd[c].pc = "unlink"
    BY <2>1 DEF Unlink
  <2>5. \A p \in Pids : Alive(p) /\ p \notin lost => pidFile[cmd[c].file] # p
    BY <2>4
  <2>6. \A p \in Pids : Alive(p) /\ p \notin lost /\ Filed(p) => Filed(p)'
    BY <2>1, <2>5, UnlinkFiles
  <2>7. \A p \in Pids : Owned(p) => Owned(p)'
    BY <2>2, <2>3
  <2>8. \A p \in Pids : Alive(p)' <=> Alive(p)
    BY <2>2
  <2> HIDE DEF Alive, Owned, Filed
  <2>9. \A p \in Pids : Alive(p)' => Filed(p)' \/ Owned(p)' \/ p \in lost'
    BY <2>2, <2>6, <2>7, <2>8
  <2>10. \A d \in Cmds : (cmd[d].pc = "unlink" => ~Alive(cmd[d].pid) \/ cmd[d].pid \in lost)'
    BY <2>2, <2>3 DEF Alive
  <2> QED
    BY <2>9, <2>10
<1>15. CASE \E c \in Cmds : CleanUp(c)
  <2>1. PICK c \in Cmds : CleanUp(c)
    BY <1>15
  <2>2. /\ pidFile' = pidFile /\ lost' = lost /\ cmd[c].kind \notin Launchers
        /\ \A p \in Pids : Alive(p)' <=> Alive(p)
        /\ \A d \in Cmds \ {c} : cmd'[d] = cmd[d]
        /\ cmd'[c].pc # "unlink"
    BY <2>1, CleanEffect
  <2> HIDE DEF Alive
  <2>3. \A p \in Pids : (Filed(p)' <=> Filed(p)) /\ (Owned(p) => Owned(p)')
    BY <2>2
  <2> HIDE DEF Owned, Filed
  <2>4. \A p \in Pids : Alive(p)' => Filed(p)' \/ Owned(p)' \/ p \in lost'
    BY <2>2, <2>3
  <2>5. \A d \in Cmds : cmd'[d].pc = "unlink" => d # c /\ cmd[d].pc = "unlink" /\ cmd'[d].pid = cmd[d].pid
    BY <2>2
  <2>6. \A d \in Cmds : cmd[d].pc = "unlink" => cmd[d].pid \in Pids
    OBVIOUS
  <2>7. \A d \in Cmds : (cmd[d].pc = "unlink" => ~Alive(cmd[d].pid) \/ cmd[d].pid \in lost)'
    BY <2>2, <2>5, <2>6 
  <2> QED
    BY <2>4, <2>7
<1>16. CASE \E c \in Cmds, p \in Pids : Connect(c, p)
  BY <1>16 DEF Connect, files, history
<1>17. CASE \E c \in Cmds : Kill(c)
  BY <1>17, EndedEffect DEF Kill, files, history
<1>18. CASE \E p \in Pids : VmExits(p)
  BY <1>18 DEF VmExits, files, history
<1> QED
  BY <1>0, <1>1, <1>2, <1>3, <1>4, <1>5, <1>6, <1>7, <1>8, <1>9,
     <1>10, <1>11, <1>12, <1>13, <1>14, <1>15, <1>16, <1>17, <1>18, Actions

LEMMA SshKnowsStep ==
    ASSUME TypeOK, HoldsPid, ~Overlap, ~Rerun, OneAtATime, SshKnows, [Next]_vars
    PROVE  SshKnows'
<1> USE DEF TypeOK, Commands, Running, Idle, OneAtATime, SshKnows, Quiet
<1>0. CASE UNCHANGED vars
  BY <1>0 DEF vars, files, history
<1>1. CASE \E c \in Cmds : \/ \E b \in Backends, e \in Endpoints : StartUp(c, b, e)
                           \/ \E e \in Ports : StartBoot(c, e) \/ StartStart(c, e)
  BY <1>1 DEF StartUp, StartBoot, StartStart, MayStart, New, files, history
<1>2. CASE \E c \in Cmds : StartDown(c) \/ StartStop(c) \/ StartSsh(c)
  BY <1>2 DEF StartDown, StartStop, StartSsh, MayStart, New, files, history
<1>3. CASE \E c \in Cmds, p \in Pids, refused \in BOOLEAN : LaunchQemu(c, p, refused)
  BY <1>3 DEF LaunchQemu, Step, files, history
<1>4. CASE \E c \in Cmds, p \in Pids : LaunchVfkit(c, p)
  BY <1>4 DEF LaunchVfkit, Step, files, history
<1>5. CASE \E c \in Cmds : Ready(c) \/ CtrlC(c) \/ FindPid(c) \/ Gone(c)
  BY <1>5 DEF Ready, CtrlC, FindPid, Gone, Step, files, history
<1>6. CASE \E c \in Cmds : LaunchFails(c) \/ ConsoleCloses(c) \/ SshFails(c) \/ Probe(c)
  BY <1>6, EndedEffect DEF LaunchFails, ConsoleCloses, SshFails, Probe, files, history
<1>7. CASE \E c \in Cmds : WritePid(c)
  BY <1>7 DEF WritePid, Step, files, history
<1>8. CASE \E c \in Cmds : WriteState(c)
  BY <1>8 DEF WriteState, files, history
<1>9. CASE \E c \in Cmds : UpFails(c) \/ Shutdown(c)
  <2>1. PICK c \in Cmds : UpFails(c) \/ Shutdown(c)
    BY <1>9
  <2> QED
    BY <2>1, KillEffect
<1>10. CASE \E c \in Cmds : StartFails(c)
  BY <1>10, EndedEffect DEF StartFails, files, history
<1>11. CASE \E c \in Cmds : FindNoPid(c)
  BY <1>11, EndedEffect, NextFileMore DEF FindNoPid, files, history
<1>12. CASE \E c \in Cmds : ReadPid(c)
  <2>1. PICK c \in Cmds : ReadPid(c)
    BY <1>12
  <2> QED
    BY <2>1, ReadEffect
<1>13. CASE \E c \in Cmds : PollExpires(c)
  BY <1>13 DEF PollExpires, Step, files, history
<1>14. CASE \E c \in Cmds : Unlink(c)
  <2>1. PICK c \in Cmds : Unlink(c)
    BY <1>14
  <2> QED
    BY <2>1, UnlinkMore, UnlinkFiles
<1>15. CASE \E c \in Cmds : CleanUp(c)
  BY <1>15, EndedEffect DEF CleanUp, files, history
<1>16. CASE \E c \in Cmds, p \in Pids : Connect(c, p)
  BY <1>16 DEF Connect, files, history
<1>17. CASE \E c \in Cmds : Kill(c)
  BY <1>17, EndedEffect DEF Kill, files, history
<1>18. CASE \E p \in Pids : VmExits(p)
  BY <1>18 DEF VmExits, files, history
<1> QED
  BY <1>0, <1>1, <1>2, <1>3, <1>4, <1>5, <1>6, <1>7, <1>8, <1>9,
     <1>10, <1>11, <1>12, <1>13, <1>14, <1>15, <1>16, <1>17, <1>18, Actions

LEMMA UndecidedStep ==
    ASSUME TypeOK, Undecided, [Next]_vars
    PROVE  Undecided'
<1> USE DEF TypeOK, Commands, Running, Idle, Undecided
<1>0. CASE UNCHANGED vars
  BY <1>0 DEF vars, files, history
<1>1. CASE \E c \in Cmds : \/ \E b \in Backends, e \in Endpoints : StartUp(c, b, e)
                           \/ \E e \in Ports : StartBoot(c, e) \/ StartStart(c, e)
  BY <1>1 DEF StartUp, StartBoot, StartStart, MayStart, New, files, history
<1>2. CASE \E c \in Cmds : StartDown(c) \/ StartStop(c) \/ StartSsh(c)
  BY <1>2 DEF StartDown, StartStop, StartSsh, MayStart, New, files, history
<1>3. CASE \E c \in Cmds, p \in Pids, refused \in BOOLEAN : LaunchQemu(c, p, refused)
  BY <1>3 DEF LaunchQemu, Step, files, history
<1>4. CASE \E c \in Cmds, p \in Pids : LaunchVfkit(c, p)
  BY <1>4 DEF LaunchVfkit, Step, files, history
<1>5. CASE \E c \in Cmds : Ready(c) \/ CtrlC(c) \/ FindPid(c) \/ Gone(c)
  BY <1>5 DEF Ready, CtrlC, FindPid, Gone, Step, files, history
<1>6. CASE \E c \in Cmds : LaunchFails(c) \/ ConsoleCloses(c) \/ SshFails(c) \/ Probe(c)
  BY <1>6, EndedEffect DEF LaunchFails, ConsoleCloses, SshFails, Probe, files, history
<1>7. CASE \E c \in Cmds : WritePid(c)
  <2>1. PICK c \in Cmds : WritePid(c)
    BY <1>7
  <2> QED
    BY <2>1, MoveEffect
<1>8. CASE \E c \in Cmds : WriteState(c)
  BY <1>8 DEF WriteState, files, history
<1>9. CASE \E c \in Cmds : UpFails(c) \/ Shutdown(c)
  <2>1. PICK c \in Cmds : UpFails(c) \/ Shutdown(c)
    BY <1>9
  <2> QED
    BY <2>1, KillEffect
<1>10. CASE \E c \in Cmds : StartFails(c)
  BY <1>10, EndedEffect DEF StartFails, files, history
<1>11. CASE \E c \in Cmds : FindNoPid(c)
  BY <1>11, EndedEffect, NextFileMore DEF FindNoPid, files, history
<1>12. CASE \E c \in Cmds : ReadPid(c)
  <2>1. PICK c \in Cmds : ReadPid(c)
    BY <1>12
  <2> QED
    BY <2>1, ReadEffect
<1>13. CASE \E c \in Cmds : PollExpires(c)
  BY <1>13 DEF PollExpires, Step, files, history
<1>14. CASE \E c \in Cmds : Unlink(c)
  <2>1. PICK c \in Cmds : Unlink(c)
    BY <1>14
  <2> QED
    BY <2>1, UnlinkMore, UnlinkFiles
<1>15. CASE \E c \in Cmds : CleanUp(c)
  BY <1>15, EndedEffect DEF CleanUp, files, history
<1>16. CASE \E c \in Cmds, p \in Pids : Connect(c, p)
  BY <1>16 DEF Connect, files, history
<1>17. CASE \E c \in Cmds : Kill(c)
  BY <1>17, EndedEffect DEF Kill, files, history
<1>18. CASE \E p \in Pids : VmExits(p)
  BY <1>18 DEF VmExits, files, history
<1> QED
  BY <1>0, <1>1, <1>2, <1>3, <1>4, <1>5, <1>6, <1>7, <1>8, <1>9,
     <1>10, <1>11, <1>12, <1>13, <1>14, <1>15, <1>16, <1>17, <1>18, Actions

-----------------------------------------------------------------------------
(* The inductive invariant of StateHasPid and SshReachesUpsVm: a command   *)
(* holds what it launched until a PID file has it, and vm-state.json is    *)
(* written after, and removed by the `down` that removed, the PID file.    *)
StateInv ==
    /\ OneAtATime /\ LaunchersFile /\ StoppedVm
    /\ LaunchedVm /\ ReadsPid /\ UpBeforeState /\ StateKnown
    /\ EndpointOfBackend /\ PortsApart /\ FileOfBackend /\ AliveKnown
    /\ SshKnows /\ Undecided

LEMMA StateInvInit == Init => StateInv
<1> SUFFICES ASSUME Init
             PROVE  StateInv
  OBVIOUS
<1>1. /\ \A c \in Cmds : cmd[c] = New("down", Idle, "qemu", "qemu", Lease)
      /\ \A p \in Pids : ~Alive(p)
      /\ vmState = NoState /\ \A f \in PidFiles : pidFile[f] = NoPid
  BY DEF Init, Alive, Exited
<1>2. OneAtATime /\ LaunchersFile /\ StoppedVm
  BY <1>1 DEF OneAtATime, LaunchersFile, StoppedVm, Running, New, Idle
<1>3. LaunchedVm /\ ReadsPid /\ UpBeforeState /\ StateKnown
  BY <1>1 DEF LaunchedVm, ReadsPid, UpBeforeState, StateKnown, Running, New, Idle
<1>4. EndpointOfBackend /\ PortsApart /\ FileOfBackend /\ AliveKnown
  BY <1>1 DEF EndpointOfBackend, PortsApart, FileOfBackend, AliveKnown, Running, New, Idle
<1>5. SshKnows /\ Undecided
  BY <1>1 DEF SshKnows, Undecided, Running, New, Idle
<1> QED
  BY <1>2, <1>3, <1>4, <1>5 DEF StateInv

LEMMA StateInvStep ==
    ASSUME ~Overlap, ~Rerun, TypeOK, HoldsPid, StateInv, [Next]_vars
    PROVE  StateInv'
<1> USE DEF StateInv
<1>1. (OneAtATime /\ LaunchersFile /\ StoppedVm)'
  BY OneAtATimeStep, LaunchersFileStep, StoppedVmStep
<1>2. (LaunchedVm /\ ReadsPid /\ UpBeforeState /\ StateKnown)'
  BY LaunchedVmStep, ReadsPidStep, UpBeforeStateStep, StateKnownStep
<1>3. (EndpointOfBackend /\ PortsApart /\ FileOfBackend /\ AliveKnown)'
  BY EndpointOfBackendStep, PortsApartStep, FileOfBackendStep, AliveKnownStep
<1>4. (SshKnows /\ Undecided)'
  BY SshKnowsStep, UndecidedStep
<1> QED
  BY <1>1, <1>2, <1>3, <1>4

(* Whatever the commands do and fail at, one after another, the PID files, *)
(* vm-state.json and the VMs that live stay in these relations.            *)
THEOREM StateInvCorrect ==
    ASSUME ~Overlap, ~Rerun
    PROVE  Spec => []StateInv
<1>1. TypeOK /\ HoldsPid /\ StateInv /\ [Next]_vars => StateInv'
  BY StateInvStep
<1> QED
  BY <1>1, StateInvInit, TypeCorrect, PTL DEF Spec

(* Between commands that run one after another, none of which was killed,  *)
(* vm-state.json names a VM with a PID file that `down` will find; whatever*)
(* of `up`, `down`, `start` and `boot` fail or give up half-way, and PID   *)
(* files that could not be removed included (a vm-state.json that could    *)
(* not be is `marred`).                                                    *)
THEOREM StateNamesPid ==
    ASSUME ~Overlap, ~Rerun
    PROVE  Spec => []StateHasPid
<1>1. StateInv => StateHasPid
  BY DEF StateInv, StateKnown, StateHasPid, Quiet
<1> QED
  BY <1>1, StateInvCorrect, PTL

-----------------------------------------------------------------------------
LEMMA EndedResult ==
    ASSUME TypeOK, NEW c \in Cmds, NEW result, cmd' = Ended(c, result)
    PROVE  cmd'[c].result = result
BY DEF TypeOK, Ended, New

(* `ssh` ends well by its connection only.                                 *)
LEMMA SshConnects ==
    ASSUME TypeOK, LaunchersFile, ReadsPid, Undecided, [Next]_vars,
           NEW a \in Cmds, cmd[a].kind = "ssh", Running(a), cmd'[a].result = "ok"
    PROVE  \E p \in Pids : Connect(a, p)
<1> USE DEF TypeOK, Commands, Running, Idle, LaunchersFile, ReadsPid, Undecided, Launchers
<1>0. CASE UNCHANGED vars
  BY <1>0 DEF vars, files, history
<1>1. CASE \E c \in Cmds : \/ \E b \in Backends, e \in Endpoints : StartUp(c, b, e)
                           \/ \E e \in Ports : StartBoot(c, e) \/ StartStart(c, e)
  BY <1>1 DEF StartUp, StartBoot, StartStart, MayStart, New, files, history
<1>2. CASE \E c \in Cmds : StartDown(c) \/ StartStop(c) \/ StartSsh(c)
  <2>1. PICK c \in Cmds : StartDown(c) \/ StartStop(c) \/ StartSsh(c)
    BY <1>2
  <2>2. ~Running(c) /\ \A d \in Cmds \ {c} : cmd'[d] = cmd[d]
    BY <2>1 DEF StartDown, StartStop, StartSsh, MayStart
  <2> QED
    BY <2>2
<1>3. CASE \E c \in Cmds, p \in Pids, refused \in BOOLEAN : LaunchQemu(c, p, refused)
  BY <1>3 DEF LaunchQemu, Step, files, history
<1>4. CASE \E c \in Cmds, p \in Pids : LaunchVfkit(c, p)
  BY <1>4 DEF LaunchVfkit, Step, files, history
<1>5. CASE \E c \in Cmds : Ready(c) \/ CtrlC(c) \/ FindPid(c) \/ Gone(c)
  <2>1. PICK c \in Cmds : Ready(c) \/ CtrlC(c) \/ FindPid(c) \/ Gone(c)
    BY <1>5
  <2> QED
    BY <2>1, MoveEffect
<1>6. CASE \E c \in Cmds : LaunchFails(c) \/ ConsoleCloses(c) \/ SshFails(c) \/ Probe(c)
  <2>1. PICK c \in Cmds : LaunchFails(c) \/ ConsoleCloses(c) \/ SshFails(c) \/ Probe(c)
    BY <1>6
  <2>2. c = a => SshFails(c)
    BY <2>1 DEF LaunchFails, ConsoleCloses, Probe
  <2>3. SshFails(c) => cmd'[c].result = "failed"
    BY EndedResult DEF SshFails
  <2>4. c # a
    BY <2>2, <2>3
  <2>5. cmd'[a] = cmd[a]
    BY <2>1, <2>4, EndEffect
  <2> QED
    BY <2>5
<1>7. CASE \E c \in Cmds : WritePid(c)
  <2>1. PICK c \in Cmds : WritePid(c)
    BY <1>7
  <2> QED
    BY <2>1, MoveEffect
<1>8. CASE \E c \in Cmds : WriteState(c)
  BY <1>8 DEF WriteState, files, history
<1>9. CASE \E c \in Cmds : UpFails(c) \/ Shutdown(c)
  <2>1. PICK c \in Cmds : UpFails(c) \/ Shutdown(c)
    BY <1>9
  <2> QED
    BY <2>1, KillEffect
<1>10. CASE \E c \in Cmds : StartFails(c)
  BY <1>10, EndedEffect, EndedResult DEF StartFails, files, history
<1>11. CASE \E c \in Cmds : FindNoPid(c)
  BY <1>11, EndedEffect, NextFileMore DEF FindNoPid, files, history
<1>12. CASE \E c \in Cmds : ReadPid(c)
  <2>1. PICK c \in Cmds : ReadPid(c)
    BY <1>12
  <2> QED
    BY <2>1, ReadEffect
<1>13. CASE \E c \in Cmds : PollExpires(c)
  BY <1>13 DEF PollExpires, Step, files, history
<1>14. CASE \E c \in Cmds : Unlink(c)
  <2>1. PICK c \in Cmds : Unlink(c)
    BY <1>14
  <2>2. c # a
    BY <2>1 DEF Unlink
  <2> QED
    BY <2>1, <2>2, UnlinkMore
<1>15. CASE \E c \in Cmds : CleanUp(c)
  BY <1>15, EndedEffect DEF CleanUp, files, history
<1>16. CASE \E c \in Cmds, p \in Pids : Connect(c, p)
  <2>1. PICK c \in Cmds, p \in Pids : Connect(c, p)
    BY <1>16
  <2>2. c = a
    BY <2>1 DEF Connect
  <2> QED
    BY <2>1, <2>2
<1>17. CASE \E c \in Cmds : Kill(c)
  BY <1>17, EndedEffect, EndedResult DEF Kill, files, history
<1>18. CASE \E p \in Pids : VmExits(p)
  BY <1>18 DEF VmExits, files, history
<1> QED
  BY <1>0, <1>1, <1>2, <1>3, <1>4, <1>5, <1>6, <1>7, <1>8, <1>9,
     <1>10, <1>11, <1>12, <1>13, <1>14, <1>15, <1>16, <1>17, <1>18, Actions

(* Who answers at the endpoint of vm-state.json is the VM of the PID file. *)
LEMMA ConnectsToUpsVm ==
    ASSUME TypeOK, StateInv, NEW c \in Cmds, NEW q \in Pids,
           cmd[c].kind = "ssh", Connect(c, q),
           vmState # NoState, ~marred, \A p \in lost : ~Alive(p), Alive(pidFile[vmState.backend])
    PROVE  q = pidFile[vmState.backend]
<1> DEFINE p == pidFile[vmState.backend]
<1>1. Running(c) /\ Alive(q) /\ vms[q].endpoint = cmd[c].endpoint
  BY DEF Connect, Running, Idle
<1>2. vms[q].endpoint = vmState.endpoint
  BY <1>1 DEF StateInv, SshKnows
<1>3. vmState.backend \in Backends
  BY DEF TypeOK, States
<1>4. ~\E d \in Cmds : cmd[d].kind = "down" /\ Running(d) /\ cmd[d].stopped
  BY <1>1 DEF StateInv, OneAtATime
<1>5. p # NoPid /\ vms[p].endpoint = vmState.endpoint
  BY <1>4 DEF StateInv, StateKnown
<1>6. p \in Pids
  BY <1>3, <1>5 DEF TypeOK, PidFiles
<1>7. Alive(p) /\ Alive(q) /\ vms[p] \in VMs /\ vms[q] \in VMs
  BY <1>1, <1>6 DEF TypeOK
<1>8. vms[p].endpoint = vms[q].endpoint
  BY <1>2, <1>5
<1>9. CASE vmState.endpoint # Lease
  <2>1. vms[p].backend = "qemu" /\ vms[q].backend = "qemu"
    BY <1>2, <1>5, <1>6, <1>7, <1>9 DEF StateInv, EndpointOfBackend, VMs, Backends
  <2> HIDE DEF p
  <2>2. p = q
    BY <1>6, <1>7, <1>8, <2>1 DEF StateInv, PortsApart
  <2> QED
    BY <2>2 DEF p
<1>10. CASE vmState.endpoint = Lease
  <2>1. vms[p].backend = "vfkit" /\ vms[q].backend = "vfkit"
    BY <1>2, <1>5, <1>6, <1>7, <1>10 DEF StateInv, EndpointOfBackend
  <2>2. ~Owned(q)
    BY <1>1 DEF Owned, StateInv, OneAtATime, Launchers
  <2>3. PICK f \in PidFiles : pidFile[f] = q
    BY <1>7, <2>2 DEF StateInv, AliveKnown, Filed
  <2>4. q # NoPid
    BY ConstantsAssumption
  <2>5. f = "vfkit"
    BY <1>7, <2>1, <2>3, <2>4 DEF StateInv, FileOfBackend
  <2>6. vmState.backend = "vfkit"
    BY <1>3, <1>5, <1>7, <2>1 DEF StateInv, FileOfBackend, PidFiles
  <2> QED
    BY <2>3, <2>5, <2>6
<1> QED
  BY <1>9, <1>10

(* `ssh` without arguments runs on the VM that `up` handed over while that *)
(* lives, whatever `start` and `boot` left beside it: QEMU refuses a port  *)
(* that is taken, and of vfkit's VMs only the recorded one is left alive.  *)
THEOREM SshReaches ==
    ASSUME ~Overlap, ~Rerun
    PROVE  Spec => SshReachesUpsVm
<1>1. TypeOK /\ StateInv /\ [Next]_vars =>
        [\A c \in Cmds :
            LET p == pidFile[vmState.backend] IN
            cmd[c].kind = "ssh" /\ Running(c) /\ cmd'[c].result = "ok"
            /\ vmState # NoState /\ ~marred /\ (\A q \in lost : ~Alive(q)) /\ Alive(p)
               => cmd'[c].pid = p]_vars
  <2> SUFFICES ASSUME TypeOK, StateInv, [Next]_vars, NEW c \in Cmds,
                      cmd[c].kind = "ssh", Running(c), cmd'[c].result = "ok",
                      vmState # NoState, ~marred, \A q \in lost : ~Alive(q),
                      Alive(pidFile[vmState.backend])
               PROVE  cmd'[c].pid = pidFile[vmState.backend]
    OBVIOUS
  <2>1. PICK q \in Pids : Connect(c, q)
    BY SshConnects DEF StateInv
  <2>2. q = pidFile[vmState.backend]
    BY <2>1, ConnectsToUpsVm
  <2>3. cmd'[c].pid = q
    BY <2>1 DEF Connect, TypeOK
  <2> QED
    BY <2>2, <2>3
<1> QED
  BY <1>1, StateInvCorrect, TypeCorrect, PTL DEF Spec, SshReachesUpsVm
=============================================================================
