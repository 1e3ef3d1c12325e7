---------------------------- MODULE GossRunProofs ----------------------------
(***************************************************************************)
(* Theorems of GossRun: its type correctness, and that a validation that   *)
(* passed has run goss on its own gossfile when the server's replies are   *)
(* not empty, for any commands, gossfiles and number of reboots.           *)
(***************************************************************************)
EXTENDS GossRun, TLAPS

(* The actions of Next, as the proofs split them.                          *)
LEMMA Actions ==
    ASSUME Next
    PROVE  \/ \E c \in Cmds : \E g \in Gossfiles : Start(c, g)
           \/ \E c \in Cmds : Cached(c) \/ Download(c)
           \/ \E c \in Cmds : \E body \in Replies : Reply(c, body)
           \/ \E c \in Cmds : Create(c)
           \/ \E c \in Cmds : Write(c)
           \/ \E c \in Cmds : MakeExecutable(c)
           \/ \E c \in Cmds : UploadGoss(c)
           \/ \E c \in Cmds : UploadGossfile(c)
           \/ \E c \in Cmds : UploadFails(c)
           \/ \E c \in Cmds : RunGoss(c)
           \/ \E c \in Cmds : NetworkFails(c)
           \/ \E c \in Cmds : Stop(c)
           \/ Reboot
BY DEF Next, Step

LEMMA IdleType ==
    /\ Idle("none") \in Commands
    /\ Idle("failed") \in Commands
BY DEF Idle, Commands, Gossdocs

LEMMA BegunType ==
    ASSUME NEW g \in Gossfiles, NEW alone \in BOOLEAN
    PROVE  Begun(g, alone) \in Commands
BY DEF Begun, Commands, Gossdocs

LEMMA FieldTypes ==
    ASSUME NEW k \in Commands, NEW alone \in BOOLEAN, NEW body \in Replies \cup {None},
           NEW pc \in {"idle", "look", "get", "create", "write", "chmod", "goss", "yaml", "run"}
    PROVE  /\ [k EXCEPT !.alone = alone] \in Commands
           /\ [k EXCEPT !.pc = pc] \in Commands
           /\ [k EXCEPT !.pc = pc, !.body = body] \in Commands
BY DEF Commands

LEMMA GotoType ==
    ASSUME TypeOK, NEW c \in Cmds, NEW pc \in {"chmod", "create", "get", "goss", "run", "write", "yaml"},
           Goto(c, pc)
    PROVE  cmd' \in [Cmds -> Commands]
<1>1. cmd[c] \in Commands
  BY DEF TypeOK
<1>2. [cmd[c] EXCEPT !.pc = pc] \in Commands
  BY <1>1 DEF Commands
<1> QED
  BY <1>2 DEF TypeOK, Goto

(* TypeOK alone is not inductive: what a command writes is a reply.        *)
WritesReplies == \A c \in Cmds : cmd[c].pc \in {"create", "write"} => cmd[c].body \in Replies

LEMMA WritesRepliesStep ==
    ASSUME TypeOK, WritesReplies, [Next]_vars
    PROVE  WritesReplies'
<1> USE DEF TypeOK, WritesReplies, Goto, At, Commands
<1>0. CASE UNCHANGED vars
  BY <1>0 DEF vars
<1>1. CASE \E c \in Cmds : \E g \in Gossfiles : Start(c, g)
  BY <1>1 DEF Start, Begun, Running
<1>2. CASE \E c \in Cmds : Cached(c) \/ Download(c)
  BY <1>2 DEF Cached, Download
<1>3. CASE \E c \in Cmds : \E body \in Replies : Reply(c, body)
  BY <1>3 DEF Reply
<1>4. CASE \E c \in Cmds : Create(c)
  BY <1>4 DEF Create
<1>5. CASE \E c \in Cmds : Write(c)
  BY <1>5 DEF Write
<1>6. CASE \E c \in Cmds : MakeExecutable(c)
  BY <1>6 DEF MakeExecutable
<1>7. CASE \E c \in Cmds : UploadGoss(c)
  BY <1>7 DEF UploadGoss
<1>8. CASE \E c \in Cmds : UploadGossfile(c)
  BY <1>8 DEF UploadGossfile
<1>9. CASE \E c \in Cmds : UploadFails(c)
  BY <1>9 DEF UploadFails, Fail, Idle
<1>10. CASE \E c \in Cmds : RunGoss(c)
  BY <1>10 DEF RunGoss
<1>11. CASE \E c \in Cmds : NetworkFails(c)
  BY <1>11 DEF NetworkFails, Fail, Idle
<1>12. CASE \E c \in Cmds : Stop(c)
  BY <1>12 DEF Stop, Fail, Idle
<1>13. CASE Reboot
  BY <1>13 DEF Reboot
<1> QED
  BY <1>0, <1>1, <1>2, <1>3, <1>4, <1>5, <1>6, <1>7, <1>8, <1>9, <1>10, <1>11,
     <1>12, <1>13, Actions

(* Every step keeps the state well-typed.                                  *)
LEMMA TypeStep ==
    ASSUME TypeOK, WritesReplies, [Next]_vars
    PROVE  TypeOK'
<1> USE DEF TypeOK, At
<1>0. CASE UNCHANGED vars
  BY <1>0 DEF vars
<1>1. CASE \E c \in Cmds : \E g \in Gossfiles : Start(c, g)
  <2>1. PICK c \in Cmds, g \in Gossfiles : Start(c, g)
    BY <1>1
  <2> DEFINE others == {d \in Cmds \ {c} : Running(d)}
  <2>2. Begun(g, others = {}) \in Commands
    <3>1. (others = {}) \in BOOLEAN
      OBVIOUS
    <3> QED
      BY <3>1, BegunType
  <2>3. \A d \in Cmds : [cmd[d] EXCEPT !.alone = FALSE] \in Commands
    BY FieldTypes
  <2>4. cmd' \in [Cmds -> Commands]
    <3> HIDE DEF others
    <3> QED
      BY <2>1, <2>2, <2>3 DEF Start, others
  <2> QED
    BY <2>1, <2>4 DEF Start
<1>2. CASE \E c \in Cmds : Cached(c) \/ Download(c)
  <2>1. PICK c \in Cmds : Cached(c) \/ Download(c)
    BY <1>2
  <2>2. cmd' \in [Cmds -> Commands]
    BY <2>1, GotoType DEF Cached, Download
  <2> QED
    BY <2>1, <2>2 DEF Cached, Download
<1>3. CASE \E c \in Cmds : \E body \in Replies : Reply(c, body)
  <2>1. PICK c \in Cmds, body \in Replies : Reply(c, body)
    BY <1>3
  <2>2. [cmd[c] EXCEPT !.pc = "create", !.body = body] \in Commands
    BY FieldTypes
  <2> QED
    BY <2>1, <2>2 DEF Reply
<1>4. CASE \E c \in Cmds : Create(c)
  <2>1. PICK c \in Cmds : Create(c)
    BY <1>4
  <2>2. cmd' \in [Cmds -> Commands]
    BY <2>1, GotoType DEF Create
  <2> QED
    BY <2>1, <2>2 DEF Create, Binaries, Contents
<1>5. CASE \E c \in Cmds : Write(c)
  <2>1. PICK c \in Cmds : Write(c)
    BY <1>5
  <2>2. cmd[c].body \in Contents
    BY <2>1, ConstantsAssumption DEF Write, WritesReplies, Contents
  <2> QED
    <3>1. cmd' \in [Cmds -> Commands]
      BY <2>1, GotoType DEF Write
    <3> QED
      BY <2>1, <2>2, <3>1 DEF Write, Binaries
<1>6. CASE \E c \in Cmds : MakeExecutable(c)
  <2>1. PICK c \in Cmds : MakeExecutable(c)
    BY <1>6
  <2>2. cmd' \in [Cmds -> Commands]
    BY <2>1, GotoType DEF MakeExecutable
  <2> QED
    BY <2>1, <2>2 DEF MakeExecutable, Binaries
<1>7. CASE \E c \in Cmds : UploadGoss(c)
  <2>1. PICK c \in Cmds : UploadGoss(c)
    BY <1>7
  <2>2. cmd' \in [Cmds -> Commands]
    BY <2>1, GotoType DEF UploadGoss
  <2>3. guest' \in [goss: Binaries, yaml: Gossdocs]
    BY <2>1 DEF UploadGoss, Binaries
  <2> QED
    BY <2>1, <2>2, <2>3 DEF UploadGoss
<1>8. CASE \E c \in Cmds : UploadGossfile(c)
  <2>1. PICK c \in Cmds : UploadGossfile(c)
    BY <1>8
  <2>2. cmd[c].gossfile \in Gossdocs
    BY DEF Commands, Gossdocs
  <2> QED
    <3>1. cmd' \in [Cmds -> Commands]
      BY <2>1, GotoType DEF UploadGossfile
    <3> QED
      BY <2>1, <2>2, <3>1 DEF UploadGossfile
<1>9. CASE \E c \in Cmds : UploadFails(c)
  <2>1. PICK c \in Cmds : UploadFails(c)
    BY <1>9
  <2>2. cmd' \in [Cmds -> Commands]
    BY <2>1, IdleType DEF UploadFails, Fail
  <2>3. guest' \in [goss: Binaries, yaml: Gossdocs]
    BY <2>1 DEF UploadFails, Binaries, Contents, Gossdocs
  <2> QED
    BY <2>1, <2>2, <2>3 DEF UploadFails
<1>10. CASE \E c \in Cmds : RunGoss(c)
  <2>1. PICK c \in Cmds : RunGoss(c)
    BY <1>10
  <2>2. PICK verdict \in Verdicts :
          cmd' = [cmd EXCEPT ![c].pc = "idle", ![c].body = None, ![c].result = verdict,
                             ![c].ran = IF guest.goss = [content |-> "goss", exec |-> TRUE]
                                        THEN guest.yaml ELSE None]
    BY <2>1 DEF RunGoss
  <2> DEFINE ran == IF guest.goss = [content |-> "goss", exec |-> TRUE] THEN guest.yaml ELSE None
  <2>3. ran \in Gossdocs /\ verdict \in {"passed", "failed"}
    BY <2>2 DEF Gossdocs, Verdicts
  <2>4. [cmd[c] EXCEPT !.pc = "idle", !.body = None, !.result = verdict, !.ran = ran] \in Commands
    <3> HIDE DEF ran
    <3> QED
      BY <2>3 DEF Commands
  <2>5. cmd' \in [Cmds -> Commands]
    BY <2>2, <2>4
  <2> QED
    BY <2>1, <2>5 DEF RunGoss
<1>11. CASE \E c \in Cmds : NetworkFails(c)
  BY <1>11, IdleType DEF NetworkFails, Fail
<1>12. CASE \E c \in Cmds : Stop(c)
  <2>1. PICK c \in Cmds : Stop(c)
    BY <1>12
  <2>2. cmd' \in [Cmds -> Commands]
    BY <2>1, IdleType DEF Stop, Fail
  <2>3. guest' \in [goss: Binaries, yaml: Gossdocs]
    BY <2>1 DEF Stop, Binaries, Contents, Gossdocs
  <2>4. cache' \in Binaries
    BY <2>1 DEF Stop, Binaries, Contents
  <2> QED
    BY <2>1, <2>2, <2>3, <2>4 DEF Stop
<1>13. CASE Reboot
  BY <1>13, ConstantsAssumption DEF Reboot, NewGuest, Absent, Binaries, Contents, Gossdocs
<1> QED
  BY <1>0, <1>1, <1>2, <1>3, <1>4, <1>5, <1>6, <1>7, <1>8, <1>9, <1>10, <1>11,
     <1>12, <1>13, Actions

(* Every reachable state is well typed, for any commands, gossfiles,       *)
(* replies and number of reboots.                                          *)
THEOREM TypeCorrect == Spec => [](TypeOK /\ WritesReplies)
<1>1. Init => TypeOK /\ WritesReplies
  <2> SUFFICES ASSUME Init
               PROVE  TypeOK /\ WritesReplies
    OBVIOUS
  <2>1. cmd \in [Cmds -> Commands]
    BY IdleType DEF Init
  <2>2. cache \in Binaries /\ guest \in [goss: Binaries, yaml: Gossdocs]
    BY DEF Init, NewGuest, Absent, Binaries, Contents, Gossdocs
  <2>3. reboots \in 0..MaxReboots
    BY ConstantsAssumption DEF Init
  <2>5. clash \in BOOLEAN
    BY DEF Init
  <2>4. WritesReplies
    BY DEF Init, WritesReplies, Idle
  <2> QED
    BY <2>1, <2>2, <2>3, <2>4, <2>5 DEF TypeOK
<1>2. TypeOK /\ WritesReplies /\ [Next]_vars => (TypeOK /\ WritesReplies)'
  BY TypeStep, WritesRepliesStep
<1> QED
  BY <1>1, <1>2, PTL DEF Spec

-----------------------------------------------------------------------------
(* While no download has written over another's file, the cached file is   *)
(* executable only once it is whole, and so is the one in the guest.       *)
CleanCache ==
    ~clash =>
        /\ cache.content = "absent" => \A c \in Cmds : cmd[c].pc \notin {"write", "chmod"}
        /\ cache.content \in {"absent", "empty"} => cache.exec = FALSE /\ guest.goss.exec = FALSE
        /\ guest.goss.content = "empty" => guest.goss.exec = FALSE
        /\ \A c \in Cmds : cmd[c].pc = "write" => cache.content = "empty"
        /\ \A c \in Cmds : cmd[c].pc = "chmod" => cache.content # "empty"
        /\ \A c, d \in Cmds :
              cmd[c].pc \in {"write", "chmod"} /\ cmd[d].pc \in {"write", "chmod"} => c = d

LEMMA CleanCacheStep ==
    ASSUME TypeOK, TypeOK', WritesReplies, CleanCache, [Next]_vars, "empty" \notin Replies
    PROVE  CleanCache'
<1> USE DEF TypeOK, CleanCache, Goto, At, Commands, Binaries
<1>0. CASE UNCHANGED vars
  BY <1>0 DEF vars
<1>1. CASE \E c \in Cmds : \E g \in Gossfiles : Start(c, g)
  BY <1>1 DEF Start, Begun, Running
<1>2. CASE \E c \in Cmds : Cached(c) \/ Download(c)
  BY <1>2 DEF Cached, Download
<1>3. CASE \E c \in Cmds : \E body \in Replies : Reply(c, body)
  BY <1>3 DEF Reply
<1>4. CASE \E c \in Cmds : Create(c)
  <2>1. PICK c \in Cmds : Create(c)
    BY <1>4
  <2>2. CASE clash \/ cache.content # "absent"
    <3>1. clash' = TRUE
      BY <2>1, <2>2 DEF Create
    <3> QED
      BY <3>1
  <2>3. CASE ~clash /\ cache.content = "absent"
    <3>1. cache' = [cache EXCEPT !.content = "empty"] /\ guest' = guest
      BY <2>1 DEF Create
    <3>2. cmd' = [cmd EXCEPT ![c].pc = "write"]
      BY <2>1 DEF Create
    <3> QED
      BY <2>3, <3>1, <3>2
  <2> QED
    BY <2>2, <2>3
<1>5. CASE \E c \in Cmds : Write(c)
  BY <1>5, ConstantsAssumption DEF Write, WritesReplies
<1>6. CASE \E c \in Cmds : MakeExecutable(c)
  BY <1>6 DEF MakeExecutable
<1>7. CASE \E c \in Cmds : UploadGoss(c)
  BY <1>7 DEF UploadGoss
<1>8. CASE \E c \in Cmds : UploadGossfile(c)
  BY <1>8 DEF UploadGossfile
<1>9. CASE \E c \in Cmds : UploadFails(c)
  BY <1>9 DEF UploadFails, Fail, Idle
<1>10. CASE \E c \in Cmds : RunGoss(c)
  BY <1>10 DEF RunGoss
<1>11. CASE \E c \in Cmds : NetworkFails(c)
  BY <1>11 DEF NetworkFails, Fail, Idle
<1>12. CASE \E c \in Cmds : Stop(c)
  BY <1>12 DEF Stop, Fail, Idle
<1>13. CASE Reboot
  BY <1>13 DEF Reboot, NewGuest, Absent
<1> QED
  BY <1>0, <1>1, <1>2, <1>3, <1>4, <1>5, <1>6, <1>7, <1>8, <1>9, <1>10, <1>11,
     <1>12, <1>13, Actions

(* A command is alone only while no other one runs.                        *)
AloneRuns ==
    \A c, d \in Cmds : Running(c) /\ Running(d) /\ c # d => cmd[c].alone = FALSE

LEMMA AloneRunsStep ==
    ASSUME TypeOK, AloneRuns, [Next]_vars
    PROVE  AloneRuns'
<1> USE DEF TypeOK, AloneRuns, Goto, At, Running, Commands
<1>0. CASE UNCHANGED vars
  BY <1>0 DEF vars
<1>1. CASE \E c \in Cmds : \E g \in Gossfiles : Start(c, g)
  <2>1. PICK c \in Cmds, g \in Gossfiles : Start(c, g)
    BY <1>1
  <2> DEFINE others == {d \in Cmds \ {c} : Running(d)}
  <2>2. ASSUME NEW d \in others
        PROVE  cmd'[c].alone = FALSE /\ cmd'[d].alone = FALSE
    <3>1. (others = {}) = FALSE
      OBVIOUS
    <3>2. cmd'[c] = Begun(g, FALSE)
      <4> HIDE DEF others
      <4> QED
        BY <2>1, <3>1 DEF Start, others
    <3> QED
      BY <2>1, <3>2 DEF Start, Begun
  <2>3. \A d \in Cmds \ {c} : cmd'[d].pc = cmd[d].pc
    BY <2>1 DEF Start
  <2>4. \A d, e \in Cmds \ {c} : cmd[d].alone = FALSE => cmd'[d].alone = FALSE
    BY <2>1 DEF Start
  <2> QED
    BY <2>2, <2>3, <2>4
<1>2. CASE \E c \in Cmds : Cached(c) \/ Download(c)
  BY <1>2 DEF Cached, Download
<1>3. CASE \E c \in Cmds : \E body \in Replies : Reply(c, body)
  BY <1>3 DEF Reply
<1>4. CASE \E c \in Cmds : Create(c)
  BY <1>4 DEF Create
<1>5. CASE \E c \in Cmds : Write(c)
  BY <1>5 DEF Write
<1>6. CASE \E c \in Cmds : MakeExecutable(c)
  BY <1>6 DEF MakeExecutable
<1>7. CASE \E c \in Cmds : UploadGoss(c)
  BY <1>7 DEF UploadGoss
<1>8. CASE \E c \in Cmds : UploadGossfile(c)
  BY <1>8 DEF UploadGossfile
<1>9. CASE \E c \in Cmds : UploadFails(c)
  BY <1>9 DEF UploadFails, Fail, Idle
<1>10. CASE \E c \in Cmds : RunGoss(c)
  BY <1>10 DEF RunGoss
<1>11. CASE \E c \in Cmds : NetworkFails(c)
  BY <1>11 DEF NetworkFails, Fail, Idle
<1>12. CASE \E c \in Cmds : Stop(c)
  BY <1>12 DEF Stop, Fail, Idle
<1>13. CASE Reboot
  BY <1>13 DEF Reboot, NewGuest, Absent
<1> QED
  BY <1>0, <1>1, <1>2, <1>3, <1>4, <1>5, <1>6, <1>7, <1>8, <1>9, <1>10, <1>11,
     <1>12, <1>13, Actions

(* What a command that is alone runs goss on is its own gossfile, or no    *)
(* file any more.                                                          *)
OwnGossfileUploaded ==
    \A c \in Cmds : cmd[c].pc = "run" /\ cmd[c].alone = TRUE => guest.yaml \in {cmd[c].gossfile, None}

LEMMA OwnGossfileUploadedStep ==
    ASSUME TypeOK, AloneRuns, OwnGossfileUploaded, [Next]_vars
    PROVE  OwnGossfileUploaded'
<1> USE DEF TypeOK, OwnGossfileUploaded, AloneRuns, Goto, At, Running, Commands
<1>0. CASE UNCHANGED vars
  BY <1>0 DEF vars
<1>1. CASE \E c \in Cmds : \E g \in Gossfiles : Start(c, g)
  BY <1>1 DEF Start, Begun
<1>2. CASE \E c \in Cmds : Cached(c) \/ Download(c)
  BY <1>2 DEF Cached, Download
<1>3. CASE \E c \in Cmds : \E body \in Replies : Reply(c, body)
  BY <1>3 DEF Reply
<1>4. CASE \E c \in Cmds : Create(c)
  BY <1>4 DEF Create
<1>5. CASE \E c \in Cmds : Write(c)
  BY <1>5 DEF Write
<1>6. CASE \E c \in Cmds : MakeExecutable(c)
  BY <1>6 DEF MakeExecutable
<1>7. CASE \E c \in Cmds : UploadGoss(c)
  BY <1>7 DEF UploadGoss
<1>8. CASE \E c \in Cmds : UploadGossfile(c)
  BY <1>8 DEF UploadGossfile
<1>9. CASE \E c \in Cmds : UploadFails(c)
  BY <1>9 DEF UploadFails, Fail, Idle
<1>10. CASE \E c \in Cmds : RunGoss(c)
  BY <1>10 DEF RunGoss
<1>11. CASE \E c \in Cmds : NetworkFails(c)
  BY <1>11 DEF NetworkFails, Fail, Idle
<1>12. CASE \E c \in Cmds : Stop(c)
  BY <1>12 DEF Stop, Fail, Idle
<1>13. CASE Reboot
  BY <1>13 DEF Reboot, NewGuest, Absent
<1> QED
  BY <1>0, <1>1, <1>2, <1>3, <1>4, <1>5, <1>6, <1>7, <1>8, <1>9, <1>10, <1>11,
     <1>12, <1>13, Actions

LEMMA PassedStep ==
    ASSUME TypeOK, CleanCache, OwnGossfileUploaded, PassedRanOwnGossfile, [Next]_vars
    PROVE  PassedRanOwnGossfile'
<1> USE DEF TypeOK, PassedRanOwnGossfile, Goto, At, Running, Commands
<1>0. CASE UNCHANGED vars
  BY <1>0 DEF vars
<1>1. CASE \E c \in Cmds : \E g \in Gossfiles : Start(c, g)
  BY <1>1 DEF Start, Begun
<1>2. CASE \E c \in Cmds : Cached(c) \/ Download(c)
  BY <1>2 DEF Cached, Download
<1>3. CASE \E c \in Cmds : \E body \in Replies : Reply(c, body)
  BY <1>3 DEF Reply
<1>4. CASE \E c \in Cmds : Create(c)
  BY <1>4 DEF Create
<1>5. CASE \E c \in Cmds : Write(c)
  BY <1>5 DEF Write
<1>6. CASE \E c \in Cmds : MakeExecutable(c)
  BY <1>6 DEF MakeExecutable
<1>7. CASE \E c \in Cmds : UploadGoss(c)
  BY <1>7 DEF UploadGoss
<1>8. CASE \E c \in Cmds : UploadGossfile(c)
  BY <1>8 DEF UploadGossfile
<1>9. CASE \E c \in Cmds : UploadFails(c)
  BY <1>9 DEF UploadFails, Fail, Idle
<1>10. CASE \E c \in Cmds : RunGoss(c)
  BY <1>10 DEF RunGoss, Verdicts, CleanCache, OwnGossfileUploaded, Binaries
<1>11. CASE \E c \in Cmds : NetworkFails(c)
  BY <1>11 DEF NetworkFails, Fail, Idle
<1>12. CASE \E c \in Cmds : Stop(c)
  BY <1>12 DEF Stop, Fail, Idle
<1>13. CASE Reboot
  BY <1>13 DEF Reboot, NewGuest, Absent
<1> QED
  BY <1>0, <1>1, <1>2, <1>3, <1>4, <1>5, <1>6, <1>7, <1>8, <1>9, <1>10, <1>11,
     <1>12, <1>13, Actions

(* Why PassedRanOwnGossfile holds.                                         *)
GossInv == CleanCache /\ AloneRuns /\ OwnGossfileUploaded /\ PassedRanOwnGossfile

(* A validation that no other one disturbed and that passed has run goss   *)
(* on its own gossfile, for any commands, gossfiles and number of reboots, *)
(* if no reply of the server is empty and no download was written over     *)
(* another's file.                                                         *)
THEOREM PassedValidations ==
    ASSUME "empty" \notin Replies
    PROVE  Spec => []PassedRanOwnGossfile
<1>1. Init => GossInv
  BY DEF Init, GossInv, CleanCache, AloneRuns, OwnGossfileUploaded, PassedRanOwnGossfile,
         Idle, Absent, NewGuest, Running
<1>2. TypeOK /\ TypeOK' /\ WritesReplies /\ GossInv /\ [Next]_vars => GossInv'
  BY CleanCacheStep, AloneRunsStep, OwnGossfileUploadedStep, PassedStep DEF GossInv
<1>3. GossInv => PassedRanOwnGossfile
  BY DEF GossInv
<1>4. Spec => [](TypeOK /\ WritesReplies)
  BY TypeCorrect
<1> QED
  BY <1>1, <1>2, <1>3, <1>4, PTL DEF Spec

LEMMA GoodBinaryStep ==
    ASSUME TypeOK, Good, NoDownload, [Next]_vars
    PROVE  (Good /\ NoDownload)'
<1> USE DEF TypeOK, Good, NoDownload, Goto, At, Running, Commands
<1>0. CASE UNCHANGED vars
  BY <1>0 DEF vars
<1>1. CASE \E c \in Cmds : \E g \in Gossfiles : Start(c, g)
  BY <1>1 DEF Start, Begun
<1>2. CASE \E c \in Cmds : Cached(c) \/ Download(c)
  BY <1>2 DEF Cached, Download
<1>3. CASE \E c \in Cmds : \E body \in Replies : Reply(c, body)
  BY <1>3 DEF Reply
<1>4. CASE \E c \in Cmds : Create(c)
  BY <1>4 DEF Create
<1>5. CASE \E c \in Cmds : Write(c)
  BY <1>5 DEF Write
<1>6. CASE \E c \in Cmds : MakeExecutable(c)
  BY <1>6 DEF MakeExecutable
<1>7. CASE \E c \in Cmds : UploadGoss(c)
  BY <1>7 DEF UploadGoss
<1>8. CASE \E c \in Cmds : UploadGossfile(c)
  BY <1>8 DEF UploadGossfile
<1>9. CASE \E c \in Cmds : UploadFails(c)
  BY <1>9 DEF UploadFails, Fail, Idle
<1>10. CASE \E c \in Cmds : RunGoss(c)
  BY <1>10 DEF RunGoss
<1>11. CASE \E c \in Cmds : NetworkFails(c)
  BY <1>11 DEF NetworkFails, Fail, Idle
<1>12. CASE \E c \in Cmds : Stop(c)
  BY <1>12 DEF Stop, Fail, Idle
<1>13. CASE Reboot
  BY <1>13 DEF Reboot
<1> QED
  BY <1>0, <1>1, <1>2, <1>3, <1>4, <1>5, <1>6, <1>7, <1>8, <1>9, <1>10, <1>11,
     <1>12, <1>13, Actions

(* A cached binary that is whole and executable stays so, once no download *)
(* is under way: for any commands, which may overlap and be killed.        *)
THEOREM GoodBinary == Spec => GoodBinaryStays
<1>1. TypeOK /\ Good /\ NoDownload /\ [Next]_vars => (Good /\ NoDownload)'
  BY GoodBinaryStep
<1>2. Spec => []TypeOK
  BY TypeCorrect, PTL
<1> QED
  BY <1>1, <1>2, PTL DEF Spec, GoodBinaryStays

=============================================================================
