--------------------------- MODULE ImageCacheProofs ---------------------------
(***************************************************************************)
(* What FcosImage::ensure and FcosImage::refresh return, proved for any    *)
(* number of commands, work directories, streams and versions.             *)
(*                                                                         *)
(* TypeCorrect holds of every behaviour.  ReturnedImages assumes what the  *)
(* code needs and does not enforce: commands do not overlap and no         *)
(* decompression is cut short.  Its invariant says who may have a partial  *)
(* image and what the one running command relies on, place by place.       *)
(* ReturnedStreams allows both, and asks that a work directory is used     *)
(* with one stream only.                                                   *)
(***************************************************************************)
EXTENDS ImageCache, TLAPS

Pcs == {Idle, "look", "drop", "fetch", "dropCached", "get", "getting",
        "verify", "unpack", "unpacking", "tidy", "unlink", "symlink"}

(* A command knows the version it works on once it has the metadata.       *)
VersionKnown ==
    \A c \in Cmds : proc[c].pc \notin {Idle, "look", "drop", "fetch"}
                       => proc[c].version \in Versions(proc[c].stream)

(* The fields of a command that only its start and its end change.         *)
SameJob(k, l) ==
    /\ k.op = l.op /\ k.dir = l.dir /\ k.stream = l.stream /\ k.mode = l.mode
    /\ k.version = l.version /\ k.since = l.since

LEMMA Actions ==
    ASSUME Next
    PROVE  \/ \E s \in Streams : Publish(s)
           \/ \E c \in Cmds, op \in {"ensure", "refresh"}, w \in WorkDirs : \E use \in Uses[w] :
                 Start(c, op, w, use[1], use[2])
           \/ \E c \in Cmds : Look(c)
           \/ \E c \in Cmds : DropLocal(c)
           \/ \E c \in Cmds : Fetch(c)
           \/ \E c \in Cmds : DropCached(c)
           \/ \E c \in Cmds : CreateCompressed(c)
           \/ \E c \in Cmds, good \in BOOLEAN : FinishDownload(c, good)
           \/ \E c \in Cmds : Verify(c)
           \/ \E c \in Cmds : CreateImage(c)
           \/ \E c \in Cmds : FinishImage(c)
           \/ \E c \in Cmds : RemoveCompressed(c)
           \/ \E c \in Cmds : Unlink(c)
           \/ \E c \in Cmds : Symlink(c)
           \/ \E c \in Cmds : Stop(c)
BY DEF Next, Step

LEMMA GotoEffect ==
    ASSUME TypeOK, NEW c \in Cmds, NEW pc \in Pcs, Goto(c, pc)
    PROVE  /\ proc' \in [Cmds -> Commands]
           /\ proc'[c].pc = pc /\ SameJob(proc'[c], proc[c])
           /\ proc'[c].disturbed = proc[c].disturbed
           /\ \A d \in Cmds \ {c} : proc'[d] = proc[d]
<1>0. proc[c] \in Commands
  BY DEF TypeOK
<1>1. [proc[c] EXCEPT !.pc = pc] \in Commands
  BY <1>0 DEF Commands, Pcs
<1>2. /\ [proc[c] EXCEPT !.pc = pc].pc = pc /\ SameJob([proc[c] EXCEPT !.pc = pc], proc[c])
      /\ [proc[c] EXCEPT !.pc = pc].disturbed = proc[c].disturbed
  BY DEF TypeOK, Commands, SameJob
<1>3. proc' = [proc EXCEPT ![c] = [proc[c] EXCEPT !.pc = pc]]
  BY DEF Goto
<1> QED
  BY <1>1, <1>2, <1>3 DEF TypeOK

LEMMA DisturbedType ==
    ASSUME NEW k \in Commands
    PROVE  LET l == [k EXCEPT !.disturbed = TRUE] IN
           l \in Commands /\ SameJob(l, k) /\ l.pc = k.pc
BY DEF Commands, SameJob

LEMMA TouchedType ==
    ASSUME NEW k \in Commands, NEW pc \in Pcs
    PROVE  LET l == [k EXCEPT !.pc = pc, !.disturbed = FALSE] IN
           l \in Commands /\ SameJob(l, k) /\ l.pc = pc /\ ~l.disturbed
<1> DEFINE l == [k EXCEPT !.pc = pc, !.disturbed = FALSE]
<1>1. l \in Commands
  BY DEF Commands, Pcs
<1>2. SameJob(l, k) /\ l.pc = pc
  BY DEF Commands, SameJob
<1>3. l.disturbed = FALSE
  BY DEF Commands
<1> QED
  BY <1>1, <1>2, <1>3

LEMMA FetchedType ==
    ASSUME NEW k \in Commands, NEW pc \in Pcs, NEW v \in Nat
    PROVE  LET l == [k EXCEPT !.version = v, !.pc = pc] IN
           l \in Commands /\ l.version = v /\ l.stream = k.stream
<1> DEFINE l == [k EXCEPT !.version = v, !.pc = pc]
<1>1. l \in Commands
  BY DEF Commands, Pcs
<1>2. l.version = v /\ l.stream = k.stream
  BY DEF Commands
<1> QED
  BY <1>1, <1>2

LEMMA TouchEffect ==
    ASSUME TypeOK, NEW c \in Cmds, NEW pc \in Pcs, GotoTouching(c, pc)
    PROVE  /\ proc' \in [Cmds -> Commands]
           /\ proc'[c].pc = pc /\ ~proc'[c].disturbed
           /\ \A d \in Cmds : SameJob(proc'[d], proc[d])
           /\ \A d \in Cmds \ {c} : proc'[d].pc = proc[d].pc /\ (~Running(d) => proc'[d] = proc[d])
<1>1. \A d \in Cmds :
          LET k == [proc[d] EXCEPT !.disturbed = TRUE] IN
          k \in Commands /\ SameJob(k, proc[d]) /\ k.pc = proc[d].pc
  BY DisturbedType DEF TypeOK
<1>2. LET k == [proc[c] EXCEPT !.pc = pc, !.disturbed = FALSE] IN
      k \in Commands /\ SameJob(k, proc[c]) /\ k.pc = pc /\ ~k.disturbed
  BY TouchedType DEF TypeOK
<1>3. \A d \in Cmds : SameJob(proc[d], proc[d]) /\ proc[d] \in Commands
  BY DEF SameJob, TypeOK
<1>4. proc'[c] = [proc[c] EXCEPT !.pc = pc, !.disturbed = FALSE]
  BY DEF GotoTouching
<1>5. \A d \in Cmds \ {c} : proc'[d] = proc[d] \/ (Running(d) /\ proc'[d] = [proc[d] EXCEPT !.disturbed = TRUE])
  BY DEF GotoTouching
<1>6. \A d \in Cmds \ {c} : proc'[d] \in Commands /\ SameJob(proc'[d], proc[d]) /\ proc'[d].pc = proc[d].pc
  BY <1>1, <1>3, <1>5
<1>7. DOMAIN proc' = Cmds /\ proc' = [d \in Cmds |-> proc'[d]]
  BY DEF GotoTouching
<1>8. proc' \in [Cmds -> Commands]
  BY <1>2, <1>4, <1>6, <1>7
<1> QED
  BY <1>2, <1>4, <1>5, <1>6, <1>8

LEMMA EndedType ==
    ASSUME NEW result \in {"none", "ok", "failed", "exists"}
    PROVE  Ended(result) \in Commands
<1>1. (CHOOSE w \in WorkDirs : TRUE) \in WorkDirs /\ (CHOOSE s \in Streams : TRUE) \in Streams
  BY ConstantsAssumption
<1> QED
  BY <1>1 DEF Ended, Commands, Modes, Idle

LEMMA EndedEffect ==
    ASSUME TypeOK, NEW c \in Cmds, Return(c) \/ Err(c, "failed") \/ Err(c, "exists")
    PROVE  /\ proc' \in [Cmds -> Commands]
           /\ proc'[c].pc = Idle /\ ~proc'[c].disturbed
           /\ ~Return(c) => proc'[c].result # "ok"
           /\ \A d \in Cmds \ {c} : proc'[d] = proc[d]
<1>1. PICK result \in {"ok", "failed", "exists"} :
         /\ proc' = [proc EXCEPT ![c] = Ended(result)]
         /\ ~Return(c) => result # "ok"
  BY DEF Return, Err
<1>2. /\ Ended(result) \in Commands /\ Ended(result).pc = Idle /\ ~Ended(result).disturbed
      /\ Ended(result).result = result
  BY EndedType DEF Ended
<1> QED
  BY <1>1, <1>2 DEF TypeOK

LEMMA CacheNotLocal ==
    ASSUME NEW p \in CachePaths, NEW w \in WorkDirs
    PROVE  p # LocalPath(w)
BY ConstantsAssumption DEF CachePaths, CachedPath, LocalPath

LEMMA LocalPathsApart ==
    ASSUME NEW v \in WorkDirs, NEW w \in WorkDirs, LocalPath(v) = LocalPath(w)
    PROVE  v = w
BY DEF LocalPath

LEMMA JobPaths ==
    ASSUME TypeOK, NEW c \in Cmds, proc[c].version \in Versions(proc[c].stream)
    PROVE  /\ Dest(c) \in Paths /\ Created(c) \in Paths
           /\ proc[c].mode = "cached" => Dest(c) \in CachePaths /\ Created(c) \in CachePaths
           /\ proc[c].mode # "cached" => Dest(c) = LocalPath(proc[c].dir)
           /\ Content(c) \in Files
<1>1. proc[c].dir \in WorkDirs /\ proc[c].stream \in Streams
  BY DEF TypeOK, Commands
<1>2. CachedPath(proc[c].stream, proc[c].version) \in CachePaths
  BY <1>1 DEF CachePaths
<1>3. <<proc[c].stream, proc[c].version>> \in Images
  BY <1>1 DEF Images
<1>4. Content(c) \in Files
  BY <1>3 DEF Content, Files
<1> QED
  BY <1>1, <1>2, <1>4 DEF Dest, Created, Paths, LocalPaths, TypeOK

(* What is created for one command is not in the way of a symlink.         *)
LEMMA CreatedApart ==
    ASSUME TypeOK, NEW c \in Cmds, proc[c].version \in Versions(proc[c].stream),
           NEW w \in WorkDirs, link[w] # LocalPath(w)
    PROVE  Created(c) # LocalPath(w)
<1>1. proc[c].dir \in WorkDirs
  BY DEF TypeOK, Commands
<1>2. CASE proc[c].mode = "cached"
  BY <1>2, JobPaths, CacheNotLocal
<1>3. CASE proc[c].mode # "cached"
  <2>1. Created(c) = link[proc[c].dir]
    BY <1>3 DEF Created
  <2>2. link[proc[c].dir] \in CachePaths \/ link[proc[c].dir] = LocalPath(proc[c].dir)
    BY <1>1 DEF TypeOK
  <2>3. CASE link[proc[c].dir] \in CachePaths
    BY <2>1, <2>3, CacheNotLocal
  <2>4. CASE link[proc[c].dir] = LocalPath(proc[c].dir)
    BY <1>1, <2>1, <2>4, LocalPathsApart
  <2> QED
    BY <2>2, <2>3, <2>4
<1> QED
  BY <1>2, <1>3

(* Every step but that of fetching the metadata leaves a command's version.*)
LEMMA StoppedRun ==
    ASSUME TypeOK, VersionKnown, NEW c \in Cmds,
           /\ proc'[c].pc \in {Idle, "look", "drop", "fetch"}
              \/ (SameJob(proc'[c], proc[c]) /\ proc[c].pc \notin {Idle, "look", "drop", "fetch"}),
           \A d \in Cmds \ {c} : SameJob(proc'[d], proc[d]) /\ proc'[d].pc = proc[d].pc
    PROVE  VersionKnown'
BY DEF VersionKnown, SameJob, Versions

LEMMA TypeStep ==
    ASSUME TypeOK, VersionKnown, [Next]_vars
    PROVE  TypeOK' /\ VersionKnown'
<1> USE DEF TypeOK, Exists, Absent
<1>0. CASE UNCHANGED vars
  BY <1>0 DEF vars, VersionKnown, Versions, Paths
<1>1. CASE \E s \in Streams : Publish(s)
  <2>1. PICK s \in Streams : Publish(s)
    BY <1>1
  <2>2. latest[s] + 1 \in Versions(s)
    <3>1. latest[s] \in 1..Published[s] /\ Published[s] \in Nat
      BY ConstantsAssumption DEF Versions
    <3> QED
      BY <2>1, <3>1 DEF Publish, Versions
  <2>3. \A t \in Streams : latest'[t] \in Versions(t)
    BY <2>1, <2>2 DEF Publish
  <2>4. VersionKnown'
    BY <2>1 DEF Publish, VersionKnown
  <2> QED
    BY <2>1, <2>3, <2>4 DEF Publish
<1>2. CASE \E c \in Cmds, op \in {"ensure", "refresh"}, w \in WorkDirs : \E use \in Uses[w] :
              Start(c, op, w, use[1], use[2])
  <2>1. PICK c \in Cmds, op \in {"ensure", "refresh"}, w \in WorkDirs, s \in Streams, mode \in Modes :
            Start(c, op, w, s, mode)
    BY <1>2, ConstantsAssumption
  <2>2. \A pc \in {"look", "drop", "fetch"} : Begun(op, w, s, mode, pc) \in Commands
    <3>1. latest[s] \in Nat
      BY ConstantsAssumption DEF Versions
    <3> QED
      BY <3>1 DEF Begun, Commands
  <2>3. \E pc \in {"look", "drop", "fetch"} : proc' = [proc EXCEPT ![c] = Begun(op, w, s, mode, pc)]
    BY <2>1 DEF Start
  <2>4. proc' \in [Cmds -> Commands]
    BY <2>2, <2>3
  <2>5. proc'[c].pc \in {"look", "drop", "fetch"} /\ \A d \in Cmds \ {c} : proc'[d] = proc[d]
    BY <2>3 DEF Begun
  <2>6. VersionKnown'
    BY <2>5 DEF VersionKnown
  <2> QED
    BY <2>1, <2>4, <2>6 DEF Start
<1>3. CASE \E c \in Cmds : Look(c)
  <2>1. PICK c \in Cmds : Look(c)
    BY <1>3
  <2>2. proc' \in [Cmds -> Commands] /\ VersionKnown'
    BY <2>1, GotoEffect, TouchEffect, EndedEffect, StoppedRun DEF Look, At, Pcs, Idle, SameJob
  <2> QED
    BY <2>1, <2>2 DEF Look
<1>4. CASE \E c \in Cmds : DropLocal(c)
  <2>1. PICK c \in Cmds : DropLocal(c)
    BY <1>4
  <2>2. proc' \in [Cmds -> Commands] /\ VersionKnown'
    BY <2>1, GotoEffect, TouchEffect, EndedEffect, StoppedRun DEF DropLocal, At, Pcs, Idle, SameJob
  <2>3. Absent \in Files /\ LocalPath(proc[c].dir) \in Paths
    BY DEF Files, Absent, NoImage, Paths, LocalPaths, Commands
  <2>4. image' \in [Paths -> Files] /\ link' \in [WorkDirs -> Paths]
    BY <2>1, <2>3 DEF DropLocal
  <2>9. \A w \in WorkDirs :
            link'[w] # LocalPath(w) => link'[w] \in CachePaths /\ ~Exists(LocalPath(w))'
    <3>1. CASE Exists(link[proc[c].dir])
      <4>1. /\ link' = [link EXCEPT ![proc[c].dir] = LocalPath(proc[c].dir)]
            /\ image' = [image EXCEPT ![LocalPath(proc[c].dir)] = Absent]
        BY <2>1, <3>1 DEF DropLocal
      <4> QED
        BY <2>3, <4>1 DEF Exists, Absent
    <3>2. CASE ~Exists(link[proc[c].dir])
      BY <2>1, <3>2 DEF DropLocal
    <3> QED
      BY <3>1, <3>2
  <2> QED
    BY <2>1, <2>2, <2>4, <2>9 DEF DropLocal
<1>5. CASE \E c \in Cmds : Fetch(c)
  <2>1. PICK c \in Cmds : Fetch(c)
    BY <1>5
  <2> DEFINE v == latest[proc[c].stream]
  <2>2. v \in Versions(proc[c].stream) /\ v \in Nat
    BY DEF Commands, Versions
  <2> DEFINE p == proc[c]
             next == IF p.mode = "flat" THEN "get"
                     ELSE IF p.op = "refresh" THEN "dropCached"
                     ELSE IF Exists(CachedPath(p.stream, v)) THEN "unlink" ELSE "get"
  <2>6. next \in Pcs /\ proc' = [proc EXCEPT ![c].version = v, ![c].pc = next]
    BY <2>1 DEF Fetch, Pcs
  <2>3. PICK pc \in Pcs : proc' = [proc EXCEPT ![c] = [proc[c] EXCEPT !.version = v, !.pc = pc]]
    <3> HIDE DEF next
    <3> QED
      BY <2>6
  <2>4. LET k == [proc[c] EXCEPT !.version = v, !.pc = pc] IN
        k \in Commands /\ k.version = v /\ k.stream = proc[c].stream
    BY <2>2, FetchedType
  <2>5. proc' \in [Cmds -> Commands] /\ VersionKnown'
    BY <2>2, <2>3, <2>4 DEF VersionKnown, Versions
  <2> QED
    BY <2>1, <2>5 DEF Fetch
<1>6. CASE \E c \in Cmds : DropCached(c)
  <2>1. PICK c \in Cmds : DropCached(c)
    BY <1>6
  <2>2. proc' \in [Cmds -> Commands] /\ VersionKnown'
    BY <2>1, GotoEffect, TouchEffect, EndedEffect, StoppedRun DEF DropCached, At, Pcs, Idle, SameJob
  <2>3. proc[c].version \in Versions(proc[c].stream)
    BY <2>1 DEF DropCached, At, VersionKnown, Idle
  <2>4. Dest(c) \in Paths /\ Created(c) \in Paths /\ Content(c) \in Files
    BY <2>3, JobPaths
  <2>5. image' \in [Paths -> Files]
    BY <2>1, <2>4 DEF DropCached, Files, Absent, NoImage
  <2>9. \A w \in WorkDirs :
            link'[w] # LocalPath(w) => link'[w] \in CachePaths /\ ~Exists(LocalPath(w))'
    BY <2>1, <2>4 DEF DropCached
  <2> QED
    BY <2>1, <2>2, <2>5, <2>9 DEF DropCached
<1>7. CASE \E c \in Cmds : CreateCompressed(c)
  <2>1. PICK c \in Cmds : CreateCompressed(c)
    BY <1>7
  <2>2. proc' \in [Cmds -> Commands] /\ VersionKnown'
    BY <2>1, GotoEffect, TouchEffect, EndedEffect, StoppedRun DEF CreateCompressed, At, Pcs, Idle, SameJob
  <2>3. proc[c].version \in Versions(proc[c].stream)
    BY <2>1 DEF CreateCompressed, At, VersionKnown, Idle
  <2>4. Dest(c) \in Paths /\ Created(c) \in Paths /\ Content(c) \in Files
    BY <2>3, JobPaths
  <2>5. Part \in Files
    BY DEF Part, Files, Absent, NoImage
  <2> QED
    BY <2>1, <2>2, <2>4, <2>5 DEF CreateCompressed
<1>8. CASE \E c \in Cmds, good \in BOOLEAN : FinishDownload(c, good)
  <2>1. PICK c \in Cmds, good \in BOOLEAN : FinishDownload(c, good)
    BY <1>8
  <2>2. proc' \in [Cmds -> Commands] /\ VersionKnown'
    BY <2>1, GotoEffect, TouchEffect, EndedEffect, StoppedRun DEF FinishDownload, At, Pcs, Idle, SameJob
  <2>3. proc[c].version \in Versions(proc[c].stream)
    BY <2>1 DEF FinishDownload, At, VersionKnown, Idle
  <2>4. Dest(c) \in Paths /\ Created(c) \in Paths /\ Content(c) \in Files
    BY <2>3, JobPaths
  <2> QED
    BY <2>1, <2>2, <2>4 DEF FinishDownload
<1>9. CASE \E c \in Cmds : Verify(c)
  <2>1. PICK c \in Cmds : Verify(c)
    BY <1>9
  <2>2. proc' \in [Cmds -> Commands] /\ VersionKnown'
    BY <2>1, GotoEffect, TouchEffect, EndedEffect, StoppedRun DEF Verify, At, Pcs, Idle, SameJob
  <2> QED
    BY <2>1, <2>2 DEF Verify
<1>10. CASE \E c \in Cmds : CreateImage(c)
  <2>1. PICK c \in Cmds : CreateImage(c)
    BY <1>10
  <2>2. proc' \in [Cmds -> Commands] /\ VersionKnown'
    BY <2>1, GotoEffect, TouchEffect, EndedEffect, StoppedRun DEF CreateImage, At, Pcs, Idle, SameJob
  <2>3. proc[c].version \in Versions(proc[c].stream)
    BY <2>1 DEF CreateImage, At, VersionKnown, Idle
  <2>4. Dest(c) \in Paths /\ Created(c) \in Paths /\ Content(c) \in Files
    BY <2>3, JobPaths
  <2>5. Part \in Files
    BY DEF Part, Files, Absent, NoImage
  <2>6. image' \in [Paths -> Files]
    BY <2>1, <2>4, <2>5 DEF CreateImage
  <2>9. \A w \in WorkDirs :
            link'[w] # LocalPath(w) => link'[w] \in CachePaths /\ ~Exists(LocalPath(w))'
    <3> SUFFICES ASSUME NEW w \in WorkDirs, link[w] # LocalPath(w)
                 PROVE  image'[LocalPath(w)] = image[LocalPath(w)]
      BY <2>1 DEF CreateImage
    <3>1. Created(c) # LocalPath(w)
      BY <2>3, CreatedApart
    <3> QED
      <4>1. image' = image \/ image' = [image EXCEPT ![Created(c)] = Part]
        BY <2>1 DEF CreateImage
      <4> QED
        BY <2>4, <3>1, <4>1 DEF Paths, LocalPaths
  <2> QED
    BY <2>1, <2>2, <2>6, <2>9 DEF CreateImage
<1>11. CASE \E c \in Cmds : FinishImage(c)
  <2>1. PICK c \in Cmds : FinishImage(c)
    BY <1>11
  <2>2. proc' \in [Cmds -> Commands] /\ VersionKnown'
    BY <2>1, GotoEffect, TouchEffect, EndedEffect, StoppedRun DEF FinishImage, At, Pcs, Idle, SameJob
  <2>3. proc[c].version \in Versions(proc[c].stream)
    BY <2>1 DEF FinishImage, At, VersionKnown, Idle
  <2>4. Dest(c) \in Paths /\ Created(c) \in Paths /\ Content(c) \in Files
    BY <2>3, JobPaths
  <2>5. Unpacked(c) \subseteq Files
    BY <2>4 DEF Unpacked, Files, Absent, NoImage
  <2>6. PICK i \in Unpacked(c) : image' = [image EXCEPT ![Created(c)] = i]
    BY <2>1 DEF FinishImage
  <2>9. \A w \in WorkDirs :
            link'[w] # LocalPath(w) => link'[w] \in CachePaths /\ ~Exists(LocalPath(w))'
    <3> SUFFICES ASSUME NEW w \in WorkDirs, link[w] # LocalPath(w)
                 PROVE  image'[LocalPath(w)] = image[LocalPath(w)]
      BY <2>1 DEF FinishImage
    <3>1. Created(c) # LocalPath(w)
      BY <2>3, CreatedApart
    <3> QED
      BY <2>4, <2>6, <3>1
  <2> QED
    BY <2>1, <2>2, <2>4, <2>5, <2>6, <2>9 DEF FinishImage
<1>12. CASE \E c \in Cmds : RemoveCompressed(c)
  <2>1. PICK c \in Cmds : RemoveCompressed(c)
    BY <1>12
  <2>2. proc' \in [Cmds -> Commands] /\ VersionKnown'
    BY <2>1, GotoEffect, TouchEffect, EndedEffect, StoppedRun DEF RemoveCompressed, At, Pcs, Idle, SameJob
  <2>3. proc[c].version \in Versions(proc[c].stream)
    BY <2>1 DEF RemoveCompressed, At, VersionKnown, Idle
  <2>4. Dest(c) \in Paths /\ Created(c) \in Paths /\ Content(c) \in Files
    BY <2>3, JobPaths
  <2>5. Absent \in Files
    BY DEF Files, Absent, NoImage
  <2> QED
    BY <2>1, <2>2, <2>4, <2>5 DEF RemoveCompressed
<1>13. CASE \E c \in Cmds : Unlink(c)
  <2>1. PICK c \in Cmds : Unlink(c)
    BY <1>13
  <2>2. proc' \in [Cmds -> Commands] /\ VersionKnown'
    BY <2>1, GotoEffect, TouchEffect, EndedEffect, StoppedRun DEF Unlink, At, Pcs, Idle, SameJob
  <2>3. Absent \in Files /\ LocalPath(proc[c].dir) \in Paths
    BY DEF Files, Absent, NoImage, Paths, LocalPaths, Commands
  <2>4. image' \in [Paths -> Files] /\ link' \in [WorkDirs -> Paths]
    BY <2>1, <2>3 DEF Unlink
  <2>9. \A w \in WorkDirs :
            link'[w] # LocalPath(w) => link'[w] \in CachePaths /\ ~Exists(LocalPath(w))'
    BY <2>1, <2>3 DEF Unlink
  <2> QED
    BY <2>1, <2>2, <2>4, <2>9 DEF Unlink
<1>14. CASE \E c \in Cmds : Symlink(c)
  <2>1. PICK c \in Cmds : Symlink(c)
    BY <1>14
  <2>2. proc' \in [Cmds -> Commands] /\ VersionKnown'
    BY <2>1, GotoEffect, TouchEffect, EndedEffect, StoppedRun DEF Symlink, At, Pcs, Idle, SameJob
  <2>3. proc[c].version \in Versions(proc[c].stream)
    BY <2>1 DEF Symlink, At, VersionKnown, Idle
  <2>4. Dest(c) \in Paths /\ Created(c) \in Paths /\ Content(c) \in Files
    BY <2>3, JobPaths
  <2>5. link' \in [WorkDirs -> Paths]
    BY <2>1, <2>4 DEF Symlink
  <2>9. \A w \in WorkDirs :
            link'[w] # LocalPath(w) => link'[w] \in CachePaths /\ ~Exists(LocalPath(w))'
    <3> SUFFICES ASSUME NEW w \in WorkDirs, link'[w] # LocalPath(w), link'[w] # link[w]
                 PROVE  link'[w] \in CachePaths /\ ~Exists(LocalPath(w))
      BY <2>1 DEF Symlink
    <3>1. w = proc[c].dir /\ link'[w] = Dest(c) /\ ~Exists(LocalPath(w))
      BY <2>1 DEF Symlink, Commands
    <3>2. Dest(c) \in CachePaths
      BY <2>3, <3>1, JobPaths DEF Commands
    <3> QED
      BY <3>1, <3>2
  <2> QED
    BY <2>1, <2>2, <2>5, <2>9 DEF Symlink
<1>15. CASE \E c \in Cmds : Stop(c)
  <2>1. PICK c \in Cmds : Stop(c)
    BY <1>15
  <2>2. proc' \in [Cmds -> Commands] /\ VersionKnown'
    BY <2>1, GotoEffect, TouchEffect, EndedEffect, StoppedRun DEF Stop, At, Pcs, Idle, SameJob
  <2> QED
    BY <2>1, <2>2 DEF Stop
<1> QED
  BY <1>0, <1>1, <1>2, <1>3, <1>4, <1>5, <1>6, <1>7, <1>8, <1>9,
     <1>10, <1>11, <1>12, <1>13, <1>14, <1>15, Actions

(* Every reachable state is well typed, for commands that overlap and are  *)
(* stopped anywhere, and a name is never a file and a symlink at once.     *)
THEOREM TypeCorrect == Spec => [](TypeOK /\ VersionKnown)
<1>1. Init => TypeOK /\ VersionKnown
  <2> SUFFICES ASSUME Init
               PROVE  TypeOK /\ VersionKnown
    OBVIOUS
  <2>1. Ended("none") \in Commands /\ Ended("none").pc = Idle
    BY EndedType DEF Ended
  <2>2. \A s \in Streams : latest[s] \in Versions(s)
    BY ConstantsAssumption DEF Init, Versions
  <2>3. Absent \in Files
    BY DEF Absent, Files, NoImage
  <2>4. \A w \in WorkDirs : LocalPath(w) \in Paths
    BY DEF Paths, LocalPaths
  <2> QED
    BY <2>1, <2>2, <2>3, <2>4 DEF Init, TypeOK, VersionKnown
<1>2. TypeOK /\ VersionKnown /\ [Next]_vars => (TypeOK /\ VersionKnown)'
  BY TypeStep
<1> QED
  BY <1>1, <1>2, PTL DEF Spec

-----------------------------------------------------------------------------
(* From here on commands run one after another, and no decompression is    *)
(* cut short.                                                              *)
OneAtATime == \A c, d \in Cmds : Running(c) /\ Running(d) => c = d

NoneDisturbed == \A c \in Cmds : ~proc[c].disturbed

(* An incomplete image is one that is being decompressed.                  *)
PartIsUnpacked ==
    \A p \in Paths : image[p].form = "partial" => \E c \in Cmds : At(c, "unpacking") /\ Created(c) = p

(* What a command relies on, place by place.                               *)
Relies(c) ==
    /\ proc[c].pc \in {"unpack", "unpacking"} => compressed[Dest(c)] = Content(c)
    /\ At(c, "unpacking") => image[Created(c)].form = "partial"
    /\ At(c, "tidy") => image[Created(c)] = Content(c)
    /\ proc[c].pc \in {"unlink", "symlink"} =>
          /\ proc[c].mode = "cached" /\ image[Dest(c)].form = "whole"
          /\ proc[c].op = "refresh" => image[Dest(c)] = Content(c)

WholeInv == OneAtATime /\ NoneDisturbed /\ PartIsUnpacked /\ \A c \in Cmds : Relies(c)

(* The step of the one command that runs.                                  *)
LEMMA AloneStep ==
    ASSUME TypeOK, WholeInv, NEW c \in Cmds, Running(c), ~proc'[c].disturbed,
           \A d \in Cmds \ {c} : proc'[d].pc = proc[d].pc /\ (~Running(d) => proc'[d] = proc[d]),
           \A p \in Paths : image'[p].form = "partial" => At(c, "unpacking")' /\ Created(c)' = p,
           Relies(c)'
    PROVE  WholeInv'
<1>1. \A d \in Cmds \ {c} : proc[d].pc = Idle /\ proc'[d] = proc[d]
  BY DEF WholeInv, OneAtATime, Running
<1>2. OneAtATime' /\ NoneDisturbed'
  BY <1>1 DEF WholeInv, OneAtATime, Running, NoneDisturbed
<1>3. PartIsUnpacked'
  BY DEF PartIsUnpacked, Paths
<1>4. \A d \in Cmds \ {c} : Relies(d)'
  BY <1>1 DEF Relies, At, Idle
<1> QED
  BY <1>2, <1>3, <1>4 DEF WholeInv

LEMMA NoPart ==
    ASSUME WholeInv, NEW c \in Cmds, Running(c), proc[c].pc # "unpacking"
    PROVE  \A p \in Paths : image[p].form # "partial"
BY DEF WholeInv, OneAtATime, Running, PartIsUnpacked, At, Idle

LEMMA WholeStep ==
    ASSUME ~Overlap, ~Cut, TypeOK, VersionKnown, WholeInv, [Next]_vars
    PROVE  WholeInv'
<1>0. CASE UNCHANGED vars
  BY <1>0 DEF vars, WholeInv, OneAtATime, NoneDisturbed, PartIsUnpacked, Relies, At, Running, Created, Dest, Content, Paths
<1>1. CASE \E s \in Streams : Publish(s)
  BY <1>1 DEF Publish, WholeInv, OneAtATime, NoneDisturbed, PartIsUnpacked, Relies, At, Running, Created, Dest, Content, Paths
<1>2. CASE \E c \in Cmds, op \in {"ensure", "refresh"}, w \in WorkDirs : \E use \in Uses[w] :
              Start(c, op, w, use[1], use[2])
  <2>1. PICK c \in Cmds, op \in {"ensure", "refresh"}, w \in WorkDirs, s \in Streams, mode \in Modes :
            Start(c, op, w, s, mode)
    BY <1>2, ConstantsAssumption
  <2>2. \A d \in Cmds : proc[d].pc = Idle
    BY <2>1 DEF Start, Running
  <2>3. \A p \in Paths : image'[p].form # "partial"
    BY <2>1, <2>2 DEF Start, WholeInv, PartIsUnpacked, At, Idle
  <2>4. \E pc \in {"look", "drop", "fetch"} : proc' = [proc EXCEPT ![c] = Begun(op, w, s, mode, pc)]
    BY <2>1 DEF Start
  <2>5. /\ proc'[c].pc \in {"look", "drop", "fetch"} /\ ~proc'[c].disturbed
        /\ \A d \in Cmds \ {c} : proc'[d] = proc[d]
    BY <2>4 DEF Begun, TypeOK
  <2>6. \A d \in Cmds : Relies(d)'
    BY <2>2, <2>5 DEF Relies, At, Idle
  <2>7. OneAtATime' /\ NoneDisturbed'
    BY <2>2, <2>5 DEF OneAtATime, NoneDisturbed, WholeInv, Running
  <2>8. PartIsUnpacked'
    BY <2>3 DEF PartIsUnpacked, Paths
  <2> QED
    BY <2>6, <2>7, <2>8 DEF WholeInv

<1>3. CASE \E c \in Cmds : Look(c)
  <2>1. PICK c \in Cmds : Look(c)
    BY <1>3
  <2>2. Running(c) /\ ~proc[c].disturbed
    BY <2>1 DEF Look, At, Running, Idle, WholeInv, NoneDisturbed
  <2>3. /\ proc'[c].pc \in {Idle, "fetch"} /\ ~proc'[c].disturbed
        /\ \A d \in Cmds \ {c} : proc'[d].pc = proc[d].pc /\ (~Running(d) => proc'[d] = proc[d])
    BY <2>1, <2>2, GotoEffect, TouchEffect, EndedEffect DEF Look, At, Pcs, Idle
  <2>4. \A p \in Paths : image[p].form # "partial"
    BY <2>1, <2>2, NoPart DEF Look, At
  <2>5. \A p \in Paths : image'[p].form # "partial"
    BY <2>1, <2>4 DEF Look, Absent, TypeOK
  <2>6. Relies(c)'
    BY <2>3 DEF Relies, At, Idle
  <2> QED
    BY <2>2, <2>3, <2>5, <2>6, AloneStep
<1>4. CASE \E c \in Cmds : DropLocal(c)
  <2>1. PICK c \in Cmds : DropLocal(c)
    BY <1>4
  <2>2. Running(c) /\ ~proc[c].disturbed
    BY <2>1 DEF DropLocal, At, Running, Idle, WholeInv, NoneDisturbed
  <2>3. /\ proc'[c].pc \in {"fetch"} /\ ~proc'[c].disturbed
        /\ \A d \in Cmds \ {c} : proc'[d].pc = proc[d].pc /\ (~Running(d) => proc'[d] = proc[d])
    BY <2>1, <2>2, GotoEffect, TouchEffect, EndedEffect DEF DropLocal, At, Pcs, Idle
  <2>4. \A p \in Paths : image[p].form # "partial"
    BY <2>1, <2>2, NoPart DEF DropLocal, At
  <2>5. \A p \in Paths : image'[p].form # "partial"
    BY <2>1, <2>4 DEF DropLocal, Absent, TypeOK
  <2>6. Relies(c)'
    BY <2>3 DEF Relies, At, Idle
  <2> QED
    BY <2>2, <2>3, <2>5, <2>6, AloneStep
<1>5. CASE \E c \in Cmds : Fetch(c)
  <2>1. PICK c \in Cmds : Fetch(c)
    BY <1>5
  <2> DEFINE k == proc[c]
             v == latest[k.stream]
             next == IF k.mode = "flat" THEN "get"
                     ELSE IF k.op = "refresh" THEN "dropCached"
                     ELSE IF Exists(CachedPath(k.stream, v)) THEN "unlink" ELSE "get"
  <2>2. Running(c) /\ ~proc[c].disturbed
    BY <2>1 DEF Fetch, At, Running, Idle, WholeInv, NoneDisturbed
  <2>4. \A p \in Paths : image[p].form # "partial"
    BY <2>1, <2>2, NoPart DEF Fetch, At
  <2>7. proc' = [proc EXCEPT ![c].version = v, ![c].pc = next] /\ image' = image
    BY <2>1 DEF Fetch
  <2>8. /\ next \in {"get", "dropCached", "unlink"}
        /\ next = "unlink" => /\ k.mode = "cached" /\ k.op # "refresh"
                              /\ Exists(CachedPath(k.stream, v))
    <3>1. k.mode \in {"cached", "flat"}
      BY DEF TypeOK, Commands, Modes
    <3>2. CASE k.mode = "flat"
      BY <3>2
    <3>3. CASE k.mode = "cached" /\ k.op = "refresh"
      BY <3>3
    <3>4. CASE k.mode = "cached" /\ k.op # "refresh"
      BY <3>4
    <3> QED
      BY <3>1, <3>2, <3>3, <3>4
  <2>3. /\ proc'[c].pc = next /\ proc'[c].version = v /\ proc'[c].mode = k.mode
        /\ proc'[c].stream = k.stream /\ proc'[c].op = k.op /\ ~proc'[c].disturbed
        /\ \A d \in Cmds \ {c} : proc'[d] = proc[d]
    <3> HIDE DEF next
    <3> QED
      BY <2>2, <2>7 DEF TypeOK, Commands
  <2>5. \A p \in Paths : image'[p].form # "partial"
    BY <2>4, <2>7
  <2>6. Relies(c)'
    <3>1. CASE next = "unlink"
      <4> DEFINE p == CachedPath(k.stream, v)
      <4>1. p \in Paths
        BY DEF TypeOK, Commands, Paths, CachePaths
      <4>2. image[p].form = "whole"
        BY <2>4, <2>8, <3>1, <4>1 DEF Exists, TypeOK, Files
      <4>3. Dest(c)' = p
        BY <2>3, <2>8, <3>1 DEF Dest
      <4> QED
        BY <2>3, <2>7, <2>8, <3>1, <4>2, <4>3 DEF Relies, At
    <3>2. CASE next # "unlink"
      <4> HIDE DEF next
      <4> QED
        BY <2>3, <2>8, <3>2 DEF Relies, At
    <3> QED
      BY <3>1, <3>2
  <2> HIDE DEF next
  <2> QED
    BY <2>2, <2>3, <2>5, <2>6, AloneStep
<1>6. CASE \E c \in Cmds : DropCached(c)
  <2>1. PICK c \in Cmds : DropCached(c)
    BY <1>6
  <2>2. Running(c) /\ ~proc[c].disturbed
    BY <2>1 DEF DropCached, At, Running, Idle, WholeInv, NoneDisturbed
  <2>3. /\ proc'[c].pc \in {"get"} /\ ~proc'[c].disturbed
        /\ \A d \in Cmds \ {c} : proc'[d].pc = proc[d].pc /\ (~Running(d) => proc'[d] = proc[d])
    BY <2>1, <2>2, GotoEffect, TouchEffect, EndedEffect DEF DropCached, At, Pcs, Idle
  <2>4. \A p \in Paths : image[p].form # "partial"
    BY <2>1, <2>2, NoPart DEF DropCached, At
  <2>5. \A p \in Paths : image'[p].form # "partial"
    BY <2>1, <2>4 DEF DropCached, Absent, TypeOK
  <2>6. Relies(c)'
    BY <2>3 DEF Relies, At, Idle
  <2> QED
    BY <2>2, <2>3, <2>5, <2>6, AloneStep
<1>7. CASE \E c \in Cmds : CreateCompressed(c)
  <2>1. PICK c \in Cmds : CreateCompressed(c)
    BY <1>7
  <2>2. Running(c) /\ ~proc[c].disturbed
    BY <2>1 DEF CreateCompressed, At, Running, Idle, WholeInv, NoneDisturbed
  <2>3. /\ proc'[c].pc \in {"getting"} /\ ~proc'[c].disturbed
        /\ \A d \in Cmds \ {c} : proc'[d].pc = proc[d].pc /\ (~Running(d) => proc'[d] = proc[d])
    BY <2>1, <2>2, GotoEffect, TouchEffect, EndedEffect DEF CreateCompressed, At, Pcs, Idle
  <2>4. \A p \in Paths : image[p].form # "partial"
    BY <2>1, <2>2, NoPart DEF CreateCompressed, At
  <2>5. \A p \in Paths : image'[p].form # "partial"
    BY <2>1, <2>4 DEF CreateCompressed, Absent, TypeOK
  <2>6. Relies(c)'
    BY <2>3 DEF Relies, At, Idle
  <2> QED
    BY <2>2, <2>3, <2>5, <2>6, AloneStep
<1>8. CASE \E c \in Cmds, good \in BOOLEAN : FinishDownload(c, good)
  <2>1. PICK c \in Cmds, good \in BOOLEAN : FinishDownload(c, good)
    BY <1>8
  <2>2. Running(c) /\ ~proc[c].disturbed
    BY <2>1 DEF FinishDownload, At, Running, Idle, WholeInv, NoneDisturbed
  <2>3. /\ proc'[c].pc \in {"verify"} /\ ~proc'[c].disturbed
        /\ \A d \in Cmds \ {c} : proc'[d].pc = proc[d].pc /\ (~Running(d) => proc'[d] = proc[d])
    BY <2>1, <2>2, GotoEffect, TouchEffect, EndedEffect DEF FinishDownload, At, Pcs, Idle
  <2>4. \A p \in Paths : image[p].form # "partial"
    BY <2>1, <2>2, NoPart DEF FinishDownload, At
  <2>5. \A p \in Paths : image'[p].form # "partial"
    BY <2>1, <2>4 DEF FinishDownload, Absent, TypeOK
  <2>6. Relies(c)'
    BY <2>3 DEF Relies, At, Idle
  <2> QED
    BY <2>2, <2>3, <2>5, <2>6, AloneStep
<1>9. CASE \E c \in Cmds : Verify(c)
  <2>1. PICK c \in Cmds : Verify(c)
    BY <1>9
  <2>2. Running(c) /\ ~proc[c].disturbed
    BY <2>1 DEF Verify, At, Running, Idle, WholeInv, NoneDisturbed
  <2>3. /\ proc'[c].pc \in {Idle, "unpack"} /\ ~proc'[c].disturbed
        /\ \A d \in Cmds \ {c} : proc'[d].pc = proc[d].pc /\ (~Running(d) => proc'[d] = proc[d])
    BY <2>1, <2>2, GotoEffect, TouchEffect, EndedEffect DEF Verify, At, Pcs, Idle
  <2>4. \A p \in Paths : image[p].form # "partial"
    BY <2>1, <2>2, NoPart DEF Verify, At
  <2>5. \A p \in Paths : image'[p].form # "partial"
    BY <2>1, <2>4 DEF Verify, Absent, TypeOK
  <2>7. proc'[c].pc # Idle => SameJob(proc'[c], proc[c])
    BY <2>1, <2>3, GotoEffect, TouchEffect, EndedEffect DEF Verify, At, Pcs, Idle
  <2>8. proc'[c].pc = "unpack" => compressed[Dest(c)] = Content(c)
    BY <2>1, EndedEffect DEF Verify, Idle
  <2>6. Relies(c)'
    <3>1. CASE proc'[c].pc = Idle
      BY <3>1 DEF Relies, At, Idle
    <3>2. CASE proc'[c].pc = "unpack"
      <4>1. Dest(c)' = Dest(c) /\ Content(c)' = Content(c) /\ compressed' = compressed
        BY <2>1, <2>7, <3>2 DEF Verify, Dest, Content, SameJob, Idle
      <4> QED
        BY <2>8, <3>2, <4>1 DEF Relies, At
    <3> QED
      BY <2>3, <3>1, <3>2
  <2> QED
    BY <2>2, <2>3, <2>5, <2>6, AloneStep
<1>10. CASE \E c \in Cmds : CreateImage(c)
  <2>1. PICK c \in Cmds : CreateImage(c)
    BY <1>10
  <2>2. Running(c) /\ ~proc[c].disturbed
    BY <2>1 DEF CreateImage, At, Running, Idle, WholeInv, NoneDisturbed
  <2>3. /\ proc'[c].pc \in {Idle, "unpacking"} /\ ~proc'[c].disturbed
        /\ \A d \in Cmds \ {c} : proc'[d].pc = proc[d].pc /\ (~Running(d) => proc'[d] = proc[d])
    BY <2>1, <2>2, GotoEffect, TouchEffect, EndedEffect DEF CreateImage, At, Pcs, Idle
  <2>4. \A p \in Paths : image[p].form # "partial"
    BY <2>1, <2>2, NoPart DEF CreateImage, At
  <2>7. compressed[Dest(c)] = Content(c) /\ compressed[Dest(c)] # Absent
    BY <2>1 DEF CreateImage, WholeInv, Relies, At, Absent, Content
  <2>8. /\ GotoTouching(c, "unpacking") /\ image' = [image EXCEPT ![Created(c)] = Part]
        /\ compressed' = compressed /\ link' = link
    BY <2>1, <2>7 DEF CreateImage
  <2>9. proc'[c].pc = "unpacking" /\ SameJob(proc'[c], proc[c])
    BY <2>8, TouchEffect DEF Pcs
  <2>10. Dest(c)' = Dest(c) /\ Created(c)' = Created(c) /\ Content(c)' = Content(c)
    BY <2>8, <2>9 DEF Created, Dest, Content, SameJob
  <2>11. Created(c) \in Paths
    BY <2>1, JobPaths DEF CreateImage, At, VersionKnown, Idle
  <2>5. \A p \in Paths : image'[p].form = "partial" => At(c, "unpacking")' /\ Created(c)' = p
    BY <2>4, <2>8, <2>9, <2>10 DEF At, TypeOK
  <2>6. Relies(c)'
    BY <2>7, <2>8, <2>9, <2>10, <2>11 DEF Relies, At, Part, Absent, TypeOK
  <2> QED
    BY <2>2, <2>3, <2>5, <2>6, AloneStep
<1>11. CASE \E c \in Cmds : FinishImage(c)
  <2>1. PICK c \in Cmds : FinishImage(c)
    BY <1>11
  <2>2. Running(c) /\ ~proc[c].disturbed
    BY <2>1 DEF FinishImage, At, Running, Idle, WholeInv, NoneDisturbed
  <2>3. /\ proc'[c].pc \in {"tidy"} /\ ~proc'[c].disturbed
        /\ \A d \in Cmds \ {c} : proc'[d].pc = proc[d].pc /\ (~Running(d) => proc'[d] = proc[d])
    BY <2>1, <2>2, GotoEffect, TouchEffect, EndedEffect DEF FinishImage, At, Pcs, Idle
  <2>4. image[Created(c)].form = "partial"
    BY <2>1 DEF FinishImage, WholeInv, Relies
  <2>7. Unpacked(c) = {Content(c)}
    BY <2>2, <2>4 DEF Unpacked, Absent
  <2>8. Goto(c, "tidy") /\ image' = [image EXCEPT ![Created(c)] = Content(c)] /\ link' = link
    BY <2>1, <2>7 DEF FinishImage
  <2>9. Created(c)' = Created(c) /\ Content(c)' = Content(c)
    BY <2>8, GotoEffect DEF Created, Dest, Content, SameJob, Pcs
  <2>10. Created(c) \in Paths
    BY <2>1, JobPaths DEF FinishImage, At, VersionKnown, Idle
  <2>11. \A p \in Paths : image[p].form = "partial" => Created(c) = p
    BY <2>1 DEF FinishImage, WholeInv, OneAtATime, PartIsUnpacked, Running, At, Idle
  <2>5. \A p \in Paths : image'[p].form # "partial"
    BY <2>8, <2>11 DEF Content, TypeOK
  <2>6. Relies(c)'
    BY <2>3, <2>8, <2>9, <2>10 DEF Relies, At, TypeOK
  <2> QED
    BY <2>2, <2>3, <2>5, <2>6, AloneStep
<1>12. CASE \E c \in Cmds : RemoveCompressed(c)
  <2>1. PICK c \in Cmds : RemoveCompressed(c)
    BY <1>12
  <2>2. Running(c) /\ ~proc[c].disturbed
    BY <2>1 DEF RemoveCompressed, At, Running, Idle, WholeInv, NoneDisturbed
  <2>3. /\ proc'[c].pc \in {Idle, "unlink"} /\ ~proc'[c].disturbed
        /\ \A d \in Cmds \ {c} : proc'[d].pc = proc[d].pc /\ (~Running(d) => proc'[d] = proc[d])
    BY <2>1, <2>2, GotoEffect, TouchEffect, EndedEffect DEF RemoveCompressed, At, Pcs, Idle
  <2>4. \A p \in Paths : image[p].form # "partial"
    BY <2>1, <2>2, NoPart DEF RemoveCompressed, At
  <2>5. \A p \in Paths : image'[p].form # "partial"
    BY <2>1, <2>4 DEF RemoveCompressed, Absent, TypeOK
  <2>6. Relies(c)'
    <3>1. CASE proc[c].mode = "cached"
      <4>1. GotoTouching(c, "unlink")
        BY <2>1, <3>1 DEF RemoveCompressed
      <4>2. proc'[c].pc = "unlink" /\ SameJob(proc'[c], proc[c])
        BY <4>1, TouchEffect DEF Pcs
      <4>3. image[Dest(c)] = Content(c) /\ image[Dest(c)].form = "whole"
        BY <2>1, <3>1 DEF RemoveCompressed, WholeInv, Relies, Created, Content
      <4> QED
        BY <2>1, <3>1, <4>2, <4>3 DEF RemoveCompressed, Relies, At, Dest, Content, SameJob
    <3>2. CASE proc[c].mode # "cached"
      <4>1. proc'[c].pc = Idle
        BY <2>1, <3>2, EndedEffect DEF RemoveCompressed
      <4> QED
        BY <4>1 DEF Relies, At, Idle
    <3> QED
      BY <3>1, <3>2
  <2> QED
    BY <2>2, <2>3, <2>5, <2>6, AloneStep
<1>13. CASE \E c \in Cmds : Unlink(c)
  <2>1. PICK c \in Cmds : Unlink(c)
    BY <1>13
  <2>2. Running(c) /\ ~proc[c].disturbed
    BY <2>1 DEF Unlink, At, Running, Idle, WholeInv, NoneDisturbed
  <2>3. /\ proc'[c].pc \in {"symlink"} /\ ~proc'[c].disturbed
        /\ \A d \in Cmds \ {c} : proc'[d].pc = proc[d].pc /\ (~Running(d) => proc'[d] = proc[d])
    BY <2>1, <2>2, GotoEffect, TouchEffect, EndedEffect DEF Unlink, At, Pcs, Idle
  <2>4. \A p \in Paths : image[p].form # "partial"
    BY <2>1, <2>2, NoPart DEF Unlink, At
  <2>5. \A p \in Paths : image'[p].form # "partial"
    BY <2>1, <2>4 DEF Unlink, Absent, TypeOK
  <2>7. SameJob(proc'[c], proc[c])
    BY <2>1, GotoEffect DEF Unlink, Pcs
  <2>8. /\ proc[c].mode = "cached" /\ image[Dest(c)].form = "whole"
        /\ proc[c].op = "refresh" => image[Dest(c)] = Content(c)
    BY <2>1 DEF Unlink, WholeInv, Relies, At
  <2>9. proc[c].version \in Versions(proc[c].stream) /\ proc[c].dir \in WorkDirs
    BY <2>1 DEF Unlink, At, VersionKnown, Idle, TypeOK, Commands
  <2>10. Dest(c) \in Paths /\ Dest(c) # LocalPath(proc[c].dir)
    BY <2>8, <2>9, JobPaths, CacheNotLocal
  <2>11. image'[Dest(c)] = image[Dest(c)]
    BY <2>1, <2>10 DEF Unlink, TypeOK
  <2>6. Relies(c)'
    BY <2>3, <2>7, <2>8, <2>11 DEF Relies, At, Dest, Content, SameJob
  <2> QED
    BY <2>2, <2>3, <2>5, <2>6, AloneStep
<1>14. CASE \E c \in Cmds : Symlink(c)
  <2>1. PICK c \in Cmds : Symlink(c)
    BY <1>14
  <2>2. Running(c) /\ ~proc[c].disturbed
    BY <2>1 DEF Symlink, At, Running, Idle, WholeInv, NoneDisturbed
  <2>3. /\ proc'[c].pc \in {Idle} /\ ~proc'[c].disturbed
        /\ \A d \in Cmds \ {c} : proc'[d].pc = proc[d].pc /\ (~Running(d) => proc'[d] = proc[d])
    BY <2>1, <2>2, GotoEffect, TouchEffect, EndedEffect DEF Symlink, At, Pcs, Idle
  <2>4. \A p \in Paths : image[p].form # "partial"
    BY <2>1, <2>2, NoPart DEF Symlink, At
  <2>5. \A p \in Paths : image'[p].form # "partial"
    BY <2>1, <2>4 DEF Symlink, Absent, TypeOK
  <2>6. Relies(c)'
    BY <2>3 DEF Relies, At, Idle
  <2> QED
    BY <2>2, <2>3, <2>5, <2>6, AloneStep
<1>15. CASE \E c \in Cmds : Stop(c)
  <2>1. PICK c \in Cmds : Stop(c)
    BY <1>15
  <2>2. Running(c) /\ ~proc[c].disturbed
    BY <2>1 DEF Stop, At, Running, Idle, WholeInv, NoneDisturbed
  <2>3. /\ proc'[c].pc \in {Idle} /\ ~proc'[c].disturbed
        /\ \A d \in Cmds \ {c} : proc'[d].pc = proc[d].pc /\ (~Running(d) => proc'[d] = proc[d])
    BY <2>1, <2>2, GotoEffect, TouchEffect, EndedEffect DEF Stop, At, Pcs, Idle
  <2>8. proc[c].pc = "unpacking" => compressed[Dest(c)] = Content(c)
    BY DEF WholeInv, Relies
  <2>9. Content(c).form = "whole"
    BY DEF Content
  <2>7. proc[c].pc # "unpacking"
    BY <2>1, <2>2, <2>8, <2>9 DEF Stop, Readable, At
  <2>4. \A p \in Paths : image[p].form # "partial"
    BY <2>2, <2>7, NoPart
  <2>5. \A p \in Paths : image'[p].form # "partial"
    BY <2>1, <2>4 DEF Stop, Absent, TypeOK
  <2>6. Relies(c)'
    BY <2>3 DEF Relies, At, Idle
  <2> QED
    BY <2>2, <2>3, <2>5, <2>6, AloneStep
<1> QED
  BY <1>0, <1>1, <1>2, <1>3, <1>4, <1>5, <1>6, <1>7, <1>8, <1>9,
     <1>10, <1>11, <1>12, <1>13, <1>14, <1>15, Actions

-----------------------------------------------------------------------------
(* Versions only grow, so the metadata a command fetches is no older than  *)
(* what was latest when it began; only ensure looks for an image first.    *)
NoOlder(c) ==
    /\ At(c, "look") => proc[c].op = "ensure"
    /\ Running(c) => proc[c].since <= latest[proc[c].stream]
    /\ proc[c].pc \notin {Idle, "look", "drop", "fetch"} => proc[c].version >= proc[c].since

SinceKnown == \A c \in Cmds : NoOlder(c)

LEMMA SinceKept ==
    ASSUME SinceKnown, latest' = latest,
           \A d \in Cmds :
              \/ proc'[d].pc = Idle
              \/ /\ Running(d) /\ SameJob(proc'[d], proc[d])
                 /\ \/ proc'[d].pc = proc[d].pc
                    \/ proc'[d].pc = "fetch"
                    \/ proc'[d].pc # "look" /\ proc[d].pc \notin {"look", "drop", "fetch"}
    PROVE  SinceKnown'
<1> SUFFICES ASSUME NEW d \in Cmds, Running(d)'
             PROVE  /\ At(d, "look")' => proc'[d].op = "ensure"
                    /\ proc'[d].since <= latest'[proc'[d].stream]
                    /\ proc'[d].pc \notin {Idle, "look", "drop", "fetch"}
                          => proc'[d].version >= proc'[d].since
  BY DEF SinceKnown, NoOlder, Running, At, Idle
<1>1. /\ Running(d) /\ SameJob(proc'[d], proc[d])
      /\ \/ proc'[d].pc = proc[d].pc
         \/ proc'[d].pc = "fetch"
         \/ proc'[d].pc # "look" /\ proc[d].pc \notin {"look", "drop", "fetch"}
  BY DEF Running
<1> QED
  BY <1>1 DEF SinceKnown, NoOlder, SameJob, Running, At

LEMMA SinceStep ==
    ASSUME TypeOK, SinceKnown, [Next]_vars
    PROVE  SinceKnown'
<1>0. CASE UNCHANGED vars
  BY <1>0 DEF vars, SinceKnown, NoOlder, At, Running
<1>1. CASE \E s \in Streams : Publish(s)
  <2>1. PICK s \in Streams : Publish(s)
    BY <1>1
  <2>2. latest[s] \in Nat
    BY ConstantsAssumption DEF TypeOK, Versions
  <2>3. \A t \in Streams : latest[t] \in Nat /\ latest'[t] \in Nat /\ latest[t] <= latest'[t]
    BY <2>1, <2>2, ConstantsAssumption DEF Publish, TypeOK, Versions
  <2>4. \A c \in Cmds : proc[c].stream \in Streams /\ proc[c].since \in Nat
    BY DEF TypeOK, Commands
  <2> QED
    BY <2>1, <2>3, <2>4 DEF Publish, SinceKnown, NoOlder, At, Running
<1>2. CASE \E c \in Cmds, op \in {"ensure", "refresh"}, w \in WorkDirs : \E use \in Uses[w] :
              Start(c, op, w, use[1], use[2])
  <2>1. PICK c \in Cmds, op \in {"ensure", "refresh"}, w \in WorkDirs, s \in Streams, mode \in Modes :
            Start(c, op, w, s, mode)
    BY <1>2, ConstantsAssumption
  <2>2. PICK pc \in {"look", "drop", "fetch"} :
            proc' = [proc EXCEPT ![c] = Begun(op, w, s, mode, pc)] /\ (pc = "look" => op = "ensure")
    BY <2>1 DEF Start
  <2>3. /\ proc'[c] = Begun(op, w, s, mode, pc) /\ latest' = latest
        /\ \A d \in Cmds \ {c} : proc'[d] = proc[d]
    BY <2>1, <2>2 DEF Start, TypeOK
  <2>4. latest[s] \in Nat
    BY ConstantsAssumption DEF TypeOK, Versions
  <2> QED
    BY <2>2, <2>3, <2>4 DEF SinceKnown, NoOlder, Begun, At, Running
<1>3. CASE \E c \in Cmds : Look(c)
  <2>1. PICK c \in Cmds : Look(c)
    BY <1>3
  <2>2. /\ latest' = latest /\ Running(c)
        /\ \/ proc'[c].pc = Idle
           \/ /\ SameJob(proc'[c], proc[c])
              /\ \/ proc'[c].pc = "fetch"
                 \/ proc'[c].pc # "look" /\ proc[c].pc \notin {"look", "drop", "fetch"}
    BY <2>1, GotoEffect, TouchEffect, EndedEffect DEF Look, At, Running, Pcs, Idle
  <2>3. \A d \in Cmds \ {c} : SameJob(proc'[d], proc[d]) /\ proc'[d].pc = proc[d].pc
    BY <2>1, GotoEffect, TouchEffect, EndedEffect DEF Look, Pcs, Idle, SameJob
  <2> QED
    BY <2>2, <2>3, SinceKept DEF Running
<1>4. CASE \E c \in Cmds : DropLocal(c)
  <2>1. PICK c \in Cmds : DropLocal(c)
    BY <1>4
  <2>2. /\ latest' = latest /\ Running(c)
        /\ \/ proc'[c].pc = Idle
           \/ /\ SameJob(proc'[c], proc[c])
              /\ \/ proc'[c].pc = "fetch"
                 \/ proc'[c].pc # "look" /\ proc[c].pc \notin {"look", "drop", "fetch"}
    BY <2>1, GotoEffect, TouchEffect, EndedEffect DEF DropLocal, At, Running, Pcs, Idle
  <2>3. \A d \in Cmds \ {c} : SameJob(proc'[d], proc[d]) /\ proc'[d].pc = proc[d].pc
    BY <2>1, GotoEffect, TouchEffect, EndedEffect DEF DropLocal, Pcs, Idle, SameJob
  <2> QED
    BY <2>2, <2>3, SinceKept DEF Running
<1>5. CASE \E c \in Cmds : Fetch(c)
  <2>1. PICK c \in Cmds : Fetch(c)
    BY <1>5
  <2> DEFINE v == latest[proc[c].stream]
             next == IF proc[c].mode = "flat" THEN "get"
                     ELSE IF proc[c].op = "refresh" THEN "dropCached"
                     ELSE IF Exists(CachedPath(proc[c].stream, v)) THEN "unlink" ELSE "get"
  <2>6. /\ proc' = [proc EXCEPT ![c].version = v, ![c].pc = next]
        /\ next # "look" /\ latest' = latest
    BY <2>1 DEF Fetch
  <2>2. PICK pc : /\ proc' = [proc EXCEPT ![c].version = v, ![c].pc = pc]
                  /\ pc # "look" /\ latest' = latest
    <3> HIDE DEF next
    <3> QED
      BY <2>6
  <2>3. /\ proc'[c].pc # "look" /\ proc'[c].version = latest[proc[c].stream]
        /\ proc'[c].since = proc[c].since /\ proc'[c].stream = proc[c].stream
        /\ \A d \in Cmds \ {c} : proc'[d] = proc[d]
    BY <2>2 DEF TypeOK, Commands
  <2>4. proc[c].since <= latest[proc[c].stream] /\ proc[c].since \in Nat
    BY <2>1 DEF Fetch, SinceKnown, NoOlder, Running, At, Idle, TypeOK, Commands
  <2>5. latest[proc[c].stream] \in Nat
    BY ConstantsAssumption DEF TypeOK, Versions, Commands
  <2> HIDE DEF next
  <2>7. /\ proc'[c].pc # "look" /\ latest' = latest
        /\ proc'[c].since <= latest'[proc'[c].stream] /\ proc'[c].version >= proc'[c].since
    BY <2>2, <2>3, <2>4, <2>5
  <2>8. NoOlder(c)'
    BY <2>7 DEF NoOlder, At
  <2>9. ASSUME NEW d \in Cmds \ {c}
        PROVE  NoOlder(d)'
    <3>1. proc'[d] = proc[d] /\ latest' = latest /\ NoOlder(d)
      BY <2>2, <2>3 DEF SinceKnown
    <3> QED
      BY <3>1 DEF NoOlder, Running, At
  <2> QED
    BY <2>8, <2>9 DEF SinceKnown
<1>6. CASE \E c \in Cmds : DropCached(c)
  <2>1. PICK c \in Cmds : DropCached(c)
    BY <1>6
  <2>2. /\ latest' = latest /\ Running(c)
        /\ \/ proc'[c].pc = Idle
           \/ /\ SameJob(proc'[c], proc[c])
              /\ \/ proc'[c].pc = "fetch"
                 \/ proc'[c].pc # "look" /\ proc[c].pc \notin {"look", "drop", "fetch"}
    BY <2>1, GotoEffect, TouchEffect, EndedEffect DEF DropCached, At, Running, Pcs, Idle
  <2>3. \A d \in Cmds \ {c} : SameJob(proc'[d], proc[d]) /\ proc'[d].pc = proc[d].pc
    BY <2>1, GotoEffect, TouchEffect, EndedEffect DEF DropCached, Pcs, Idle, SameJob
  <2> QED
    BY <2>2, <2>3, SinceKept DEF Running
<1>7. CASE \E c \in Cmds : CreateCompressed(c)
  <2>1. PICK c \in Cmds : CreateCompressed(c)
    BY <1>7
  <2>2. /\ latest' = latest /\ Running(c)
        /\ \/ proc'[c].pc = Idle
           \/ /\ SameJob(proc'[c], proc[c])
              /\ \/ proc'[c].pc = "fetch"
                 \/ proc'[c].pc # "look" /\ proc[c].pc \notin {"look", "drop", "fetch"}
    BY <2>1, GotoEffect, TouchEffect, EndedEffect DEF CreateCompressed, At, Running, Pcs, Idle
  <2>3. \A d \in Cmds \ {c} : SameJob(proc'[d], proc[d]) /\ proc'[d].pc = proc[d].pc
    BY <2>1, GotoEffect, TouchEffect, EndedEffect DEF CreateCompressed, Pcs, Idle, SameJob
  <2> QED
    BY <2>2, <2>3, SinceKept DEF Running
<1>8. CASE \E c \in Cmds, good \in BOOLEAN : FinishDownload(c, good)
  <2>1. PICK c \in Cmds, good \in BOOLEAN : FinishDownload(c, good)
    BY <1>8
  <2>2. /\ latest' = latest /\ Running(c)
        /\ \/ proc'[c].pc = Idle
           \/ /\ SameJob(proc'[c], proc[c])
              /\ \/ proc'[c].pc = "fetch"
                 \/ proc'[c].pc # "look" /\ proc[c].pc \notin {"look", "drop", "fetch"}
    BY <2>1, GotoEffect, TouchEffect, EndedEffect DEF FinishDownload, At, Running, Pcs, Idle
  <2>3. \A d \in Cmds \ {c} : SameJob(proc'[d], proc[d]) /\ proc'[d].pc = proc[d].pc
    BY <2>1, GotoEffect, TouchEffect, EndedEffect DEF FinishDownload, Pcs, Idle, SameJob
  <2> QED
    BY <2>2, <2>3, SinceKept DEF Running
<1>9. CASE \E c \in Cmds : Verify(c)
  <2>1. PICK c \in Cmds : Verify(c)
    BY <1>9
  <2>2. /\ latest' = latest /\ Running(c)
        /\ \/ proc'[c].pc = Idle
           \/ /\ SameJob(proc'[c], proc[c])
              /\ \/ proc'[c].pc = "fetch"
                 \/ proc'[c].pc # "look" /\ proc[c].pc \notin {"look", "drop", "fetch"}
    BY <2>1, GotoEffect, TouchEffect, EndedEffect DEF Verify, At, Running, Pcs, Idle
  <2>3. \A d \in Cmds \ {c} : SameJob(proc'[d], proc[d]) /\ proc'[d].pc = proc[d].pc
    BY <2>1, GotoEffect, TouchEffect, EndedEffect DEF Verify, Pcs, Idle, SameJob
  <2> QED
    BY <2>2, <2>3, SinceKept DEF Running
<1>10. CASE \E c \in Cmds : CreateImage(c)
  <2>1. PICK c \in Cmds : CreateImage(c)
    BY <1>10
  <2>2. /\ latest' = latest /\ Running(c)
        /\ \/ proc'[c].pc = Idle
           \/ /\ SameJob(proc'[c], proc[c])
              /\ \/ proc'[c].pc = "fetch"
                 \/ proc'[c].pc # "look" /\ proc[c].pc \notin {"look", "drop", "fetch"}
    BY <2>1, GotoEffect, TouchEffect, EndedEffect DEF CreateImage, At, Running, Pcs, Idle
  <2>3. \A d \in Cmds \ {c} : SameJob(proc'[d], proc[d]) /\ proc'[d].pc = proc[d].pc
    BY <2>1, GotoEffect, TouchEffect, EndedEffect DEF CreateImage, Pcs, Idle, SameJob
  <2> QED
    BY <2>2, <2>3, SinceKept DEF Running
<1>11. CASE \E c \in Cmds : FinishImage(c)
  <2>1. PICK c \in Cmds : FinishImage(c)
    BY <1>11
  <2>2. /\ latest' = latest /\ Running(c)
        /\ \/ proc'[c].pc = Idle
           \/ /\ SameJob(proc'[c], proc[c])
              /\ \/ proc'[c].pc = "fetch"
                 \/ proc'[c].pc # "look" /\ proc[c].pc \notin {"look", "drop", "fetch"}
    BY <2>1, GotoEffect, TouchEffect, EndedEffect DEF FinishImage, At, Running, Pcs, Idle
  <2>3. \A d \in Cmds \ {c} : SameJob(proc'[d], proc[d]) /\ proc'[d].pc = proc[d].pc
    BY <2>1, GotoEffect, TouchEffect, EndedEffect DEF FinishImage, Pcs, Idle, SameJob
  <2> QED
    BY <2>2, <2>3, SinceKept DEF Running
<1>12. CASE \E c \in Cmds : RemoveCompressed(c)
  <2>1. PICK c \in Cmds : RemoveCompressed(c)
    BY <1>12
  <2>2. /\ latest' = latest /\ Running(c)
        /\ \/ proc'[c].pc = Idle
           \/ /\ SameJob(proc'[c], proc[c])
              /\ \/ proc'[c].pc = "fetch"
                 \/ proc'[c].pc # "look" /\ proc[c].pc \notin {"look", "drop", "fetch"}
    BY <2>1, GotoEffect, TouchEffect, EndedEffect DEF RemoveCompressed, At, Running, Pcs, Idle
  <2>3. \A d \in Cmds \ {c} : SameJob(proc'[d], proc[d]) /\ proc'[d].pc = proc[d].pc
    BY <2>1, GotoEffect, TouchEffect, EndedEffect DEF RemoveCompressed, Pcs, Idle, SameJob
  <2> QED
    BY <2>2, <2>3, SinceKept DEF Running
<1>13. CASE \E c \in Cmds : Unlink(c)
  <2>1. PICK c \in Cmds : Unlink(c)
    BY <1>13
  <2>2. /\ latest' = latest /\ Running(c)
        /\ \/ proc'[c].pc = Idle
           \/ /\ SameJob(proc'[c], proc[c])
              /\ \/ proc'[c].pc = "fetch"
                 \/ proc'[c].pc # "look" /\ proc[c].pc \notin {"look", "drop", "fetch"}
    BY <2>1, GotoEffect, TouchEffect, EndedEffect DEF Unlink, At, Running, Pcs, Idle
  <2>3. \A d \in Cmds \ {c} : SameJob(proc'[d], proc[d]) /\ proc'[d].pc = proc[d].pc
    BY <2>1, GotoEffect, TouchEffect, EndedEffect DEF Unlink, Pcs, Idle, SameJob
  <2> QED
    BY <2>2, <2>3, SinceKept DEF Running
<1>14. CASE \E c \in Cmds : Symlink(c)
  <2>1. PICK c \in Cmds : Symlink(c)
    BY <1>14
  <2>2. /\ latest' = latest /\ Running(c)
        /\ \/ proc'[c].pc = Idle
           \/ /\ SameJob(proc'[c], proc[c])
              /\ \/ proc'[c].pc = "fetch"
                 \/ proc'[c].pc # "look" /\ proc[c].pc \notin {"look", "drop", "fetch"}
    BY <2>1, GotoEffect, TouchEffect, EndedEffect DEF Symlink, At, Running, Pcs, Idle
  <2>3. \A d \in Cmds \ {c} : SameJob(proc'[d], proc[d]) /\ proc'[d].pc = proc[d].pc
    BY <2>1, GotoEffect, TouchEffect, EndedEffect DEF Symlink, Pcs, Idle, SameJob
  <2> QED
    BY <2>2, <2>3, SinceKept DEF Running
<1>15. CASE \E c \in Cmds : Stop(c)
  <2>1. PICK c \in Cmds : Stop(c)
    BY <1>15
  <2>2. /\ latest' = latest /\ Running(c)
        /\ \/ proc'[c].pc = Idle
           \/ /\ SameJob(proc'[c], proc[c])
              /\ \/ proc'[c].pc = "fetch"
                 \/ proc'[c].pc # "look" /\ proc[c].pc \notin {"look", "drop", "fetch"}
    BY <2>1, GotoEffect, TouchEffect, EndedEffect DEF Stop, At, Running, Pcs, Idle
  <2>3. \A d \in Cmds \ {c} : SameJob(proc'[d], proc[d]) /\ proc'[d].pc = proc[d].pc
    BY <2>1, GotoEffect, TouchEffect, EndedEffect DEF Stop, Pcs, Idle, SameJob
  <2> QED
    BY <2>2, <2>3, SinceKept DEF Running
<1> QED
  BY <1>0, <1>1, <1>2, <1>3, <1>4, <1>5, <1>6, <1>7, <1>8, <1>9,
     <1>10, <1>11, <1>12, <1>13, <1>14, <1>15, Actions

-----------------------------------------------------------------------------
LEMMA ReturnStep ==
    ASSUME TypeOK, VersionKnown, WholeInv, SinceKnown, [Next]_vars, NEW a \in Cmds, Returns(a)
    PROVE  /\ Returned(a).form = "whole"
           /\ proc[a].op = "refresh" => Returned(a).of[2] >= proc[a].since
<1> USE DEF Returns
<1>0. CASE UNCHANGED vars
  BY <1>0 DEF vars, Running
<1>1. CASE \E s \in Streams : Publish(s)
  BY <1>1 DEF Publish, Running
<1>2. CASE \E c \in Cmds, op \in {"ensure", "refresh"}, w \in WorkDirs : \E use \in Uses[w] :
              Start(c, op, w, use[1], use[2])
  BY <1>2 DEF Start, Running, TypeOK
<1>3. CASE \E c \in Cmds : Look(c)
  <2>1. PICK c \in Cmds : Look(c)
    BY <1>3
  <2>2. a = c
    BY <2>1, GotoEffect, TouchEffect, EndedEffect DEF Look, Pcs, Idle, Running
  <2>3. Exists(link[proc[c].dir]) /\ link[proc[c].dir] \in Paths /\ image' = image
    <3>1. ~Goto(c, "fetch")
      BY <2>2, GotoEffect DEF Pcs, Idle
    <3> QED
      BY <2>1, <3>1 DEF Look, TypeOK, Commands
  <2>4. image[link[proc[c].dir]].form # "partial"
    BY <2>1, <2>3, NoPart DEF Look, At, Running, Idle
  <2>5. proc[c].op # "refresh"
    BY <2>1 DEF Look, At, SinceKnown, NoOlder
  <2> QED
    BY <2>1, <2>2, <2>3, <2>4, <2>5 DEF Look, Returned, Exists, TypeOK, Files
<1>4. CASE \E c \in Cmds : DropLocal(c)
  <2>1. PICK c \in Cmds : DropLocal(c)
    BY <1>4
  <2>2. proc'[c].pc # Idle \/ proc'[c].result # "ok"
    BY <2>1, GotoEffect, TouchEffect, EndedEffect DEF DropLocal, Pcs, Idle, Err, Return, Ended
  <2>3. \A d \in Cmds \ {c} : proc'[d].pc = proc[d].pc
    BY <2>1, GotoEffect, TouchEffect, EndedEffect DEF DropLocal, Pcs, Idle
  <2> QED
    BY <2>2, <2>3 DEF Running
<1>5. CASE \E c \in Cmds : Fetch(c)
  <2>1. PICK c \in Cmds : Fetch(c)
    BY <1>5
  <2>2. proc'[c].pc # Idle /\ \A d \in Cmds \ {c} : proc'[d] = proc[d]
    BY <2>1 DEF Fetch, TypeOK, Commands, Idle
  <2> QED
    BY <2>2 DEF Running
<1>6. CASE \E c \in Cmds : DropCached(c)
  <2>1. PICK c \in Cmds : DropCached(c)
    BY <1>6
  <2>2. proc'[c].pc # Idle \/ proc'[c].result # "ok"
    BY <2>1, GotoEffect, TouchEffect, EndedEffect DEF DropCached, Pcs, Idle, Err, Return, Ended
  <2>3. \A d \in Cmds \ {c} : proc'[d].pc = proc[d].pc
    BY <2>1, GotoEffect, TouchEffect, EndedEffect DEF DropCached, Pcs, Idle
  <2> QED
    BY <2>2, <2>3 DEF Running
<1>7. CASE \E c \in Cmds : CreateCompressed(c)
  <2>1. PICK c \in Cmds : CreateCompressed(c)
    BY <1>7
  <2>2. proc'[c].pc # Idle \/ proc'[c].result # "ok"
    BY <2>1, GotoEffect, TouchEffect, EndedEffect DEF CreateCompressed, Pcs, Idle, Err, Return, Ended
  <2>3. \A d \in Cmds \ {c} : proc'[d].pc = proc[d].pc
    BY <2>1, GotoEffect, TouchEffect, EndedEffect DEF CreateCompressed, Pcs, Idle
  <2> QED
    BY <2>2, <2>3 DEF Running
<1>8. CASE \E c \in Cmds, good \in BOOLEAN : FinishDownload(c, good)
  <2>1. PICK c \in Cmds, good \in BOOLEAN : FinishDownload(c, good)
    BY <1>8
  <2>2. proc'[c].pc # Idle \/ proc'[c].result # "ok"
    BY <2>1, GotoEffect, TouchEffect, EndedEffect DEF FinishDownload, Pcs, Idle, Err, Return, Ended
  <2>3. \A d \in Cmds \ {c} : proc'[d].pc = proc[d].pc
    BY <2>1, GotoEffect, TouchEffect, EndedEffect DEF FinishDownload, Pcs, Idle
  <2> QED
    BY <2>2, <2>3 DEF Running
<1>9. CASE \E c \in Cmds : Verify(c)
  <2>1. PICK c \in Cmds : Verify(c)
    BY <1>9
  <2>2. proc'[c].pc # Idle \/ proc'[c].result # "ok"
    BY <2>1, GotoEffect, TouchEffect, EndedEffect DEF Verify, Pcs, Idle, Err, Return, Ended
  <2>3. \A d \in Cmds \ {c} : proc'[d].pc = proc[d].pc
    BY <2>1, GotoEffect, TouchEffect, EndedEffect DEF Verify, Pcs, Idle
  <2> QED
    BY <2>2, <2>3 DEF Running
<1>10. CASE \E c \in Cmds : CreateImage(c)
  <2>1. PICK c \in Cmds : CreateImage(c)
    BY <1>10
  <2>2. proc'[c].pc # Idle \/ proc'[c].result # "ok"
    BY <2>1, GotoEffect, TouchEffect, EndedEffect DEF CreateImage, Pcs, Idle, Err, Return, Ended
  <2>3. \A d \in Cmds \ {c} : proc'[d].pc = proc[d].pc
    BY <2>1, GotoEffect, TouchEffect, EndedEffect DEF CreateImage, Pcs, Idle
  <2> QED
    BY <2>2, <2>3 DEF Running
<1>11. CASE \E c \in Cmds : FinishImage(c)
  <2>1. PICK c \in Cmds : FinishImage(c)
    BY <1>11
  <2>2. proc'[c].pc # Idle \/ proc'[c].result # "ok"
    BY <2>1, GotoEffect, TouchEffect, EndedEffect DEF FinishImage, Pcs, Idle, Err, Return, Ended
  <2>3. \A d \in Cmds \ {c} : proc'[d].pc = proc[d].pc
    BY <2>1, GotoEffect, TouchEffect, EndedEffect DEF FinishImage, Pcs, Idle
  <2> QED
    BY <2>2, <2>3 DEF Running
<1>12. CASE \E c \in Cmds : RemoveCompressed(c)
  <2>1. PICK c \in Cmds : RemoveCompressed(c)
    BY <1>12
  <2>2. a = c
    BY <2>1, GotoEffect, TouchEffect, EndedEffect DEF RemoveCompressed, Pcs, Idle, Running
  <2>3. proc[c].mode # "cached"
    BY <2>1, <2>2, TouchEffect DEF RemoveCompressed, Pcs, Idle
  <2>4. proc[c].mode = "flat" /\ image[Created(c)] = Content(c) /\ image' = image
    BY <2>1, <2>3 DEF RemoveCompressed, WholeInv, Relies, TypeOK, Commands, Modes
  <2>5. Returned(c) = Content(c)
    BY <2>4 DEF Returned, Created
  <2>6. proc[c].version >= proc[c].since
    BY <2>1 DEF RemoveCompressed, At, SinceKnown, NoOlder, Idle
  <2> QED
    BY <2>2, <2>5, <2>6 DEF Content
<1>13. CASE \E c \in Cmds : Unlink(c)
  <2>1. PICK c \in Cmds : Unlink(c)
    BY <1>13
  <2>2. proc'[c].pc # Idle \/ proc'[c].result # "ok"
    BY <2>1, GotoEffect, TouchEffect, EndedEffect DEF Unlink, Pcs, Idle, Err, Return, Ended
  <2>3. \A d \in Cmds \ {c} : proc'[d].pc = proc[d].pc
    BY <2>1, GotoEffect, TouchEffect, EndedEffect DEF Unlink, Pcs, Idle
  <2> QED
    BY <2>2, <2>3 DEF Running
<1>14. CASE \E c \in Cmds : Symlink(c)
  <2>1. PICK c \in Cmds : Symlink(c)
    BY <1>14
  <2>2. a = c
    BY <2>1, GotoEffect, TouchEffect, EndedEffect DEF Symlink, Pcs, Idle, Running
  <2>3. /\ proc[c].mode = "cached" /\ image[Dest(c)].form = "whole" /\ image' = image
        /\ proc[c].op = "refresh" => image[Dest(c)] = Content(c)
    BY <2>1 DEF Symlink, WholeInv, Relies, At
  <2>4. Returned(c) = image[Dest(c)]
    BY <2>1, <2>3 DEF Symlink, Returned, At
  <2>5. proc[c].version >= proc[c].since
    BY <2>1 DEF Symlink, At, SinceKnown, NoOlder, Idle
  <2> QED
    BY <2>2, <2>3, <2>4, <2>5 DEF Content
<1>15. CASE \E c \in Cmds : Stop(c)
  <2>1. PICK c \in Cmds : Stop(c)
    BY <1>15
  <2>2. proc'[c].pc # Idle \/ proc'[c].result # "ok"
    BY <2>1, GotoEffect, TouchEffect, EndedEffect DEF Stop, Pcs, Idle, Err, Return, Ended
  <2>3. \A d \in Cmds \ {c} : proc'[d].pc = proc[d].pc
    BY <2>1, GotoEffect, TouchEffect, EndedEffect DEF Stop, Pcs, Idle
  <2> QED
    BY <2>2, <2>3 DEF Running
<1> QED
  BY <1>0, <1>1, <1>2, <1>3, <1>4, <1>5, <1>6, <1>7, <1>8, <1>9,
     <1>10, <1>11, <1>12, <1>13, <1>14, <1>15, Actions

(* Commands that run one after another return complete images only, and a  *)
(* refresh returns no version older than the one that was the latest when  *)
(* it began, whatever downloads, verifications and links failed or were    *)
(* stopped before, as long as no decompression is cut short.               *)
THEOREM ReturnedImages ==
    ASSUME ~Overlap, ~Cut
    PROVE  Spec => ReturnedIsWhole /\ RefreshIsCurrent
<1>1. Init => WholeInv /\ SinceKnown
  BY DEF Init, WholeInv, OneAtATime, NoneDisturbed, PartIsUnpacked, Relies, SinceKnown, NoOlder,
         At, Running, Ended, Absent, Idle
<1>2. TypeOK /\ VersionKnown /\ WholeInv /\ SinceKnown /\ [Next]_vars => WholeInv' /\ SinceKnown'
  BY WholeStep, SinceStep
<1>3. TypeOK /\ VersionKnown /\ WholeInv /\ SinceKnown /\ [Next]_vars
        => [\A c \in Cmds : Returns(c) => Returned(c).form = "whole"]_vars
  BY ReturnStep
<1>4. TypeOK /\ VersionKnown /\ WholeInv /\ SinceKnown /\ [Next]_vars
        => [\A c \in Cmds : Returns(c) /\ proc[c].op = "refresh"
                                => Returned(c).of[2] >= proc[c].since]_vars
  BY ReturnStep
<1> QED
  BY <1>1, <1>2, <1>3, <1>4, TypeCorrect, PTL DEF Spec, ReturnedIsWhole, RefreshIsCurrent

(* The second part by itself: a refresh that succeeds returns no version   *)
(* older than the latest when it began, from the cache or downloaded.      *)
COROLLARY CurrentRefreshes ==
    ASSUME ~Overlap, ~Cut
    PROVE  Spec => RefreshIsCurrent
BY ReturnedImages, PTL

-----------------------------------------------------------------------------
(* What is written under a name is of one stream, as long as no work       *)
(* directory is used with two; this needs neither that commands wait for   *)
(* each other nor that decompressions are complete.                        *)
OneStreamEach == \A w \in WorkDirs : \A u, v \in Uses[w] : u[1] = v[1]

OfStream(p, s) ==
    \/ \E v \in Versions(s) : p = CachedPath(s, v)
    \/ \E w \in WorkDirs : p = LocalPath(w) /\ \E use \in Uses[w] : use[1] = s

(* A command does what its work directory is used for.                     *)
UsesKept ==
    \A c \in Cmds : Running(c) => <<proc[c].stream, proc[c].mode>> \in Uses[proc[c].dir]

ImagesOfStream ==
    \A p \in Paths, s \in Streams :
        image[p].form = "whole" /\ OfStream(p, s) => image[p].of[1] = s

(* A link follows the stream, whichever version it was made for.           *)
LinksOfStream == \A w \in WorkDirs : \A use \in Uses[w] : OfStream(link[w], use[1])

StreamInv == UsesKept /\ ImagesOfStream /\ LinksOfStream

LEMMA OneStreamOfPath ==
    ASSUME OneStreamEach, NEW p, NEW s \in Streams, NEW t \in Streams, OfStream(p, s), OfStream(p, t)
    PROVE  s = t
<1>1. CASE \E v \in Versions(s) : p = CachedPath(s, v)
  <2>1. PICK v \in Versions(s) : p = CachedPath(s, v)
    BY <1>1
  <2>2. p \in CachePaths
    BY <2>1 DEF CachePaths
  <2>3. PICK u \in Versions(t) : p = CachedPath(t, u)
    BY <2>2, CacheNotLocal DEF OfStream
  <2> QED
    BY <2>1, <2>3 DEF CachedPath
<1>2. CASE \E w \in WorkDirs : p = LocalPath(w) /\ \E use \in Uses[w] : use[1] = s
  <2>1. PICK w \in WorkDirs : p = LocalPath(w) /\ \E use \in Uses[w] : use[1] = s
    BY <1>2
  <2>2. ~\E v \in Versions(t) : p = CachedPath(t, v)
    BY <2>1, CacheNotLocal DEF CachePaths
  <2>3. PICK x \in WorkDirs : p = LocalPath(x) /\ \E use \in Uses[x] : use[1] = t
    BY <2>2 DEF OfStream
  <2>4. x = w
    BY <2>1, <2>3, LocalPathsApart
  <2> QED
    BY <2>1, <2>3, <2>4 DEF OneStreamEach
<1> QED
  BY <1>1, <1>2 DEF OfStream

(* The names that a command writes under, or links to.                     *)
LEMMA JobStream ==
    ASSUME TypeOK, VersionKnown, UsesKept, LinksOfStream, NEW c \in Cmds, Running(c)
    PROVE  /\ proc[c].dir \in WorkDirs /\ proc[c].stream \in Streams
           /\ OfStream(link[proc[c].dir], proc[c].stream)
           /\ OfStream(LocalPath(proc[c].dir), proc[c].stream)
           /\ proc[c].pc \notin {"look", "drop", "fetch"} =>
                 OfStream(Dest(c), proc[c].stream) /\ OfStream(Created(c), proc[c].stream)
<1>1. proc[c].dir \in WorkDirs /\ proc[c].stream \in Streams
  BY DEF TypeOK, Commands
<1>2. \E use \in Uses[proc[c].dir] : use[1] = proc[c].stream
  <2>1. <<proc[c].stream, proc[c].mode>> \in Uses[proc[c].dir]
    BY DEF UsesKept
  <2>2. <<proc[c].stream, proc[c].mode>>[1] = proc[c].stream
    OBVIOUS
  <2> QED
    BY <2>1, <2>2
<1>3. OfStream(link[proc[c].dir], proc[c].stream)
  BY <1>1, <1>2 DEF LinksOfStream
<1>4. OfStream(LocalPath(proc[c].dir), proc[c].stream)
  BY <1>1, <1>2 DEF OfStream
<1>5. ASSUME proc[c].pc \notin {"look", "drop", "fetch"}
      PROVE  OfStream(CachedPath(proc[c].stream, proc[c].version), proc[c].stream)
  BY <1>5 DEF VersionKnown, Running, OfStream
<1> QED
  BY <1>1, <1>3, <1>4, <1>5 DEF Dest, Created

LEMMA UsesStay ==
    ASSUME UsesKept,
           \A d \in Cmds : proc'[d].pc = Idle \/ (Running(d) /\ SameJob(proc'[d], proc[d]))
    PROVE  UsesKept'
BY DEF UsesKept, SameJob, Running

(* What is not written by a command for its stream stays.                  *)
LEMMA ImagesStay ==
    ASSUME OneStreamEach, ImagesOfStream, NEW s \in Streams,
           \A p \in Paths : \/ image'[p] = image[p]
                            \/ image'[p].form # "whole"
                            \/ OfStream(p, s) /\ image'[p].of[1] = s
    PROVE  ImagesOfStream'
<1> SUFFICES ASSUME NEW p \in Paths, NEW t \in Streams, image'[p].form = "whole", OfStream(p, t)
             PROVE  image'[p].of[1] = t
  BY DEF ImagesOfStream, OfStream
<1>1. CASE image'[p] = image[p]
  BY <1>1 DEF ImagesOfStream
<1>2. CASE OfStream(p, s) /\ image'[p].of[1] = s
  BY <1>2, OneStreamOfPath
<1> QED
  BY <1>1, <1>2

LEMMA LinksStay ==
    ASSUME OneStreamEach, LinksOfStream, NEW c \in Cmds, proc[c].dir \in WorkDirs, proc[c].stream \in Streams,
           <<proc[c].stream, proc[c].mode>> \in Uses[proc[c].dir],
           \A w \in WorkDirs \ {proc[c].dir} : link'[w] = link[w],
           \/ link'[proc[c].dir] = link[proc[c].dir]
           \/ OfStream(link'[proc[c].dir], proc[c].stream)
    PROVE  LinksOfStream'
<1>1. \A use \in Uses[proc[c].dir] : use[1] = proc[c].stream
  <2>1. <<proc[c].stream, proc[c].mode>>[1] = proc[c].stream
    OBVIOUS
  <2> QED
    BY <2>1 DEF OneStreamEach
<1>2. \A w \in WorkDirs : \A use \in Uses[w] : OfStream(link'[w], use[1])
  BY <1>1 DEF LinksOfStream
<1> QED
  BY <1>2 DEF LinksOfStream, OfStream

LEMMA StreamStep ==
    ASSUME OneStreamEach, TypeOK, VersionKnown, StreamInv, [Next]_vars
    PROVE  StreamInv'
<1> USE DEF StreamInv
<1>0. CASE UNCHANGED vars
  BY <1>0 DEF vars, UsesKept, ImagesOfStream, LinksOfStream, OfStream, Running
<1>1. CASE \E s \in Streams : Publish(s)
  BY <1>1 DEF Publish, UsesKept, ImagesOfStream, LinksOfStream, OfStream, Running
<1>2. CASE \E c \in Cmds, op \in {"ensure", "refresh"}, w \in WorkDirs : \E use \in Uses[w] :
              Start(c, op, w, use[1], use[2])
  <2>1. PICK c \in Cmds, op \in {"ensure", "refresh"}, w \in WorkDirs, s \in Streams, mode \in Modes :
            Start(c, op, w, s, mode) /\ <<s, mode>> \in Uses[w]
    <3>1. PICK c \in Cmds, op \in {"ensure", "refresh"}, w \in WorkDirs : \E use \in Uses[w] :
              Start(c, op, w, use[1], use[2])
      BY <1>2
    <3>2. PICK use \in Uses[w] : Start(c, op, w, use[1], use[2])
      BY <3>1
    <3>3. use \in Streams \X Modes
      BY ConstantsAssumption
    <3>4. use = <<use[1], use[2]>> /\ use[1] \in Streams /\ use[2] \in Modes
      BY <3>3
    <3> QED
      BY <3>2, <3>4
  <2>2. \E pc \in {"look", "drop", "fetch"} : proc' = [proc EXCEPT ![c] = Begun(op, w, s, mode, pc)]
    BY <2>1 DEF Start
  <2>3. proc'[c].stream = s /\ proc'[c].mode = mode /\ proc'[c].dir = w /\ \A d \in Cmds \ {c} : proc'[d] = proc[d]
    BY <2>2 DEF Begun, TypeOK
  <2>4. UsesKept'
    BY <2>1, <2>3 DEF UsesKept, Running
  <2> QED
    BY <2>1, <2>4 DEF Start, ImagesOfStream, LinksOfStream, OfStream
<1>3. CASE \E c \in Cmds : Look(c)
  <2>1. PICK c \in Cmds : Look(c)
    BY <1>3
  <2>2. UsesKept'
    BY <2>1, GotoEffect, TouchEffect, EndedEffect, UsesStay DEF Look, At, Running, Pcs, Idle, SameJob
  <2> QED
    BY <2>1, <2>2 DEF Look, ImagesOfStream, LinksOfStream, OfStream
<1>4. CASE \E c \in Cmds : DropLocal(c)
  <2>1. PICK c \in Cmds : DropLocal(c)
    BY <1>4
  <2>2. UsesKept'
    BY <2>1, GotoEffect, TouchEffect, EndedEffect, UsesStay DEF DropLocal, At, Running, Pcs, Idle, SameJob
  <2>3. /\ proc[c].dir \in WorkDirs /\ proc[c].stream \in Streams
        /\ <<proc[c].stream, proc[c].mode>> \in Uses[proc[c].dir]
        /\ OfStream(LocalPath(proc[c].dir), proc[c].stream)
        /\ proc[c].pc \notin {"look", "drop", "fetch"} =>
              OfStream(Dest(c), proc[c].stream) /\ OfStream(Created(c), proc[c].stream)
    BY <2>1, JobStream DEF DropLocal, At, Running, Idle, UsesKept
  <2>4. ImagesOfStream'
    <3>1. \A p \in Paths : image'[p] = image[p] \/ image'[p].form # "whole"
      BY <2>1 DEF DropLocal, TypeOK, Absent
    <3> QED
      BY <2>3, <3>1, ImagesStay
  <2>5. LinksOfStream'
    <3>1. \A w \in WorkDirs \ {proc[c].dir} : link'[w] = link[w]
      BY <2>1 DEF DropLocal, TypeOK
    <3>2. \/ link'[proc[c].dir] = link[proc[c].dir]
          \/ link'[proc[c].dir] = LocalPath(proc[c].dir)
      BY <2>1, <2>3 DEF DropLocal, TypeOK
    <3> QED
      BY <2>3, <3>1, <3>2, LinksStay
  <2> QED
    BY <2>2, <2>4, <2>5
<1>5. CASE \E c \in Cmds : Fetch(c)
  <2>1. PICK c \in Cmds : Fetch(c)
    BY <1>5
  <2>2. UsesKept'
    <3>1. /\ proc'[c].stream = proc[c].stream /\ proc'[c].mode = proc[c].mode /\ proc'[c].dir = proc[c].dir
          /\ \A d \in Cmds \ {c} : proc'[d] = proc[d]
      BY <2>1 DEF Fetch, TypeOK, Commands
    <3> QED
      BY <2>1, <3>1 DEF UsesKept, Running, Fetch, At, Idle
  <2> QED
    BY <2>1, <2>2 DEF Fetch, ImagesOfStream, LinksOfStream, OfStream
<1>6. CASE \E c \in Cmds : DropCached(c)
  <2>1. PICK c \in Cmds : DropCached(c)
    BY <1>6
  <2>2. UsesKept'
    BY <2>1, GotoEffect, TouchEffect, EndedEffect, UsesStay DEF DropCached, At, Running, Pcs, Idle, SameJob
  <2>3. /\ proc[c].dir \in WorkDirs /\ proc[c].stream \in Streams
        /\ <<proc[c].stream, proc[c].mode>> \in Uses[proc[c].dir]
        /\ OfStream(LocalPath(proc[c].dir), proc[c].stream)
        /\ proc[c].pc \notin {"look", "drop", "fetch"} =>
              OfStream(Dest(c), proc[c].stream) /\ OfStream(Created(c), proc[c].stream)
    BY <2>1, JobStream DEF DropCached, At, Running, Idle, UsesKept
  <2>4. ImagesOfStream'
    <3>1. \A p \in Paths : image'[p] = image[p] \/ image'[p].form # "whole"
      BY <2>1 DEF DropCached, TypeOK, Absent
    <3> QED
      BY <2>3, <3>1, ImagesStay
  <2>5. LinksOfStream'
    BY <2>1 DEF DropCached, LinksOfStream, OfStream
  <2> QED
    BY <2>2, <2>4, <2>5
<1>7. CASE \E c \in Cmds : CreateCompressed(c)
  <2>1. PICK c \in Cmds : CreateCompressed(c)
    BY <1>7
  <2>2. UsesKept'
    BY <2>1, GotoEffect, TouchEffect, EndedEffect, UsesStay DEF CreateCompressed, At, Running, Pcs, Idle, SameJob
  <2> QED
    BY <2>1, <2>2 DEF CreateCompressed, ImagesOfStream, LinksOfStream, OfStream
<1>8. CASE \E c \in Cmds, good \in BOOLEAN : FinishDownload(c, good)
  <2>1. PICK c \in Cmds, good \in BOOLEAN : FinishDownload(c, good)
    BY <1>8
  <2>2. UsesKept'
    BY <2>1, GotoEffect, TouchEffect, EndedEffect, UsesStay DEF FinishDownload, At, Running, Pcs, Idle, SameJob
  <2> QED
    BY <2>1, <2>2 DEF FinishDownload, ImagesOfStream, LinksOfStream, OfStream
<1>9. CASE \E c \in Cmds : Verify(c)
  <2>1. PICK c \in Cmds : Verify(c)
    BY <1>9
  <2>2. UsesKept'
    BY <2>1, GotoEffect, TouchEffect, EndedEffect, UsesStay DEF Verify, At, Running, Pcs, Idle, SameJob
  <2> QED
    BY <2>1, <2>2 DEF Verify, ImagesOfStream, LinksOfStream, OfStream
<1>10. CASE \E c \in Cmds : CreateImage(c)
  <2>1. PICK c \in Cmds : CreateImage(c)
    BY <1>10
  <2>2. UsesKept'
    BY <2>1, GotoEffect, TouchEffect, EndedEffect, UsesStay DEF CreateImage, At, Running, Pcs, Idle, SameJob
  <2>3. /\ proc[c].dir \in WorkDirs /\ proc[c].stream \in Streams
        /\ <<proc[c].stream, proc[c].mode>> \in Uses[proc[c].dir]
        /\ OfStream(LocalPath(proc[c].dir), proc[c].stream)
        /\ proc[c].pc \notin {"look", "drop", "fetch"} =>
              OfStream(Dest(c), proc[c].stream) /\ OfStream(Created(c), proc[c].stream)
    BY <2>1, JobStream DEF CreateImage, At, Running, Idle, UsesKept
  <2>4. ImagesOfStream'
    <3>1. \A p \in Paths : image'[p] = image[p] \/ image'[p].form # "whole"
      BY <2>1 DEF CreateImage, TypeOK, Absent, Part
    <3> QED
      BY <2>3, <3>1, ImagesStay
  <2>5. LinksOfStream'
    BY <2>1 DEF CreateImage, LinksOfStream, OfStream
  <2> QED
    BY <2>2, <2>4, <2>5
<1>11. CASE \E c \in Cmds : FinishImage(c)
  <2>1. PICK c \in Cmds : FinishImage(c)
    BY <1>11
  <2>2. UsesKept'
    BY <2>1, GotoEffect, TouchEffect, EndedEffect, UsesStay DEF FinishImage, At, Running, Pcs, Idle, SameJob
  <2>3. /\ proc[c].dir \in WorkDirs /\ proc[c].stream \in Streams
        /\ <<proc[c].stream, proc[c].mode>> \in Uses[proc[c].dir]
        /\ OfStream(LocalPath(proc[c].dir), proc[c].stream)
        /\ proc[c].pc \notin {"look", "drop", "fetch"} =>
              OfStream(Dest(c), proc[c].stream) /\ OfStream(Created(c), proc[c].stream)
    BY <2>1, JobStream DEF FinishImage, At, Running, Idle, UsesKept
  <2>4. ImagesOfStream'
    <3>1. PICK i \in Unpacked(c) : image' = [image EXCEPT ![Created(c)] = i]
      BY <2>1 DEF FinishImage
    <3>2. OfStream(Created(c), proc[c].stream)
      BY <2>1, <2>3 DEF FinishImage, At
    <3>3. i = image[Created(c)] \/ i = Content(c)
      BY DEF Unpacked
    <3>4. Content(c).of[1] = proc[c].stream
      BY DEF Content
    <3>5. \A p \in Paths : image'[p] = image[p] \/ (p = Created(c) /\ image'[p] = i)
      BY <3>1 DEF TypeOK
    <3>6. \A p \in Paths : image'[p] = image[p] \/ (OfStream(p, proc[c].stream) /\ image'[p].of[1] = proc[c].stream)
      BY <3>2, <3>3, <3>4, <3>5
    <3> QED
      BY <2>3, <3>6, ImagesStay
  <2>5. LinksOfStream'
    BY <2>1 DEF FinishImage, LinksOfStream, OfStream
  <2> QED
    BY <2>2, <2>4, <2>5
<1>12. CASE \E c \in Cmds : RemoveCompressed(c)
  <2>1. PICK c \in Cmds : RemoveCompressed(c)
    BY <1>12
  <2>2. UsesKept'
    BY <2>1, GotoEffect, TouchEffect, EndedEffect, UsesStay DEF RemoveCompressed, At, Running, Pcs, Idle, SameJob
  <2> QED
    BY <2>1, <2>2 DEF RemoveCompressed, ImagesOfStream, LinksOfStream, OfStream
<1>13. CASE \E c \in Cmds : Unlink(c)
  <2>1. PICK c \in Cmds : Unlink(c)
    BY <1>13
  <2>2. UsesKept'
    BY <2>1, GotoEffect, TouchEffect, EndedEffect, UsesStay DEF Unlink, At, Running, Pcs, Idle, SameJob
  <2>3. /\ proc[c].dir \in WorkDirs /\ proc[c].stream \in Streams
        /\ <<proc[c].stream, proc[c].mode>> \in Uses[proc[c].dir]
        /\ OfStream(LocalPath(proc[c].dir), proc[c].stream)
        /\ proc[c].pc \notin {"look", "drop", "fetch"} =>
              OfStream(Dest(c), proc[c].stream) /\ OfStream(Created(c), proc[c].stream)
    BY <2>1, JobStream DEF Unlink, At, Running, Idle, UsesKept
  <2>4. ImagesOfStream'
    <3>1. \A p \in Paths : image'[p] = image[p] \/ image'[p].form # "whole"
      BY <2>1 DEF Unlink, TypeOK, Absent
    <3> QED
      BY <2>3, <3>1, ImagesStay
  <2>5. LinksOfStream'
    <3>1. \A w \in WorkDirs \ {proc[c].dir} : link'[w] = link[w]
      BY <2>1 DEF Unlink, TypeOK
    <3>2. \/ link'[proc[c].dir] = link[proc[c].dir]
          \/ link'[proc[c].dir] = LocalPath(proc[c].dir)
      BY <2>1, <2>3 DEF Unlink, TypeOK
    <3> QED
      BY <2>3, <3>1, <3>2, LinksStay
  <2> QED
    BY <2>2, <2>4, <2>5
<1>14. CASE \E c \in Cmds : Symlink(c)
  <2>1. PICK c \in Cmds : Symlink(c)
    BY <1>14
  <2>2. UsesKept'
    BY <2>1, GotoEffect, TouchEffect, EndedEffect, UsesStay DEF Symlink, At, Running, Pcs, Idle, SameJob
  <2>3. /\ proc[c].dir \in WorkDirs /\ proc[c].stream \in Streams
        /\ <<proc[c].stream, proc[c].mode>> \in Uses[proc[c].dir]
        /\ OfStream(LocalPath(proc[c].dir), proc[c].stream)
        /\ proc[c].pc \notin {"look", "drop", "fetch"} =>
              OfStream(Dest(c), proc[c].stream) /\ OfStream(Created(c), proc[c].stream)
    BY <2>1, JobStream DEF Symlink, At, Running, Idle, UsesKept
  <2>4. ImagesOfStream'
    BY <2>1 DEF Symlink, ImagesOfStream, OfStream
  <2>5. LinksOfStream'
    <3>1. \A w \in WorkDirs \ {proc[c].dir} : link'[w] = link[w]
      BY <2>1 DEF Symlink, TypeOK
    <3>2. \/ link'[proc[c].dir] = link[proc[c].dir]
          \/ link'[proc[c].dir] = Dest(c)
      BY <2>1, <2>3 DEF Symlink, TypeOK
    <3>3. OfStream(Dest(c), proc[c].stream)
      BY <2>1, <2>3 DEF Symlink, At
    <3> QED
      BY <2>3, <3>1, <3>2, <3>3, LinksStay
  <2> QED
    BY <2>2, <2>4, <2>5
<1>15. CASE \E c \in Cmds : Stop(c)
  <2>1. PICK c \in Cmds : Stop(c)
    BY <1>15
  <2>2. UsesKept'
    BY <2>1, GotoEffect, TouchEffect, EndedEffect, UsesStay DEF Stop, At, Running, Pcs, Idle, SameJob
  <2> QED
    BY <2>1, <2>2 DEF Stop, ImagesOfStream, LinksOfStream, OfStream
<1> QED
  BY <1>0, <1>1, <1>2, <1>3, <1>4, <1>5, <1>6, <1>7, <1>8, <1>9,
     <1>10, <1>11, <1>12, <1>13, <1>14, <1>15, Actions

(* A command returns from where it looks, tidies up or links.              *)
LEMMA ReturnsFrom ==
    ASSUME TypeOK, [Next]_vars, NEW a \in Cmds, Returns(a)
    PROVE  At(a, "look") \/ At(a, "tidy") \/ At(a, "symlink")
<1> USE DEF Returns
<1>0. CASE UNCHANGED vars
  BY <1>0 DEF vars, Running
<1>1. CASE \E s \in Streams : Publish(s)
  BY <1>1 DEF Publish, Running
<1>2. CASE \E c \in Cmds, op \in {"ensure", "refresh"}, w \in WorkDirs : \E use \in Uses[w] :
              Start(c, op, w, use[1], use[2])
  BY <1>2 DEF Start, Running, TypeOK
<1>3. CASE \E c \in Cmds : Look(c)
  <2>1. PICK c \in Cmds : Look(c)
    BY <1>3
  <2>2. a = c
    BY <2>1, GotoEffect, TouchEffect, EndedEffect DEF Look, Pcs, Idle, Running
  <2> QED
    BY <2>1, <2>2 DEF Look
<1>4. CASE \E c \in Cmds : DropLocal(c)
  <2>1. PICK c \in Cmds : DropLocal(c)
    BY <1>4
  <2>2. proc'[c].pc # Idle \/ proc'[c].result # "ok"
    BY <2>1, GotoEffect, TouchEffect, EndedEffect DEF DropLocal, Pcs, Idle, Err, Return, Ended
  <2>3. \A d \in Cmds \ {c} : proc'[d].pc = proc[d].pc
    BY <2>1, GotoEffect, TouchEffect, EndedEffect DEF DropLocal, Pcs, Idle
  <2> QED
    BY <2>2, <2>3 DEF Running
<1>5. CASE \E c \in Cmds : Fetch(c)
  <2>1. PICK c \in Cmds : Fetch(c)
    BY <1>5
  <2>2. proc'[c].pc # Idle /\ \A d \in Cmds \ {c} : proc'[d] = proc[d]
    BY <2>1 DEF Fetch, TypeOK, Commands, Idle
  <2> QED
    BY <2>2 DEF Running
<1>6. CASE \E c \in Cmds : DropCached(c)
  <2>1. PICK c \in Cmds : DropCached(c)
    BY <1>6
  <2>2. proc'[c].pc # Idle \/ proc'[c].result # "ok"
    BY <2>1, GotoEffect, TouchEffect, EndedEffect DEF DropCached, Pcs, Idle, Err, Return, Ended
  <2>3. \A d \in Cmds \ {c} : proc'[d].pc = proc[d].pc
    BY <2>1, GotoEffect, TouchEffect, EndedEffect DEF DropCached, Pcs, Idle
  <2> QED
    BY <2>2, <2>3 DEF Running
<1>7. CASE \E c \in Cmds : CreateCompressed(c)
  <2>1. PICK c \in Cmds : CreateCompressed(c)
    BY <1>7
  <2>2. proc'[c].pc # Idle \/ proc'[c].result # "ok"
    BY <2>1, GotoEffect, TouchEffect, EndedEffect DEF CreateCompressed, Pcs, Idle, Err, Return, Ended
  <2>3. \A d \in Cmds \ {c} : proc'[d].pc = proc[d].pc
    BY <2>1, GotoEffect, TouchEffect, EndedEffect DEF CreateCompressed, Pcs, Idle
  <2> QED
    BY <2>2, <2>3 DEF Running
<1>8. CASE \E c \in Cmds, good \in BOOLEAN : FinishDownload(c, good)
  <2>1. PICK c \in Cmds, good \in BOOLEAN : FinishDownload(c, good)
    BY <1>8
  <2>2. proc'[c].pc # Idle \/ proc'[c].result # "ok"
    BY <2>1, GotoEffect, TouchEffect, EndedEffect DEF FinishDownload, Pcs, Idle, Err, Return, Ended
  <2>3. \A d \in Cmds \ {c} : proc'[d].pc = proc[d].pc
    BY <2>1, GotoEffect, TouchEffect, EndedEffect DEF FinishDownload, Pcs, Idle
  <2> QED
    BY <2>2, <2>3 DEF Running
<1>9. CASE \E c \in Cmds : Verify(c)
  <2>1. PICK c \in Cmds : Verify(c)
    BY <1>9
  <2>2. proc'[c].pc # Idle \/ proc'[c].result # "ok"
    BY <2>1, GotoEffect, TouchEffect, EndedEffect DEF Verify, Pcs, Idle, Err, Return, Ended
  <2>3. \A d \in Cmds \ {c} : proc'[d].pc = proc[d].pc
    BY <2>1, GotoEffect, TouchEffect, EndedEffect DEF Verify, Pcs, Idle
  <2> QED
    BY <2>2, <2>3 DEF Running
<1>10. CASE \E c \in Cmds : CreateImage(c)
  <2>1. PICK c \in Cmds : CreateImage(c)
    BY <1>10
  <2>2. proc'[c].pc # Idle \/ proc'[c].result # "ok"
    BY <2>1, GotoEffect, TouchEffect, EndedEffect DEF CreateImage, Pcs, Idle, Err, Return, Ended
  <2>3. \A d \in Cmds \ {c} : proc'[d].pc = proc[d].pc
    BY <2>1, GotoEffect, TouchEffect, EndedEffect DEF CreateImage, Pcs, Idle
  <2> QED
    BY <2>2, <2>3 DEF Running
<1>11. CASE \E c \in Cmds : FinishImage(c)
  <2>1. PICK c \in Cmds : FinishImage(c)
    BY <1>11
  <2>2. proc'[c].pc # Idle \/ proc'[c].result # "ok"
    BY <2>1, GotoEffect, TouchEffect, EndedEffect DEF FinishImage, Pcs, Idle, Err, Return, Ended
  <2>3. \A d \in Cmds \ {c} : proc'[d].pc = proc[d].pc
    BY <2>1, GotoEffect, TouchEffect, EndedEffect DEF FinishImage, Pcs, Idle
  <2> QED
    BY <2>2, <2>3 DEF Running
<1>12. CASE \E c \in Cmds : RemoveCompressed(c)
  <2>1. PICK c \in Cmds : RemoveCompressed(c)
    BY <1>12
  <2>2. a = c
    BY <2>1, GotoEffect, TouchEffect, EndedEffect DEF RemoveCompressed, Pcs, Idle, Running
  <2> QED
    BY <2>1, <2>2 DEF RemoveCompressed
<1>13. CASE \E c \in Cmds : Unlink(c)
  <2>1. PICK c \in Cmds : Unlink(c)
    BY <1>13
  <2>2. proc'[c].pc # Idle \/ proc'[c].result # "ok"
    BY <2>1, GotoEffect, TouchEffect, EndedEffect DEF Unlink, Pcs, Idle, Err, Return, Ended
  <2>3. \A d \in Cmds \ {c} : proc'[d].pc = proc[d].pc
    BY <2>1, GotoEffect, TouchEffect, EndedEffect DEF Unlink, Pcs, Idle
  <2> QED
    BY <2>2, <2>3 DEF Running
<1>14. CASE \E c \in Cmds : Symlink(c)
  <2>1. PICK c \in Cmds : Symlink(c)
    BY <1>14
  <2>2. a = c
    BY <2>1, GotoEffect, TouchEffect, EndedEffect DEF Symlink, Pcs, Idle, Running
  <2> QED
    BY <2>1, <2>2 DEF Symlink
<1>15. CASE \E c \in Cmds : Stop(c)
  <2>1. PICK c \in Cmds : Stop(c)
    BY <1>15
  <2>2. proc'[c].pc # Idle \/ proc'[c].result # "ok"
    BY <2>1, GotoEffect, TouchEffect, EndedEffect DEF Stop, Pcs, Idle, Err, Return, Ended
  <2>3. \A d \in Cmds \ {c} : proc'[d].pc = proc[d].pc
    BY <2>1, GotoEffect, TouchEffect, EndedEffect DEF Stop, Pcs, Idle
  <2> QED
    BY <2>2, <2>3 DEF Running
<1> QED
  BY <1>0, <1>1, <1>2, <1>3, <1>4, <1>5, <1>6, <1>7, <1>8, <1>9,
     <1>10, <1>11, <1>12, <1>13, <1>14, <1>15, Actions

LEMMA ReturnedStream ==
    ASSUME OneStreamEach, TypeOK, VersionKnown, StreamInv, StreamInv', TypeOK', [Next]_vars,
           NEW a \in Cmds, Returns(a), Returned(a).form = "whole"
    PROVE  Returned(a).of[1] = proc[a].stream
<1> DEFINE from == IF At(a, "look") \/ proc[a].mode = "flat" THEN link[proc[a].dir] ELSE Dest(a)
<1>1. Running(a) /\ proc'[a].pc = Idle
  BY DEF Returns
<1>2. proc[a].dir \in WorkDirs /\ proc[a].stream \in Streams /\ OfStream(link[proc[a].dir], proc[a].stream)
  BY <1>1, JobStream DEF StreamInv
<1>3. link[proc[a].dir] \in Paths
  BY <1>2 DEF TypeOK
<1>4. ASSUME ~(At(a, "look") \/ proc[a].mode = "flat")
      PROVE  OfStream(Dest(a), proc[a].stream) /\ Dest(a) \in Paths
  <2>1. At(a, "symlink") \/ At(a, "tidy")
    BY <1>1, <1>4, ReturnsFrom
  <2>2. proc[a].version \in Versions(proc[a].stream)
    BY <2>1 DEF At, VersionKnown, Idle
  <2>3. Dest(a) \in Paths
    BY <2>2, JobPaths
  <2>4. OfStream(Dest(a), proc[a].stream)
    BY <1>1, <2>1, JobStream DEF At, StreamInv
  <2> QED
    BY <2>3, <2>4
<1>5. OfStream(from, proc[a].stream) /\ from \in Paths
  BY <1>2, <1>3, <1>4
<1>6. Returned(a) = image'[from]
  BY DEF Returned
<1> HIDE DEF from
<1>7. image'[from].form = "whole"
  BY <1>6
<1> QED
  BY <1>2, <1>5, <1>6, <1>7 DEF StreamInv, ImagesOfStream, OfStream

(* Commands that share a cache, at the same time or not, return images of  *)
(* the stream they were asked for, as long as each work directory keeps to *)
(* one stream: a cached path names its stream, and so does every link.     *)
THEOREM ReturnedStreams ==
    ASSUME OneStreamEach
    PROVE  Spec => ReturnedIsOfStream
<1>1. Init => StreamInv
  <2> SUFFICES ASSUME Init
               PROVE  StreamInv
    OBVIOUS
  <2>1. UsesKept
    BY DEF Init, UsesKept, Running, Ended
  <2>2. ImagesOfStream
    BY DEF Init, ImagesOfStream, Absent
  <2>3. LinksOfStream
    BY DEF Init, LinksOfStream, OfStream
  <2> QED
    BY <2>1, <2>2, <2>3 DEF StreamInv
<1>2. TypeOK /\ VersionKnown /\ StreamInv /\ [Next]_vars => StreamInv'
  BY StreamStep
<1>3. TypeOK /\ VersionKnown /\ StreamInv /\ TypeOK' /\ StreamInv' /\ [Next]_vars
        => [\A c \in Cmds : Returns(c) /\ Returned(c).form = "whole"
                                => Returned(c).of[1] = proc[c].stream]_vars
  BY ReturnedStream
<1> QED
  BY <1>1, <1>2, <1>3, TypeCorrect, PTL DEF Spec, ReturnedIsOfStream

=============================================================================
