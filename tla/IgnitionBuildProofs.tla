-------------------------- MODULE IgnitionBuildProofs --------------------------
(***************************************************************************)
(* Proofs about the builds of Ignition configs, for any number of commands,*)
(* any jobs and any files.  The inductive invariant has three parts:       *)
(*                                                                         *)
(*   TypeInv   a running build has the end of its job's plan before it,    *)
(*             and a whole config has a piece;                             *)
(*   AloneInv  a build that no other one disturbed runs alone, and the     *)
(*             output is as it found it until its last step opens it;      *)
(*   BuiltInv  the files that such a build has made hold its own parts     *)
(*             and config, and the user's files are never written.         *)
(*                                                                         *)
(* What the operators of the plan give for each position is proved first,  *)
(* from the lengths and elements of the sequences put together.            *)
(***************************************************************************)
EXTENDS IgnitionBuild, TLAPS, SequenceTheorems, WellFoundedInduction

-----------------------------------------------------------------------------
(* Two sequences put together.                                             *)
IsJoin(u, s, t, S) ==
    /\ u \in Seq(S)
    /\ Len(u) = Len(s) + Len(t)
    /\ \A i \in 1..Len(s) : u[i] = s[i]
    /\ \A i \in 1..Len(t) : u[Len(s) + i] = t[i]

LEMMA Joined ==
    ASSUME NEW S, NEW s \in Seq(S), NEW t \in Seq(S)
    PROVE  IsJoin(s \o t, s, t, S)
<1> DEFINE u == s \o t
<1>1. /\ u \in Seq(S)
      /\ Len(u) = Len(s) + Len(t)
      /\ \A i \in 1..(Len(s) + Len(t)) : u[i] = IF i <= Len(s) THEN s[i] ELSE t[i - Len(s)]
  BY ConcatProperties
<1>2. Len(s) \in Nat /\ Len(t) \in Nat
  OBVIOUS
<1> HIDE DEF u
<1>3. ASSUME NEW i \in 1..Len(t)
      PROVE  u[Len(s) + i] = t[i]
  <2> DEFINE j == Len(s) + i
  <2>1. j \in 1..(Len(s) + Len(t)) /\ ~(j <= Len(s)) /\ j - Len(s) = i
    BY <1>2
  <2> HIDE DEF j
  <2>2. u[j] = t[j - Len(s)]
    BY <1>1, <2>1
  <2> QED
    BY <2>1, <2>2, Zenon DEF j
<1>4. ASSUME NEW i \in 1..Len(s)
      PROVE  u[i] = s[i]
  <2>1. i \in 1..(Len(s) + Len(t)) /\ i <= Len(s)
    BY <1>2
  <2> QED
    BY <1>1, <2>1
<1> QED
  <2>1. IsJoin(u, s, t, S)
    BY <1>1, <1>3, <1>4, Zenon DEF IsJoin
  <2> QED
    BY <2>1 DEF u

(* A set of numbers that is bounded and not empty has a greatest one.      *)
LEMMA Greatest ==
    ASSUME NEW n \in Nat, NEW S, S \subseteq 1..n, S # {}
    PROVE  \E m \in S : \A k \in S : k <= m
<1> DEFINE T == {n - k : k \in S}
<1>1. T \subseteq Nat
  <2>1. ASSUME NEW k \in S
        PROVE  n - k \in Nat
    <3>1. k \in 1..n
      OBVIOUS
    <3> QED
      BY <3>1
  <2> QED
    BY <2>1
<1>2. T # {}
  OBVIOUS
<1>3. IsWellFoundedOn(OpToRel(<, Nat), Nat)
  BY NatLessThanWellFounded
<1> HIDE DEF T
<1>4. PICK t \in T : \A k \in T : <<k, t>> \notin OpToRel(<, Nat)
  BY <1>1, <1>2, <1>3, WFMin, Zenon
<1>5. \A k \in T : ~(k < t)
  BY <1>1, <1>4 DEF OpToRel
<1>6. PICK m \in S : t = n - m
  BY DEF T
<1>7. ASSUME NEW k \in S
      PROVE  k <= m
  <2>1. n - k \in T
    BY DEF T
  <2>2. ~(n - k < n - m)
    BY <1>5, <1>6, <2>1
  <2>3. k \in Int /\ m \in Int
    OBVIOUS
  <2> QED
    BY <2>2, <2>3
<1> QED
  BY <1>7

-----------------------------------------------------------------------------
(* What a job's parts and steps are.                                       *)
PartRecords == [part : Int, file : Files]

LEMMA NumberedIs ==
    ASSUME NEW files \in Seq(Files), NEW first \in Int
    PROVE  /\ Numbered(files, first) \in Seq(PartRecords)
           /\ Len(Numbered(files, first)) = Len(files)
           /\ \A i \in 1..Len(files) :
                 /\ Numbered(files, first)[i].part = first + i - 1
                 /\ Numbered(files, first)[i].file = files[i]
<1>1. \A i \in 1..Len(files) :
         files[i] \in Files /\ [part |-> first + i - 1, file |-> files[i]] \in PartRecords
  BY DEF PartRecords
<1> QED
  BY <1>1 DEF Numbered

NParts(job) == Len(job.base) + Len(job.sources) + Len(job.overlays)

FilesOf(job) == job.base \o job.sources \o job.overlays

PartNumber(job, i) ==
    IF i <= Len(job.base) THEN i - 1
    ELSE IF i <= Len(job.base) + Len(job.sources) THEN i - Len(job.base)
    ELSE FirstOverlay + (i - Len(job.base) - Len(job.sources)) - 1

PartsAre(job) ==
    /\ Parts(job) \in Seq(PartRecords)
    /\ Len(Parts(job)) = NParts(job)
    /\ \A i \in 1..NParts(job) :
          /\ Parts(job)[i].part = PartNumber(job, i)
          /\ Parts(job)[i].file = FilesOf(job)[i]

LEMMA JobFacts ==
    ASSUME NEW job \in Jobs
    PROVE  /\ job \in JobType
           /\ job.base \in Seq(Files) /\ job.sources \in Seq(Files) /\ job.overlays \in Seq(Files)
           /\ Len(job.base) \in 0..1 /\ Len(job.sources) \in 0..2 /\ Len(job.overlays) \in 0..2
           /\ NParts(job) \in 1..5
           /\ job.output \in {Output, ConfigIgn}
<1>1. /\ job \in JobType /\ FilesOf(job) # <<>>
      /\ Len(job.base) <= 1 /\ Len(job.sources) < 3 /\ Len(job.overlays) < 3
  BY ConstantsAssumption DEF FirstOverlay, FilesOf
<1>2. /\ job.base \in Seq(Files) /\ job.sources \in Seq(Files) /\ job.overlays \in Seq(Files)
      /\ job.output \in {Output, ConfigIgn}
  BY <1>1 DEF JobType
<1>3. Len(job.base) \in Nat /\ Len(job.sources) \in Nat /\ Len(job.overlays) \in Nat
  BY <1>2
<1>4. ~(Len(job.base) = 0 /\ Len(job.sources) = 0 /\ Len(job.overlays) = 0)
  BY <1>1, <1>2 DEF FilesOf
<1> DEFINE b == Len(job.base)
           s == Len(job.sources)
           o == Len(job.overlays)
<1>5. b \in Nat /\ s \in Nat /\ o \in Nat /\ b <= 1 /\ s < 3 /\ o < 3
      /\ ~(b = 0 /\ s = 0 /\ o = 0)
  BY <1>1, <1>3, <1>4
<1>6. NParts(job) = b + s + o
  BY DEF NParts
<1> HIDE DEF b, s, o
<1>7. b \in 0..1 /\ s \in 0..2 /\ o \in 0..2 /\ b + s + o \in 1..5
  BY <1>5
<1> QED
  BY <1>1, <1>2, <1>6, <1>7 DEF b, s, o

LEMMA PartsOfJob ==
    ASSUME NEW job \in Jobs
    PROVE  PartsAre(job)
<1> DEFINE b == job.base
           s == job.sources
           o == job.overlays
           nb == Numbered(b, 0)
           ns == Numbered(s, 1)
           no == Numbered(o, 3)
<1>1. /\ b \in Seq(Files) /\ s \in Seq(Files) /\ o \in Seq(Files)
      /\ Len(b) \in Nat /\ Len(s) \in Nat /\ Len(o) \in Nat
  BY JobFacts
<1>2. /\ nb \in Seq(PartRecords) /\ Len(nb) = Len(b)
      /\ ns \in Seq(PartRecords) /\ Len(ns) = Len(s)
      /\ no \in Seq(PartRecords) /\ Len(no) = Len(o)
      /\ \A i \in 1..Len(b) : nb[i].part = 0 + i - 1 /\ nb[i].file = b[i]
      /\ \A i \in 1..Len(s) : ns[i].part = 1 + i - 1 /\ ns[i].file = s[i]
      /\ \A i \in 1..Len(o) : no[i].part = 3 + i - 1 /\ no[i].file = o[i]
  <2>1. 0 \in Int /\ 1 \in Int /\ 3 \in Int
    OBVIOUS
  <2>2. ASSUME NEW files \in Seq(Files), NEW first \in Int
        PROVE  /\ Numbered(files, first) \in Seq(PartRecords)
               /\ Len(Numbered(files, first)) = Len(files)
               /\ \A i \in 1..Len(files) :
                     /\ Numbered(files, first)[i].part = first + i - 1
                     /\ Numbered(files, first)[i].file = files[i]
    BY NumberedIs
  <2>3. /\ nb \in Seq(PartRecords) /\ Len(nb) = Len(b)
        /\ \A i \in 1..Len(b) : nb[i].part = 0 + i - 1 /\ nb[i].file = b[i]
    BY <1>1, <2>1, <2>2
  <2>4. /\ ns \in Seq(PartRecords) /\ Len(ns) = Len(s)
        /\ \A i \in 1..Len(s) : ns[i].part = 1 + i - 1 /\ ns[i].file = s[i]
    BY <1>1, <2>1, <2>2
  <2>5. /\ no \in Seq(PartRecords) /\ Len(no) = Len(o)
        /\ \A i \in 1..Len(o) : no[i].part = 3 + i - 1 /\ no[i].file = o[i]
    BY <1>1, <2>1, <2>2
  <2> QED
    BY <2>3, <2>4, <2>5
<1> HIDE DEF nb, ns, no
<1> DEFINE so == ns \o no
           p == nb \o so
           bs == b \o s
           f == bs \o o
<1>3. IsJoin(so, ns, no, PartRecords)
  BY <1>2, Joined, Zenon
<1>4. so \in Seq(PartRecords)
  BY <1>3 DEF IsJoin
<1>5. IsJoin(p, nb, so, PartRecords)
  <2> HIDE DEF so
  <2> QED
    BY <1>2, <1>4, Joined, Zenon
<1>6. IsJoin(bs, b, s, Files)
  BY <1>1, Joined, Zenon
<1>7. bs \in Seq(Files)
  BY <1>6 DEF IsJoin
<1>8. IsJoin(f, bs, o, Files)
  <2> HIDE DEF bs
  <2> QED
    BY <1>1, <1>7, Joined, Zenon
<1>9. Parts(job) = p /\ FilesOf(job) = f
  BY DEF Parts, Base, Butanes, FilesOf, FirstOverlay, nb, ns, no
<1>10. NParts(job) = Len(b) + Len(s) + Len(o)
  BY DEF NParts
<1>11. ASSUME NEW i \in 1..(Len(b) + Len(s) + Len(o))
       PROVE  p[i].part = PartNumber(job, i) /\ p[i].file = f[i]
  <2>1. PartNumber(job, i) = IF i <= Len(b) THEN i - 1
                             ELSE IF i <= Len(b) + Len(s) THEN i - Len(b)
                             ELSE 3 + (i - Len(b) - Len(s)) - 1
    BY DEF PartNumber, FirstOverlay
  <2> HIDE DEF b, s, o, so, p, bs, f
  <2>2. CASE i <= Len(b)
    <3>1. i \in 1..Len(b) /\ i \in 1..(Len(b) + Len(s))
      BY <1>1, <2>2
    <3>2. p[i] = nb[i] /\ f[i] = bs[i] /\ bs[i] = b[i]
      BY <1>2, <1>5, <1>6, <1>8, <3>1 DEF IsJoin
    <3> QED
      BY <1>2, <2>1, <2>2, <3>1, <3>2
  <2>3. CASE ~(i <= Len(b)) /\ i <= Len(b) + Len(s)
    <3> DEFINE j == i - Len(b)
    <3>1. j \in 1..Len(s) /\ i = Len(b) + j /\ i \in 1..(Len(b) + Len(s)) /\ j \in 1..(Len(s) + Len(o))
      BY <1>1, <2>3
    <3> HIDE DEF j
    <3>2. p[i] = so[j] /\ so[j] = ns[j]
      BY <1>2, <1>3, <1>5, <3>1 DEF IsJoin
    <3>3. f[i] = bs[i] /\ bs[i] = s[j]
      BY <1>6, <1>8, <3>1 DEF IsJoin
    <3>4. ns[j].part = j /\ ns[j].file = s[j]
      BY <1>2, <3>1
    <3>5. j = i - Len(b)
      BY <1>1, <3>1
    <3> QED
      BY <2>1, <2>3, <3>2, <3>3, <3>4, <3>5
  <2>4. CASE ~(i <= Len(b) + Len(s))
    <3> DEFINE j == i - Len(b) - Len(s)
    <3>1. /\ j \in 1..Len(o) /\ i = (Len(b) + Len(s)) + j /\ i = Len(b) + (Len(s) + j)
          /\ Len(s) + j \in 1..(Len(s) + Len(o)) /\ ~(i <= Len(b))
      BY <1>1, <2>4
    <3>0. j = i - Len(b) - Len(s)
      OBVIOUS
    <3> HIDE DEF j
    <3>2. p[i] = so[Len(s) + j] /\ so[Len(s) + j] = no[j]
      BY <1>2, <1>3, <1>5, <3>1 DEF IsJoin
    <3>3. f[i] = o[j]
      BY <1>6, <1>8, <3>1 DEF IsJoin
    <3>4. no[j].part = 3 + j - 1 /\ no[j].file = o[j]
      BY <1>2, <3>1
    <3>5. 3 + j - 1 = 3 + (i - Len(b) - Len(s)) - 1
      BY <3>0
    <3> QED
      BY <2>1, <2>4, <3>1, <3>2, <3>3, <3>4, <3>5
  <2> QED
    BY <2>2, <2>3, <2>4
<1>12. p \in Seq(PartRecords) /\ Len(p) = Len(b) + Len(s) + Len(o)
  <2> HIDE DEF b, s, o, so, p
  <2> QED
    BY <1>1, <1>2, <1>3, <1>5 DEF IsJoin
<1> HIDE DEF p, f
<1> QED
  BY <1>9, <1>10, <1>11, <1>12 DEF PartsAre

(* No two parts of a job have a file in common.                            *)
LEMMA PartNumberFacts ==
    ASSUME NEW job \in Jobs, NEW i \in 1..NParts(job)
    PROVE  /\ PartNumber(job, i) \in PartNumbers
           /\ PartNumber(job, i) = 0 <=> i <= Len(job.base)
           /\ \A k \in 1..NParts(job) : PartNumber(job, k) = PartNumber(job, i) => k = i
<1> DEFINE b == Len(job.base)
           s == Len(job.sources)
           o == Len(job.overlays)
<1>1. b \in 0..1 /\ s \in 0..2 /\ o \in 0..2
  BY JobFacts
<1>2. NParts(job) = b + s + o
  BY DEF NParts
<1>3. \A k : PartNumber(job, k) = IF k <= b THEN k - 1 ELSE IF k <= b + s THEN k - b
                                  ELSE 3 + (k - b - s) - 1
  BY DEF PartNumber, FirstOverlay
<1>4. PartNumbers = 0..4
  BY DEF PartNumbers, FirstOverlay
<1> HIDE DEF b, s, o
<1>5. i \in 1..(b + s + o)
  BY <1>2
<1>6. PartNumber(job, i) \in 0..4 /\ (PartNumber(job, i) = 0 <=> i <= b)
  BY <1>1, <1>3, <1>5
<1>7. ASSUME NEW k \in 1..(b + s + o), PartNumber(job, k) = PartNumber(job, i)
      PROVE  k = i
  BY <1>1, <1>3, <1>5, <1>7
<1> QED
  BY <1>2, <1>4, <1>6, <1>7 DEF b

LEMMA PathFacts ==
    /\ \A f \in Files : User(f) \in Paths
    /\ \A p \in PartNumbers : Ign(p) \in Paths
    /\ ConfigIgn \in Paths /\ Output \in Paths
    /\ \A f, p : User(f) # Ign(p) /\ User(f) # ConfigIgn /\ User(f) # Output
                 /\ Ign(p) # ConfigIgn /\ Ign(p) # Output
    /\ \A p, q : Ign(p) = Ign(q) => p = q
    /\ \A f, g : User(f) = User(g) => f = g
    /\ ConfigIgn # Output
BY DEF User, Ign, ConfigIgn, Output, Paths

(* The steps of a job, by their position in its plan.                      *)
GatherStep(job, i) ==
    BuildStep(IF PartNumber(job, i) = 0 THEN "copy" ELSE "compile",
              User(FilesOf(job)[i]), Ign(PartNumber(job, i)))

MergeStep(job) ==
    IF NParts(job) = 1 /\ job.overlays = <<>>
    THEN BuildStep("copy", Ign(PartNumber(job, 1)), ConfigIgn)
    ELSE BuildStep("merge", ConfigIgn, ConfigIgn)

OutputStep(job) == BuildStep("copy", ConfigIgn, job.output)

PlanIs(job) ==
    /\ Plan(job) \in Seq(BuildSteps)
    /\ Len(Plan(job)) = NParts(job) + 2
    /\ \A i \in 1..NParts(job) : Plan(job)[i] = GatherStep(job, i)
    /\ Plan(job)[NParts(job) + 1] = MergeStep(job)
    /\ Plan(job)[NParts(job) + 2] = OutputStep(job)

LEMMA StepTypes ==
    ASSUME NEW job \in Jobs
    PROVE  /\ \A i \in 1..NParts(job) : GatherStep(job, i) \in BuildSteps
           /\ MergeStep(job) \in BuildSteps
           /\ OutputStep(job) \in BuildSteps
<1>1. ASSUME NEW i \in 1..NParts(job)
      PROVE  FilesOf(job)[i] \in Files /\ PartNumber(job, i) \in PartNumbers
  <2>1. Parts(job)[i] \in PartRecords /\ Parts(job)[i].file = FilesOf(job)[i]
    <3>1. Parts(job) \in Seq(PartRecords) /\ i \in 1..Len(Parts(job))
      BY PartsOfJob DEF PartsAre
    <3>2. Parts(job)[i] \in PartRecords
      BY <3>1, ElementOfSeq
    <3> QED
      BY <3>2, PartsOfJob DEF PartsAre
  <2> QED
    BY <2>1, PartNumberFacts DEF PartRecords
<1>2. ASSUME NEW kind \in {"copy", "compile", "merge"}, NEW from \in Paths, NEW to \in Paths
      PROVE  BuildStep(kind, from, to) \in BuildSteps
  BY DEF BuildStep, BuildSteps
<1>3. ASSUME NEW i \in 1..NParts(job)
      PROVE  GatherStep(job, i) \in BuildSteps
  BY <1>1, <1>2, PathFacts DEF GatherStep
<1>4. 1 \in 1..NParts(job) /\ job.output \in Paths
  BY JobFacts, PathFacts
<1>5. MergeStep(job) \in BuildSteps
  BY <1>1, <1>2, <1>4, PathFacts DEF MergeStep
<1>6. OutputStep(job) \in BuildSteps
  BY <1>2, <1>4, PathFacts DEF OutputStep
<1> QED
  BY <1>3, <1>5, <1>6

LEMMA PlanOfJob ==
    ASSUME NEW job \in Jobs
    PROVE  PlanIs(job)
<1> DEFINE n == NParts(job)
           m == <<MergeStep(job)>>
           o == <<OutputStep(job)>>
           g == Gather(job)
           gm == g \o m
           p == gm \o o
<1>0. n \in 1..5
  BY JobFacts
<1>1. /\ m \in Seq(BuildSteps) /\ Len(m) = 1 /\ m[1] = MergeStep(job)
      /\ o \in Seq(BuildSteps) /\ Len(o) = 1 /\ o[1] = OutputStep(job)
  BY StepTypes
<1>2. /\ g \in Seq(BuildSteps) /\ Len(g) = n
      /\ \A i \in 1..n : g[i] = GatherStep(job, i)
  <2>1. Len(Parts(job)) = n /\ \A i \in 1..n : /\ Parts(job)[i].part = PartNumber(job, i)
                                               /\ Parts(job)[i].file = FilesOf(job)[i]
    BY PartsOfJob DEF PartsAre
  <2>2. g = [i \in 1..n |-> GatherStep(job, i)]
    BY <2>1 DEF Gather, GatherStep
  <2>3. \A i \in 1..n : GatherStep(job, i) \in BuildSteps
    BY StepTypes
  <2> HIDE DEF g, n
  <2> QED
    BY <1>0, <2>2, <2>3
<1>3. Plan(job) = p
  <2>1. Len(Parts(job)) = n /\ Parts(job)[1].part = PartNumber(job, 1)
    BY <1>0, PartsOfJob DEF PartsAre
  <2> HIDE DEF g
  <2> QED
    BY <2>1, Zenon DEF Plan, MergeStep, OutputStep, g
<1> HIDE DEF n, m, o, g
<1>4. IsJoin(gm, g, m, BuildSteps)
  BY <1>1, <1>2, Joined, Zenon
<1>5. gm \in Seq(BuildSteps)
  BY <1>4 DEF IsJoin
<1>6. IsJoin(p, gm, o, BuildSteps)
  <2> HIDE DEF gm
  <2> QED
    BY <1>1, <1>5, Joined, Zenon
<1> HIDE DEF gm, p
<1>7. /\ gm \in Seq(BuildSteps) /\ Len(gm) = n + 1
      /\ \A i \in 1..n : gm[i] = g[i]
      /\ gm[n + 1] = m[1]
  BY <1>0, <1>1, <1>2, <1>4 DEF IsJoin
<1>8. /\ p \in Seq(BuildSteps) /\ Len(p) = n + 2
      /\ \A i \in 1..(n + 1) : p[i] = gm[i]
      /\ p[(n + 1) + 1] = o[1]
  BY <1>0, <1>1, <1>6, <1>7 DEF IsJoin
<1>9. /\ \A i \in 1..n : p[i] = GatherStep(job, i)
      /\ p[n + 1] = MergeStep(job) /\ p[n + 2] = OutputStep(job)
  BY <1>0, <1>1, <1>2, <1>7, <1>8
<1> QED
  BY <1>3, <1>8, <1>9 DEF PlanIs, n

(* Rendering gives a text, the last value that is for the variable.        *)
LEMMA RenderedType ==
    ASSUME NEW job \in JobType
    PROVE  Rendered(job) \in {"raw", "blank", "1", "2"}
<1> DEFINE given == {i \in DOMAIN job.values : job.values[i] # "other"}
           last == CHOOSE i \in given : \A k \in given : k <= i
<1>1. job.values \in Seq({"other", "1", "2"})
  BY DEF JobType
<1>2. CASE given = {}
  BY <1>2 DEF Rendered
<1>3. CASE given # {}
  <2>1. Len(job.values) \in Nat /\ given \subseteq 1..Len(job.values)
    BY <1>1
  <2>2. \E m \in given : \A k \in given : k <= m
    <3> HIDE DEF given
    <3> QED
      BY <1>3, <2>1, Greatest
  <2>3. last \in given
    BY <2>2
  <2>4. job.values[last] \in {"1", "2"}
    <3>1. last \in 1..Len(job.values) /\ job.values[last] # "other"
      BY <2>1, <2>3
    <3> HIDE DEF last
    <3>2. job.values[last] \in {"other", "1", "2"}
      BY <1>1, <3>1, ElementOfSeq
    <3> QED
      BY <3>1, <3>2
  <2>5. Rendered(job) = IF job.values = <<>> THEN "raw" ELSE job.values[last]
    BY <1>3 DEF Rendered
  <2> QED
    BY <2>4, <2>5
<1> QED
  BY <1>2, <1>3

-----------------------------------------------------------------------------
(* What is left of a running build is the end of its job's plan.           *)
RestOf(todo, job) ==
    /\ Len(todo) \in 1..(NParts(job) + 2)
    /\ \A i \in 1..Len(todo) : todo[i] = Plan(job)[NParts(job) + 2 - Len(todo) + i]

RunOK(m) ==
    m.pc # "idle" =>
        /\ m.job \in Jobs /\ m.result = "none"
        /\ RestOf(m.todo, m.job)
        /\ m.pc = "take" => Head(m.todo).kind # "copy"

RunInv == \A c \in Cmds : RunOK(cmd[c])

(* A whole config has a piece.                                             *)
Filled(content) == content.state = "whole" => content.pieces # <<>>

FilledInv ==
    /\ \A p \in Paths : Filled(dir[p])
    /\ \A c \in Cmds : Filled(cmd[c].held)

TypeInv == TypeOK /\ RunInv /\ FilledInv

LEMMA WholePlan ==
    ASSUME NEW job \in Jobs
    PROVE  Plan(job) \in Seq(BuildSteps) /\ RestOf(Plan(job), job)
<1>1. NParts(job) \in 1..5
  BY JobFacts
<1>2. Plan(job) \in Seq(BuildSteps) /\ Len(Plan(job)) = NParts(job) + 2
  BY PlanOfJob DEF PlanIs
<1>3. ASSUME NEW i \in 1..(NParts(job) + 2)
      PROVE  NParts(job) + 2 - (NParts(job) + 2) + i = i
  BY <1>1
<1> QED
  BY <1>1, <1>2, <1>3 DEF RestOf

LEMMA RestFacts ==
    ASSUME NEW job \in Jobs, NEW todo \in Seq(BuildSteps), RestOf(todo, job)
    PROVE  /\ todo # <<>> /\ Len(todo) \in 1..(NParts(job) + 2)
           /\ Head(todo) \in BuildSteps
           /\ Head(todo) = Plan(job)[NParts(job) + 3 - Len(todo)]
           /\ Tail(todo) \in Seq(BuildSteps) /\ Len(Tail(todo)) = Len(todo) - 1
           /\ Tail(todo) # <<>> => RestOf(Tail(todo), job)
           /\ Tail(todo) = <<>> <=> Len(todo) = 1
<1> DEFINE n == NParts(job)
           len == Len(todo)
           rest == Tail(todo)
<1>1. n \in 1..5
  BY JobFacts
<1>2. len \in 1..(n + 2) /\ \A i \in 1..len : todo[i] = Plan(job)[n + 2 - len + i]
  BY DEF RestOf
<1>3. todo # <<>>
  BY <1>2
<1>4. /\ Head(todo) \in BuildSteps /\ Head(todo) = todo[1]
      /\ rest \in Seq(BuildSteps) /\ Len(rest) = len - 1
      /\ \A i \in 1..(len - 1) : rest[i] = todo[i + 1]
  BY <1>2, <1>3
<1>5. rest = <<>> <=> len = 1
  <2>1. rest = <<>> <=> Len(rest) = 0
    BY <1>4, EmptySeq
  <2>2. len - 1 = 0 <=> len = 1
    BY <1>2
  <2> QED
    BY <1>4, <2>1, <2>2
<1> HIDE DEF n, len, rest
<1>6. todo[1] = Plan(job)[n + 3 - len]
  <2>1. 1 \in 1..len /\ n + 2 - len + 1 = n + 3 - len
    BY <1>1, <1>2
  <2> QED
    BY <1>2, <2>1
<1>7. ASSUME NEW i \in 1..(len - 1)
      PROVE  rest[i] = Plan(job)[n + 2 - (len - 1) + i]
  <2>1. i + 1 \in 1..len /\ n + 2 - len + (i + 1) = n + 2 - (len - 1) + i
    BY <1>1, <1>2
  <2>2. rest[i] = todo[i + 1] /\ todo[i + 1] = Plan(job)[n + 2 - len + (i + 1)]
    BY <1>2, <1>4, <2>1
  <2> QED
    BY <2>1, <2>2
<1>8. len # 1 => len - 1 \in 1..(n + 2)
  BY <1>1, <1>2
<1>9. rest # <<>> => RestOf(rest, job)
  BY <1>4, <1>5, <1>7, <1>8 DEF RestOf, n
<1> QED
  BY <1>2, <1>3, <1>4, <1>5, <1>6, <1>9 DEF n, len, rest

(* Where a build is in its plan.                                           *)
At(c) == NParts(cmd[c].job) + 3 - Len(cmd[c].todo)

NowAt(c, job, at) ==
    /\ at \in 1..(NParts(job) + 2)
    /\ Now(c) \in BuildSteps
    /\ at <= NParts(job) => Now(c) = GatherStep(job, at)
    /\ at = NParts(job) + 1 => Now(c) = MergeStep(job)
    /\ at = NParts(job) + 2 => Now(c) = OutputStep(job)

LEMMA NowIs ==
    ASSUME TypeOK, RunInv, NEW c \in Cmds, Running(c)
    PROVE  /\ cmd[c].job \in Jobs
           /\ NowAt(c, cmd[c].job, At(c))
           /\ cmd[c].todo \in Seq(BuildSteps) /\ RestOf(cmd[c].todo, cmd[c].job)
<1> DEFINE job == cmd[c].job
           todo == cmd[c].todo
           n == NParts(job)
<1>1. job \in Jobs /\ RestOf(todo, job)
  BY DEF RunInv, RunOK, Running
<1>2. todo \in Seq(BuildSteps)
  BY DEF TypeOK, Commands
<1> HIDE DEF job, todo
<1>3. n \in 1..5
  BY <1>1, JobFacts
<1>4. Len(todo) \in 1..(n + 2) /\ Head(todo) \in BuildSteps /\ Head(todo) = Plan(job)[n + 3 - Len(todo)]
  BY <1>1, <1>2, RestFacts
<1>5. /\ \A i \in 1..n : Plan(job)[i] = GatherStep(job, i)
      /\ Plan(job)[n + 1] = MergeStep(job)
      /\ Plan(job)[n + 2] = OutputStep(job)
  BY <1>1, PlanOfJob DEF PlanIs
<1>6. At(c) = n + 3 - Len(todo) /\ Now(c) = Head(todo)
  BY DEF At, Now, job, todo
<1> HIDE DEF n
<1>7. At(c) \in 1..(n + 2) /\ (At(c) <= n => At(c) \in 1..n)
  BY <1>3, <1>4, <1>6
<1>8. NowAt(c, job, At(c))
  BY <1>4, <1>5, <1>6, <1>7 DEF NowAt, n
<1> QED
  BY <1>1, <1>2, <1>8 DEF job, todo

-----------------------------------------------------------------------------
(* Contents.                                                               *)
LEMMA CompiledType ==
    ASSUME NEW job \in JobType, NEW content \in Contents, Filled(content)
    PROVE  Compiled(job, content) \in Contents /\ Filled(Compiled(job, content))
<1> DEFINE pieces == [i \in DOMAIN content.pieces |->
                         [content.pieces[i] EXCEPT !.text = Rendered(job)]]
<1>1. content.pieces \in Seq(Pieces)
  BY DEF Contents
<1>2. ASSUME NEW piece \in Pieces
      PROVE  [piece EXCEPT !.text = Rendered(job)] \in Pieces
  BY RenderedType DEF Pieces
<1>3. /\ Len(content.pieces) \in Nat /\ DOMAIN content.pieces = 1..Len(content.pieces)
      /\ \A i \in 1..Len(content.pieces) : content.pieces[i] \in Pieces
  BY <1>1, ElementOfSeq
<1>4. pieces \in Seq(Pieces) /\ Len(pieces) = Len(content.pieces)
  <2> DEFINE n == Len(content.pieces)
             e(i) == [content.pieces[i] EXCEPT !.text = Rendered(job)]
  <2>1. \A i \in 1..n : e(i) \in Pieces
    BY <1>2, <1>3
  <2>2. pieces = [i \in 1..n |-> e(i)]
    BY <1>3
  <2>3. n \in Nat
    BY <1>3
  <2> HIDE DEF n, e, pieces
  <2>4. pieces \in Seq(Pieces) /\ Len(pieces) = n
    BY <2>1, <2>2, <2>3
  <2> QED
    BY <2>4 DEF n
<1>5. Compiled(job, content) = [content EXCEPT !.pieces = pieces]
  BY DEF Compiled
<1> HIDE DEF pieces
<1>6. /\ Compiled(job, content) \in Contents
      /\ Compiled(job, content).state = content.state
      /\ Compiled(job, content).pieces = pieces
  BY <1>4, <1>5 DEF Contents
<1>7. pieces = <<>> => content.pieces = <<>>
  BY <1>1, <1>4
<1> QED
  BY <1>6, <1>7 DEF Filled

LEMMA MergedIs ==
    ASSUME NEW job \in Jobs
    PROVE  Merged(job) = [i \in 1..NParts(job) |-> PartNumber(job, i)]
BY PartsOfJob DEF Merged, PartsAre

LEMMA WholeType ==
    ASSUME NEW pieces \in Seq(Pieces), pieces # <<>>
    PROVE  Whole(pieces) \in Contents /\ Filled(Whole(pieces))
BY DEF Whole, Contents, Filled

LEMMA MergedType ==
    ASSUME TypeOK, FilledInv, NEW job \in Jobs
    PROVE  MergeFiles(Merged(job)) \in Contents /\ Filled(MergeFiles(Merged(job)))
<1> DEFINE n == NParts(job)
           path(i) == Ign(PartNumber(job, i))
           pieces == [i \in 1..n |-> dir[path(i)].pieces[1]]
<1>1. n \in 1..5
  BY JobFacts
<1>2. /\ DOMAIN Merged(job) = 1..n
      /\ \A i \in 1..n : Merged(job)[i] = PartNumber(job, i)
  BY MergedIs
<1>3. \A i \in 1..n : path(i) \in Paths
  BY PartNumberFacts, PathFacts
<1>4. CASE \E i \in 1..n : dir[path(i)].state # "whole"
  <2>1. MergeFiles(Merged(job)) = Broken
    BY <1>2, <1>4 DEF MergeFiles
  <2> QED
    BY <2>1 DEF Broken, Contents, Filled
<1>5. CASE \A i \in 1..n : dir[path(i)].state = "whole"
  <2>1. MergeFiles(Merged(job)) = Whole([i \in DOMAIN Merged(job) |-> dir[Ign(Merged(job)[i])].pieces[1]])
    BY <1>2, <1>5 DEF MergeFiles
  <2>2. [i \in DOMAIN Merged(job) |-> dir[Ign(Merged(job)[i])].pieces[1]] = pieces
    BY <1>2
  <2>3. ASSUME NEW i \in 1..n
        PROVE  dir[path(i)].pieces[1] \in Pieces
    <3>1. dir[path(i)] \in Contents /\ Filled(dir[path(i)])
      BY <1>3 DEF TypeOK, FilledInv
    <3>2. dir[path(i)].pieces \in Seq(Pieces) /\ dir[path(i)].pieces # <<>>
      BY <1>5, <3>1 DEF Contents, Filled
    <3> HIDE DEF path
    <3> QED
      BY <3>2
  <2> HIDE DEF n, path
  <2>4. pieces \in Seq(Pieces) /\ Len(pieces) = n
    BY <1>1, <2>3
  <2> HIDE DEF pieces
  <2>5. pieces # <<>>
    BY <1>1, <2>4
  <2>6. MergeFiles(Merged(job)) = Whole(pieces)
    BY <2>1, <2>2, Zenon
  <2> QED
    BY <2>4, <2>5, <2>6, WholeType, Zenon
<1> QED
  BY <1>4, <1>5

-----------------------------------------------------------------------------
(* The records of the commands, as the steps make them.                    *)
CommandOK(m) == m \in Commands /\ RunOK(m) /\ Filled(m.held)

DirOK(files) == files \in [Paths -> Contents] /\ \A p \in Paths : Filled(files[p])

LEMMA IsTypeInv ==
    TypeInv <=> DirOK(dir) /\ cmd \in [Cmds -> Commands] /\ \A c \in Cmds : CommandOK(cmd[c])
BY DEF TypeInv, TypeOK, RunInv, FilledInv, CommandOK, DirOK

LEMMA SmallContents ==
    /\ Absent \in Contents /\ Filled(Absent)
    /\ Broken \in Contents /\ Filled(Broken)
    /\ \A f \in Files : Template(f) \in Contents /\ Filled(Template(f))
BY DEF Absent, Broken, Template, Whole, Contents, Pieces, Filled

LEMMA IdleOK ==
    ASSUME NEW result \in {"none", "ok", "rejected", "failed"}
    PROVE  /\ CommandOK(Idle(result))
           /\ Idle(result).pc = "idle" /\ Idle(result).result = result
<1>1. NoJob \in JobType
  BY DEF NoJob, JobType
<1>2. Idle(result) \in Commands
  BY <1>1, SmallContents DEF Idle, Commands
<1> QED
  BY <1>2, SmallContents DEF CommandOK, RunOK, Idle

LEMMA EntryIs ==
    ASSUME NEW todo
    PROVE  /\ Entry(todo) \in {"open", "take"}
           /\ Entry(todo) = "take" => Head(todo).kind # "copy"
BY DEF Entry

NewBuild(job, alone, before) ==
    [Idle("none") EXCEPT !.pc = Entry(Plan(job)), !.job = job, !.todo = Plan(job),
                         !.before = before, !.alone = alone]

LEMMA NewBuildOK ==
    ASSUME NEW job \in Jobs, NEW alone \in BOOLEAN, NEW before \in Contents
    PROVE  /\ CommandOK(NewBuild(job, alone, before))
           /\ NewBuild(job, alone, before).pc = Entry(Plan(job))
           /\ NewBuild(job, alone, before).job = job
           /\ NewBuild(job, alone, before).todo = Plan(job)
           /\ NewBuild(job, alone, before).alone = alone
           /\ NewBuild(job, alone, before).before = before
<1> DEFINE m == NewBuild(job, alone, before)
           plan == Plan(job)
           entry == Entry(plan)
<1>1. job \in JobType /\ plan \in Seq(BuildSteps) /\ RestOf(plan, job)
  BY JobFacts, WholePlan
<1>2. entry \in {"open", "take"} /\ (entry = "take" => Head(plan).kind # "copy")
  BY EntryIs, Zenon
<1>3. m = [pc |-> entry, job |-> job, todo |-> plan, held |-> Absent, result |-> "none",
           before |-> before, alone |-> alone]
  <2>1. m = [Idle("none") EXCEPT !.pc = entry, !.job = job, !.todo = plan,
                                 !.before = before, !.alone = alone]
    BY Zenon DEF NewBuild
  <2> HIDE DEF plan, entry, m
  <2> QED
    BY <2>1 DEF Idle
<1> HIDE DEF plan, entry, m
<1>4. m \in Commands
  BY <1>1, <1>2, <1>3, SmallContents DEF Commands
<1>5. RunOK(m) /\ Filled(m.held)
  BY <1>1, <1>2, <1>3, SmallContents DEF RunOK
<1> QED
  BY <1>3, <1>4, <1>5 DEF CommandOK, m, plan, entry

(* What a step makes of the record of a command that it does not end.      *)
Disturbed(m) == [m EXCEPT !.alone = FALSE, !.before = Absent]
Held(m, held) == [m EXCEPT !.pc = "open", !.held = held]
Filling(m) == [m EXCEPT !.pc = "fill"]
Further(m, todo) == [m EXCEPT !.pc = Entry(todo), !.todo = todo, !.held = Absent]

LEMMA DisturbedOK ==
    ASSUME NEW m, CommandOK(m)
    PROVE  CommandOK(Disturbed(m)) /\ Disturbed(m).alone = FALSE
<1>1. m \in Commands
  BY DEF CommandOK
<1>2. /\ Disturbed(m).pc = m.pc /\ Disturbed(m).job = m.job /\ Disturbed(m).todo = m.todo
      /\ Disturbed(m).held = m.held /\ Disturbed(m).result = m.result
      /\ Disturbed(m).alone = FALSE
  BY <1>1 DEF Disturbed, Commands
<1>3. Disturbed(m) \in Commands
  BY <1>1, SmallContents DEF Disturbed, Commands
<1> QED
  BY <1>2, <1>3, Zenon DEF CommandOK, RunOK

LEMMA HeldOK ==
    ASSUME NEW m, CommandOK(m), NEW held \in Contents, Filled(held)
    PROVE  /\ CommandOK(Held(m, held)) \/ m.pc = "idle"
           /\ Held(m, held).pc = "open" /\ Held(m, held).held = held
           /\ Held(m, held).job = m.job /\ Held(m, held).todo = m.todo
           /\ Held(m, held).result = m.result
           /\ Held(m, held).alone = m.alone /\ Held(m, held).before = m.before
<1> DEFINE new == Held(m, held)
<1>1. m \in Commands /\ RunOK(m)
  BY DEF CommandOK
<1>2. /\ new.pc = "open" /\ new.job = m.job /\ new.todo = m.todo
      /\ new.held = held /\ new.result = m.result
      /\ new.alone = m.alone /\ new.before = m.before
  BY <1>1 DEF Held, Commands
<1>3. new \in Commands
  BY <1>1 DEF Held, Commands
<1> HIDE DEF new
<1>4. CommandOK(new) \/ m.pc = "idle"
  BY <1>1, <1>2, <1>3 DEF CommandOK, RunOK
<1> QED
  BY <1>2, <1>4 DEF new

LEMMA FillingOK ==
    ASSUME NEW m, CommandOK(m)
    PROVE  /\ CommandOK(Filling(m)) \/ m.pc = "idle"
           /\ Filling(m).pc = "fill" /\ Filling(m).held = m.held
           /\ Filling(m).job = m.job /\ Filling(m).todo = m.todo
           /\ Filling(m).result = m.result
           /\ Filling(m).alone = m.alone /\ Filling(m).before = m.before
<1> DEFINE new == Filling(m)
<1>1. m \in Commands /\ RunOK(m) /\ Filled(m.held)
  BY DEF CommandOK
<1>2. /\ new.pc = "fill" /\ new.job = m.job /\ new.todo = m.todo
      /\ new.held = m.held /\ new.result = m.result
      /\ new.alone = m.alone /\ new.before = m.before
  BY <1>1 DEF Filling, Commands
<1>3. new \in Commands
  BY <1>1 DEF Filling, Commands
<1> HIDE DEF new
<1>4. CommandOK(new) \/ m.pc = "idle"
  BY <1>1, <1>2, <1>3 DEF CommandOK, RunOK
<1> QED
  BY <1>2, <1>4 DEF new

LEMMA FurtherOK ==
    ASSUME NEW m, CommandOK(m), m.pc # "idle", Tail(m.todo) # <<>>
    PROVE  /\ CommandOK(Further(m, Tail(m.todo)))
           /\ Further(m, Tail(m.todo)).pc = Entry(Tail(m.todo))
           /\ Further(m, Tail(m.todo)).job = m.job
           /\ Further(m, Tail(m.todo)).todo = Tail(m.todo)
           /\ Further(m, Tail(m.todo)).result = m.result
           /\ Further(m, Tail(m.todo)).alone = m.alone
           /\ Further(m, Tail(m.todo)).before = m.before
<1> DEFINE rest == Tail(m.todo)
           entry == Entry(rest)
           new == Further(m, rest)
<1>1. /\ m \in Commands /\ m.job \in Jobs /\ m.result = "none"
      /\ m.todo \in Seq(BuildSteps) /\ RestOf(m.todo, m.job)
  BY DEF CommandOK, RunOK, Commands
<1>2. rest \in Seq(BuildSteps) /\ RestOf(rest, m.job)
  BY <1>1, RestFacts
<1>3. entry \in {"open", "take"} /\ (entry = "take" => Head(rest).kind # "copy")
  BY EntryIs, Zenon
<1>4. new = [m EXCEPT !.pc = entry, !.todo = rest, !.held = Absent]
  BY DEF Further
<1> HIDE DEF rest, entry, new
<1>5. /\ new.pc = entry /\ new.job = m.job /\ new.todo = rest
      /\ new.held = Absent /\ new.result = m.result
      /\ new.alone = m.alone /\ new.before = m.before
  BY <1>1, <1>4 DEF Commands
<1>6. new \in Commands
  BY <1>1, <1>2, <1>3, <1>4, SmallContents DEF Commands
<1>7. CommandOK(new)
  BY <1>1, <1>2, <1>3, <1>5, <1>6, SmallContents DEF CommandOK, RunOK
<1> QED
  BY <1>5, <1>7 DEF rest, entry, new

-----------------------------------------------------------------------------
(* What each action does to the files and to the records.                  *)
Others(c) == {d \in Cmds \ {c} : Running(d)}

Begun(c, job) ==
    NewBuild(job, Others(c) = {}, IF Others(c) = {} THEN dir[Output] ELSE Absent)

Result(c) ==
    IF Now(c).kind = "compile" THEN Compiled(cmd[c].job, dir[Now(c).from])
    ELSE MergeFiles(Merged(cmd[c].job))

Written(c) == IF Now(c).kind = "copy" THEN dir[Now(c).from] ELSE cmd[c].held

LEMMA StartIs ==
    ASSUME NEW c \in Cmds, NEW job \in Jobs, Start(c, job)
    PROVE  /\ ~Running(c) /\ dir' = dir
           /\ cmd' = [d \in Cmds |-> IF d = c THEN Begun(c, job)
                                     ELSE IF d \in Others(c) THEN Disturbed(cmd[d])
                                     ELSE cmd[d]]
<1>1. Started(c, job) = [d \in Cmds |-> IF d = c THEN Begun(c, job)
                                        ELSE IF d \in Others(c) THEN Disturbed(cmd[d])
                                        ELSE cmd[d]]
  BY Zenon DEF Started, Begun, NewBuild, Others, Disturbed
<1> QED
  BY <1>1 DEF Start

(* A step with command c's own record changed.                             *)
Becomes(c, m) == cmd' = [cmd EXCEPT ![c] = m]

LEMMA TakeIs ==
    ASSUME TypeInv, NEW c \in Cmds, Take(c)
    PROVE  /\ Running(c) /\ cmd[c].pc = "take" /\ dir' = dir
           /\ Becomes(c, Held(cmd[c], Result(c)))
<1>1. cmd \in [Cmds -> Commands]
  BY DEF TypeInv, TypeOK
<1>2. cmd' = [cmd EXCEPT ![c].pc = "open", ![c].held = Result(c)]
  BY Zenon DEF Take, Result
<1>3. cmd' = [cmd EXCEPT ![c] = Held(cmd[c], Result(c))]
  BY <1>1, <1>2 DEF Held
<1> QED
  BY <1>3 DEF Take, Running, Becomes

LEMMA RejectIs ==
    ASSUME NEW c \in Cmds, Reject(c)
    PROVE  /\ Running(c) /\ cmd[c].pc = "take" /\ dir' = dir
           /\ Becomes(c, Idle("rejected"))
BY DEF Reject, Running, Becomes

LEMMA OpenIs ==
    ASSUME TypeInv, NEW c \in Cmds, Open(c)
    PROVE  /\ Running(c) /\ cmd[c].pc = "open"
           /\ dir' = [dir EXCEPT ![Now(c).to] = Broken]
           /\ Becomes(c, Filling(cmd[c]))
BY DEF TypeInv, TypeOK, Open, Filling, Running, Becomes

LEMMA FillIs ==
    ASSUME TypeInv, NEW c \in Cmds, Fill(c)
    PROVE  /\ Running(c) /\ cmd[c].pc = "fill"
           /\ dir' = [dir EXCEPT ![Now(c).to] = Written(c)]
           /\ Tail(cmd[c].todo) = <<>> => Becomes(c, Idle("ok"))
           /\ Tail(cmd[c].todo) # <<>> => Becomes(c, Further(cmd[c], Tail(cmd[c].todo)))
<1>1. cmd \in [Cmds -> Commands]
  BY DEF TypeInv, TypeOK
<1> DEFINE rest == Tail(cmd[c].todo)
           m == IF rest = <<>> THEN Idle("ok") ELSE Further(cmd[c], rest)
<1>2. cmd' = [cmd EXCEPT ![c] = m]
  BY <1>1 DEF Fill, Further
<1>3. /\ rest = <<>> => m = Idle("ok")
      /\ rest # <<>> => m = Further(cmd[c], rest)
  OBVIOUS
<1>4. Running(c) /\ cmd[c].pc = "fill" /\ dir' = [dir EXCEPT ![Now(c).to] = Written(c)]
  BY Zenon DEF Fill, Written, Running
<1> HIDE DEF m
<1> QED
  BY <1>2, <1>3, <1>4 DEF Becomes

LEMMA StopIs ==
    ASSUME NEW c \in Cmds, Stop(c)
    PROVE  Running(c) /\ dir' = dir /\ Becomes(c, Idle("failed"))
BY DEF Stop, Becomes

LEMMA BecomesIs ==
    ASSUME TypeInv, NEW c \in Cmds, NEW m, Becomes(c, m)
    PROVE  /\ DOMAIN cmd' = Cmds /\ cmd'[c] = m
           /\ \A d \in Cmds : d # c => cmd'[d] = cmd[d]
BY DEF TypeInv, TypeOK, Becomes

-----------------------------------------------------------------------------
(* The type invariant.                                                     *)
LEMMA RecordChanges ==
    ASSUME TypeInv, NEW c \in Cmds, NEW m, CommandOK(m), Becomes(c, m), DirOK(dir')
    PROVE  TypeInv'
<1>1. cmd \in [Cmds -> Commands] /\ \A d \in Cmds : CommandOK(cmd[d])
  BY IsTypeInv
<1>2. m \in Commands
  BY DEF CommandOK
<1>3. cmd' \in [Cmds -> Commands]
  BY <1>1, <1>2 DEF Becomes
<1>4. ASSUME NEW d \in Cmds
      PROVE  CommandOK(cmd'[d])
  BY <1>1, BecomesIs
<1>5. /\ dir' \in [Paths -> Contents] /\ \A p \in Paths : Filled(dir'[p])
      /\ \A d \in Cmds : cmd'[d] \in Commands /\ RunOK(cmd'[d]) /\ Filled(cmd'[d].held)
  BY <1>4 DEF DirOK, CommandOK
<1> QED
  BY <1>3, <1>5 DEF TypeInv, TypeOK, RunInv, FilledInv, RunOK, Filled

LEMMA FileChanges ==
    ASSUME DirOK(dir), NEW path \in Paths, NEW content \in Contents, Filled(content),
           dir' = [dir EXCEPT ![path] = content]
    PROVE  DirOK(dir')
<1>1. ASSUME NEW p \in Paths
      PROVE  Filled(dir'[p])
  <2>1. dir \in [Paths -> Contents] /\ Filled(dir[p])
    BY DEF DirOK
  <2>2. dir'[p] = IF p = path THEN content ELSE dir[p]
    BY <2>1
  <2> QED
    BY <2>1, <2>2
<1>2. dir' \in [Paths -> Contents]
  BY DEF DirOK
<1> QED
  BY <1>1, <1>2 DEF DirOK

LEMMA NowPaths ==
    ASSUME TypeInv, NEW c \in Cmds, Running(c)
    PROVE  Now(c).from \in Paths /\ Now(c).to \in Paths
BY NowIs DEF TypeInv, NowAt, BuildSteps

LEMMA ResultType ==
    ASSUME TypeInv, NEW c \in Cmds, Running(c)
    PROVE  Result(c) \in Contents /\ Filled(Result(c))
<1>1. Now(c).from \in Paths /\ cmd[c].job \in Jobs /\ cmd[c].job \in JobType
  BY NowPaths, NowIs, JobFacts DEF TypeInv
<1>2. dir[Now(c).from] \in Contents /\ Filled(dir[Now(c).from])
  BY <1>1 DEF TypeInv, TypeOK, FilledInv
<1>3. /\ Compiled(cmd[c].job, dir[Now(c).from]) \in Contents
      /\ Filled(Compiled(cmd[c].job, dir[Now(c).from]))
  BY <1>1, <1>2, CompiledType, Zenon
<1>4. /\ MergeFiles(Merged(cmd[c].job)) \in Contents
      /\ Filled(MergeFiles(Merged(cmd[c].job)))
  BY <1>1, MergedType, Zenon DEF TypeInv
<1> QED
  BY <1>3, <1>4, Zenon DEF Result

LEMMA WrittenType ==
    ASSUME TypeInv, NEW c \in Cmds, Running(c)
    PROVE  Written(c) \in Contents /\ Filled(Written(c))
BY NowPaths DEF TypeInv, TypeOK, FilledInv, Written, Commands

LEMMA InitType == Init => TypeInv
<1> SUFFICES ASSUME Init PROVE TypeInv
  OBVIOUS
<1>1. cmd = [c \in Cmds |-> Idle("none")]
  BY DEF Init
<1>2. CommandOK(Idle("none"))
  BY IdleOK
<1>3. Idle("none") \in Commands
  BY <1>2 DEF CommandOK
<1>4. DirOK(dir)
  <2>1. ASSUME NEW p \in Paths
        PROVE  dir[p] \in Contents /\ Filled(dir[p])
    <3>1. CASE \E f \in Files : p = User(f)
      <4>1. PICK f \in Files : p = User(f)
        BY <3>1
      <4>2. p[2] = f
        BY <4>1 DEF User
      <4>3. dir[p] = Template(f)
        BY <3>1, <4>2 DEF Init
      <4> QED
        BY <4>3, SmallContents
    <3>2. CASE ~\E f \in Files : p = User(f)
      BY <3>2, SmallContents DEF Init
    <3> QED
      BY <3>1, <3>2
  <2>2. dir = [p \in Paths |-> dir[p]]
    BY DEF Init
  <2> QED
    BY <2>1, <2>2 DEF DirOK
<1> QED
  BY <1>1, <1>2, <1>3, <1>4, IsTypeInv

LEMMA NextType ==
    ASSUME TypeInv, [Next]_vars
    PROVE  TypeInv'
<1>0. /\ DirOK(dir) /\ cmd \in [Cmds -> Commands]
      /\ \A c \in Cmds : CommandOK(cmd[c])
  BY IsTypeInv
<1>1. ASSUME NEW c \in Cmds, NEW job \in Jobs, Start(c, job)
      PROVE  TypeInv'
  <2>1. /\ dir' = dir
        /\ cmd' = [d \in Cmds |-> IF d = c THEN Begun(c, job)
                                  ELSE IF d \in Others(c) THEN Disturbed(cmd[d])
                                  ELSE cmd[d]]
    BY <1>1, StartIs
  <2>2. dir[Output] \in Contents /\ Absent \in Contents
    BY <1>0, PathFacts, SmallContents DEF DirOK
  <2>3. (IF Others(c) = {} THEN dir[Output] ELSE Absent) \in Contents
        /\ (Others(c) = {}) \in BOOLEAN
    BY <2>2
  <2>4. CommandOK(Begun(c, job))
    BY <2>3, NewBuildOK, Zenon DEF Begun
  <2>5. ASSUME NEW d \in Cmds
        PROVE  CommandOK(cmd'[d])
    <3>1. CommandOK(Disturbed(cmd[d]))
      BY <1>0, DisturbedOK
    <3> QED
      BY <1>0, <2>1, <2>4, <3>1
  <2>6. \A d \in Cmds : cmd'[d] \in Commands /\ RunOK(cmd'[d]) /\ Filled(cmd'[d].held)
    BY <2>5 DEF CommandOK
  <2>7. cmd' \in [Cmds -> Commands]
    BY <2>1, <2>6
  <2>8. dir' \in [Paths -> Contents] /\ \A p \in Paths : Filled(dir'[p])
    BY <1>0, <2>1 DEF DirOK
  <2> QED
    BY <2>6, <2>7, <2>8 DEF TypeInv, TypeOK, RunInv, FilledInv, RunOK, Filled
<1>2. ASSUME NEW c \in Cmds, Take(c)
      PROVE  TypeInv'
  <2>1. Running(c) /\ dir' = dir /\ Becomes(c, Held(cmd[c], Result(c)))
    BY <1>2, TakeIs
  <2>2. CommandOK(Held(cmd[c], Result(c)))
    BY <1>0, <2>1, ResultType, HeldOK DEF Running
  <2> QED
    BY <1>0, <2>1, <2>2, RecordChanges
<1>3. ASSUME NEW c \in Cmds, Reject(c)
      PROVE  TypeInv'
  BY <1>0, <1>3, RejectIs, IdleOK, RecordChanges
<1>4. ASSUME NEW c \in Cmds, Open(c)
      PROVE  TypeInv'
  <2>1. Running(c) /\ dir' = [dir EXCEPT ![Now(c).to] = Broken] /\ Becomes(c, Filling(cmd[c]))
    BY <1>4, OpenIs
  <2>2. CommandOK(Filling(cmd[c]))
    BY <1>0, <2>1, FillingOK DEF Running
  <2>3. DirOK(dir')
    BY <1>0, <2>1, NowPaths, SmallContents, FileChanges
  <2> QED
    BY <2>1, <2>2, <2>3, RecordChanges
<1>5. ASSUME NEW c \in Cmds, Fill(c)
      PROVE  TypeInv'
  <2>1. /\ Running(c) /\ dir' = [dir EXCEPT ![Now(c).to] = Written(c)]
        /\ Tail(cmd[c].todo) = <<>> => Becomes(c, Idle("ok"))
        /\ Tail(cmd[c].todo) # <<>> => Becomes(c, Further(cmd[c], Tail(cmd[c].todo)))
    BY <1>5, FillIs
  <2>2. DirOK(dir')
    BY <1>0, <2>1, NowPaths, WrittenType, FileChanges
  <2>3. Tail(cmd[c].todo) # <<>> => CommandOK(Further(cmd[c], Tail(cmd[c].todo)))
    BY <1>0, <2>1, FurtherOK DEF Running
  <2>4. CommandOK(Idle("ok"))
    BY IdleOK
  <2> QED
    BY <2>1, <2>2, <2>3, <2>4, RecordChanges, Zenon
<1>6. ASSUME NEW c \in Cmds, Stop(c)
      PROVE  TypeInv'
  BY <1>0, <1>6, StopIs, IdleOK, RecordChanges
<1>7. CASE UNCHANGED vars
  BY <1>7 DEF vars, TypeInv, TypeOK, RunInv, FilledInv
<1> QED
  BY <1>1, <1>2, <1>3, <1>4, <1>5, <1>6, <1>7, Zenon DEF Next, Step

(* The type invariant, and what a build is in the middle of: a running one *)
(* has the end of its job's plan before it, takes nothing in where it is   *)
(* to copy, and a whole config is never empty.                             *)
THEOREM TypeCorrect == Spec => [](TypeOK /\ RunInv /\ FilledInv)
<1>1. TypeInv /\ [Next]_vars => TypeInv'
  BY NextType
<1>2. TypeInv => TypeOK /\ RunInv /\ FilledInv
  BY DEF TypeInv
<1> QED
  BY InitType, <1>1, <1>2, PTL DEF Spec

-----------------------------------------------------------------------------
(* A build that no other one ran beside.                                   *)
Undisturbed(c) == Running(c) /\ cmd[c].alone

Last(c) == At(c) = NParts(cmd[c].job) + 2

(* It runs alone, and the output is as it found it until its last step     *)
(* has opened it.                                                          *)
AloneInv ==
    \A c \in Cmds : Undisturbed(c) =>
        /\ \A d \in Cmds \ {c} : ~Running(d)
        /\ dir[Output] = cmd[c].before \/ (Last(c) /\ cmd[c].pc = "fill")

LEMMA LastIs ==
    ASSUME TypeInv, NEW c \in Cmds, Running(c)
    PROVE  /\ Last(c) <=> Tail(cmd[c].todo) = <<>>
           /\ Now(c).to = Output => Last(c)
           /\ \A f \in Files : Now(c).to # User(f)
<1> DEFINE job == cmd[c].job
           todo == cmd[c].todo
           n == NParts(job)
           at == At(c)
           len == Len(todo)
<1>1. /\ job \in Jobs /\ NowAt(c, job, at)
      /\ todo \in Seq(BuildSteps) /\ RestOf(todo, job)
  BY NowIs DEF TypeInv
<1>2. n \in 1..5 /\ job.output \in {Output, ConfigIgn}
  BY <1>1, JobFacts
<1>3. len \in 1..(n + 2)
  BY <1>1, RestFacts
<1>4. at = n + 3 - len
  BY DEF At
<1>0. Tail(todo) = <<>> <=> len = 1
  BY <1>1, RestFacts
<1>5. Last(c) <=> at = n + 2
  BY DEF Last
<1> HIDE DEF job, todo, n, at, len
<1>6. at = n + 2 <=> len = 1
  BY <1>2, <1>3, <1>4
<1>7. /\ at \in 1..(n + 2)
      /\ at <= n => Now(c) = GatherStep(job, at)
      /\ at = n + 1 => Now(c) = MergeStep(job)
      /\ at = n + 2 => Now(c) = OutputStep(job)
  BY <1>1 DEF NowAt, n
<1>8. at <= n \/ at = n + 1 \/ at = n + 2
  BY <1>2, <1>7
<1>9. Now(c).to = Output => at = n + 2
  <2>1. CASE at <= n
    BY <1>7, <2>1, PathFacts DEF GatherStep, BuildStep
  <2>2. CASE at = n + 1
    BY <1>7, <2>2, PathFacts DEF MergeStep, BuildStep
  <2> QED
    BY <1>8, <2>1, <2>2
<1>10. ASSUME NEW f \in Files
       PROVE  Now(c).to # User(f)
  <2>1. CASE at <= n
    BY <1>7, <2>1, PathFacts DEF GatherStep, BuildStep
  <2>2. CASE at = n + 1
    BY <1>7, <2>2, PathFacts DEF MergeStep, BuildStep
  <2>3. CASE at = n + 2
    BY <1>2, <1>7, <2>3, PathFacts DEF OutputStep, BuildStep
  <2> QED
    BY <1>8, <2>1, <2>2, <2>3
<1> QED
  BY <1>0, <1>5, <1>6, <1>9, <1>10 DEF todo

LEMMA AloneStays ==
    ASSUME TypeInv, AloneInv, NEW c \in Cmds, Running(c), NEW m, Becomes(c, m),
           m.pc # "idle" => m.alone = cmd[c].alone,
           Undisturbed(c) /\ m.pc # "idle" => dir'[Output] = m.before \/ (Last(c)' /\ m.pc = "fill")
    PROVE  AloneInv'
<1>1. /\ cmd'[c] = m
      /\ \A d \in Cmds : d # c => cmd'[d] = cmd[d]
  BY BecomesIs
<1>2. ASSUME NEW e \in Cmds, Undisturbed(e)'
      PROVE  /\ \A d \in Cmds \ {e} : ~Running(d)'
             /\ dir'[Output] = cmd'[e].before \/ (Last(e)' /\ cmd'[e].pc = "fill")
  <2>1. CASE e = c
    <3>1. m.pc # "idle" /\ Undisturbed(c)
      BY <1>1, <1>2, <2>1 DEF Undisturbed, Running
    <3>2. \A d \in Cmds \ {c} : ~Running(d)
      BY <3>1 DEF AloneInv
    <3>3. \A d \in Cmds \ {c} : ~Running(d)'
      BY <1>1, <3>2 DEF Running
    <3> QED
      BY <1>1, <2>1, <3>1, <3>3
  <2>2. CASE e # c
    <3>1. Undisturbed(e)
      BY <1>1, <1>2, <2>2 DEF Undisturbed, Running
    <3>2. ~Running(c)
      BY <2>2, <3>1 DEF AloneInv
    <3> QED
      BY <3>2
  <2> QED
    BY <2>1, <2>2
<1> QED
  BY <1>2 DEF AloneInv

LEMMA InitAlone == Init => AloneInv
BY IdleOK DEF Init, AloneInv, Undisturbed, Running

LEMMA NextAlone ==
    ASSUME TypeInv, AloneInv, [Next]_vars
    PROVE  AloneInv'
<1>0. \A c \in Cmds : CommandOK(cmd[c])
  BY IsTypeInv
<1>1. ASSUME NEW c \in Cmds, NEW job \in Jobs, Start(c, job)
      PROVE  AloneInv'
  <2>1. /\ ~Running(c) /\ dir' = dir
        /\ cmd' = [d \in Cmds |-> IF d = c THEN Begun(c, job)
                                  ELSE IF d \in Others(c) THEN Disturbed(cmd[d])
                                  ELSE cmd[d]]
    BY <1>1, StartIs
  <2>2. (IF Others(c) = {} THEN dir[Output] ELSE Absent) \in Contents /\ (Others(c) = {}) \in BOOLEAN
    BY PathFacts, SmallContents DEF TypeInv, TypeOK
  <2>3. /\ Begun(c, job).alone = (Others(c) = {})
        /\ Begun(c, job).before = IF Others(c) = {} THEN dir[Output] ELSE Absent
    <3> DEFINE alone == Others(c) = {}
               before == IF Others(c) = {} THEN dir[Output] ELSE Absent
    <3>1. Begun(c, job) = NewBuild(job, alone, before)
      BY DEF Begun
    <3> HIDE DEF alone, before
    <3>2. Begun(c, job).alone = alone /\ Begun(c, job).before = before
      <4>1. alone \in BOOLEAN /\ before \in Contents
        BY <2>2, Zenon DEF alone, before
      <4> QED
        BY <3>1, <4>1, NewBuildOK
    <3> QED
      BY <3>2, Zenon DEF alone, before
  <2>4. ASSUME NEW e \in Cmds, Undisturbed(e)'
        PROVE  /\ \A d \in Cmds \ {e} : ~Running(d)'
               /\ dir'[Output] = cmd'[e].before \/ (Last(e)' /\ cmd'[e].pc = "fill")
    <3>1. CASE e = c
      <4>1. cmd'[c] = Begun(c, job)
        BY <2>1
      <4>2. Others(c) = {}
        BY <2>3, <2>4, <3>1, <4>1 DEF Undisturbed
      <4>3. \A d \in Cmds \ {c} : ~Running(d) /\ cmd'[d] = cmd[d]
        BY <2>1, <4>2 DEF Others
      <4> QED
        BY <2>1, <2>3, <3>1, <4>1, <4>2, <4>3 DEF Running
    <3>2. CASE e # c /\ e \in Others(c)
      <4>1. cmd'[e].alone = FALSE
        BY <1>0, <2>1, <3>2, DisturbedOK
      <4> QED
        BY <2>4, <4>1 DEF Undisturbed
    <3>3. CASE e # c /\ e \notin Others(c)
      <4>1. ~Running(e) /\ cmd'[e] = cmd[e]
        BY <2>1, <3>3 DEF Others
      <4> QED
        BY <2>4, <4>1 DEF Undisturbed, Running
    <3> QED
      BY <3>1, <3>2, <3>3
  <2> QED
    BY <2>4 DEF AloneInv
<1>2. ASSUME NEW c \in Cmds, Take(c)
      PROVE  AloneInv'
  <2>1. Running(c) /\ cmd[c].pc = "take" /\ dir' = dir /\ Becomes(c, Held(cmd[c], Result(c)))
    BY <1>2, TakeIs
  <2>2. /\ Held(cmd[c], Result(c)).alone = cmd[c].alone
        /\ Held(cmd[c], Result(c)).before = cmd[c].before
    BY <1>0, <2>1, ResultType, HeldOK
  <2>3. Undisturbed(c) => dir'[Output] = cmd[c].before
    BY <2>1 DEF AloneInv
  <2> QED
    BY <2>1, <2>2, <2>3, AloneStays
<1>3. ASSUME NEW c \in Cmds, Reject(c)
      PROVE  AloneInv'
  BY <1>3, RejectIs, IdleOK, AloneStays
<1>4. ASSUME NEW c \in Cmds, Open(c)
      PROVE  AloneInv'
  <2>1. /\ Running(c) /\ cmd[c].pc = "open"
        /\ dir' = [dir EXCEPT ![Now(c).to] = Broken] /\ Becomes(c, Filling(cmd[c]))
    BY <1>4, OpenIs
  <2>2. /\ Filling(cmd[c]).pc = "fill" /\ Filling(cmd[c]).alone = cmd[c].alone
        /\ Filling(cmd[c]).before = cmd[c].before
        /\ Filling(cmd[c]).job = cmd[c].job /\ Filling(cmd[c]).todo = cmd[c].todo
    BY <1>0, FillingOK
  <2>3. cmd'[c] = Filling(cmd[c])
    BY <2>1, BecomesIs
  <2>4. Last(c)' <=> Last(c)
    BY <2>2, <2>3 DEF Last, At
  <2>5. CASE Now(c).to = Output
    <3>1. Last(c)'
      BY <2>1, <2>4, <2>5, LastIs
    <3> QED
      BY <2>1, <2>2, <3>1, AloneStays
  <2>6. CASE Now(c).to # Output
    <3>1. dir'[Output] = dir[Output]
      BY <2>1, <2>6, PathFacts DEF TypeInv, TypeOK
    <3>2. Undisturbed(c) => dir'[Output] = Filling(cmd[c]).before
      BY <2>1, <2>2, <3>1 DEF AloneInv
    <3> QED
      BY <2>1, <2>2, <3>2, AloneStays
  <2> QED
    BY <2>5, <2>6
<1>5. ASSUME NEW c \in Cmds, Fill(c)
      PROVE  AloneInv'
  <2>1. /\ Running(c) /\ dir' = [dir EXCEPT ![Now(c).to] = Written(c)]
        /\ Tail(cmd[c].todo) = <<>> => Becomes(c, Idle("ok"))
        /\ Tail(cmd[c].todo) # <<>> => Becomes(c, Further(cmd[c], Tail(cmd[c].todo)))
    BY <1>5, FillIs
  <2>2. CASE Tail(cmd[c].todo) = <<>>
    BY <2>1, <2>2, IdleOK, AloneStays
  <2>3. CASE Tail(cmd[c].todo) # <<>>
    <3> DEFINE m == Further(cmd[c], Tail(cmd[c].todo))
    <3>1. m.alone = cmd[c].alone /\ m.before = cmd[c].before
      BY <1>0, <2>1, <2>3, FurtherOK DEF Running
    <3>2. ~Last(c) /\ Now(c).to # Output
      BY <2>1, <2>3, LastIs
    <3>3. dir'[Output] = dir[Output]
      BY <2>1, <3>2, PathFacts DEF TypeInv, TypeOK
    <3>4. Undisturbed(c) => dir'[Output] = m.before
      BY <3>1, <3>2, <3>3 DEF AloneInv
    <3>5. Becomes(c, m)
      BY <2>1, <2>3
    <3> HIDE DEF m
    <3> QED
      BY <2>1, <3>1, <3>4, <3>5, AloneStays
  <2> QED
    BY <2>2, <2>3
<1>6. ASSUME NEW c \in Cmds, Stop(c)
      PROVE  AloneInv'
  BY <1>6, StopIs, IdleOK, AloneStays
<1>7. CASE UNCHANGED vars
  BY <1>7 DEF vars, AloneInv, Undisturbed, Running, Last, At
<1> QED
  BY <1>1, <1>2, <1>3, <1>4, <1>5, <1>6, <1>7, Zenon DEF Next, Step

(* What the steps make of the result of a running build.                   *)
LEMMA RunningResult ==
    ASSUME TypeInv, [Next]_vars, NEW c \in Cmds, Running(c)
    PROVE  /\ cmd'[c].result = "rejected" => Reject(c)
           /\ cmd'[c].result = "ok" => Fill(c) /\ Tail(cmd[c].todo) = <<>>
<1>0. cmd[c].result = "none" /\ CommandOK(cmd[c])
  BY IsTypeInv DEF CommandOK, RunOK, Running
<1>1. ASSUME NEW d \in Cmds, NEW job \in Jobs, Start(d, job)
      PROVE  cmd'[c].result = "none"
  <2>1. c # d
    BY <1>1, StartIs
  <2>2. cmd'[c] = Disturbed(cmd[c]) \/ cmd'[c] = cmd[c]
    BY <1>1, <2>1, StartIs
  <2>3. Disturbed(cmd[c]).result = cmd[c].result
    BY <1>0 DEF CommandOK, Commands, Disturbed
  <2> QED
    BY <1>0, <2>2, <2>3
<1>2. ASSUME NEW d \in Cmds, d # c, NEW m, Becomes(d, m)
      PROVE  cmd'[c].result = "none"
  BY <1>0, <1>2, BecomesIs
<1>3. ASSUME NEW d \in Cmds, Step(d) \/ Stop(d)
      PROVE  \E m : Becomes(d, m)
  BY <1>3, TakeIs, RejectIs, OpenIs, FillIs, StopIs DEF Step
<1>4. ASSUME Take(c)
      PROVE  cmd'[c].result = "none"
  BY <1>0, <1>4, TakeIs, ResultType, HeldOK, BecomesIs
<1>5. ASSUME Reject(c)
      PROVE  cmd'[c].result = "rejected"
  BY <1>5, RejectIs, IdleOK, BecomesIs
<1>6. ASSUME Open(c)
      PROVE  cmd'[c].result = "none"
  BY <1>0, <1>6, OpenIs, FillingOK, BecomesIs
<1>7. ASSUME Fill(c)
      PROVE  cmd'[c].result = IF Tail(cmd[c].todo) = <<>> THEN "ok" ELSE "none"
  <2>1. CASE Tail(cmd[c].todo) = <<>>
    BY <1>7, <2>1, FillIs, IdleOK, BecomesIs
  <2>2. CASE Tail(cmd[c].todo) # <<>>
    BY <1>0, <1>7, <2>2, FillIs, FurtherOK, BecomesIs DEF Running
  <2> QED
    BY <2>1, <2>2
<1>8. ASSUME Stop(c)
      PROVE  cmd'[c].result = "failed"
  BY <1>8, StopIs, IdleOK, BecomesIs
<1>9. CASE UNCHANGED vars
  BY <1>0, <1>9 DEF vars
<1>10. CASE Next
  <2>1. PICK d \in Cmds : (\E job \in Jobs : Start(d, job)) \/ Step(d) \/ Stop(d)
    BY <1>10 DEF Next
  <2>2. CASE \E job \in Jobs : Start(d, job)
    BY <1>1, <2>2
  <2>3. CASE (Step(d) \/ Stop(d)) /\ d # c
    BY <1>2, <1>3, <2>3
  <2>4. CASE (Step(d) \/ Stop(d)) /\ d = c
    BY <1>4, <1>5, <1>6, <1>7, <1>8, <2>4 DEF Step
  <2> QED
    BY <2>1, <2>2, <2>3, <2>4
<1> QED
  BY <1>9, <1>10

(* A build whose sources are rejected leaves the output as it found it,    *)
(* unless another build ran beside it: the output is the target of the     *)
(* last step alone, and that step takes nothing in.                        *)
THEOREM RejectedBuilds == Spec => RejectedKeepsOutput
<1> DEFINE P == \A c \in Cmds : Running(c) /\ cmd'[c].result = "rejected" /\ cmd[c].alone
                                  => dir'[Output] = cmd[c].before
<1>1. TypeInv /\ [Next]_vars => TypeInv'
  BY NextType
<1>2. TypeInv /\ AloneInv /\ [Next]_vars => AloneInv'
  BY NextAlone
<1>3. TypeInv /\ AloneInv /\ [Next]_vars => P
  <2> SUFFICES ASSUME TypeInv, AloneInv, [Next]_vars, NEW c \in Cmds,
                      Running(c), cmd'[c].result = "rejected", cmd[c].alone
               PROVE  dir'[Output] = cmd[c].before
    OBVIOUS
  <2>1. Reject(c)
    BY RunningResult
  <2>2. dir' = dir /\ cmd[c].pc = "take"
    BY <2>1, RejectIs
  <2> QED
    BY <2>2 DEF AloneInv, Undisturbed
<1> QED
  BY InitType, InitAlone, <1>1, <1>2, <1>3, PTL DEF Spec, RejectedKeepsOutput

-----------------------------------------------------------------------------
(* What an undisturbed build has made so far.                              *)
Piece(job, i) ==
    [file |-> FilesOf(job)[i], text |-> IF i <= Len(job.base) THEN "raw" ELSE Rendered(job)]

PartContent(job, i) == Whole(<<Piece(job, i)>>)

Config(job) == Whole([i \in 1..NParts(job) |-> Piece(job, i)])

(* Every part is made that comes before the step it is at.                 *)
PartsBuilt(c) ==
    \A i \in 1..NParts(cmd[c].job) :
        i < At(c) => dir[Ign(PartNumber(cmd[c].job, i))] = PartContent(cmd[c].job, i)

ConfigBuilt(c) ==
    Last(c) /\ cmd[c].job.output = Output => dir[ConfigIgn] = Config(cmd[c].job)

(* What it is to write is what its step makes.                             *)
HeldBuilt(c) ==
    cmd[c].pc # "take" /\ Now(c).kind # "copy" =>
        cmd[c].held = IF At(c) <= NParts(cmd[c].job) THEN PartContent(cmd[c].job, At(c))
                      ELSE Config(cmd[c].job)

Built(c) == PartsBuilt(c) /\ ConfigBuilt(c) /\ HeldBuilt(c)

UserInv == \A f \in Files : dir[User(f)] = Template(f)

BuiltInv == UserInv /\ \A c \in Cmds : Undisturbed(c) => Built(c)

LEMMA CompiledTemplate ==
    ASSUME NEW job, NEW f
    PROVE  Compiled(job, Template(f)) = Whole(<<[file |-> f, text |-> Rendered(job)]>>)
<1> DEFINE s == <<[file |-> f, text |-> "raw"]>>
           t == [i \in DOMAIN s |-> [s[i] EXCEPT !.text = Rendered(job)]]
           text == Rendered(job)
<1>1. Compiled(job, Template(f)) = [Whole(s) EXCEPT !.pieces = t]
  BY DEF Compiled, Template, Whole
<1>2. [Whole(s) EXCEPT !.pieces = t] = Whole(t)
  <2> HIDE DEF s, t
  <2> QED
    BY DEF Whole
<1>3. t = <<[file |-> f, text |-> text]>>
  <2> HIDE DEF text
  <2>1. t = [i \in DOMAIN s |-> [s[i] EXCEPT !.text = text]]
    BY DEF text
  <2>2. DOMAIN s = 1..1 /\ s[1] = [file |-> f, text |-> "raw"]
    OBVIOUS
  <2> HIDE DEF s, t
  <2>3. t = [i \in 1..1 |-> [file |-> f, text |-> text]]
    BY <2>1, <2>2
  <2> QED
    BY <2>3
<1> QED
  BY <1>1, <1>2, <1>3, Zenon

LEMMA ConfigOfOne ==
    ASSUME NEW job, NParts(job) = 1
    PROVE  Config(job) = PartContent(job, 1)
<1> DEFINE s == [i \in 1..NParts(job) |-> Piece(job, i)]
<1>1. s = <<Piece(job, 1)>>
  OBVIOUS
<1> QED
  BY <1>1, Zenon DEF Config, PartContent

LEMMA PartPieces ==
    ASSUME NEW job, NEW i
    PROVE  PartContent(job, i).state = "whole" /\ PartContent(job, i).pieces[1] = Piece(job, i)
BY DEF PartContent, Whole

LEMMA MergedConfig ==
    ASSUME NEW job \in Jobs,
           \A i \in 1..NParts(job) : dir[Ign(PartNumber(job, i))] = PartContent(job, i)
    PROVE  MergeFiles(Merged(job)) = Config(job)
<1> DEFINE names == Merged(job)
           n == NParts(job)
<1>1. DOMAIN names = 1..n /\ \A i \in 1..n : names[i] = PartNumber(job, i)
  BY MergedIs
<1>2. \A i \in 1..n : /\ dir[Ign(names[i])].state = "whole"
                      /\ dir[Ign(names[i])].pieces[1] = Piece(job, i)
  BY <1>1, PartPieces
<1> HIDE DEF names, n
<1>3. MergeFiles(names) = Whole([i \in DOMAIN names |-> dir[Ign(names[i])].pieces[1]])
  BY <1>1, <1>2 DEF MergeFiles
<1>4. [i \in DOMAIN names |-> dir[Ign(names[i])].pieces[1]] = [i \in 1..n |-> Piece(job, i)]
  BY <1>1, <1>2
<1>5. MergeFiles(names) = Whole([i \in 1..n |-> Piece(job, i)])
  BY <1>3, <1>4, Zenon
<1> QED
  BY <1>5 DEF Config, n, names

(* The step that a build is at, by its position.                           *)
IsGather(c, job, at) ==
    /\ Now(c).kind = IF PartNumber(job, at) = 0 THEN "copy" ELSE "compile"
    /\ Now(c).from = User(FilesOf(job)[at]) /\ FilesOf(job)[at] \in Files
    /\ Now(c).to = Ign(PartNumber(job, at))

IsMerge(c, job) ==
    /\ Now(c).to = ConfigIgn
    /\ Now(c).kind = "copy" => NParts(job) = 1 /\ Now(c).from = Ign(PartNumber(job, 1))
    /\ Now(c).kind # "copy" => Now(c).kind = "merge"

IsOutput(c, job) ==
    Now(c).kind = "copy" /\ Now(c).from = ConfigIgn /\ Now(c).to = job.output

Position(c, job, at) ==
    /\ at \in 1..(NParts(job) + 2)
    /\ at \in 1..NParts(job) => IsGather(c, job, at)
    /\ at = NParts(job) + 1 => IsMerge(c, job)
    /\ at = NParts(job) + 2 => IsOutput(c, job)
    /\ at \in 1..NParts(job) \/ at = NParts(job) + 1 \/ at = NParts(job) + 2

LEMMA PositionIs ==
    ASSUME TypeInv, NEW c \in Cmds, Running(c)
    PROVE  Position(c, cmd[c].job, At(c)) /\ cmd[c].job \in Jobs /\ NParts(cmd[c].job) \in 1..5
<1> DEFINE job == cmd[c].job
           n == NParts(job)
           at == At(c)
<1>1. job \in Jobs /\ NowAt(c, job, at)
  BY NowIs DEF TypeInv
<1>2. n \in 1..5
  BY <1>1, JobFacts
<1> HIDE DEF job, at
<1>3. at \in 1..(n + 2) /\ (at \in 1..n \/ at = n + 1 \/ at = n + 2)
  BY <1>1, <1>2 DEF NowAt
<1>4. ASSUME at \in 1..n
      PROVE  IsGather(c, job, at)
  <2>1. Now(c) = GatherStep(job, at)
    BY <1>1, <1>2, <1>4 DEF NowAt
  <2>2. FilesOf(job)[at] \in Files
    <3>1. Parts(job) \in Seq(PartRecords) /\ Len(Parts(job)) = n
          /\ Parts(job)[at].file = FilesOf(job)[at]
      BY <1>1, <1>4, PartsOfJob DEF PartsAre
    <3>2. Parts(job)[at] \in PartRecords
      BY <1>4, <3>1, ElementOfSeq
    <3> QED
      BY <3>1, <3>2 DEF PartRecords
  <2> QED
    BY <2>1, <2>2 DEF IsGather, GatherStep, BuildStep
<1>5. at = n + 1 => IsMerge(c, job)
  BY <1>1 DEF NowAt, MergeStep, BuildStep, IsMerge
<1>6. at = n + 2 => IsOutput(c, job)
  BY <1>1 DEF NowAt, OutputStep, BuildStep, IsOutput
<1>7. Position(c, job, at)
  BY <1>3, <1>4, <1>5, <1>6, Zenon DEF Position, n
<1> QED
  BY <1>1, <1>2, <1>7 DEF job, n, at

-----------------------------------------------------------------------------
(* No build writes to a user's file.                                       *)
LEMMA InitUser == Init => UserInv
<1> SUFFICES ASSUME Init, NEW f \in Files PROVE dir[User(f)] = Template(f)
  BY DEF UserInv
<1>1. User(f) \in Paths /\ User(f)[2] = f
  BY PathFacts DEF User
<1>2. \E g \in Files : User(f) = User(g)
  OBVIOUS
<1> QED
  BY <1>1, <1>2 DEF Init

LEMMA NextUser ==
    ASSUME TypeInv, UserInv, [Next]_vars
    PROVE  UserInv'
<1>1. ASSUME NEW c \in Cmds, Running(c), NEW content, dir' = [dir EXCEPT ![Now(c).to] = content]
      PROVE  UserInv'
  <2>1. ASSUME NEW f \in Files
        PROVE  dir'[User(f)] = dir[User(f)]
    BY <1>1, LastIs, PathFacts DEF TypeInv, TypeOK
  <2> QED
    BY <2>1 DEF UserInv, Template, Whole
<1>2. ASSUME dir' = dir
      PROVE  UserInv'
  BY <1>2 DEF UserInv, Template, Whole
<1>3. ASSUME NEW c \in Cmds, NEW job \in Jobs, Start(c, job)
      PROVE  UserInv'
  BY <1>2, <1>3, StartIs
<1>4. ASSUME NEW c \in Cmds, Step(c) \/ Stop(c)
      PROVE  UserInv'
  <2>1. CASE Take(c)
    BY <1>2, <2>1, TakeIs
  <2>2. CASE Reject(c)
    BY <1>2, <2>2, RejectIs
  <2>3. CASE Open(c)
    BY <1>1, <2>3, OpenIs
  <2>4. CASE Fill(c)
    BY <1>1, <2>4, FillIs
  <2>5. CASE Stop(c)
    BY <1>2, <2>5, StopIs
  <2> QED
    BY <1>4, <2>1, <2>2, <2>3, <2>4, <2>5, Zenon DEF Step
<1>5. CASE UNCHANGED vars
  BY <1>2, <1>5 DEF vars
<1> QED
  BY <1>3, <1>4, <1>5, Zenon DEF Next

(* While one is undisturbed, only its own steps are taken.                 *)
LEMMA BuiltStays ==
    ASSUME TypeInv, AloneInv, BuiltInv, UserInv', NEW c \in Cmds, Running(c),
           NEW m, Becomes(c, m),
           m.pc # "idle" => m.alone = cmd[c].alone,
           Undisturbed(c) /\ m.pc # "idle" => Built(c)'
    PROVE  BuiltInv'
<1>1. /\ cmd'[c] = m
      /\ \A d \in Cmds : d # c => cmd'[d] = cmd[d]
  BY BecomesIs
<1>2. ASSUME NEW e \in Cmds, Undisturbed(e)'
      PROVE  Built(e)'
  <2>1. CASE e = c
    <3>1. m.pc # "idle" /\ Undisturbed(c)
      BY <1>1, <1>2, <2>1 DEF Undisturbed, Running
    <3> QED
      BY <2>1, <3>1
  <2>2. CASE e # c
    <3>1. Undisturbed(e)
      BY <1>1, <1>2, <2>2 DEF Undisturbed, Running
    <3>2. ~Running(c)
      BY <2>2, <3>1 DEF AloneInv
    <3> QED
      BY <3>2
  <2> QED
    BY <2>1, <2>2
<1> QED
  BY <1>2 DEF BuiltInv

LEMMA InitBuilt == Init => BuiltInv
BY InitUser, IdleOK DEF Init, BuiltInv, Undisturbed, Running

LEMMA StartBuilds ==
    ASSUME TypeInv, AloneInv, BuiltInv, UserInv', NEW c \in Cmds, NEW job \in Jobs, Start(c, job)
    PROVE  BuiltInv'
<1>0. \A d \in Cmds : CommandOK(cmd[d])
  BY IsTypeInv
<1>1. /\ ~Running(c) /\ dir' = dir
      /\ cmd' = [d \in Cmds |-> IF d = c THEN Begun(c, job)
                                ELSE IF d \in Others(c) THEN Disturbed(cmd[d])
                                ELSE cmd[d]]
  BY StartIs
<1>2. /\ Begun(c, job).pc = Entry(Plan(job)) /\ Begun(c, job).job = job
      /\ Begun(c, job).todo = Plan(job)
  <2> DEFINE alone == Others(c) = {}
             before == IF Others(c) = {} THEN dir[Output] ELSE Absent
  <2>1. dir[Output] \in Contents /\ Absent \in Contents
    BY PathFacts, SmallContents DEF TypeInv, TypeOK
  <2>2. Begun(c, job) = NewBuild(job, alone, before)
    BY DEF Begun
  <2>3. alone \in BOOLEAN /\ before \in Contents
    BY <2>1, Zenon
  <2> HIDE DEF alone, before
  <2> QED
    BY <2>2, <2>3, NewBuildOK
<1>3. Built(c)'
  <2>1. cmd'[c] = Begun(c, job)
    BY <1>1
  <2>2. cmd'[c].pc = Entry(Plan(job)) /\ cmd'[c].job = job /\ cmd'[c].todo = Plan(job)
    BY <1>2, <2>1, Zenon
  <2>3. NParts(job) \in 1..5 /\ Len(Plan(job)) = NParts(job) + 2
    BY JobFacts, PlanOfJob DEF PlanIs
  <2>4. At(c)' = NParts(job) + 3 - Len(Plan(job)) /\ Now(c)' = Head(Plan(job))
    BY <2>2, Zenon DEF At, Now
  <2>5. At(c)' = 1
    BY <2>3, <2>4
  <2>6. PartsBuilt(c)'
    <3>1. \A i \in 1..NParts(job) : ~(i < 1)
      BY <2>3
    <3> QED
      BY <2>2, <2>5, <3>1 DEF PartsBuilt
  <2>7. ConfigBuilt(c)'
    <3>1. ~(1 = NParts(job) + 2)
      BY <2>3
    <3>2. ~Last(c)'
      BY <2>2, <2>5, <3>1 DEF Last
    <3> QED
      BY <3>2 DEF ConfigBuilt
  <2>8. HeldBuilt(c)'
    BY <2>2, <2>4 DEF HeldBuilt, Entry
  <2> QED
    BY <2>6, <2>7, <2>8 DEF Built
<1>4. ASSUME NEW e \in Cmds, Undisturbed(e)'
      PROVE  Built(e)'
  <2>1. CASE e = c
    BY <1>3, <2>1
  <2>2. CASE e # c /\ e \in Others(c)
    <3>1. cmd'[e].alone = FALSE
      BY <1>0, <1>1, <2>2, DisturbedOK
    <3> QED
      BY <1>4, <3>1 DEF Undisturbed
  <2>3. CASE e # c /\ e \notin Others(c)
    <3>1. ~Running(e) /\ cmd'[e] = cmd[e]
      BY <1>1, <2>3 DEF Others
    <3> QED
      BY <1>4, <3>1 DEF Undisturbed, Running
  <2> QED
    BY <2>1, <2>2, <2>3
<1> QED
  BY <1>4 DEF BuiltInv

(* A step that leaves the build at the same step of its plan.              *)
SamePlace(c) == cmd'[c].job = cmd[c].job /\ cmd'[c].todo = cmd[c].todo

LEMMA SamePosition ==
    ASSUME NEW c, SamePlace(c)
    PROVE  At(c)' = At(c) /\ (Last(c)' <=> Last(c)) /\ Now(c)' = Now(c)
BY DEF SamePlace, At, Last, Now

LEMMA TakeBuilds ==
    ASSUME TypeInv, AloneInv, BuiltInv, UserInv', NEW c \in Cmds, Take(c)
    PROVE  BuiltInv'
<1> DEFINE job == cmd[c].job
           n == NParts(job)
           at == At(c)
<1>1. Running(c) /\ cmd[c].pc = "take" /\ dir' = dir /\ Becomes(c, Held(cmd[c], Result(c)))
  BY TakeIs
<1>2. CommandOK(cmd[c]) /\ Now(c).kind # "copy"
  BY <1>1, IsTypeInv DEF CommandOK, RunOK, Now
<1>3. /\ Held(cmd[c], Result(c)).pc = "open" /\ Held(cmd[c], Result(c)).held = Result(c)
      /\ Held(cmd[c], Result(c)).job = cmd[c].job /\ Held(cmd[c], Result(c)).todo = cmd[c].todo
      /\ Held(cmd[c], Result(c)).alone = cmd[c].alone
  BY <1>1, <1>2, ResultType, HeldOK
<1>4. /\ cmd'[c].job = job /\ cmd'[c].held = Result(c) /\ SamePlace(c)
  BY <1>1, <1>3, BecomesIs DEF SamePlace
<1>5. At(c)' = at /\ (Last(c)' <=> Last(c)) /\ Now(c)' = Now(c)
  BY <1>4, SamePosition
<1>6. Position(c, job, at) /\ job \in Jobs /\ n \in 1..5
  BY <1>1, PositionIs
<1>7. ASSUME Undisturbed(c)
      PROVE  Built(c)'
  <2>1. PartsBuilt(c) /\ ConfigBuilt(c)
    BY <1>7 DEF BuiltInv, Built
  <2>2. PartsBuilt(c)'
    BY <1>1, <1>4, <1>5, <2>1 DEF PartsBuilt, PartContent, Piece
  <2>3. ConfigBuilt(c)'
    BY <1>1, <1>4, <1>5, <2>1 DEF ConfigBuilt
  <2> HIDE DEF job, n, at
  <2>4. CASE at \in 1..n
    <3>1. IsGather(c, job, at)
      BY <1>6, <2>4 DEF Position, n
    <3>2. Now(c).kind = "compile" /\ PartNumber(job, at) # 0
      BY <1>2, <3>1 DEF IsGather
    <3>3. ~(at <= Len(job.base))
      BY <1>6, <2>4, <3>2, PartNumberFacts DEF n
    <3>4. dir[Now(c).from] = Template(FilesOf(job)[at])
      BY <3>1 DEF IsGather, BuiltInv, UserInv
    <3>5. Result(c) = Compiled(job, Template(FilesOf(job)[at]))
      BY <3>2, <3>4, Zenon DEF Result, job
    <3>6. Piece(job, at) = [file |-> FilesOf(job)[at], text |-> Rendered(job)]
      BY <3>3, Zenon DEF Piece
    <3>7. Result(c) = PartContent(job, at)
      BY <3>5, <3>6, CompiledTemplate, Zenon DEF PartContent
    <3>8. at <= n
      BY <2>4
    <3>9. HeldBuilt(c)'
      BY <1>4, <1>5, <3>7, <3>8 DEF HeldBuilt, job, n, at
    <3> QED
      BY <2>2, <2>3, <3>9 DEF Built
  <2>5. CASE at = n + 1
    <3>1. Now(c).kind = "merge"
      BY <1>2, <1>6, <2>5 DEF Position, IsMerge, n
    <3>2. Result(c) = MergeFiles(Merged(job))
      BY <3>1 DEF Result, job
    <3>3. \A i \in 1..n : i < at
      BY <1>6, <2>5
    <3>4. \A i \in 1..NParts(job) : dir[Ign(PartNumber(job, i))] = PartContent(job, i)
      BY <2>1, <3>3 DEF PartsBuilt, n, job, at
    <3>5. Result(c) = Config(job)
      BY <1>6, <3>2, <3>4, MergedConfig
    <3>6. ~(at <= n)
      BY <1>6, <2>5
    <3>9. HeldBuilt(c)'
      BY <1>4, <1>5, <3>5, <3>6 DEF HeldBuilt, job, n, at
    <3> QED
      BY <2>2, <2>3, <3>9 DEF Built
  <2>6. CASE at = n + 2
    BY <1>2, <1>6, <2>6 DEF Position, IsOutput, n
  <2> QED
    BY <1>6, <2>2, <2>3, <2>4, <2>5, <2>6 DEF Position, Built, n
<1> QED
  BY <1>1, <1>3, <1>7, BuiltStays

LEMMA OpenBuilds ==
    ASSUME TypeInv, AloneInv, BuiltInv, UserInv', NEW c \in Cmds, Open(c)
    PROVE  BuiltInv'
<1> DEFINE job == cmd[c].job
           n == NParts(job)
           at == At(c)
           m == Filling(cmd[c])
<1>1. /\ Running(c) /\ cmd[c].pc = "open"
      /\ dir' = [dir EXCEPT ![Now(c).to] = Broken] /\ Becomes(c, m)
  BY OpenIs
<1>2. CommandOK(cmd[c])
  BY IsTypeInv
<1>3. /\ m.pc = "fill" /\ m.held = cmd[c].held /\ m.alone = cmd[c].alone
      /\ m.job = cmd[c].job /\ m.todo = cmd[c].todo
  BY <1>2, FillingOK
<1> HIDE DEF m
<1>4. cmd'[c].job = job /\ cmd'[c].held = cmd[c].held /\ SamePlace(c)
  BY <1>1, <1>3, BecomesIs DEF SamePlace
<1>5. At(c)' = at /\ (Last(c)' <=> Last(c)) /\ Now(c)' = Now(c)
  BY <1>4, SamePosition
<1>6. Position(c, job, at) /\ job \in Jobs /\ n \in 1..5
  BY <1>1, PositionIs
<1>7. Last(c) <=> at = n + 2
  BY DEF Last
<1>8. dir \in [Paths -> Contents]
  BY DEF TypeInv, TypeOK
<1>9. ASSUME Undisturbed(c)
      PROVE  Built(c)'
  <2>1. PartsBuilt(c) /\ ConfigBuilt(c) /\ HeldBuilt(c)
    BY <1>9 DEF BuiltInv, Built
  <2>2. HeldBuilt(c)'
    BY <1>1, <1>4, <1>5, <2>1 DEF HeldBuilt, PartContent, Piece, Config
  <2>3. ASSUME NEW i \in 1..n, i < at
        PROVE  dir'[Ign(PartNumber(job, i))] = PartContent(job, i)
    <3> HIDE DEF job, n, at
    <3>1. Now(c).to # Ign(PartNumber(job, i))
      <4>1. CASE at \in 1..n
        <5>1. Now(c).to = Ign(PartNumber(job, at))
          BY <1>6, <4>1 DEF Position, IsGather, n
        <5>2. PartNumber(job, i) # PartNumber(job, at)
          <6>1. i # at
            BY <2>3, <4>1
          <6> QED
            BY <1>6, <2>3, <4>1, <6>1, PartNumberFacts DEF n
        <5> QED
          BY <5>1, <5>2, PathFacts
      <4>2. CASE at = n + 1
        BY <1>6, <4>2, PathFacts DEF Position, IsMerge, n
      <4>3. CASE at = n + 2
        BY <1>6, <4>3, PathFacts, JobFacts DEF Position, IsOutput, n
      <4> QED
        BY <1>6, <4>1, <4>2, <4>3 DEF Position, n
    <3>2. Ign(PartNumber(job, i)) \in Paths
      BY <1>6, <2>3, PartNumberFacts, PathFacts DEF n
    <3>3. dir'[Ign(PartNumber(job, i))] = dir[Ign(PartNumber(job, i))]
      BY <1>1, <1>8, <3>1, <3>2
    <3> QED
      BY <2>1, <2>3, <3>3 DEF PartsBuilt, job, n, at
  <2>4. PartsBuilt(c)'
    BY <1>4, <1>5, <2>3 DEF PartsBuilt
  <2>5. ConfigBuilt(c)'
    <3> SUFFICES ASSUME Last(c), job.output = Output
                 PROVE  dir'[ConfigIgn] = Config(job)
      BY <1>4, <1>5 DEF ConfigBuilt
    <3>1. Now(c).to = Output
      BY <1>6, <1>7 DEF Position, IsOutput
    <3>2. dir'[ConfigIgn] = dir[ConfigIgn]
      BY <1>1, <1>8, <3>1, PathFacts
    <3> QED
      BY <2>1, <3>2 DEF ConfigBuilt
  <2> QED
    BY <2>2, <2>4, <2>5 DEF Built
<1> QED
  BY <1>1, <1>3, <1>9, BuiltStays

(* What a step writes, by its position.                                    *)
LEMMA WrittenIs ==
    ASSUME TypeInv, NEW c \in Cmds, Running(c), UserInv, Built(c), cmd[c].pc = "fill",
           NEW job, job = cmd[c].job, NEW at, at = At(c)
    PROVE  /\ at \in 1..NParts(job) => Written(c) = PartContent(job, at)
           /\ at = NParts(job) + 1 => Written(c) = Config(job)
           /\ at = NParts(job) + 2 => Written(c) = dir[ConfigIgn]
<1> DEFINE n == NParts(job)
<1>1. Position(c, job, at) /\ job \in Jobs /\ n \in 1..5
  BY PositionIs
<1>2. Now(c).kind # "copy" =>
         Written(c) = IF at <= n THEN PartContent(job, at) ELSE Config(job)
  BY DEF Built, HeldBuilt, Written
<1>3. Now(c).kind = "copy" => Written(c) = dir[Now(c).from]
  BY DEF Written
<1>4. \A i \in 1..n : i < at => dir[Ign(PartNumber(job, i))] = PartContent(job, i)
  BY DEF Built, PartsBuilt
<1> HIDE DEF n
<1>5. ASSUME at \in 1..n
      PROVE  Written(c) = PartContent(job, at)
  <2>1. IsGather(c, job, at) /\ at <= n
    BY <1>1, <1>5 DEF Position, n
  <2>2. CASE Now(c).kind = "copy"
    <3>1. PartNumber(job, at) = 0
      BY <2>1, <2>2 DEF IsGather
    <3>2. at <= Len(job.base)
      BY <1>1, <1>5, <3>1, PartNumberFacts DEF n
    <3>3. Written(c) = Template(FilesOf(job)[at])
      BY <1>3, <2>1, <2>2 DEF IsGather, UserInv
    <3>4. Piece(job, at) = [file |-> FilesOf(job)[at], text |-> "raw"]
      BY <3>2, Zenon DEF Piece
    <3> QED
      BY <3>3, <3>4, Zenon DEF Template, PartContent
  <2>3. CASE Now(c).kind # "copy"
    BY <1>2, <2>1, <2>3
  <2> QED
    BY <2>2, <2>3
<1>6. ASSUME at = n + 1
      PROVE  Written(c) = Config(job)
  <2>1. IsMerge(c, job) /\ ~(at <= n)
    BY <1>1, <1>6 DEF Position, n
  <2>2. CASE Now(c).kind = "copy"
    <3>1. n = 1 /\ Written(c) = dir[Ign(PartNumber(job, 1))]
      BY <1>3, <2>1, <2>2 DEF IsMerge, n
    <3>2. 1 \in 1..n /\ 1 < at
      BY <1>6, <3>1
    <3> QED
      BY <1>4, <3>1, <3>2, ConfigOfOne DEF n
  <2>3. CASE Now(c).kind # "copy"
    BY <1>2, <2>1, <2>3
  <2> QED
    BY <2>2, <2>3
<1>7. at = n + 2 => Written(c) = dir[ConfigIgn]
  BY <1>1, <1>3 DEF Position, IsOutput, n
<1> QED
  BY <1>5, <1>6, <1>7 DEF n

LEMMA FillBuilds ==
    ASSUME TypeInv, AloneInv, BuiltInv, UserInv', NEW c \in Cmds, Fill(c)
    PROVE  BuiltInv'
<1> DEFINE job == cmd[c].job
           n == NParts(job)
           at == At(c)
           rest == Tail(cmd[c].todo)
           m == Further(cmd[c], rest)
<1>1. /\ Running(c) /\ cmd[c].pc = "fill" /\ dir' = [dir EXCEPT ![Now(c).to] = Written(c)]
      /\ rest = <<>> => Becomes(c, Idle("ok"))
      /\ rest # <<>> => Becomes(c, m)
  BY FillIs
<1>2. CASE rest = <<>>
  BY <1>1, <1>2, IdleOK, BuiltStays
<1>3. CASE rest # <<>>
  <2>1. CommandOK(cmd[c])
    BY IsTypeInv
  <2>2. /\ m.pc = Entry(rest) /\ m.job = job /\ m.todo = rest /\ m.alone = cmd[c].alone
    BY <1>1, <1>3, <2>1, FurtherOK DEF Running
  <2>3. cmd'[c].pc = Entry(rest) /\ cmd'[c].job = job /\ cmd'[c].todo = rest
    BY <1>1, <1>3, <2>2, BecomesIs
  <2>4. Position(c, job, at) /\ job \in Jobs /\ n \in 1..5
    BY <1>1, PositionIs
  <2>5. at # n + 2
    BY <1>1, <1>3, LastIs DEF Last
  <2>6. Now(c)' = Head(rest)
    BY <2>3 DEF Now
  <2>7. At(c)' = at + 1
    <3> DEFINE len == Len(cmd[c].todo)
    <3>1. cmd[c].todo \in Seq(BuildSteps) /\ RestOf(cmd[c].todo, job)
      BY <1>1, NowIs DEF TypeInv
    <3>2. len \in 1..(n + 2) /\ Len(rest) = len - 1
      BY <2>4, <3>1, RestFacts
    <3>3. At(c)' = n + 3 - Len(rest) /\ at = n + 3 - len
      BY <2>3 DEF At
    <3> HIDE DEF len, n, rest, at
    <3> QED
      BY <2>4, <3>2, <3>3
  <2>8. dir \in [Paths -> Contents]
    BY DEF TypeInv, TypeOK
  <2> HIDE DEF m
  <2>9. ASSUME Undisturbed(c)
        PROVE  Built(c)'
    <3>1. Built(c) /\ UserInv
      BY <2>9 DEF BuiltInv
    <3>2. /\ at \in 1..n => Written(c) = PartContent(job, at)
          /\ at = n + 1 => Written(c) = Config(job)
      BY <1>1, <3>1, WrittenIs
    <3>3. \A i \in 1..n : i < at => dir[Ign(PartNumber(job, i))] = PartContent(job, i)
      BY <3>1 DEF Built, PartsBuilt
    <3> HIDE DEF job, n, at, rest
    <3>4. ASSUME NEW i \in 1..n, i < at + 1
          PROVE  dir'[Ign(PartNumber(job, i))] = PartContent(job, i)
      <4>1. Ign(PartNumber(job, i)) \in Paths
        BY <2>4, <3>4, PartNumberFacts, PathFacts DEF n
      <4>2. CASE i = at
        <5>1. Now(c).to = Ign(PartNumber(job, at))
          BY <2>4, <3>4, <4>2 DEF Position, IsGather, n
        <5>2. dir'[Ign(PartNumber(job, at))] = Written(c)
          BY <1>1, <2>8, <4>1, <4>2, <5>1
        <5> QED
          BY <3>2, <3>4, <4>2, <5>2
      <4>3. CASE i # at
        <5>1. i < at
          BY <2>4, <3>4, <4>3 DEF Position
        <5>2. Now(c).to # Ign(PartNumber(job, i))
          <6>1. CASE at \in 1..n
            <7>1. Now(c).to = Ign(PartNumber(job, at))
              BY <2>4, <6>1 DEF Position, IsGather, n
            <7>2. PartNumber(job, i) # PartNumber(job, at)
              BY <2>4, <3>4, <4>3, <6>1, PartNumberFacts DEF n
            <7> QED
              BY <7>1, <7>2, PathFacts
          <6>2. CASE at = n + 1
            BY <2>4, <6>2, PathFacts DEF Position, IsMerge, n
          <6> QED
            BY <2>4, <2>5, <6>1, <6>2 DEF Position, n
        <5>3. dir'[Ign(PartNumber(job, i))] = dir[Ign(PartNumber(job, i))]
          BY <1>1, <2>8, <4>1, <5>2
        <5> QED
          BY <3>3, <5>1, <5>3
      <4> QED
        BY <4>2, <4>3
    <3>5. PartsBuilt(c)'
      BY <2>3, <2>7, <3>4 DEF PartsBuilt, job, n, at
    <3>6. ConfigBuilt(c)'
      <4> SUFFICES ASSUME Last(c)'
                   PROVE  dir'[ConfigIgn] = Config(job)
        BY <2>3 DEF ConfigBuilt, job
      <4>1. at = n + 1
        <5>1. at + 1 = n + 2
          BY <2>3, <2>7 DEF Last, n, job, at
        <5> QED
          BY <2>4, <5>1 DEF Position
      <4>2. Now(c).to = ConfigIgn
        BY <2>4, <4>1 DEF Position, IsMerge, n
      <4> QED
        BY <1>1, <2>8, <3>2, <4>1, <4>2, PathFacts
    <3>7. HeldBuilt(c)'
      BY <2>3, <2>6 DEF HeldBuilt, Entry
    <3> QED
      BY <3>5, <3>6, <3>7 DEF Built
  <2> QED
    BY <1>1, <1>3, <2>2, <2>9, BuiltStays
<1> QED
  BY <1>2, <1>3

LEMMA NextBuilt ==
    ASSUME TypeInv, AloneInv, BuiltInv, [Next]_vars
    PROVE  BuiltInv'
<1>0. UserInv'
  BY NextUser DEF BuiltInv
<1>1. ASSUME NEW c \in Cmds, Reject(c) \/ Stop(c)
      PROVE  BuiltInv'
  <2>1. Running(c) /\ (Becomes(c, Idle("rejected")) \/ Becomes(c, Idle("failed")))
    BY <1>1, RejectIs, StopIs
  <2> QED
    BY <1>0, <2>1, IdleOK, BuiltStays
<1>2. CASE UNCHANGED vars
  <2>1. ASSUME NEW c \in Cmds, Undisturbed(c)'
        PROVE  Built(c)'
    <3>1. Undisturbed(c) /\ Built(c)
      BY <1>2, <2>1 DEF vars, Undisturbed, Running, BuiltInv
    <3> QED
      BY <1>2, <3>1 DEF vars, Built, PartsBuilt, ConfigBuilt, HeldBuilt, Last, At, Now
  <2> QED
    BY <1>0, <2>1 DEF BuiltInv
<1> QED
  BY <1>0, <1>1, <1>2, StartBuilds, TakeBuilds, OpenBuilds, FillBuilds, Zenon DEF Next, Step

(* The output of a build that no other one ran beside is its own base,     *)
(* sources and overlays, in that order, each rendered with its values,     *)
(* whatever earlier builds left in the directory: each step reads only     *)
(* what an earlier step of the same build has written, or a user's file.   *)
THEOREM OwnOutputs == Spec => OwnOutput
<1> DEFINE Own(c) ==
        LET job == cmd[c].job
            out == dir'[Output]
        IN Running(c) /\ cmd'[c].result = "ok" /\ cmd[c].alone /\ job.output = Output
           => /\ out.state = "whole"
              /\ Len(out.pieces) = Len(job.base) + Len(job.sources) + Len(job.overlays)
              /\ \A i \in DOMAIN out.pieces :
                    /\ out.pieces[i].file = (job.base \o job.sources \o job.overlays)[i]
                    /\ out.pieces[i].text = IF i <= Len(job.base) THEN "raw"
                                            ELSE Rendered(job)
<1>1. TypeInv /\ [Next]_vars => TypeInv'
  BY NextType
<1>2. TypeInv /\ AloneInv /\ [Next]_vars => AloneInv'
  BY NextAlone
<1>3. TypeInv /\ AloneInv /\ BuiltInv /\ [Next]_vars => BuiltInv'
  BY NextBuilt
<1>4. TypeInv /\ AloneInv /\ BuiltInv /\ [Next]_vars => \A c \in Cmds : Own(c)
  <2> SUFFICES ASSUME TypeInv, AloneInv, BuiltInv, [Next]_vars, NEW c \in Cmds,
                      Running(c), cmd'[c].result = "ok", cmd[c].alone,
                      cmd[c].job.output = Output
               PROVE  Own(c)
    OBVIOUS
  <2> DEFINE job == cmd[c].job
             out == dir'[Output]
             n == NParts(job)
             pieces == [i \in 1..n |-> Piece(job, i)]
  <2>1. Fill(c) /\ Tail(cmd[c].todo) = <<>>
    BY RunningResult
  <2>2. cmd[c].pc = "fill" /\ dir' = [dir EXCEPT ![Now(c).to] = Written(c)]
    BY <2>1, FillIs
  <2>3. Last(c) /\ At(c) = n + 2
    BY <2>1, LastIs DEF Last
  <2>4. Position(c, job, At(c)) /\ n \in 1..5
    BY PositionIs
  <2>5. Now(c).to = Output
    BY <2>3, <2>4 DEF Position, IsOutput
  <2>6. Built(c) /\ UserInv
    BY DEF BuiltInv, Undisturbed
  <2>7. Written(c) = dir[ConfigIgn] /\ dir[ConfigIgn] = Config(job)
    BY <2>2, <2>3, <2>6, WrittenIs DEF Built, ConfigBuilt
  <2>8. out = Config(job)
    BY <2>2, <2>5, <2>7, PathFacts DEF TypeInv, TypeOK
  <2>9. out.state = "whole" /\ out.pieces = pieces
    BY <2>8 DEF Config, Whole
  <2>10. \A i \in 1..n : pieces[i].file = FilesOf(job)[i]
                         /\ pieces[i].text = IF i <= Len(job.base) THEN "raw" ELSE Rendered(job)
    BY DEF Piece
  <2>11. DOMAIN pieces = 1..n /\ Len(pieces) = n
    <3> HIDE DEF n
    <3> QED
      BY <2>4
  <2> HIDE DEF pieces, out
  <2> QED
    BY <2>9, <2>10, <2>11, Zenon DEF FilesOf, NParts, out
<1> QED
  BY InitType, InitAlone, InitBuilt, <1>1, <1>2, <1>3, <1>4, PTL DEF Spec, OwnOutput

=============================================================================
