---------------------------- MODULE IgnitionBuild ----------------------------
(***************************************************************************)
(* Builds of Ignition configs (ignition.rs, cli/ignition.rs).  A build is  *)
(* a chain of steps, each from a file to a file of the work directory: the *)
(* base is copied, every Butane source is rendered and compiled, the       *)
(* results are merged in order, and the config is copied to the output.    *)
(* The files have the same names in every build, so what an earlier one    *)
(* left there, or another one is writing, is in the way.  The Butane texts *)
(* handed to butane, source-<i>.bu, overlay-<i>.bu and merge.bu, are part  *)
(* of the step that writes and reads them.                                 *)
(*                                                                         *)
(* A config is the sequence of the pieces merged into it: which file each  *)
(* is of, and what became of its template variable.                        *)
(***************************************************************************)
EXTENDS Integers, Sequences

CONSTANTS
    Cmds,        \* commands that build
    Jobs,        \* what they are asked for
    Files        \* the user's files

VARIABLES
    dir,         \* the files: the user's, the intermediate ones, the output
    cmd          \* the commands

vars == <<dir, cmd>>

-----------------------------------------------------------------------------
(* Parts are numbered: 0 is the base, then sources, then overlays.         *)
User(f)   == <<"user", f>>
Ign(p)    == <<"ign", p>>      \* base.ign, source-<i>.ign and overlay-<i>.ign
ConfigIgn == <<"config", 0>>
Output    == <<"output", 0>>

FirstOverlay == 3    \* bound: a job has at most so many - 1 sources, and overlays
PartNumbers == 0..(2 * FirstOverlay - 2)
Paths == {User(f) : f \in Files} \cup {Ign(p) : p \in PartNumbers} \cup {ConfigIgn, Output}

(* `values` are those that --var gives the variable of the templates,      *)
(* "other" is one given to another variable.                               *)
JobType == [base: Seq(Files), sources: Seq(Files), overlays: Seq(Files),
            values: Seq({"other", "1", "2"}), output: {Output, ConfigIgn}]

(* A build of nothing is refused before it begins.                         *)
ASSUME ConstantsAssumption ==
    \A job \in Jobs :
        /\ job \in JobType /\ job.base \o job.sources \o job.overlays # <<>>
        /\ Len(job.base) <= 1
        /\ Len(job.sources) < FirstOverlay /\ Len(job.overlays) < FirstOverlay

Pieces   == [file: Files, text: {"raw", "blank", "1", "2"}]
Contents == [state: {"absent", "broken", "whole"}, pieces: Seq(Pieces)]

Absent == [state |-> "absent", pieces |-> <<>>]
Broken == [state |-> "broken", pieces |-> <<>>]
Whole(pieces) == [state |-> "whole", pieces |-> pieces]
Template(f) == Whole(<<[file |-> f, text |-> "raw"]>>)

Numbered(files, first) == [i \in 1..Len(files) |-> [part |-> first + i - 1, file |-> files[i]]]
Base(job)   == Numbered(job.base, 0)
Butanes(job) == Numbered(job.sources, 1) \o Numbered(job.overlays, FirstOverlay)
Parts(job)  == Base(job) \o Butanes(job)

-----------------------------------------------------------------------------
(* The steps of a build.                                                   *)
BuildSteps == [kind: {"copy", "compile", "merge"}, from: Paths, to: Paths]
BuildStep(kind, from, to) == [kind |-> kind, from |-> from, to |-> to]

Gather(job) ==
    [i \in 1..Len(Parts(job)) |->
        BuildStep(IF Parts(job)[i].part = 0 THEN "copy" ELSE "compile",
                  User(Parts(job)[i].file), Ign(Parts(job)[i].part))]

(* One part that is not an overlay is the config, others are merged.       *)
Plan(job) ==
    Gather(job)
    \o <<IF Len(Parts(job)) = 1 /\ job.overlays = <<>>
         THEN BuildStep("copy", Ign(Parts(job)[1].part), ConfigIgn)
         ELSE BuildStep("merge", ConfigIgn, ConfigIgn)>>
    \o <<BuildStep("copy", ConfigIgn, job.output)>>

(* Mutant: every part is merged that is in the directory.                  *)
MergedOfDirectory(job) ==
    SelectSeq([i \in 1..(2 * FirstOverlay - 1) |-> i - 1],
              LAMBDA p : dir[Ign(p)].state # "absent")

(* generate_merge_config.                                                  *)
Merged(job) == [i \in 1..Len(Parts(job)) |-> Parts(job)[i].part]

(* Mutant: the last --var is taken, whichever variable it is for.          *)
LastVar(job) == IF job.values = <<>> THEN "raw" ELSE job.values[Len(job.values)]

(* What a template's variable becomes: without any --var the text is not   *)
(* rendered, and one that is not given renders to nothing.                 *)
Rendered(job) ==
    LET given == {i \in DOMAIN job.values : job.values[i] # "other"}
        last  == CHOOSE i \in given : \A k \in given : k <= i
    IN IF job.values = <<>> THEN "raw"
       ELSE IF given = {} THEN "blank" ELSE job.values[last]

Compiled(job, content) ==
    [content EXCEPT !.pieces = [i \in DOMAIN @ |-> [@[i] EXCEPT !.text = Rendered(job)]]]

(* butane takes in the files that merge.bu names, whatever they hold.      *)
MergeFiles(names) ==
    IF \E i \in DOMAIN names : dir[Ign(names[i])].state # "whole" THEN Broken
    ELSE Whole([i \in DOMAIN names |-> dir[Ign(names[i])].pieces[1]])

-----------------------------------------------------------------------------
NoJob == [base |-> <<>>, sources |-> <<>>, overlays |-> <<>>, values |-> <<>>, output |-> Output]
Commands == [pc: {"idle", "take", "open", "fill"}, job: JobType,
             todo: Seq(BuildSteps),                      \* the steps left
             held: Contents,                             \* what is to be written
             result: {"none", "ok", "rejected", "failed"},
             alone: BOOLEAN,                             \* history: no other ran meanwhile
             before: Contents]                           \* history: if so, the output at its start

TypeOK ==
    /\ dir \in [Paths -> Contents]
    /\ cmd \in [Cmds -> Commands]

Idle(result) ==
    [pc |-> "idle", job |-> NoJob, todo |-> <<>>, held |-> Absent, result |-> result,
     before |-> Absent, alone |-> TRUE]

Init ==
    /\ dir = [p \in Paths |-> IF \E f \in Files : p = User(f) THEN Template(p[2]) ELSE Absent]
    /\ cmd = [c \in Cmds |-> Idle("none")]

Running(c) == cmd[c].pc # "idle"
Now(c) == Head(cmd[c].todo)

(* A copy opens its target first, any other step has its result by then.   *)
Entry(todo) == IF Head(todo).kind = "copy" THEN "open" ELSE "take"

Started(c, job) ==
    LET others == {d \in Cmds \ {c} : Running(d)} IN
    [d \in Cmds |->
        IF d = c
        THEN [Idle("none") EXCEPT
                !.pc = Entry(Plan(job)), !.job = job, !.todo = Plan(job),
                !.before = IF others = {} THEN dir[Output] ELSE Absent,
                !.alone = others = {}]
        ELSE IF d \in others THEN [cmd[d] EXCEPT !.alone = FALSE, !.before = Absent]
        ELSE cmd[d]]

(* Mutant: the output is created before the build.                         *)
StartClearsOutput(c, job) ==
    /\ ~Running(c)
    /\ cmd' = Started(c, job)
    /\ dir' = [dir EXCEPT ![Output] = Broken]

Start(c, job) ==
    /\ ~Running(c)
    /\ cmd' = Started(c, job)
    /\ UNCHANGED dir

(* The input is read, and rendered or compiled.                            *)
Take(c) ==
    LET from == dir[Now(c).from] IN
    /\ cmd[c].pc = "take"
    /\ cmd' = [cmd EXCEPT ![c].pc = "open", ![c].held =
                 IF Now(c).kind = "compile" THEN Compiled(cmd[c].job, from)
                 ELSE MergeFiles(Merged(cmd[c].job))]
    /\ UNCHANGED dir

(* Mutant: what is rejected is built again.                                *)
BuildAgain(c) ==
    /\ cmd[c].pc = "take"
    /\ cmd' = [cmd EXCEPT ![c].todo = Plan(cmd[c].job)]
    /\ UNCHANGED dir

(* A source that cannot be read or rendered, or a text butane refuses.     *)
Reject(c) ==
    /\ cmd[c].pc = "take"
    /\ cmd' = [cmd EXCEPT ![c] = Idle("rejected")]
    /\ UNCHANGED dir

(* A file is written in place: it is emptied, and filled.                  *)
Open(c) ==
    /\ cmd[c].pc = "open"
    /\ dir' = [dir EXCEPT ![Now(c).to] = Broken]
    /\ cmd' = [cmd EXCEPT ![c].pc = "fill"]

Fill(c) ==
    LET todo == Tail(cmd[c].todo) IN
    /\ cmd[c].pc = "fill"
    /\ dir' = [dir EXCEPT ![Now(c).to] =
                 IF Now(c).kind = "copy" THEN dir[Now(c).from] ELSE cmd[c].held]
    /\ cmd' = [cmd EXCEPT ![c] =
                 IF todo = <<>> THEN Idle("ok")
                 ELSE [@ EXCEPT !.pc = Entry(todo), !.todo = todo, !.held = Absent]]

(* A write fails, or the command is killed.                                *)
Stop(c) ==
    /\ Running(c)
    /\ cmd' = [cmd EXCEPT ![c] = Idle("failed")]
    /\ UNCHANGED dir

Step(c) == Take(c) \/ Reject(c) \/ Open(c) \/ Fill(c)

Next == \E c \in Cmds : (\E job \in Jobs : Start(c, job)) \/ Step(c) \/ Stop(c)

Spec == Init /\ [][Next]_vars

(* A build goes on by itself; butane ends.                                 *)
FairSpec == Spec /\ \A c \in Cmds : WF_vars(Step(c))

-----------------------------------------------------------------------------
(* "Compile all sources + overlays into a single Ignition JSON file"       *)
(* (ignition.rs:79): the output of a build that no other one disturbed has *)
(* its base, sources and overlays in that order, each rendered with its    *)
(* values, whatever other builds have left in the directory; unless it is  *)
(* the intermediate config.ign itself.                                     *)
OwnOutput ==
    [][\A c \in Cmds :
          LET job == cmd[c].job
              out == dir'[Output]
          IN Running(c) /\ cmd'[c].result = "ok" /\ cmd[c].alone /\ job.output = Output
             => /\ out.state = "whole"
                /\ Len(out.pieces) = Len(job.base) + Len(job.sources) + Len(job.overlays)
                /\ \A i \in DOMAIN out.pieces :
                      /\ out.pieces[i].file = (job.base \o job.sources \o job.overlays)[i]
                      /\ out.pieces[i].text = IF i <= Len(job.base) THEN "raw"
                                              ELSE Rendered(job)]_vars

(* A build whose sources are rejected leaves the output of an earlier one  *)
(* as it was, unless another build wrote it meanwhile.                     *)
RejectedKeepsOutput ==
    [][\A c \in Cmds :
          Running(c) /\ cmd'[c].result = "rejected" /\ cmd[c].alone
             => dir'[Output] = cmd[c].before]_vars

(* Every build ends.                                                       *)
BuildsEnd == \A c \in Cmds : Running(c) ~> ~Running(c)

=============================================================================
