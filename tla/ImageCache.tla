------------------------------ MODULE ImageCache ------------------------------
(***************************************************************************)
(* The base images of fcos.rs: FcosImage::ensure and FcosImage::refresh,   *)
(* run by commands that share a cache directory.                           *)
(*                                                                         *)
(* With a cache directory an image lives at a path of its stream and       *)
(* version and the work directory holds a symlink to it; without one       *)
(* ("flat") it is a file of the work directory.  Whether an image is there *)
(* is all that is asked before it is used, so everything rests on the      *)
(* order of download, SHA-256 check, decompression and symlink.            *)
(* Architecture and image variant are fixed.                               *)
(***************************************************************************)
EXTENDS Naturals

CONSTANTS
    Cmds,         \* command processes
    WorkDirs,
    Streams,
    Published,    \* bound: versions each stream ever publishes
    Uses,         \* Uses[w]: the <<stream, mode>> pairs w is used with
    Overlap,      \* do commands run at the same time?
    Cut           \* may a decompression be cut short?

Modes    == {"cached", "flat"}
Cache    == "cache"
Any      == "any"

ASSUME ConstantsAssumption ==
    /\ Published \in [Streams -> Nat \ {0}]
    /\ Uses \in [WorkDirs -> SUBSET (Streams \X Modes)]
    /\ Overlap \in BOOLEAN /\ Cut \in BOOLEAN
    /\ Cache \notin WorkDirs /\ Any \notin Streams
    /\ WorkDirs # {} /\ Streams # {}

VARIABLES
    latest,       \* the version each stream's metadata names
    image,        \* the image file at each path
    compressed,   \* the compressed file next to it
    link,         \* what the image name of a work directory resolves to
    proc          \* where each command is, and its locals

vars == <<latest, image, compressed, link, proc>>

(* Mutant: the versioned path does not tell the streams apart.             *)
CachedPathOfAny(s, v) == <<Cache, CHOOSE t \in Streams : TRUE, v>>

CachedPath(s, v) == <<Cache, s, v>>
LocalPath(w)     == <<w, Any, 0>>

Versions(s) == 1..Published[s]

CachePaths == UNION {{CachedPath(s, v) : v \in Versions(s)} : s \in Streams}
LocalPaths == {LocalPath(w) : w \in WorkDirs}
Paths      == CachePaths \cup LocalPaths

(* of tells whose content it is.                                           *)
Images  == UNION {{s} \X Versions(s) : s \in Streams}
NoImage == <<Any, 0>>

Files  == [form: {"absent", "partial", "whole"}, of: Images \cup {NoImage}]
Absent == [form |-> "absent", of |-> NoImage]
Part   == [Absent EXCEPT !.form = "partial"]

Idle == "idle"

Commands ==
    [op: {"ensure", "refresh"}, dir: WorkDirs, stream: Streams, mode: Modes,
     version: Nat, since: Nat, disturbed: BOOLEAN,
     pc: {Idle, "look", "drop", "fetch", "dropCached", "get", "getting",
          "verify", "unpack", "unpacking", "tidy", "unlink", "symlink"},
     result: {"none", "ok", "failed", "exists"}]

Exists(p) == image[p].form # "absent"

(* A name is a regular file or a symlink, not both.                        *)
TypeOK ==
    /\ DOMAIN latest = Streams
    /\ \A s \in Streams : latest[s] \in Versions(s)
    /\ image \in [Paths -> Files]
    /\ compressed \in [Paths -> Files]
    /\ link \in [WorkDirs -> Paths]
    /\ proc \in [Cmds -> Commands]
    /\ \A w \in WorkDirs :
          link[w] # LocalPath(w) => link[w] \in CachePaths /\ ~Exists(LocalPath(w))

Running(c) == proc[c].pc # Idle
At(c, pc)  == proc[c].pc = pc

(* The path `download` is given.                                           *)
Dest(c) == IF proc[c].mode = "cached" THEN CachedPath(proc[c].stream, proc[c].version)
           ELSE LocalPath(proc[c].dir)

(* Creating a file follows a symlink, even one that dangles.               *)
Created(c) == IF proc[c].mode = "cached" THEN Dest(c) ELSE link[proc[c].dir]

Content(c) == [form |-> "whole", of |-> <<proc[c].stream, proc[c].version>>]

(* c goes on; a file it truncates or removes may be in use by others.      *)
Goto(c, pc) == proc' = [proc EXCEPT ![c].pc = pc]

GotoTouching(c, pc) ==
    proc' = [d \in Cmds |->
                IF d = c THEN [proc[c] EXCEPT !.pc = pc, !.disturbed = FALSE]
                ELSE IF Running(d) /\ Dest(d) = Dest(c)
                THEN [proc[d] EXCEPT !.disturbed = TRUE] ELSE proc[d]]

Begun(op, w, s, mode, pc) ==
    [op |-> op, dir |-> w, stream |-> s, mode |-> mode, version |-> 0,
     since |-> latest[s], disturbed |-> FALSE, pc |-> pc, result |-> "none"]

(* A command ends; its locals are gone.                                    *)
Ended(result) ==
    [op |-> "ensure", dir |-> CHOOSE w \in WorkDirs : TRUE,
     stream |-> CHOOSE s \in Streams : TRUE, mode |-> "cached", version |-> 0,
     since |-> 0, disturbed |-> FALSE, pc |-> Idle, result |-> result]

Return(c)      == proc' = [proc EXCEPT ![c] = Ended("ok")]
Err(c, result) == proc' = [proc EXCEPT ![c] = Ended(result)]

-----------------------------------------------------------------------------
Init ==
    /\ latest = [s \in Streams |-> 1]
    /\ image = [p \in Paths |-> Absent]
    /\ compressed = [p \in Paths |-> Absent]
    /\ link = [w \in WorkDirs |-> LocalPath(w)]
    /\ proc = [c \in Cmds |-> Ended("none")]

(* Fedora publishes a new version of a stream.                             *)
Publish(s) ==
    /\ latest[s] < Published[s]
    /\ latest' = [latest EXCEPT ![s] = @ + 1]
    /\ UNCHANGED <<image, compressed, link, proc>>

(* Mutant: refresh looks for the image as ensure does.                     *)
StartLooking(c, op, w, s, mode) ==
    /\ ~Running(c) /\ (Overlap \/ \A d \in Cmds : ~Running(d))
    /\ proc' = [proc EXCEPT ![c] = Begun(op, w, s, mode, "look")]
    /\ UNCHANGED <<latest, image, compressed, link>>

Start(c, op, w, s, mode) ==
    /\ ~Running(c) /\ (Overlap \/ \A d \in Cmds : ~Running(d))
    /\ proc' = [proc EXCEPT ![c] =
                  Begun(op, w, s, mode, IF op = "ensure" THEN "look"
                                        ELSE IF mode = "flat" THEN "drop" ELSE "fetch")]
    /\ UNCHANGED <<latest, image, compressed, link>>

(* ensure: an image name that resolves is used without asking the network. *)
Look(c) ==
    LET p == link[proc[c].dir] IN
    /\ At(c, "look")
    /\ IF Exists(p) THEN Return(c) ELSE Goto(c, "fetch")
    /\ UNCHANGED <<latest, image, compressed, link>>

(* refresh_local removes the image, or the symlink when it resolves.       *)
DropLocal(c) ==
    LET w == proc[c].dir IN
    /\ At(c, "drop")
    /\ GotoTouching(c, "fetch")
    /\ IF Exists(link[w])
       THEN /\ link' = [link EXCEPT ![w] = LocalPath(w)]
            /\ image' = [image EXCEPT ![LocalPath(w)] = Absent]
       ELSE UNCHANGED <<link, image>>
    /\ UNCHANGED <<latest, compressed>>

Fetch(c) ==
    LET p == proc[c]  v == latest[p.stream]
        next == IF p.mode = "flat" THEN "get"
                ELSE IF p.op = "refresh" THEN "dropCached"
                ELSE IF Exists(CachedPath(p.stream, v)) THEN "unlink" ELSE "get"
    IN
    /\ At(c, "fetch")
    /\ proc' = [proc EXCEPT ![c].version = v, ![c].pc = next]
    /\ UNCHANGED <<latest, image, compressed, link>>

(* refresh_cached removes the version it is about to download.             *)
DropCached(c) ==
    /\ At(c, "dropCached")
    /\ GotoTouching(c, "get")
    /\ image' = [image EXCEPT ![Dest(c)] = Absent]
    /\ UNCHANGED <<latest, compressed, link>>

CreateCompressed(c) ==
    /\ At(c, "get")
    /\ GotoTouching(c, "getting")
    /\ compressed' = [compressed EXCEPT ![Dest(c)] = Part]
    /\ UNCHANGED <<latest, image, link>>

(* What is delivered may not be what the metadata promised; a file that    *)
(* another command has truncated or removed since may be anything.         *)
FinishDownload(c, good) ==
    /\ At(c, "getting")
    /\ Goto(c, "verify")
    /\ IF good /\ compressed[Dest(c)] # Absent
       THEN compressed' = [compressed EXCEPT ![Dest(c)] = Content(c)]
       ELSE UNCHANGED compressed
    /\ UNCHANGED <<latest, image, link>>

(* Mutant: the sum is not compared.                                        *)
VerifyNothing(c) ==
    /\ At(c, "verify")
    /\ Goto(c, "unpack")
    /\ UNCHANGED <<latest, image, compressed, link>>

Verify(c) ==
    /\ At(c, "verify")
    /\ IF compressed[Dest(c)] = Content(c) THEN Goto(c, "unpack") ELSE Err(c, "failed")
    /\ UNCHANGED <<latest, image, compressed, link>>

(* Decompression writes the image under its final name.                    *)
CreateImage(c) ==
    /\ At(c, "unpack")
    /\ IF compressed[Dest(c)] = Absent
       THEN Err(c, "failed") /\ UNCHANGED image
       ELSE /\ GotoTouching(c, "unpacking")
            /\ image' = [image EXCEPT ![Created(c)] = Part]
    /\ UNCHANGED <<latest, compressed, link>>

(* What the written file can be, in the hands of one command or of two.    *)
Unpacked(c) ==
    LET was == image[Created(c)] IN
    IF was = Absent THEN {Absent}
    ELSE IF proc[c].disturbed THEN {was, Content(c)} ELSE {Content(c)}

Readable(c) == compressed[Dest(c)].form = "whole" \/ proc[c].disturbed

FinishImage(c) ==
    /\ At(c, "unpacking")
    /\ Readable(c)
    /\ Goto(c, "tidy")
    /\ image' \in {[image EXCEPT ![Created(c)] = i] : i \in Unpacked(c)}
    /\ UNCHANGED <<latest, compressed, link>>

RemoveCompressed(c) ==
    /\ At(c, "tidy")
    /\ compressed' = [compressed EXCEPT ![Dest(c)] = Absent]
    /\ IF proc[c].mode = "cached" THEN GotoTouching(c, "unlink")
       ELSE Return(c)
    /\ UNCHANGED <<latest, image, link>>

(* Mutant: only a symlink that resolves is removed.                        *)
UnlinkResolved(c) ==
    LET w == proc[c].dir IN
    /\ At(c, "unlink")
    /\ Goto(c, "symlink")
    /\ link' = IF Exists(link[w]) THEN [link EXCEPT ![w] = LocalPath(w)] ELSE link
    /\ image' = [image EXCEPT ![LocalPath(w)] = Absent]
    /\ UNCHANGED <<latest, compressed>>

(* update_symlink: remove whatever has the name, then link.                *)
Unlink(c) ==
    LET w == proc[c].dir IN
    /\ At(c, "unlink")
    /\ Goto(c, "symlink")
    /\ link' = [link EXCEPT ![w] = LocalPath(w)]
    /\ image' = [image EXCEPT ![LocalPath(w)] = Absent]
    /\ UNCHANGED <<latest, compressed>>

(* Mutant: the link names the image of no version.                         *)
SymlinkUnversioned(c) ==
    /\ At(c, "symlink")
    /\ link' = [link EXCEPT ![proc[c].dir] = CachedPath(proc[c].stream, 0)]
    /\ Return(c)
    /\ UNCHANGED <<latest, image, compressed>>

(* symlink() does not replace a name.                                      *)
Symlink(c) ==
    LET w == proc[c].dir IN
    /\ At(c, "symlink")
    /\ IF link[w] = LocalPath(w) /\ ~Exists(LocalPath(w))
       THEN link' = [link EXCEPT ![w] = Dest(c)] /\ Return(c)
       ELSE Err(c, "exists") /\ UNCHANGED link
    /\ UNCHANGED <<latest, image, compressed>>

(* Any `?`, or the program is killed; nothing is tidied up either way.     *)
(* A decompression fails on a file that is cut off, too.                   *)
Stop(c) ==
    /\ Running(c)
    /\ At(c, "unpacking") => Cut \/ proc[c].disturbed \/ ~Readable(c)
    /\ Err(c, "failed")
    /\ UNCHANGED <<latest, image, compressed, link>>

Step(c) ==
    \/ Look(c) \/ DropLocal(c) \/ Fetch(c) \/ DropCached(c)
    \/ CreateCompressed(c) \/ (\E good \in BOOLEAN : FinishDownload(c, good))
    \/ Verify(c) \/ CreateImage(c) \/ FinishImage(c) \/ RemoveCompressed(c)
    \/ Unlink(c) \/ Symlink(c)

Next ==
    \/ \E s \in Streams : Publish(s)
    \/ \E c \in Cmds :
          \/ \E op \in {"ensure", "refresh"}, w \in WorkDirs : \E use \in Uses[w] :
                Start(c, op, w, use[1], use[2])
          \/ Step(c)
          \/ Stop(c)

Spec == Init /\ [][Next]_vars

(* Downloads and decompressions go on by themselves.                       *)
FairSpec == Spec /\ \A c \in Cmds : WF_vars(Step(c))

-----------------------------------------------------------------------------
Returns(c) == Running(c) /\ proc'[c].pc = Idle /\ proc'[c].result = "ok"

(* The image whose path it returns.                                        *)
Returned(c) ==
    LET from == IF At(c, "look") \/ proc[c].mode = "flat" THEN link[proc[c].dir] ELSE Dest(c)
    IN image'[from]

(* An image that ensure or refresh returns is complete and was checked     *)
(* against the SHA-256 of its version (README.md:119 "SHA256 verify").     *)
ReturnedIsWhole ==
    [][\A c \in Cmds : Returns(c) => Returned(c).form = "whole"]_vars

(* ... and it is one of the stream the command was asked for, although the *)
(* work directories share a cache.                                         *)
ReturnedIsOfStream ==
    [][\A c \in Cmds : Returns(c) /\ Returned(c).form = "whole"
                          => Returned(c).of[1] = proc[c].stream]_vars

(* refresh returns the version that was the latest when it began, or a     *)
(* later one (fcos.rs:176 "Force a fresh download of the latest version"). *)
RefreshIsCurrent ==
    [][\A c \in Cmds : Returns(c) /\ proc[c].op = "refresh"
                          => Returned(c).of[2] >= proc[c].since]_vars

(* The program is stopped, or something else than the image is delivered.  *)
Mishap ==
    \E c \in Cmds :
        \/ Running(c) /\ proc'[c].result = "failed"
        \/ At(c, "getting") /\ proc'[c].pc = "verify" /\ compressed' = compressed

(* Once mishaps stop, ensure and refresh succeed, whatever dangling links, *)
(* partial downloads and half-replaced links are left behind by others.    *)
UndisturbedCommandsSucceed ==
    <>[][~Mishap]_vars =>
        \A c \in Cmds : <>[](Running(c) => <>(proc[c].result = "ok"))

=============================================================================
