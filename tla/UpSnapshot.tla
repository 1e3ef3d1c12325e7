------------------------------ MODULE UpSnapshot ------------------------------
(***************************************************************************)
(* `fcos-harness up` in one work directory, step by step, with its disk    *)
(* files and its snapshot cache (cli/up.rs, snapshot.rs, disk.rs).         *)
(*                                                                         *)
(* A run hashes the ignition file, asks the cache whether it holds a       *)
(* matching snapshot, restores it or boots a fresh disk, and after a fresh *)
(* boot makes the snapshot: QEMU saves it inside the qcow2 overlay and     *)
(* loads it again, vfkit powers the guest off and clones its raw disk.     *)
(* Every file operation that can be cut short is a step of its own, and    *)
(* the program may stop between any two steps.  SHA-256 is taken to be     *)
(* injective: the hash of a config is the config.                          *)
(*                                                                         *)
(* One run at a time, started when no VM of the directory is alive.  `up`  *)
(* itself asks for neither: a run beside another, or over a live VM, is in *)
(* module VmLifecycle, from the launch on.                                 *)
(***************************************************************************)
EXTENDS Naturals, FiniteSets

CONSTANTS
    Configs,        \* contents the ignition file can have
    Names,          \* values of --snapshot
    Variants,       \* image variants used in this work directory
    QcowVariants,   \* those run by QEMU; the others are raw disks of vfkit
    Listed,         \* <<n, m>>: the text listing snapshot m contains n
    MidRunEdits,    \* may the user edit the ignition file during a run?
    MixVariants,    \* is the directory used with more than one variant?
    RemovalsFail    \* may the removal of a file fail, which no code notices?

Blank   == "blank"    \* provisioning of a disk that never booted
NoName  == "noname"   \* --snapshot not given
NoHash  == "nohash"   \* snapshot.hash does not exist
Torn    == "torn"     \* snapshot.hash truncated, not yet written

ASSUME ConstantsAssumption ==
    /\ QcowVariants \subseteq Variants
    /\ Variants # {}
    /\ Configs # {}
    /\ Listed \subseteq Names \X Names
    /\ \A n \in Names : <<n, n>> \in Listed
    /\ MidRunEdits \in BOOLEAN
    /\ MixVariants \in BOOLEAN
    /\ RemovalsFail \in BOOLEAN

ASSUME SentinelAssumption ==
    /\ {Blank, NoHash, Torn} \cap Configs = {}
    /\ NoName \notin Names

VARIABLES
    ignition,   \* content of the file given by --ignition
    hashFile,   \* snapshot.hash in the work directory
    disk,       \* the files named by overlay_name and snapshot_overlay_name
    vm,         \* the VM process of this work directory
    job,        \* arguments and locals of the current, or else last, run
    pc,         \* where the run is; "idle" when there is none
    result      \* how the last run ended

vars == <<ignition, hashFile, disk, vm, job, pc, result>>

-----------------------------------------------------------------------------
(* Disks.  prov is the config the guest was provisioned from on its first  *)
(* boot, snaps the internal snapshots.                                     *)

Paths == Variants \X {"live", "cache"}

Disks == [form: {"absent", "partial", "whole"}, prov: Configs \cup {Blank},
          snaps: SUBSET Names]

AbsentDisk == [form |-> "absent", prov |-> Blank, snaps |-> {}]
FreshDisk  == [AbsentDisk EXCEPT !.form = "whole"]

VMs == [state: {"off", "booting", "ready"}, config: Configs \cup {Blank},
        prov: Configs \cup {Blank}]

NoVM == [state |-> "off", config |-> Blank, prov |-> Blank]

Jobs == [variant: Variants, name: Names \cup {NoName}, valid: BOOLEAN,
         hash: Configs \cup {NoHash}, rehash: Configs \cup {NoHash}]

NewJob(v, n) == [variant |-> v, name |-> n, valid |-> FALSE,
                 hash |-> NoHash, rehash |-> NoHash]

IsQcow    == job.variant \in QcowVariants
Snapshots == job.name # NoName
CachePath == <<job.variant, "cache">>
LivePath  == <<job.variant, "live">>

(* The disk the VM attaches: QEMU boots the snapshot overlay itself, vfkit *)
(* always the live clone.                                                  *)
Target == IF IsQcow /\ Snapshots THEN CachePath ELSE LivePath

(* The name is searched for anywhere in the listing of the snapshots.      *)
SnapshotExists(d, n) == \E m \in d.snaps : <<n, m>> \in Listed

(* Mutant: the stored hash is not compared.                                *)
IsValidAnyHash(v, n, h) ==
    LET d == disk[<<v, "cache">>] IN
    /\ hashFile \in Configs
    /\ d.form # "absent"
    /\ v \in QcowVariants => SnapshotExists(d, n)

(* Mutant: an overlay that exists is taken for one with the snapshot.      *)
IsValidFileOnly(v, n, h) == hashFile = h /\ disk[<<v, "cache">>].form # "absent"

(* SnapshotCache::is_valid.  The existence of a warmed file is all vfkit   *)
(* asks for.                                                               *)
IsValid(v, n, h) ==
    LET d == disk[<<v, "cache">>] IN
    /\ hashFile = h
    /\ d.form # "absent"
    /\ v \in QcowVariants => SnapshotExists(d, n)

Goto(from, to) == pc = from /\ pc' = to

-----------------------------------------------------------------------------
Init ==
    /\ ignition \in Configs
    /\ hashFile = NoHash
    /\ disk = [p \in Paths |-> AbsentDisk]
    /\ vm = NoVM
    /\ \E v \in Variants : job = NewJob(v, NoName)
    /\ pc = "idle"
    /\ result = "none"

(* The user saves another config; before a run, or also during one.        *)
EditIgnition(c) ==
    /\ pc = "idle" \/ MidRunEdits
    /\ c # ignition
    /\ ignition' = c
    /\ UNCHANGED <<hashFile, disk, vm, job, pc, result>>

StartUp(v, n) ==
    /\ Goto("idle", IF n = NoName THEN "disk" ELSE "hash")
    /\ vm = NoVM
    /\ MixVariants \/ v = job.variant
    /\ job' = NewJob(v, n)
    /\ result' = "none"
    /\ UNCHANGED <<ignition, hashFile, disk, vm>>

(* Mutant: the stored hash is read where the config should be hashed.      *)
HashOfHashFile ==
    /\ Goto("hash", "check")
    /\ job' = [job EXCEPT !.hash = hashFile]
    /\ UNCHANGED <<ignition, hashFile, disk, vm, result>>

HashIgnition ==
    /\ Goto("hash", "check")
    /\ job' = [job EXCEPT !.hash = ignition]
    /\ UNCHANGED <<ignition, hashFile, disk, vm, result>>

(* --rebuild-snapshot skips the check.                                     *)
CheckCache(rebuild) ==
    LET valid == ~rebuild /\ IsValid(job.variant, job.name, job.hash) IN
    /\ Goto("check", IF valid THEN "disk" ELSE "dropHash")
    /\ job' = [job EXCEPT !.valid = valid]
    /\ UNCHANGED <<ignition, hashFile, disk, vm, result>>

(* Mutant: invalidate leaves the hash file.                                *)
DropNoHash ==
    /\ Goto("dropHash", "dropArtifact")
    /\ UNCHANGED <<ignition, hashFile, disk, vm, job, result>>

(* Mutant: invalidate leaves the disk.                                     *)
DropNoArtifact ==
    /\ Goto("dropArtifact", "disk")
    /\ UNCHANGED <<ignition, hashFile, disk, vm, job, result>>

(* SnapshotCache::invalidate: the hash file first, then the artifact.  The *)
(* run goes on when a file cannot be removed.                              *)
DropHash ==
    /\ Goto("dropHash", "dropArtifact")
    /\ hashFile' = NoHash \/ (RemovalsFail /\ UNCHANGED hashFile)
    /\ UNCHANGED <<ignition, disk, vm, job, result>>

DropArtifact ==
    /\ Goto("dropArtifact", "disk")
    /\ disk' = [disk EXCEPT ![CachePath] = AbsentDisk] \/ (RemovalsFail /\ UNCHANGED disk)
    /\ UNCHANGED <<ignition, hashFile, vm, job, result>>

(* An overlay that is already there is booted as it is.                    *)
ReuseOverlay ==
    /\ Goto("disk", "launch")
    /\ IsQcow
    /\ disk[Target].form # "absent"
    /\ UNCHANGED <<ignition, hashFile, disk, vm, job, result>>

CreateOverlay ==
    /\ Goto("disk", "copyLive")
    /\ IsQcow
    /\ disk[Target].form = "absent"
    /\ UNCHANGED <<ignition, hashFile, disk, vm, job, result>>

(* create_clone removes the destination before it clones or copies.        *)
RemoveForClone ==
    /\ \/ Goto("disk", "copyLive") /\ ~IsQcow
       \/ Goto("clone", "copyWarm")
    /\ \/ disk' = [disk EXCEPT ![IF pc = "clone" THEN CachePath ELSE LivePath] = AbsentDisk]
       \/ RemovalsFail /\ UNCHANGED disk
    /\ UNCHANGED <<ignition, hashFile, vm, job, result>>

CopyDest == IF pc = "copyWarm" THEN CachePath ELSE Target

CopySource ==
    CASE pc = "copyWarm"      -> disk[LivePath]
      [] ~IsQcow /\ job.valid -> disk[CachePath]
      [] OTHER                -> FreshDisk

(* qemu-img create and the fallback to fs::copy write the file bit by bit, *)
(* fs::copy over one that is there; clonefile goes from absent to whole.   *)
CopyPart ==
    /\ pc \in {"copyLive", "copyWarm"}
    /\ disk[CopyDest].form # "partial"
    /\ disk' = [disk EXCEPT ![CopyDest] = [AbsentDisk EXCEPT !.form = "partial"]]
    /\ UNCHANGED <<ignition, hashFile, vm, job, pc, result>>

FinishCopy ==
    /\ Goto("copyLive", "launch") \/ Goto("copyWarm", "record")
    /\ disk[CopyDest].form # "whole"
    /\ disk' = [disk EXCEPT ![CopyDest] = CopySource]
    /\ UNCHANGED <<ignition, hashFile, vm, job, result>>

(* QEMU asked to load a snapshot the disk does not have exits at once, and *)
(* so does one whose image cannot be opened; launch does not notice.       *)
LaunchWith(loadvm) ==
    LET d == disk[Target]
        starts == /\ IsQcow /\ loadvm => job.name \in d.snaps
                  /\ d.form = "whole" \/ ~IsQcow
    IN vm' = IF starts
             THEN [state |-> "booting", config |-> ignition, prov |-> d.prov]
             ELSE NoVM

Launch ==
    /\ Goto("launch", "boot")
    /\ LaunchWith(job.valid)
    /\ UNCHANGED <<ignition, hashFile, disk, job, result>>

(* Mutant: QEMU's hash is recorded before the snapshot was loaded.         *)
RelaunchUnwaited ==
    /\ Goto("relaunch", IF IsQcow THEN "record" ELSE "reboot")
    /\ LaunchWith(TRUE)
    /\ UNCHANGED <<ignition, hashFile, disk, job, result>>

Relaunch ==
    /\ Goto("relaunch", "reboot")
    /\ LaunchWith(TRUE)
    /\ UNCHANGED <<ignition, hashFile, disk, job, result>>

(* Ignition runs on the first boot of a disk and never again.              *)
Provisioned(p) == IF p = Blank THEN vm.config ELSE p

BootedDisk == [disk EXCEPT ![Target].prov = Provisioned(@)]

(* A guest killed while it boots may or may not have been provisioned.     *)
KilledDisk == IF vm.state = "booting" THEN {disk, BootedDisk} ELSE {disk}

(* wait_ready: the guest answers over SSH within its timeout ...           *)
GuestReady ==
    /\ \/ Goto("reboot", IF IsQcow THEN "record" ELSE "finish")
       \/ Snapshots /\ ~job.valid /\ \E to \in {"goss", "warm"} : Goto("boot", to)
       \/ ~(Snapshots /\ ~job.valid) /\ Goto("boot", "finish")
    /\ vm.state = "booting"
    /\ disk[Target].form = "whole"
    /\ disk' = BootedDisk
    /\ vm' = [vm EXCEPT !.state = "ready", !.prov = Provisioned(@)]
    /\ UNCHANGED <<ignition, hashFile, job, result>>

GiveUp ==
    /\ pc' = "idle"
    /\ result' = "failed"
    /\ vm' = NoVM
    /\ disk' \in KilledDisk
    /\ UNCHANGED <<ignition, hashFile, job>>

(* Mutant: the wait after the relaunch has no timeout.                     *)
GuestSilentAtBoot == pc = "boot" /\ GiveUp

(* ... or it does not, and the VM is shut down.                            *)
GuestSilent == pc \in {"boot", "reboot"} /\ GiveUp

(* Only with --snapshot-goss.                                              *)
GossPasses ==
    /\ Goto("goss", "warm")
    /\ UNCHANGED <<ignition, hashFile, disk, vm, job, result>>

(* savevm: QMP answers "return" whether or not the monitor command worked. *)
SaveVm ==
    /\ Goto("warm", "quit")
    /\ IsQcow
    /\ disk' \in {disk, [disk EXCEPT ![Target].snaps = @ \cup {job.name}]}
    /\ UNCHANGED <<ignition, hashFile, vm, job, result>>

Quit ==
    /\ Goto("quit", "relaunch")
    /\ vm' = NoVM
    /\ UNCHANGED <<ignition, hashFile, disk, job, result>>

(* systemctl poweroff, or SIGTERM and SIGKILL when the guest does not go:  *)
(* what that tears inside the disk, which is cloned next, is left out.     *)
PowerOff ==
    /\ Goto("warm", "clone")
    /\ ~IsQcow
    /\ vm' = NoVM
    /\ UNCHANGED <<ignition, hashFile, disk, job, result>>

(* The ignition file is hashed again, after the boot it was used for, and  *)
(* tokio::fs::write truncates snapshot.hash before it writes.              *)
TruncateHash ==
    /\ Goto("record", "recording")
    /\ job' = [job EXCEPT !.rehash = ignition]
    /\ hashFile' = Torn
    /\ UNCHANGED <<ignition, disk, vm, result>>

WriteHash ==
    /\ Goto("recording", IF IsQcow THEN "finish" ELSE "relaunch")
    /\ hashFile' = job.rehash
    /\ job' = [job EXCEPT !.rehash = NoHash]
    /\ UNCHANGED <<ignition, disk, vm, result>>

(* PID file and vm-state.json (module VmLifecycle), then the VM is left    *)
(* running.                                                                *)
Finish ==
    /\ Goto("finish", "idle")
    /\ result' = "ok"
    /\ UNCHANGED <<ignition, hashFile, disk, vm, job>>

(* Any `?`: an I/O error, a failed goss or clone, a QMP error; dropping    *)
(* the handle kills the VM.                                                *)
Fail == pc # "idle" /\ GiveUp

(* The program is killed: no destructor runs and a VM is left behind.      *)
Crash ==
    /\ pc # "idle"
    /\ pc' = "idle"
    /\ result' = "failed"
    /\ UNCHANGED <<ignition, hashFile, disk, vm, job>>

(* `down`, or the user's kill for a VM without a PID file.                 *)
StopVm ==
    /\ pc = "idle"
    /\ vm # NoVM
    /\ vm' = NoVM
    /\ disk' \in KilledDisk
    /\ UNCHANGED <<ignition, hashFile, job, pc, result>>

-----------------------------------------------------------------------------
UpStep ==
    \/ HashIgnition \/ DropHash \/ DropArtifact
    \/ \E rebuild \in BOOLEAN : CheckCache(rebuild)
    \/ ReuseOverlay \/ CreateOverlay \/ RemoveForClone \/ CopyPart \/ FinishCopy
    \/ Launch \/ Relaunch \/ GuestReady \/ GuestSilent \/ GossPasses
    \/ SaveVm \/ Quit \/ PowerOff \/ TruncateHash \/ WriteHash \/ Finish

Next ==
    \/ \E c \in Configs : EditIgnition(c)
    \/ \E v \in Variants, n \in Names \cup {NoName} : StartUp(v, n)
    \/ UpStep
    \/ Fail
    \/ Crash
    \/ StopVm

Spec == Init /\ [][Next]_vars

(* A run's own steps go on: it awaits nothing but processes that answer or *)
(* are timed out.  Nothing obliges a user to start, stop or edit.          *)
FairSpec == Spec /\ WF_vars(UpStep)

-----------------------------------------------------------------------------
(* Every variable stays within its type.                                   *)
TypeOK ==
    /\ ignition \in Configs
    /\ hashFile \in Configs \cup {NoHash, Torn}
    /\ disk \in [Paths -> Disks]
    /\ vm \in VMs
    /\ job \in Jobs
    /\ pc \in {"idle", "hash", "check", "dropHash", "dropArtifact", "disk",
               "copyLive", "launch", "boot", "goss", "warm", "quit", "clone",
               "copyWarm", "record", "recording", "relaunch", "reboot", "finish"}
    /\ result \in {"none", "ok", "failed"}

(* A snapshot that is_valid accepts for an ignition hash was made by a     *)
(* guest provisioned from that very ignition file: whatever runs, edits    *)
(* and crashes came before, an edited config never gets an old snapshot.   *)
SnapshotFresh ==
    \A v \in Variants, n \in Names, h \in Configs :
        IsValid(v, n, h) => disk[<<v, "cache">>].prov = h

(* A snapshot that is_valid accepts is a complete file: the clone or       *)
(* overlay that a crash cut short is never taken for a snapshot.           *)
AcceptedIsWhole ==
    \A v \in Variants, n \in Names, h \in Configs :
        IsValid(v, n, h) => disk[<<v, "cache">>].form = "whole"

(* A run that found its snapshot valid boots a disk that has it: -loadvm   *)
(* names an existing snapshot, the clone of a warmed disk is not a torn    *)
(* one.                                                                    *)
HitCanBeRestored ==
    pc = "launch" /\ job.valid =>
        /\ disk[Target].form = "whole"
        /\ disk[Target].prov # Blank
        /\ IsQcow => job.name \in disk[Target].snaps

(* A run that rebuilds its snapshot boots a disk that never booted before, *)
(* even when an earlier run crashed anywhere: Ignition runs on first boot  *)
(* only, so a left-over disk would keep the old provisioning.              *)
RebuildBootsFresh ==
    pc = "launch" /\ Snapshots /\ ~job.valid => disk[Target] = FreshDisk

(* `up --snapshot` that returns Ok hands over a guest provisioned from the *)
(* config it hashed at its start, restored and rebuilt guests alike.       *)
ServedConfig ==
    result = "ok" /\ Snapshots /\ vm.state = "ready" => vm.prov = job.hash

(* The hash is recorded only over an artifact this run could restore, so a *)
(* savevm that failed without an error is never recorded.                  *)
RecordOnlyRestorable ==
    [][hashFile' \in Configs /\ hashFile' # hashFile =>
          /\ disk[CachePath].form = "whole"
          /\ IsQcow => job.name \in disk[CachePath].snaps]_vars

KeepsArtifact(v) ==
    LET p == <<v, "cache">> IN
    \A f \in {"form", "prov", "snaps"} : disk'[p][f] = disk[p][f]

(* While the recorded hash stays, what it vouches for stays: invalidation  *)
(* removes the hash before the artifact, and nothing but invalidation      *)
(* removes or rewrites an artifact.                                        *)
VouchedStays ==
    [][hashFile' = hashFile /\ hashFile \in Configs =>
          \A v \in Variants : IsValid(v, job.name, hashFile) => KeepsArtifact(v)]_vars

(* Every run ends, with a VM or with an error.                             *)
RunsEnd == pc # "idle" ~> pc = "idle"

(* A step in which something outside the program goes wrong: an I/O error, *)
(* a crash, a live guest that does not answer, a savevm that saves nothing.*)
Mishap ==
    \/ pc # "idle" /\ result' = "failed" /\ ~(pc \in {"boot", "reboot"} /\ vm = NoVM)
    \/ pc = "warm" /\ IsQcow /\ pc' = "quit" /\ disk' = disk

(* Once mishaps stop, every `up --snapshot` succeeds: nothing that earlier *)
(* crashes left in the work directory can make it fail for ever.           *)
UndisturbedRunsSucceed ==
    <>[][~Mishap]_vars => <>[](pc = "hash" => <>(result = "ok"))

-----------------------------------------------------------------------------
(* Why SnapshotFresh and AcceptedIsWhole hold when the directory is used   *)
(* with one variant, the config is not edited during a run, and removals   *)
(* do not fail.                                                            *)

Cache == disk[CachePath]

(* Steps of a run that rebuilds its snapshot, from the removal of the hash *)
(* file to its creation, and those of them after the first boot.           *)
Rebuilding == /\ Snapshots /\ ~job.valid
              /\ pc \in {"dropArtifact", "disk", "copyLive", "launch", "boot",
                         "goss", "warm", "quit", "clone", "copyWarm", "record",
                         "recording"}
                        \cup (IF IsQcow THEN {"relaunch", "reboot"} ELSE {})

WarmingUp == pc \in {"goss", "warm", "quit", "clone", "copyWarm"}
                    \cup (IF IsQcow THEN {"relaunch", "reboot"} ELSE {})

OneVariantOnly ==
    \A v \in Variants \ {job.variant} : disk[<<v, "cache">>] = AbsentDisk

HashVouches ==
    hashFile \in Configs => Cache.form = "whole" /\ Cache.prov = hashFile

NoHashWhileRebuilding == Rebuilding => hashFile \notin Configs

StepsOfSnapshots ==
    /\ pc \in {"hash", "check", "dropHash", "dropArtifact", "goss", "warm", "quit",
               "clone", "copyWarm", "record", "recording", "relaunch", "reboot"}
          => Snapshots /\ ~job.valid
    /\ ~Snapshots => ~job.valid
    /\ pc = "quit" => IsQcow
    /\ pc \in {"clone", "copyWarm"} => ~IsQcow

(* An overlay is created over a missing one only, which no hash vouches    *)
(* for.                                                                    *)
NoOverlayOverVouched ==
    pc = "copyLive" /\ IsQcow /\ Snapshots => hashFile \notin Configs

(* No run boots a disk of its own rebuild under any other config than the  *)
(* present one.                                                            *)
RebuildsFromIgnition ==
    Rebuilding =>
        /\ pc = "disk" => Cache = AbsentDisk
        /\ pc = "copyLive" /\ IsQcow => Cache.prov = Blank
        /\ pc \in {"launch", "boot"} => disk[Target].prov = Blank
        /\ pc = "boot" /\ vm.state # "off" => vm.config = ignition
        /\ WarmingUp =>
              disk[Target].form = "whole" /\ disk[Target].prov = ignition
        /\ pc \in {"record", "recording"} =>
              Cache.form = "whole" /\ Cache.prov = ignition
        /\ pc = "recording" => job.rehash = ignition

FreshnessInv ==
    /\ TypeOK
    /\ OneVariantOnly
    /\ HashVouches
    /\ NoHashWhileRebuilding
    /\ StepsOfSnapshots
    /\ NoOverlayOverVouched
    /\ RebuildsFromIgnition

-----------------------------------------------------------------------------
(* What the snapshot cache promises its user, in three variables.          *)
Cached == IF hashFile \in Configs /\ \E n \in Names : IsValid(job.variant, n, hashFile)
          THEN hashFile ELSE NoHash

HandedOver == IF result = "ok" /\ Snapshots /\ vm.state = "ready"
              THEN vm.prov ELSE NoHash

Contract == INSTANCE SnapshotContract
    WITH None <- NoHash, config <- ignition, cached <- Cached, guest <- HandedOver

(* The pipeline of file operations, boots and crashes implements the       *)
(* contract: a snapshot appears and disappears in one step, is only ever   *)
(* that of the current config when it appears, and the guest handed over   *)
(* is provisioned from the current config, with its snapshot in the cache. *)
ImplementsContract == Contract!Spec

=============================================================================
