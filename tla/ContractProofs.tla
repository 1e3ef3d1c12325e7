---------------------------- MODULE ContractProofs ----------------------------
(***************************************************************************)
(* What a user of `up --snapshot` gets, proved of UpSnapshot for any       *)
(* configs, names and listings.  In a directory of one variant whose       *)
(* config is not edited during a run, and while removals work, the guest   *)
(* handed over is of the config that was hashed, the pipeline implements   *)
(* SnapshotContract, and a hit has the snapshot it loads.  While removals  *)
(* work, a rebuild boots a fresh disk, and a hash vouches for its snapshot *)
(* as long as it is there.  Without any assumption a hash is recorded over *)
(* a snapshot only.                                                        *)
(***************************************************************************)
EXTENDS UpSnapshotProofs

(* A run knows its config: it is the one the Ignition file has all along.  *)
RunOfConfig ==
    pc # "idle" => /\ result = "none"
                   /\ Snapshots /\ pc # "hash" => job.hash = ignition

(* A run that found its snapshot valid keeps it, and boots its state.      *)
HitIsServed ==
    Snapshots /\ job.valid =>
        /\ pc \in {"disk", "copyLive", "launch", "boot", "finish"} =>
              IsValid(job.variant, job.name, ignition)
        /\ pc \in {"launch", "boot"} => disk[Target].prov = ignition

(* A rebuilt snapshot is there, and recorded, when its guest is served:    *)
(* QEMU's before the hash is written, as the guest is loaded from it,      *)
(* vfkit's guest has the disk that was cloned.                             *)
RebuiltIsServed ==
    Snapshots /\ ~job.valid =>
        /\ IsQcow /\ (pc \in {"record", "recording", "finish"} \/ (pc = "reboot" /\ vm # NoVM)) =>
              job.name \in Cache.snaps
        /\ ~IsQcow /\ pc \in {"record", "recording", "relaunch", "reboot"} =>
              disk[LivePath].prov = ignition
        /\ pc = "finish" \/ (~IsQcow /\ pc \in {"relaunch", "reboot"}) => hashFile = ignition

(* The VM has the state of the disk it runs on.                            *)
VmIsOfDisk ==
    Snapshots /\ vm # NoVM =>
        /\ pc \in {"boot", "reboot"} => vm.prov = disk[Target].prov
        /\ pc = "finish" \/ (IsQcow /\ pc \in {"record", "recording"}) => vm.prov = ignition

ServeInv == RunOfConfig /\ HitIsServed /\ RebuiltIsServed /\ VmIsOfDisk

-----------------------------------------------------------------------------
(* What stays when a step changes the VM and its place only.               *)
LEMMA FrameOfRun ==
    ASSUME UNCHANGED <<hashFile, disk, job>>
    PROVE  /\ Cache' = Cache /\ Target' = Target /\ LivePath' = LivePath
           /\ IsQcow' = IsQcow /\ Snapshots' = Snapshots
           /\ \A h : IsValid(job.variant, job.name, h)' = IsValid(job.variant, job.name, h)
BY DEF Cache, CachePath, LivePath, Target, IsQcow, Snapshots, IsValid, SnapshotExists

(* Between runs nothing is said of a run.                                  *)
LEMMA IdleServes ==
    ASSUME pc' = "idle"
    PROVE  ServeInv'
BY DEF ServeInv, RunOfConfig, HitIsServed, RebuiltIsServed, VmIsOfDisk

LEMMA HitVouched ==
    ASSUME FreshnessInv, IsValid(job.variant, job.name, ignition)
    PROVE  hashFile = ignition /\ Cache.prov = ignition /\ ignition \in Configs
BY DEF FreshnessInv, HashVouches, IsValid, TypeOK

LEMMA BootKeepsSnaps ==
    ASSUME TypeOK, NEW d \in KilledDisk \cup {BootedDisk}, NEW p \in Paths
    PROVE  d[p].snaps = disk[p].snaps /\ d[p].form = disk[p].form
<1>1. disk \in [Paths -> Disks] /\ Target \in Paths
  BY PathsOfRun DEF TypeOK
<1>2. CASE d = disk
  BY <1>2
<1>3. CASE d = BootedDisk
  BY <1>1, <1>3 DEF BootedDisk, Disks
<1> QED
  BY <1>2, <1>3 DEF KilledDisk

LEMMA ServeStep ==
    ASSUME ~MidRunEdits, ~MixVariants, ~RemovalsFail, FreshnessInv, FreshnessInv', ServeInv, [Next]_vars
    PROVE  ServeInv'
<1> TypeOK
  BY DEF FreshnessInv
<1> USE PathsOfRun, SentinelAssumption DEF Goto
<1>1. ASSUME NEW c \in Configs, EditIgnition(c) PROVE ServeInv'
  BY <1>1, IdleServes DEF EditIgnition
<1>2. ASSUME NEW v \in Variants, NEW nm \in Names \cup {NoName}, StartUp(v, nm) PROVE ServeInv'
  BY <1>2 DEF StartUp, NewJob, ServeInv, RunOfConfig, HitIsServed, RebuiltIsServed, VmIsOfDisk, Cache, Snapshots, IsQcow, CachePath, LivePath, Target, IsValid, SnapshotExists
<1>3. CASE HashIgnition
  BY <1>3 DEF HashIgnition, ServeInv, RunOfConfig, HitIsServed, RebuiltIsServed, VmIsOfDisk, Cache, Snapshots, IsQcow, CachePath, LivePath, Target, IsValid, SnapshotExists, TypeOK, Jobs, Disks
<1>4. ASSUME NEW rebuild \in BOOLEAN, CheckCache(rebuild) PROVE ServeInv'
  BY <1>4 DEF CheckCache, ServeInv, RunOfConfig, HitIsServed, RebuiltIsServed, VmIsOfDisk, Cache, Snapshots, IsQcow, CachePath, LivePath, Target, IsValid, SnapshotExists, TypeOK, Jobs
<1>5. CASE DropHash
  BY <1>5 DEF DropHash, ServeInv, RunOfConfig, HitIsServed, RebuiltIsServed, VmIsOfDisk, Cache, Snapshots, IsQcow, CachePath, LivePath, Target, IsValid, SnapshotExists, TypeOK, Jobs, Disks
<1>6. CASE DropArtifact
  <2>1. Snapshots /\ ~job.valid
    BY <1>6 DEF DropArtifact, FreshnessInv, StepsOfSnapshots
  <2> QED
    BY <1>6, <2>1 DEF DropArtifact, ServeInv, RunOfConfig, HitIsServed, RebuiltIsServed, VmIsOfDisk, Snapshots
<1>7. CASE ReuseOverlay
  <2>1. /\ pc = "disk" /\ pc' = "launch" /\ IsQcow
        /\ UNCHANGED <<ignition, hashFile, disk, vm, job, result>>
    BY <1>7 DEF ReuseOverlay
  <2>2. Snapshots /\ job.valid => disk[Target].prov = ignition
    BY <2>1, HitVouched DEF ServeInv, HitIsServed, Target, Cache
  <2> QED
    BY <2>1, <2>2, FrameOfRun DEF ServeInv, RunOfConfig, HitIsServed, RebuiltIsServed, VmIsOfDisk
<1>8. CASE CreateOverlay
  BY <1>8, FrameOfRun DEF CreateOverlay, ServeInv, RunOfConfig, HitIsServed, RebuiltIsServed, VmIsOfDisk
<1>9. CASE RemoveForClone
  BY <1>9 DEF RemoveForClone, ServeInv, RunOfConfig, HitIsServed, RebuiltIsServed, VmIsOfDisk, Cache, Snapshots, IsQcow, CachePath, LivePath, Target, IsValid, SnapshotExists, TypeOK, Jobs, Disks
<1>10. CASE CopyPart
  <2>1. /\ disk' = [disk EXCEPT ![CopyDest] = [AbsentDisk EXCEPT !.form = "partial"]]
        /\ pc \in {"copyLive", "copyWarm"}
        /\ UNCHANGED <<ignition, hashFile, vm, job, pc, result>>
    BY <1>10 DEF CopyPart
  <2>2. /\ CachePath' = CachePath /\ IsQcow' = IsQcow /\ Snapshots' = Snapshots
        /\ LivePath' = LivePath /\ Target' = Target
    BY <2>1 DEF CachePath, LivePath, Target, IsQcow, Snapshots
  <2>3. ASSUME pc = "copyLive", Snapshots, job.valid
        PROVE  IsValid(job.variant, job.name, ignition)'
    <3>1. IsValid(job.variant, job.name, ignition) /\ hashFile \in Configs
      BY <2>3, HitVouched DEF ServeInv, HitIsServed
    <3>2. CopyDest = LivePath
      BY <2>3, <3>1 DEF FreshnessInv, NoOverlayOverVouched, CopyDest, Target
    <3>3. disk'[CachePath] = disk[CachePath]
      BY <2>1, <3>2 DEF TypeOK
    <3> QED
      BY <2>1, <3>1, <3>3 DEF IsValid, CachePath
  <2>4. pc = "copyWarm" => ~job.valid /\ ~IsQcow /\ disk'[LivePath] = disk[LivePath]
    BY <2>1 DEF FreshnessInv, StepsOfSnapshots, CopyDest, TypeOK
  <2> QED
    BY <2>1, <2>2, <2>3, <2>4 DEF ServeInv, RunOfConfig, HitIsServed, RebuiltIsServed, VmIsOfDisk
<1>11. CASE FinishCopy
  <2>1. /\ disk' = [disk EXCEPT ![CopyDest] = CopySource]
        /\ UNCHANGED <<ignition, hashFile, vm, job, result>>
    BY <1>11 DEF FinishCopy
  <2>2. /\ CachePath' = CachePath /\ LivePath' = LivePath /\ Target' = Target
        /\ IsQcow' = IsQcow /\ Snapshots' = Snapshots /\ Cache' = disk'[CachePath]
    BY <2>1 DEF CachePath, LivePath, Target, IsQcow, Snapshots, Cache
  <2>3. CASE pc = "copyLive"
    <3>1. pc' = "launch" /\ CopyDest = Target
      BY <1>11, <2>3 DEF FinishCopy, CopyDest
    <3>2. ASSUME Snapshots, job.valid
          PROVE  /\ IsValid(job.variant, job.name, ignition)'
                 /\ disk'[Target].prov = ignition
      <4>1. /\ IsValid(job.variant, job.name, ignition) /\ hashFile = ignition
            /\ Cache.prov = ignition /\ ignition \in Configs
        BY <2>3, <3>2, HitVouched DEF ServeInv, HitIsServed
      <4>2. ~IsQcow
        BY <2>3, <3>2, <4>1 DEF FreshnessInv, NoOverlayOverVouched
      <4>3. Target = LivePath /\ CopySource = Cache
        BY <2>3, <3>2, <4>2 DEF Target, CopySource, Cache
      <4>4. disk'[CachePath] = disk[CachePath] /\ disk'[LivePath] = Cache
        BY <2>1, <3>1, <4>3 DEF TypeOK
      <4> QED
        BY <2>1, <2>2, <4>1, <4>3, <4>4 DEF IsValid, CachePath
    <3> QED
      BY <2>1, <2>2, <2>3, <3>1, <3>2 DEF ServeInv, RunOfConfig, HitIsServed, RebuiltIsServed, VmIsOfDisk
  <2>4. CASE pc = "copyWarm"
    <3>1. /\ pc' = "record" /\ CopyDest = CachePath /\ CopySource = disk[LivePath]
          /\ Snapshots /\ ~job.valid /\ ~IsQcow
      BY <1>11, <2>4 DEF FinishCopy, CopyDest, CopySource, FreshnessInv, StepsOfSnapshots
    <3>2. disk[LivePath].prov = ignition
      BY <2>4, <3>1 DEF FreshnessInv, RebuildsFromIgnition, Rebuilding, WarmingUp, Target
    <3>3. disk'[LivePath].prov = ignition
      BY <2>1, <3>1, <3>2 DEF TypeOK
    <3> QED
      BY <2>1, <2>2, <2>4, <3>1, <3>3 DEF ServeInv, RunOfConfig, HitIsServed, RebuiltIsServed, VmIsOfDisk
  <2> QED
    BY <1>11, <2>3, <2>4 DEF FinishCopy
<1>12. CASE Launch
  <2>1. /\ pc = "launch" /\ pc' = "boot" /\ LaunchWith(job.valid)
        /\ UNCHANGED <<ignition, hashFile, disk, job, result>>
    BY <1>12 DEF Launch
  <2>2. vm' # NoVM => vm'.prov = disk[Target].prov
    BY <2>1 DEF LaunchWith
  <2> QED
    BY <2>1, <2>2, FrameOfRun DEF ServeInv, RunOfConfig, HitIsServed, RebuiltIsServed, VmIsOfDisk
<1>13. CASE Relaunch
  <2>1. /\ pc = "relaunch" /\ pc' = "reboot" /\ LaunchWith(TRUE)
        /\ UNCHANGED <<ignition, hashFile, disk, job, result>>
    BY <1>13 DEF Relaunch
  <2>2. Snapshots /\ ~job.valid
    BY <2>1 DEF FreshnessInv, StepsOfSnapshots
  <2>3. vm' # NoVM => /\ vm'.prov = disk[Target].prov
                      /\ IsQcow => job.name \in disk[Target].snaps
    BY <2>1 DEF LaunchWith
  <2>4. IsQcow => disk[Target] = Cache
    BY <2>2 DEF Target, Cache
  <2> QED
    BY <2>1, <2>2, <2>3, <2>4, FrameOfRun DEF ServeInv, RunOfConfig, HitIsServed, RebuiltIsServed, VmIsOfDisk
<1>14. CASE GuestReady
  <2>1. /\ pc \in {"boot", "reboot"} /\ disk' = BootedDisk
        /\ vm # NoVM
        /\ UNCHANGED <<ignition, hashFile, job, result>>
    <3>1. vm.state = "booting" => vm # NoVM
      BY DEF NoVM
    <3> QED
      BY <1>14, <3>1 DEF GuestReady
  <2>2. /\ pc = "reboot" => pc' = IF IsQcow THEN "record" ELSE "finish"
        /\ pc = "boot" /\ Snapshots /\ ~job.valid => pc' \in {"goss", "warm"}
        /\ pc = "boot" /\ ~(Snapshots /\ ~job.valid) => pc' = "finish"
    BY <1>14 DEF GuestReady
  <2>3. /\ Target' = Target /\ IsQcow' = IsQcow /\ Snapshots' = Snapshots
        /\ CachePath' = CachePath /\ LivePath' = LivePath /\ Cache' = disk'[CachePath]
    BY <2>1 DEF Target, CachePath, LivePath, IsQcow, Snapshots, Cache
  <2>4. \A p \in Paths : /\ disk'[p].form = disk[p].form /\ disk'[p].snaps = disk[p].snaps
                         /\ disk[p].prov = ignition => disk'[p].prov = ignition
    BY <2>1, BootKeepsSnaps, BootKeepsProvisioned DEF TypeOK
  <2>5. IsValid(job.variant, job.name, ignition) => IsValid(job.variant, job.name, ignition)'
    BY <2>1, <2>3, <2>4 DEF IsValid, SnapshotExists, CachePath
  <2>6. vm.prov = ignition => vm'.prov = ignition
    <3>1. ignition # Blank
      BY DEF TypeOK
    <3> QED
      BY <1>14, <3>1 DEF GuestReady, Provisioned, TypeOK, VMs
  <2>7. CASE pc = "boot"
    <3>1. Snapshots /\ job.valid => vm.prov = ignition
      BY <2>1, <2>7 DEF ServeInv, HitIsServed, VmIsOfDisk
    <3> QED
      BY <2>1, <2>2, <2>3, <2>5, <2>6, <2>7, <3>1 DEF ServeInv, RunOfConfig, HitIsServed, RebuiltIsServed, VmIsOfDisk
  <2>8. CASE pc = "reboot"
    <3>1. Snapshots /\ ~job.valid
      BY <2>8 DEF FreshnessInv, StepsOfSnapshots
    <3>2. disk[Target].prov = ignition
      <4>1. CASE IsQcow
        BY <2>8, <3>1, <4>1 DEF FreshnessInv, RebuildsFromIgnition, Rebuilding, WarmingUp
      <4>2. CASE ~IsQcow
        BY <2>8, <3>1, <4>2 DEF ServeInv, RebuiltIsServed, Target
      <4> QED
        BY <4>1, <4>2
    <3>3. vm'.prov = ignition
      BY <2>1, <2>6, <2>8, <3>1, <3>2 DEF ServeInv, VmIsOfDisk
    <3>4. IsQcow => job.name \in disk'[CachePath].snaps
      BY <2>1, <2>4, <2>8, <3>1 DEF ServeInv, RebuiltIsServed, Cache
    <3> QED
      BY <2>1, <2>2, <2>3, <2>8, <3>1, <3>3, <3>4 DEF ServeInv, RunOfConfig, HitIsServed, RebuiltIsServed, VmIsOfDisk
  <2> QED
    BY <2>1, <2>7, <2>8
<1>15. CASE GossPasses
  BY <1>15, FrameOfRun DEF GossPasses, ServeInv, RunOfConfig, HitIsServed, RebuiltIsServed, VmIsOfDisk
<1>16. CASE SaveVm
  BY <1>16 DEF SaveVm, ServeInv, RunOfConfig, HitIsServed, RebuiltIsServed, VmIsOfDisk, Cache, Snapshots, IsQcow, CachePath, LivePath, Target, IsValid, SnapshotExists, TypeOK, Jobs, Disks
<1>17. CASE Quit
  <2>1. Snapshots /\ ~job.valid /\ IsQcow
    BY <1>17 DEF Quit, FreshnessInv, StepsOfSnapshots
  <2> QED
    BY <1>17, <2>1, FrameOfRun DEF Quit, ServeInv, RunOfConfig, HitIsServed, RebuiltIsServed, VmIsOfDisk
<1>18. CASE PowerOff
  BY <1>18, FrameOfRun DEF PowerOff, ServeInv, RunOfConfig, HitIsServed, RebuiltIsServed, VmIsOfDisk
<1>19. CASE TruncateHash
  BY <1>19 DEF TruncateHash, ServeInv, RunOfConfig, HitIsServed, RebuiltIsServed, VmIsOfDisk, Cache, Snapshots, IsQcow, CachePath, LivePath, Target, IsValid, SnapshotExists, TypeOK, Jobs, Disks
<1>20. CASE WriteHash
  <2>1. /\ pc = "recording" /\ pc' = (IF IsQcow THEN "finish" ELSE "relaunch")
        /\ hashFile' = job.rehash /\ job' = [job EXCEPT !.rehash = NoHash]
        /\ UNCHANGED <<ignition, disk, vm, result>>
    BY <1>20 DEF WriteHash
  <2>2. Snapshots /\ ~job.valid /\ job.rehash = ignition
    BY <2>1 DEF FreshnessInv, StepsOfSnapshots, RebuildsFromIgnition, Rebuilding
  <2>3. /\ job'.variant = job.variant /\ job'.name = job.name /\ job'.valid = job.valid
        /\ job'.hash = job.hash
    BY <2>1 DEF TypeOK, Jobs
  <2>4. /\ Cache' = Cache /\ LivePath' = LivePath /\ Target' = Target
        /\ IsQcow' = IsQcow /\ Snapshots' = Snapshots
    BY <2>1, <2>3 DEF Cache, CachePath, LivePath, Target, IsQcow, Snapshots
  <2> QED
    BY <2>1, <2>2, <2>3, <2>4 DEF ServeInv, RunOfConfig, HitIsServed, RebuiltIsServed, VmIsOfDisk
<1>21. CASE GuestSilent \/ Fail \/ Crash \/ StopVm \/ Finish
  BY <1>21, IdleServes DEF GuestSilent, Fail, GiveUp, Crash, StopVm, Finish
<1>22. CASE UNCHANGED vars
  BY <1>22, FrameOfRun DEF vars, ServeInv, RunOfConfig, HitIsServed, RebuiltIsServed, VmIsOfDisk
<1> QED
  BY <1>1, <1>2, <1>3, <1>4, <1>5, <1>6, <1>7, <1>8, <1>9, <1>10, <1>11, <1>12, <1>13, <1>14, <1>15, <1>16, <1>17, <1>18, <1>19, <1>20, <1>21, <1>22
  DEF Next, UpStep

-----------------------------------------------------------------------------
LEMMA ServeInit ==
    ASSUME Init
    PROVE  ServeInv /\ ServedConfig
BY DEF Init, NewJob, NoVM, Snapshots, ServeInv, RunOfConfig, HitIsServed, RebuiltIsServed,
       VmIsOfDisk, ServedConfig

(* ServedConfig is of the time between two runs.                           *)
LEMMA ServedStep ==
    ASSUME ServeInv, ServeInv', ServedConfig, [Next]_vars
    PROVE  ServedConfig'
<1>1. CASE pc' # "idle"
  BY <1>1 DEF ServeInv, RunOfConfig, ServedConfig
<1>2. CASE Finish
  BY <1>2 DEF Finish, Goto, NoVM, Snapshots, ServeInv, RunOfConfig, VmIsOfDisk, ServedConfig
<1>3. CASE Fail \/ GuestSilent \/ Crash
  BY <1>3 DEF Fail, GuestSilent, GiveUp, Crash, ServedConfig
<1>4. CASE StopVm
  BY <1>4 DEF StopVm, NoVM, ServedConfig
<1>5. CASE \E c \in Configs : EditIgnition(c)
  BY <1>5 DEF EditIgnition, Snapshots, ServedConfig
<1>6. CASE UNCHANGED vars
  BY <1>6 DEF vars, Snapshots, ServedConfig
<1>7. CASE \E v \in Variants, n \in Names \cup {NoName} : StartUp(v, n)
  BY <1>7 DEF StartUp, ServedConfig
<1>8. CASE UpStep /\ ~Finish /\ ~GuestSilent /\ pc' = "idle"
  BY <1>8 DEF UpStep, Goto, HashIgnition, DropHash, DropArtifact, CheckCache, ReuseOverlay,
     CreateOverlay, RemoveForClone, CopyPart, FinishCopy, Launch, Relaunch, GuestReady,
     GossPasses, SaveVm, Quit, PowerOff, TruncateHash, WriteHash
<1> QED
  BY <1>1, <1>2, <1>3, <1>4, <1>5, <1>6, <1>7, <1>8 DEF Next

(* An `up --snapshot` that returns Ok hands over a guest provisioned from  *)
(* the config it hashed, whether it restored its snapshot or rebuilt it.   *)
THEOREM ServedConfigs ==
    ASSUME ~MidRunEdits, ~MixVariants, ~RemovalsFail
    PROVE  Spec => [](ServeInv /\ ServedConfig)
<1>1. Init => ServeInv /\ ServedConfig
  BY ServeInit
<1>2. /\ FreshnessInv /\ FreshnessInv' /\ ServeInv /\ ServedConfig /\ [Next]_vars
      => ServeInv' /\ ServedConfig'
  BY ServeStep, ServedStep
<1> QED
  BY <1>1, <1>2, Freshness, PTL DEF Spec

-----------------------------------------------------------------------------
(* What is cached depends on the hash and on the form and the snapshots of *)
(* the run's artifact.                                                     *)
LEMMA CachedStays ==
    ASSUME UNCHANGED hashFile, job'.variant = job.variant,
           \/ hashFile \notin Configs
           \/ /\ disk'[CachePath].form = disk[CachePath].form
              /\ disk'[CachePath].snaps = disk[CachePath].snaps
    PROVE  Cached' = Cached
BY DEF Cached, IsValid, SnapshotExists, CachePath

(* During a run no guest is handed over.                                   *)
LEMMA GuestOfRun ==
    ASSUME ServeInv
    PROVE  pc # "idle" => HandedOver = NoHash
BY DEF ServeInv, RunOfConfig, HandedOver

LEMMA ContractStep ==
    ASSUME ~MidRunEdits, ~MixVariants, ~RemovalsFail, FreshnessInv, FreshnessInv',
           ServeInv, ServeInv', [Next]_vars
    PROVE  [Contract!Next]_(Contract!contract)
<1> TypeOK
  BY DEF FreshnessInv
<1> USE PathsOfRun, SentinelAssumption DEF Goto
<1> DEFINE Stutters == ignition' = ignition /\ Cached' = Cached /\ HandedOver' = HandedOver
<1>0. Stutters => [Contract!Next]_(Contract!contract)
  BY DEF Contract!contract
<1> HIDE DEF Stutters
<1>1. ASSUME NEW c \in Configs, EditIgnition(c) PROVE Contract!Edit
  <2>1. ignition' \in Configs /\ HandedOver' = HandedOver
    BY <1>1 DEF EditIgnition, HandedOver, Snapshots
  <2>2. Cached' = Cached
    BY <1>1, CachedStays DEF EditIgnition
  <2> QED
    BY <2>1, <2>2 DEF Contract!Edit
<1>2. ASSUME NEW v \in Variants, NEW n \in Names \cup {NoName}, StartUp(v, n)
      PROVE  Contract!Retire
  <2>1. ignition' = ignition /\ HandedOver' = NoHash
    BY <1>2 DEF StartUp, HandedOver
  <2>2. UNCHANGED <<hashFile, disk>> /\ job'.variant = job.variant
    BY <1>2 DEF StartUp, NewJob
  <2>3. Cached' = Cached
    BY <2>2, CachedStays
  <2> QED
    BY <2>1, <2>3 DEF Contract!Retire
<1>3. CASE StopVm
  <2>1. ignition' = ignition /\ HandedOver' = NoHash
    BY <1>3 DEF StopVm, HandedOver, NoVM
  <2>2. disk' \in KilledDisk /\ UNCHANGED <<hashFile, job>>
    BY <1>3 DEF StopVm
  <2>3. Cached' = Cached
    BY <2>2, CachedStays, BootKeepsSnaps
  <2> QED
    BY <2>1, <2>3 DEF Contract!Next, Contract!Retire
<1>4. CASE GuestSilent \/ Fail \/ Crash
  <2>1. ignition' = ignition /\ HandedOver = NoHash /\ HandedOver' = NoHash
    BY <1>4, GuestOfRun DEF GuestSilent, Fail, GiveUp, Crash, HandedOver
  <2>2. disk' \in KilledDisk /\ UNCHANGED <<hashFile, job>>
    BY <1>4 DEF GuestSilent, Fail, GiveUp, Crash, KilledDisk
  <2>3. Cached' = Cached
    BY <2>2, CachedStays, BootKeepsSnaps
  <2> QED
    BY <1>0, <2>1, <2>3 DEF Stutters
<1>5. CASE Finish
  <2>1. /\ pc = "finish" /\ result' = "ok"
        /\ UNCHANGED <<ignition, hashFile, disk, vm, job>>
    BY <1>5 DEF Finish
  <2>2. HandedOver = NoHash /\ Cached' = Cached
    BY <2>1, GuestOfRun, CachedStays
  <2>3. CASE Snapshots /\ vm.state = "ready"
    <3>1. vm.prov = ignition
      BY <2>1, <2>3 DEF ServeInv, VmIsOfDisk, NoVM
    <3>2. HandedOver' = ignition
      BY <2>1, <2>3, <3>1 DEF HandedOver, Snapshots
    <3>3. job.name \in Names
      BY <2>3 DEF Snapshots, TypeOK, Jobs
    <3>4. IsValid(job.variant, job.name, ignition)
      <4>1. CASE job.valid
        BY <2>1, <2>3, <4>1 DEF ServeInv, HitIsServed
      <4>2. CASE ~job.valid
        <5>1. hashFile = ignition
          BY <2>1, <2>3, <4>2 DEF ServeInv, RebuiltIsServed
        <5>2. Cache.form = "whole"
          BY <5>1 DEF FreshnessInv, HashVouches, TypeOK
        <5>3. IsQcow => job.name \in Cache.snaps
          BY <2>1, <2>3, <4>2 DEF ServeInv, RebuiltIsServed
        <5>4. IsQcow => SnapshotExists(Cache, job.name)
          BY <3>3, <5>3, ConstantsAssumption DEF SnapshotExists
        <5> QED
          BY <5>1, <5>2, <5>4 DEF IsValid, IsQcow, Cache, CachePath
      <4> QED
        BY <4>1, <4>2
    <3>5. hashFile = ignition /\ ignition \in Configs
      BY <3>4 DEF IsValid, TypeOK
    <3>6. Cached = ignition
      BY <3>3, <3>4, <3>5 DEF Cached
    <3> QED
      BY <2>1, <2>2, <3>2, <3>6 DEF Contract!Next, Contract!HandOver
  <2>4. CASE ~(Snapshots /\ vm.state = "ready")
    <3>1. HandedOver' = NoHash
      BY <2>1, <2>4 DEF HandedOver, Snapshots
    <3> QED
      BY <1>0, <2>1, <2>2, <3>1 DEF Stutters
  <2> QED
    BY <2>3, <2>4
<1>6. CASE UNCHANGED vars
  <2>1. Cached' = Cached
    BY <1>6, CachedStays DEF vars
  <2> QED
    BY <1>0, <1>6, <2>1 DEF Stutters, vars, HandedOver, Snapshots
<1>7. CASE UpStep /\ ~GuestSilent /\ ~Finish
  <2>1. /\ pc # "idle" /\ pc' # "idle" /\ ignition' = ignition
        /\ job'.variant = job.variant
    BY <1>7 DEF UpStep, HashIgnition, DropHash, DropArtifact, CheckCache, ReuseOverlay,
       CreateOverlay, RemoveForClone, CopyPart, FinishCopy, Launch, Relaunch, GuestReady,
       GossPasses, SaveVm, Quit, PowerOff, TruncateHash, WriteHash, TypeOK, Jobs
  <2>2. HandedOver = NoHash /\ HandedOver' = NoHash
    BY <2>1, GuestOfRun DEF ServeInv, RunOfConfig, HandedOver
  <2>3. CASE DropHash
    <3>1. Cached' = NoHash
      BY <2>3 DEF DropHash, Cached
    <3> QED
      BY <2>1, <2>2, <3>1 DEF Contract!Next, Contract!Invalidate
  <2>4. CASE TruncateHash \/ WriteHash
    <3>1. hashFile \notin Configs
      BY <2>4 DEF TruncateHash, WriteHash, FreshnessInv, NoHashWhileRebuilding, Rebuilding,
         StepsOfSnapshots
    <3>2. Cached = NoHash
      BY <3>1 DEF Cached
    <3>3. hashFile' \in {Torn, ignition}
      BY <2>4 DEF TruncateHash, WriteHash, FreshnessInv, RebuildsFromIgnition, Rebuilding,
         StepsOfSnapshots
    <3>4. Cached' \in {NoHash, ignition}
      BY <3>3 DEF Cached
    <3> QED
      BY <1>0, <2>1, <2>2, <3>2, <3>4 DEF Stutters, Contract!Next, Contract!Fill
  <2>5. CASE DropArtifact \/ RemoveForClone \/ CopyPart \/ FinishCopy \/ SaveVm
    <3>1. UNCHANGED hashFile
      BY <2>5 DEF DropArtifact, RemoveForClone, CopyPart, FinishCopy, SaveVm
    <3>2. hashFile \in Configs => disk'[CachePath] = disk[CachePath]
      BY <2>5 DEF DropArtifact, RemoveForClone, CopyPart, FinishCopy, SaveVm, CopyDest, Target,
         FreshnessInv, NoHashWhileRebuilding, Rebuilding, StepsOfSnapshots,
         NoOverlayOverVouched, TypeOK
    <3>3. Cached' = Cached
      BY <2>1, <3>1, <3>2, CachedStays
    <3> QED
      BY <1>0, <2>1, <2>2, <3>3 DEF Stutters
  <2>6. CASE GuestReady
    <3>1. UNCHANGED hashFile /\ disk' = BootedDisk
      BY <2>6 DEF GuestReady
    <3>2. Cached' = Cached
      BY <2>1, <3>1, CachedStays, BootKeepsSnaps
    <3> QED
      BY <1>0, <2>1, <2>2, <3>2 DEF Stutters
  <2>7. CASE \/ HashIgnition \/ \E rebuild \in BOOLEAN : CheckCache(rebuild)
             \/ ReuseOverlay \/ CreateOverlay \/ Launch \/ Relaunch \/ GossPasses
             \/ Quit \/ PowerOff
    <3>1. UNCHANGED <<hashFile, disk>>
      BY <2>7 DEF HashIgnition, CheckCache, ReuseOverlay, CreateOverlay, Launch, Relaunch,
         GossPasses, Quit, PowerOff
    <3>2. Cached' = Cached
      BY <2>1, <3>1, CachedStays
    <3> QED
      BY <1>0, <2>1, <2>2, <3>2 DEF Stutters
  <2> QED
    BY <1>7, <2>3, <2>4, <2>5, <2>6, <2>7 DEF UpStep
<1> QED
  BY <1>1, <1>2, <1>3, <1>4, <1>5, <1>6, <1>7 DEF Next, Contract!Next

(* The file operations, boots, failures and kills of the pipeline add up   *)
(* to steps of SnapshotContract or to none: a snapshot appears at once and *)
(* is that of the current config, and is in the cache when its guest is    *)
(* handed over.                                                            *)
THEOREM Refinement ==
    ASSUME ~MidRunEdits, ~MixVariants, ~RemovalsFail
    PROVE  Spec => ImplementsContract
<1>1. Init => Contract!Init
  BY SentinelAssumption DEF Init, Contract!Init, Cached, HandedOver
<1>2. /\ FreshnessInv /\ FreshnessInv' /\ ServeInv /\ ServeInv' /\ [Next]_vars
      => [Contract!Next]_(Contract!contract)
  BY ContractStep
<1>3. Spec => [](FreshnessInv /\ ServeInv)
  BY Freshness, ServedConfigs, PTL
<1> QED
  BY <1>1, <1>2, <1>3, PTL DEF Spec, ImplementsContract, Contract!Spec

-----------------------------------------------------------------------------
(* From here on the config may be edited during a run, and the directory   *)
(* used with several variants, which have disks of their own and share     *)
(* snapshot.hash.                                                          *)

(* A rebuild starts from no artifact.                                      *)
EmptyBeforeRebuild == Snapshots /\ ~job.valid /\ pc = "disk" => Cache = AbsentDisk

(* What is saved or cloned is a complete disk that has booted.             *)
WarmIsWhole ==
    pc \in {"goss", "warm", "clone", "copyWarm"} =>
        disk[Target].form = "whole" /\ disk[Target].prov # Blank

(* ... and so is what the hash is recorded over; QEMU's guest was loaded   *)
(* from its snapshot, which therefore exists.                              *)
RecordedIsWhole ==
    /\ pc \in {"record", "recording"} => Cache.form = "whole"
    /\ IsQcow /\ (pc \in {"record", "recording"} \/ (pc = "reboot" /\ vm # NoVM)) =>
          job.name \in Cache.snaps

(* A disk with snapshots is complete and has booted.                       *)
SnapsOfGuests ==
    \A p \in Paths : disk[p].snaps # {} => disk[p].form = "whole" /\ disk[p].prov # Blank

(* An overlay that is being created has none.                              *)
OverlayIsEmpty == pc = "copyLive" /\ IsQcow => disk[Target].snaps = {}

(* A guest has a config to be provisioned from.                            *)
VmOfConfig == vm.state # "off" => vm.config # Blank

(* What a rebuild comes to, whichever removals fail.                       *)
RecordInv == StepsOfSnapshots /\ VmOfConfig /\ WarmIsWhole /\ RecordedIsWhole

ArtifactInv ==
    /\ RecordInv /\ NoHashWhileRebuilding
    /\ EmptyBeforeRebuild /\ RebuildBootsFresh
    /\ SnapsOfGuests /\ OverlayIsEmpty

LEMMA StepsStep ==
    ASSUME TypeOK, StepsOfSnapshots, [Next]_vars
    PROVE  StepsOfSnapshots'
<1> USE DEF Goto, StepsOfSnapshots, Snapshots, IsQcow, TypeOK, Jobs
<1>1. CASE HashIgnition \/ TruncateHash \/ WriteHash
  BY <1>1 DEF HashIgnition, TruncateHash, WriteHash
<1>2. CASE \E rebuild \in BOOLEAN : CheckCache(rebuild)
  BY <1>2 DEF CheckCache
<1>3. CASE \E v \in Variants, n \in Names \cup {NoName} : StartUp(v, n)
  BY <1>3 DEF StartUp, NewJob
<1>4. CASE Fail \/ Crash \/ StopVm \/ GuestSilent \/ Finish
  BY <1>4 DEF Fail, GiveUp, Crash, StopVm, GuestSilent, Finish
<1>5. CASE \/ DropHash \/ DropArtifact \/ ReuseOverlay \/ CreateOverlay \/ RemoveForClone
           \/ CopyPart \/ FinishCopy \/ Launch \/ Relaunch
  BY <1>5 DEF DropHash, DropArtifact, ReuseOverlay, CreateOverlay, RemoveForClone, CopyPart,
     FinishCopy, Launch, Relaunch
<1>6. CASE GuestReady \/ GossPasses \/ SaveVm \/ Quit \/ PowerOff
  BY <1>6 DEF GuestReady, GossPasses, SaveVm, Quit, PowerOff
<1>7. CASE \E c \in Configs : EditIgnition(c)
  BY <1>7 DEF EditIgnition
<1>8. CASE UNCHANGED vars
  BY <1>8 DEF vars
<1> QED
  BY <1>1, <1>2, <1>3, <1>4, <1>5, <1>6, <1>7, <1>8 DEF Next, UpStep

(* From the removal of the hash to its creation the run has none.          *)
LEMMA NoHashStep ==
    ASSUME ~RemovalsFail, TypeOK, StepsOfSnapshots, NoHashWhileRebuilding, [Next]_vars
    PROVE  NoHashWhileRebuilding'
<1> USE SentinelAssumption DEF Goto, StepsOfSnapshots, NoHashWhileRebuilding, Rebuilding, Snapshots, IsQcow, TypeOK, Jobs
<1>1. CASE HashIgnition \/ TruncateHash \/ WriteHash
  BY <1>1 DEF HashIgnition, TruncateHash, WriteHash
<1>2. CASE \E rebuild \in BOOLEAN : CheckCache(rebuild)
  BY <1>2 DEF CheckCache
<1>3. CASE \E v \in Variants, n \in Names \cup {NoName} : StartUp(v, n)
  BY <1>3 DEF StartUp, NewJob
<1>4. CASE Fail \/ Crash \/ StopVm \/ GuestSilent \/ Finish
  BY <1>4 DEF Fail, GiveUp, Crash, StopVm, GuestSilent, Finish
<1>5. CASE \/ DropHash \/ DropArtifact \/ ReuseOverlay \/ CreateOverlay \/ RemoveForClone
           \/ CopyPart \/ FinishCopy \/ Launch \/ Relaunch
  BY <1>5 DEF DropHash, DropArtifact, ReuseOverlay, CreateOverlay, RemoveForClone, CopyPart,
     FinishCopy, Launch, Relaunch
<1>6. CASE GuestReady \/ GossPasses \/ SaveVm \/ Quit \/ PowerOff
  BY <1>6 DEF GuestReady, GossPasses, SaveVm, Quit, PowerOff
<1>7. CASE \E c \in Configs : EditIgnition(c)
  BY <1>7 DEF EditIgnition
<1>8. CASE UNCHANGED vars
  BY <1>8 DEF vars
<1> QED
  BY <1>1, <1>2, <1>3, <1>4, <1>5, <1>6, <1>7, <1>8 DEF Next, UpStep

(* A run comes to its disk after the artifact was dropped, or it found its *)
(* snapshot valid, or wants none.                                          *)
LEMMA EmptyStep ==
    ASSUME ~RemovalsFail, TypeOK, StepsOfSnapshots, EmptyBeforeRebuild, [Next]_vars
    PROVE  EmptyBeforeRebuild'
<1> USE DEF Goto, EmptyBeforeRebuild, Snapshots, TypeOK, Jobs
<1>1. CASE pc' # "disk"
  BY <1>1
<1>2. CASE DropArtifact
  BY <1>2, PathsOfRun DEF DropArtifact, Cache, CachePath
<1>3. CASE \E rebuild \in BOOLEAN : CheckCache(rebuild)
  BY <1>3 DEF CheckCache
<1>4. CASE \E v \in Variants, n \in Names \cup {NoName} : StartUp(v, n)
  BY <1>4 DEF StartUp, NewJob
<1>5. CASE UNCHANGED <<pc, disk, job>>
  BY <1>5 DEF Cache, CachePath
<1>6. CASE \E c \in Configs : EditIgnition(c)
  BY <1>5, <1>6 DEF EditIgnition
<1>7. CASE Fail \/ Crash \/ StopVm
  BY <1>1, <1>7 DEF Fail, GiveUp, Crash, StopVm
<1>8. CASE UpStep /\ pc' = "disk" /\ ~DropArtifact /\ ~\E rebuild \in BOOLEAN : CheckCache(rebuild)
  BY <1>8 DEF UpStep, HashIgnition, DropHash, ReuseOverlay, CreateOverlay,
     RemoveForClone, CopyPart, FinishCopy, Launch, Relaunch, GuestReady, GuestSilent, GiveUp,
     GossPasses, SaveVm, Quit, PowerOff, TruncateHash, WriteHash, Finish
<1> QED
  BY <1>1, <1>2, <1>3, <1>4, <1>5, <1>6, <1>7, <1>8 DEF Next, vars

LEMMA RebuildStep ==
    ASSUME ~RemovalsFail, TypeOK, EmptyBeforeRebuild, RebuildBootsFresh, [Next]_vars
    PROVE  RebuildBootsFresh'
<1> USE PathsOfRun DEF Goto
<1>1. CASE pc' # "launch"
  BY <1>1 DEF RebuildBootsFresh
<1>2. CASE ReuseOverlay
  <2>1. disk[Target].form # "absent" /\ pc = "disk" /\ IsQcow /\ UNCHANGED job
    BY <1>2 DEF ReuseOverlay
  <2>2. ~(Snapshots /\ ~job.valid)
    BY <2>1 DEF EmptyBeforeRebuild, Cache, Target, AbsentDisk
  <2> QED
    BY <2>1, <2>2 DEF RebuildBootsFresh, Snapshots
<1>3. CASE FinishCopy /\ pc = "copyLive"
  <2>1. /\ disk' = [disk EXCEPT ![Target] = CopySource] /\ UNCHANGED job
    BY <1>3 DEF FinishCopy, CopyDest
  <2>2. ~job.valid => CopySource = FreshDisk
    BY <1>3 DEF CopySource
  <2>3. Target' = Target /\ disk'[Target] = CopySource
    BY <2>1 DEF Target, IsQcow, Snapshots, CachePath, LivePath, TypeOK
  <2> QED
    BY <2>1, <2>2, <2>3 DEF RebuildBootsFresh
<1>4. CASE UNCHANGED <<pc, disk, job>>
  BY <1>4 DEF RebuildBootsFresh, Target, IsQcow, Snapshots, CachePath, LivePath
<1>5. CASE \E c \in Configs : EditIgnition(c)
  BY <1>4, <1>5 DEF EditIgnition
<1>6. CASE UpStep /\ ~ReuseOverlay /\ pc' = "launch" /\ ~(FinishCopy /\ pc = "copyLive")
  BY <1>6 DEF UpStep, HashIgnition, DropHash, DropArtifact, CheckCache, CreateOverlay,
     RemoveForClone, CopyPart, FinishCopy, Launch, Relaunch, GuestReady, GuestSilent, GiveUp,
     GossPasses, SaveVm, Quit, PowerOff, TruncateHash, WriteHash, Finish
<1>7. CASE \/ Fail \/ Crash \/ StopVm
           \/ \E v \in Variants, n \in Names \cup {NoName} : StartUp(v, n)
  BY <1>1, <1>7 DEF Fail, GiveUp, Crash, StopVm, StartUp
<1> QED
  BY <1>1, <1>2, <1>3, <1>4, <1>5, <1>6, <1>7 DEF Next, vars

(* Paths depend on the run's arguments only.                               *)
LEMMA SamePaths ==
    ASSUME UNCHANGED job \/ (job'.variant = job.variant /\ job'.name = job.name)
    PROVE  /\ Target' = Target /\ CachePath' = CachePath /\ LivePath' = LivePath
           /\ IsQcow' = IsQcow /\ Snapshots' = Snapshots
BY DEF Target, CachePath, LivePath, IsQcow, Snapshots

LEMMA BootProvisions ==
    ASSUME TypeOK, NEW d \in KilledDisk \cup {BootedDisk}, NEW p \in Paths, disk[p].prov # Blank
    PROVE  d[p].prov = disk[p].prov
<1>1. CASE d = disk
  BY <1>1
<1>2. CASE d = BootedDisk
  BY <1>2, PathsOfRun DEF BootedDisk, Provisioned, TypeOK, Disks
<1> QED
  BY <1>1, <1>2 DEF KilledDisk

LEMMA VmStep ==
    ASSUME TypeOK, VmOfConfig, [Next]_vars
    PROVE  VmOfConfig'
<1> USE SentinelAssumption DEF Goto, VmOfConfig, TypeOK, VMs, NoVM
<1>1. CASE UNCHANGED vm
  BY <1>1
<1>2. CASE Launch \/ Relaunch
  BY <1>2 DEF Launch, Relaunch, LaunchWith
<1>3. CASE GuestReady
  BY <1>3 DEF GuestReady
<1>4. CASE Fail \/ GuestSilent \/ StopVm \/ Quit \/ PowerOff
  BY <1>4 DEF Fail, GuestSilent, GiveUp, StopVm, Quit, PowerOff
<1>5. CASE Next /\ ~(Launch \/ Relaunch \/ GuestReady \/ Fail \/ GuestSilent \/ StopVm \/ Quit \/ PowerOff)
  BY <1>1, <1>5 DEF Next, UpStep, EditIgnition, StartUp, HashIgnition, DropHash, DropArtifact, CheckCache, ReuseOverlay,
     CreateOverlay, RemoveForClone, CopyPart, FinishCopy, GossPasses, SaveVm, TruncateHash, WriteHash, Finish, Crash
<1> QED
  BY <1>1, <1>2, <1>3, <1>4, <1>5 DEF vars

LEMMA OverlayStep ==
    ASSUME ~RemovalsFail, TypeOK, SnapsOfGuests, OverlayIsEmpty, [Next]_vars
    PROVE  OverlayIsEmpty'
<1> USE PathsOfRun DEF Goto, OverlayIsEmpty
<1>1. CASE pc' # "copyLive"
  BY <1>1
<1>2. CASE CreateOverlay
  <2>1. disk[Target].snaps = {}
    BY <1>2 DEF CreateOverlay, SnapsOfGuests
  <2> QED
    BY <1>2, <2>1, SamePaths DEF CreateOverlay
<1>3. CASE RemoveForClone /\ pc' = "copyLive"
  BY <1>3, SamePaths DEF RemoveForClone
<1>4. CASE CopyPart /\ pc = "copyLive"
  <2>1. disk' = [disk EXCEPT ![Target] = [AbsentDisk EXCEPT !.form = "partial"]] /\ UNCHANGED <<pc, job>>
    BY <1>4 DEF CopyPart, CopyDest
  <2>2. disk'[Target].snaps = {}
    BY <2>1 DEF TypeOK, AbsentDisk
  <2> QED
    BY <2>1, <2>2, SamePaths
<1>5. CASE UNCHANGED <<pc, disk, job>>
  BY <1>5, SamePaths
<1>6. CASE \E c \in Configs : EditIgnition(c)
  BY <1>5, <1>6 DEF EditIgnition
<1>7. CASE \/ Fail \/ Crash \/ StopVm
           \/ \E v \in Variants, n \in Names \cup {NoName} : StartUp(v, n)
  BY <1>1, <1>7 DEF Fail, GiveUp, Crash, StopVm, StartUp
<1>8. CASE UpStep /\ pc' = "copyLive" /\ ~CreateOverlay /\ ~RemoveForClone /\ ~CopyPart
  BY <1>8 DEF UpStep, HashIgnition, DropHash, DropArtifact, CheckCache, ReuseOverlay,
     FinishCopy, Launch, Relaunch, GuestReady, GuestSilent, GiveUp,
     GossPasses, SaveVm, Quit, PowerOff, TruncateHash, WriteHash, Finish
<1> QED
  BY <1>1, <1>2, <1>3, <1>4, <1>5, <1>6, <1>7, <1>8 DEF Next, vars, CopyPart

LEMMA SnapsStep ==
    ASSUME ~RemovalsFail, TypeOK, WarmIsWhole, SnapsOfGuests, [Next]_vars
    PROVE  SnapsOfGuests'
<1> USE PathsOfRun DEF SnapsOfGuests
<1>1. CASE disk' = disk
  BY <1>1
<1>2. CASE disk' \in KilledDisk \/ GuestReady
  <2>1. disk' \in KilledDisk \cup {BootedDisk}
    BY <1>2 DEF GuestReady
  <2>2. \A p \in Paths : /\ disk'[p].snaps = disk[p].snaps /\ disk'[p].form = disk[p].form
                         /\ disk[p].prov # Blank => disk'[p].prov = disk[p].prov
    BY <2>1, BootKeepsSnaps, BootProvisions
  <2> QED
    BY <2>2
<1>3. CASE DropArtifact \/ RemoveForClone
  <2>1. PICK q \in Paths : disk' = [disk EXCEPT ![q] = AbsentDisk]
    BY <1>3 DEF DropArtifact, RemoveForClone
  <2> QED
    BY <2>1 DEF AbsentDisk, TypeOK
<1>4. CASE CopyPart
  <2>1. CopyDest \in Paths
    BY DEF CopyDest
  <2>2. disk' = [disk EXCEPT ![CopyDest] = [AbsentDisk EXCEPT !.form = "partial"]]
    BY <1>4 DEF CopyPart
  <2>3. disk'[CopyDest].snaps = {}
    BY <2>1, <2>2 DEF TypeOK, AbsentDisk
  <2> QED
    BY <2>2, <2>3 DEF TypeOK
<1>5. CASE FinishCopy
  <2>1. CopyDest \in Paths /\ disk' = [disk EXCEPT ![CopyDest] = CopySource]
    BY <1>5 DEF FinishCopy, CopyDest
  <2>2. CopySource.snaps # {} => CopySource.form = "whole" /\ CopySource.prov # Blank
    BY DEF CopySource, FreshDisk, AbsentDisk
  <2> QED
    BY <2>1, <2>2 DEF TypeOK
<1>6. CASE SaveVm
  <2>1. disk[Target].form = "whole" /\ disk[Target].prov # Blank
    BY <1>6 DEF SaveVm, Goto, WarmIsWhole
  <2>2. \A p \in Paths : /\ disk'[p].form = disk[p].form
                         /\ disk'[p].prov = disk[p].prov
                         /\ p # Target => disk'[p] = disk[p]
    BY <1>6 DEF SaveVm, TypeOK, Disks
  <2> QED
    BY <2>1, <2>2
<1>7. CASE Fail \/ GuestSilent \/ StopVm
  BY <1>2, <1>7 DEF Fail, GuestSilent, GiveUp, StopVm
<1>8. CASE Next /\ ~\/ DropArtifact \/ RemoveForClone \/ CopyPart \/ FinishCopy \/ SaveVm
                    \/ GuestReady \/ Fail \/ GuestSilent \/ StopVm
  BY <1>1, <1>8 DEF Next, UpStep, EditIgnition, StartUp, HashIgnition, DropHash, CheckCache,
     ReuseOverlay, CreateOverlay, Launch, Relaunch, GossPasses, Quit, PowerOff, TruncateHash,
     WriteHash, Finish, Crash
<1> QED
  BY <1>1, <1>2, <1>3, <1>4, <1>5, <1>6, <1>7, <1>8 DEF vars

LEMMA WarmStep ==
    ASSUME TypeOK, StepsOfSnapshots, VmOfConfig, WarmIsWhole, [Next]_vars
    PROVE  WarmIsWhole'
<1> USE PathsOfRun DEF Goto, WarmIsWhole
<1>1. CASE pc' \notin {"goss", "warm", "clone", "copyWarm"}
  BY <1>1
<1>2. CASE GuestReady
  <2>1. disk[Target].form = "whole" /\ disk' = BootedDisk /\ vm.state = "booting" /\ UNCHANGED job
    BY <1>2 DEF GuestReady
  <2>2. disk'[Target].form = "whole" /\ disk'[Target].prov # Blank
    BY <2>1 DEF BootedDisk, Provisioned, VmOfConfig, TypeOK, Disks
  <2> QED
    BY <2>1, <2>2, SamePaths
<1>3. CASE GossPasses \/ PowerOff \/ \E c \in Configs : EditIgnition(c)
  BY <1>3, SamePaths DEF GossPasses, PowerOff, EditIgnition
<1>4. CASE (RemoveForClone \/ CopyPart) /\ pc \in {"clone", "copyWarm"}
  <2>1. Target = LivePath
    BY <1>4 DEF StepsOfSnapshots, Target
  <2>2. disk'[LivePath] = disk[LivePath] /\ UNCHANGED job
    BY <1>4 DEF RemoveForClone, CopyPart, CopyDest, TypeOK
  <2> QED
    BY <1>4, <2>1, <2>2, SamePaths
<1>5. CASE UNCHANGED vars
  BY <1>5, SamePaths DEF vars
<1>6. CASE \/ Fail \/ Crash \/ StopVm
           \/ \E v \in Variants, n \in Names \cup {NoName} : StartUp(v, n)
  BY <1>1, <1>6 DEF Fail, GiveUp, Crash, StopVm, StartUp
<1>7. CASE UpStep /\ pc' \in {"goss", "warm", "clone", "copyWarm"}
             /\ ~(GuestReady \/ GossPasses \/ PowerOff) /\ ~((RemoveForClone \/ CopyPart) /\ pc \in {"clone", "copyWarm"})
  BY <1>7 DEF UpStep, HashIgnition, DropHash, DropArtifact, CheckCache, ReuseOverlay, CreateOverlay, RemoveForClone,
     CopyPart, FinishCopy, Launch, Relaunch, GuestSilent, GiveUp, SaveVm, Quit, TruncateHash, WriteHash, Finish
<1> QED
  BY <1>1, <1>2, <1>3, <1>4, <1>5, <1>6, <1>7 DEF Next

LEMMA RecordedStep ==
    ASSUME TypeOK, StepsOfSnapshots, WarmIsWhole, RecordedIsWhole, [Next]_vars
    PROVE  RecordedIsWhole'
<1> USE PathsOfRun DEF Goto, RecordedIsWhole
<1>1. CASE pc' \notin {"record", "recording", "reboot"}
  BY <1>1
<1>2. CASE FinishCopy /\ pc = "copyWarm"
  <2>1. ~IsQcow /\ ~job.valid /\ disk[LivePath].form = "whole"
    BY <1>2 DEF StepsOfSnapshots, WarmIsWhole, Target
  <2>2. CopyDest = CachePath /\ CopySource = disk[LivePath]
    BY <1>2, <2>1 DEF CopyDest, CopySource
  <2>3. disk'[CachePath] = disk[LivePath] /\ UNCHANGED job
    BY <1>2, <2>2 DEF FinishCopy, TypeOK
  <2> QED
    BY <1>2, <2>1, <2>3, SamePaths DEF Cache, FinishCopy
<1>3. CASE Relaunch
  <2>1. pc' = "reboot" /\ UNCHANGED <<disk, job>> /\ LaunchWith(TRUE) /\ Snapshots
    BY <1>3 DEF Relaunch, StepsOfSnapshots
  <2>2. IsQcow /\ vm' # NoVM => job.name \in Cache.snaps
    BY <2>1 DEF LaunchWith, Target, Cache
  <2> QED
    BY <2>1, <2>2, SamePaths DEF Cache
<1>4. CASE GuestReady
  <2>1. /\ pc' # "reboot" /\ pc' # "recording"
        /\ pc' = "record" => pc = "reboot" /\ IsQcow
        /\ vm # NoVM /\ disk[Target].form = "whole" /\ disk' = BootedDisk /\ UNCHANGED job
    BY <1>4 DEF GuestReady, NoVM
  <2>2. disk'[CachePath].form = Cache.form /\ disk'[CachePath].snaps = Cache.snaps
    BY <2>1, BootKeepsSnaps DEF Cache
  <2>3. pc = "reboot" /\ IsQcow => Target = CachePath
    BY DEF StepsOfSnapshots, Target
  <2> QED
    BY <2>1, <2>2, <2>3, SamePaths DEF Cache
<1>5. CASE TruncateHash
  <2>1. pc = "record" /\ UNCHANGED <<disk, vm>> /\ job'.variant = job.variant /\ job'.name = job.name
    BY <1>5 DEF TruncateHash, TypeOK, Jobs
  <2> QED
    BY <1>5, <2>1, SamePaths DEF Cache, TruncateHash
<1>6. CASE UNCHANGED vars \/ \E c \in Configs : EditIgnition(c)
  BY <1>6, SamePaths DEF vars, EditIgnition, Cache
<1>7. CASE \/ Fail \/ Crash \/ StopVm
           \/ \E v \in Variants, n \in Names \cup {NoName} : StartUp(v, n)
  BY <1>1, <1>7 DEF Fail, GiveUp, Crash, StopVm, StartUp
<1>8. CASE UpStep /\ pc' \in {"record", "recording", "reboot"}
             /\ ~(Relaunch \/ GuestReady \/ TruncateHash) /\ ~(FinishCopy /\ pc = "copyWarm")
  BY <1>8 DEF UpStep, HashIgnition, DropHash, DropArtifact, CheckCache, ReuseOverlay, CreateOverlay, RemoveForClone,
     CopyPart, FinishCopy, Launch, GuestSilent, GiveUp, GossPasses, SaveVm, Quit, PowerOff, WriteHash, Finish
<1> QED
  BY <1>1, <1>2, <1>3, <1>4, <1>5, <1>6, <1>7, <1>8 DEF Next

(* Whatever is edited, whichever variants are used and whatever cannot be  *)
(* removed, the steps of a rebuild come to a disk that is complete and has *)
(* booted.                                                                 *)
THEOREM RebuildsCorrect == Spec => []RecordInv
<1>1. Init => RecordInv
  BY DEF Init, NewJob, NoVM, Snapshots, RecordInv, StepsOfSnapshots, WarmIsWhole, RecordedIsWhole, VmOfConfig
<1>2. TypeOK /\ RecordInv /\ [Next]_vars => RecordInv'
  BY StepsStep, VmStep, WarmStep, RecordedStep DEF RecordInv
<1> QED
  BY <1>1, <1>2, TypeCorrect, PTL DEF Spec

(* While removals work, the artifacts and the steps of a rebuild stay in   *)
(* the other relations too.                                                *)
THEOREM ArtifactsCorrect ==
    ASSUME ~RemovalsFail
    PROVE  Spec => []ArtifactInv
<1>1. Init => NoHashWhileRebuilding /\ EmptyBeforeRebuild /\ RebuildBootsFresh /\ SnapsOfGuests /\ OverlayIsEmpty
  BY PathsOfRun DEF Init, NewJob, Snapshots, AbsentDisk, NoHashWhileRebuilding, Rebuilding,
     EmptyBeforeRebuild, RebuildBootsFresh, SnapsOfGuests, OverlayIsEmpty
<1>2. Init /\ RecordInv => ArtifactInv
  BY <1>1 DEF ArtifactInv
<1>3. TypeOK /\ RecordInv' /\ ArtifactInv /\ [Next]_vars => ArtifactInv'
  BY NoHashStep, EmptyStep, RebuildStep, OverlayStep, SnapsStep DEF ArtifactInv, RecordInv
<1> QED
  BY <1>2, <1>3, TypeCorrect, RebuildsCorrect, PTL DEF Spec

(* A run that rebuilds its snapshot boots a disk that never booted, even   *)
(* after a run that was killed anywhere: Ignition runs on first boots only.*)
THEOREM FreshRebuilds ==
    ASSUME ~RemovalsFail
    PROVE  Spec => []RebuildBootsFresh
<1>1. ArtifactInv => RebuildBootsFresh
  BY DEF ArtifactInv
<1> QED
  BY <1>1, ArtifactsCorrect, PTL

-----------------------------------------------------------------------------
(* The actions of RecordOnlyRestorable and VouchedStays.                   *)
RecordStep ==
    hashFile' \in Configs /\ hashFile' # hashFile =>
        /\ disk[CachePath].form = "whole"
        /\ IsQcow => job.name \in disk[CachePath].snaps

VouchedStep ==
    hashFile' = hashFile /\ hashFile \in Configs =>
        \A v \in Variants : IsValid(v, job.name, hashFile) => KeepsArtifact(v)

(* Only the last step of a rebuild writes a hash.                          *)
LEMMA HashWriters ==
    ASSUME [Next]_vars, hashFile' \in Configs, hashFile' # hashFile
    PROVE  WriteHash
<1> USE SentinelAssumption
<1>1. ~UNCHANGED vars
  BY DEF vars
<1>2. ~(Fail \/ Crash \/ StopVm)
  BY DEF Fail, GiveUp, Crash, StopVm
<1>3. ~\E c \in Configs : EditIgnition(c)
  BY DEF EditIgnition
<1>4. ~\E v \in Variants, n \in Names \cup {NoName} : StartUp(v, n)
  BY DEF StartUp
<1>5. UpStep => WriteHash
  BY DEF UpStep, HashIgnition, DropHash, DropArtifact, CheckCache, ReuseOverlay, CreateOverlay,
     RemoveForClone, CopyPart, FinishCopy, Launch, Relaunch, GuestReady, GuestSilent, GiveUp,
     GossPasses, SaveVm, Quit, PowerOff, TruncateHash, Finish
<1> QED
  BY <1>1, <1>2, <1>3, <1>4, <1>5 DEF Next

LEMMA RecordsRestorable ==
    ASSUME RecordInv, [Next]_vars
    PROVE  RecordStep
<1> SUFFICES ASSUME hashFile' \in Configs, hashFile' # hashFile
             PROVE  /\ disk[CachePath].form = "whole"
                    /\ IsQcow => job.name \in disk[CachePath].snaps
  BY DEF RecordStep
<1>1. pc = "recording"
  BY HashWriters DEF WriteHash, Goto
<1> QED
  BY <1>1 DEF RecordInv, RecordedIsWhole, Cache

(* Which disks a step writes.                                              *)
LEMMA DiskWriters ==
    ASSUME [Next]_vars
    PROVE  \/ disk' = disk \/ disk' \in KilledDisk \cup {BootedDisk}
           \/ DropArtifact \/ RemoveForClone \/ CopyPart \/ FinishCopy \/ SaveVm
<1>1. CASE UpStep
  BY <1>1 DEF UpStep, HashIgnition, DropHash, CheckCache, ReuseOverlay, CreateOverlay, Launch,
     Relaunch, GuestReady, GuestSilent, GiveUp, GossPasses, Quit, PowerOff, TruncateHash,
     WriteHash, Finish
<1>2. CASE Fail \/ Crash \/ StopVm
  BY <1>2 DEF Fail, GiveUp, Crash, StopVm
<1>3. CASE \/ \E c \in Configs : EditIgnition(c)
           \/ \E v \in Variants, n \in Names \cup {NoName} : StartUp(v, n)
  BY <1>3 DEF EditIgnition, StartUp
<1>4. CASE UNCHANGED vars
  BY <1>4 DEF vars
<1> QED
  BY <1>1, <1>2, <1>3, <1>4 DEF Next

LEMMA KeepsVouched ==
    ASSUME ~RemovalsFail, TypeOK, ArtifactInv, [Next]_vars
    PROVE  VouchedStep
<1> USE PathsOfRun
<1> SUFFICES ASSUME hashFile' = hashFile, hashFile \in Configs,
                    NEW v \in Variants, IsValid(v, job.name, hashFile)
             PROVE  KeepsArtifact(v)
  BY DEF VouchedStep
<1> DEFINE p == <<v, "cache">>
<1>1. p \in Paths /\ p # LivePath /\ disk[p].form # "absent"
      /\ (v \in QcowVariants => disk[p].snaps # {})
  BY DEF IsValid, SnapshotExists, Paths, LivePath
<1>2. (p = CachePath \/ p = Target) => v = job.variant
  BY DEF CachePath, LivePath, Target
<1>3. disk'[p] = disk[p] => KeepsArtifact(v)
  BY DEF KeepsArtifact
<1>4. ~Rebuilding
  BY DEF ArtifactInv, NoHashWhileRebuilding
<1> HIDE DEF p
<1>5. CASE disk' \in KilledDisk \cup {BootedDisk}
  <2>1. disk'[p].snaps = disk[p].snaps /\ disk'[p].form = disk[p].form
    BY <1>1, <1>5, BootKeepsSnaps
  <2>2. disk'[p].prov = disk[p].prov
    <3>1. CASE v \in QcowVariants
      BY <1>1, <1>5, <3>1, BootProvisions DEF ArtifactInv, SnapsOfGuests
    <3>2. CASE v \notin QcowVariants
      <4>1. p # Target
        BY <1>1, <1>2, <3>2 DEF Target, IsQcow
      <4> QED
        BY <1>1, <1>5, <4>1 DEF KilledDisk, BootedDisk, TypeOK
    <3> QED
      BY <3>1, <3>2
  <2> QED
    BY <2>1, <2>2 DEF KeepsArtifact, p
<1>6. CASE DropArtifact
  BY <1>4, <1>6 DEF DropArtifact, Goto, Rebuilding, ArtifactInv, RecordInv, StepsOfSnapshots
<1>7. CASE RemoveForClone
  <2>1. pc = "disk"
    BY <1>4, <1>7 DEF RemoveForClone, Goto, Rebuilding, ArtifactInv, RecordInv, StepsOfSnapshots
  <2> QED
    BY <1>1, <1>3, <1>7, <2>1 DEF RemoveForClone, TypeOK
<1>8. CASE SaveVm
  BY <1>4, <1>8 DEF SaveVm, Goto, Rebuilding, ArtifactInv, RecordInv, StepsOfSnapshots
<1>9. CASE CopyPart \/ FinishCopy
  <2>1. pc = "copyLive" /\ CopyDest = Target
    BY <1>4, <1>9 DEF CopyPart, FinishCopy, CopyDest, Goto, Rebuilding, ArtifactInv, RecordInv, StepsOfSnapshots
  <2>2. p # Target
    <3>1. CASE IsQcow
      BY <1>1, <1>2, <2>1, <3>1 DEF ArtifactInv, OverlayIsEmpty, IsQcow
    <3>2. CASE ~IsQcow
      BY <1>1, <3>2 DEF Target
    <3> QED
      BY <3>1, <3>2
  <2> QED
    BY <1>1, <1>3, <1>9, <2>1, <2>2 DEF CopyPart, FinishCopy, TypeOK
<1> QED
  BY <1>3, <1>5, <1>6, <1>7, <1>8, <1>9, DiskWriters

(* snapshot.hash is written over an artifact that can be restored only;    *)
(* edits during a run, other variants and files that cannot be removed     *)
(* make no difference.                                                     *)
THEOREM RecordedHashes == Spec => RecordOnlyRestorable
<1>1. RecordInv /\ [Next]_vars => RecordStep
  BY RecordsRestorable
<1>2. Spec => [][RecordStep]_vars
  BY <1>1, RebuildsCorrect, PTL DEF Spec
<1> QED
  BY <1>2 DEF RecordOnlyRestorable, RecordStep

(* What a hash vouches for is not changed while the hash is there, by no   *)
(* step of up, not even one that fails half-way.                           *)
THEOREM VouchedArtifacts ==
    ASSUME ~RemovalsFail
    PROVE  Spec => VouchedStays
<1>1. TypeOK /\ ArtifactInv /\ [Next]_vars => VouchedStep
  BY KeepsVouched
<1>2. Spec => [][VouchedStep]_vars
  BY <1>1, ArtifactsCorrect, TypeCorrect, PTL DEF Spec
<1> QED
  BY <1>2 DEF VouchedStays, VouchedStep

-----------------------------------------------------------------------------
(* The listing shows the name asked for if there is a snapshot of that     *)
(* very name, not one of a longer name.                                    *)
NamesTellApart == \A n, m \in Names : <<n, m>> \in Listed => n = m

(* A run that found its snapshot valid has a complete disk when it boots.  *)
HitIsWhole == pc = "launch" /\ job.valid => disk[Target].form = "whole"

LEMMA HitStep ==
    ASSUME FreshnessInv, ServeInv, HitIsWhole, [Next]_vars
    PROVE  HitIsWhole'
<1> USE PathsOfRun DEF Goto
<1> TypeOK
  BY DEF FreshnessInv
<1>0. job.valid /\ pc \in {"disk", "copyLive"} => Cache.form = "whole"
  BY HitVouched DEF ServeInv, HitIsServed, FreshnessInv, StepsOfSnapshots, HashVouches
<1>1. CASE pc' # "launch"
  BY <1>1 DEF HitIsWhole
<1>2. CASE ReuseOverlay
  <2>1. pc = "disk" /\ IsQcow /\ UNCHANGED <<disk, job>>
    BY <1>2 DEF ReuseOverlay
  <2>2. job.valid => Target = CachePath
    BY <2>1 DEF FreshnessInv, StepsOfSnapshots, Target
  <2> QED
    BY <1>0, <2>1, <2>2, SamePaths DEF HitIsWhole, Cache
<1>3. CASE FinishCopy /\ pc = "copyLive"
  <2>1. /\ disk' = [disk EXCEPT ![Target] = CopySource] /\ UNCHANGED job
    BY <1>3 DEF FinishCopy, CopyDest
  <2>2. job.valid => CopySource.form = "whole"
    BY <1>0, <1>3 DEF CopySource, Cache, FreshDisk, AbsentDisk
  <2>3. disk'[Target] = CopySource
    BY <2>1 DEF TypeOK
  <2> QED
    BY <2>1, <2>2, <2>3, SamePaths DEF HitIsWhole
<1>4. CASE UNCHANGED <<pc, disk, job>>
  BY <1>4, SamePaths DEF HitIsWhole
<1>5. CASE \E c \in Configs : EditIgnition(c)
  BY <1>4, <1>5 DEF EditIgnition
<1>6. CASE UpStep /\ ~ReuseOverlay /\ pc' = "launch" /\ ~(FinishCopy /\ pc = "copyLive")
  BY <1>6 DEF UpStep, HashIgnition, DropHash, DropArtifact, CheckCache, CreateOverlay,
     RemoveForClone, CopyPart, FinishCopy, Launch, Relaunch, GuestReady, GuestSilent, GiveUp,
     GossPasses, SaveVm, Quit, PowerOff, TruncateHash, WriteHash, Finish
<1>7. CASE \/ Fail \/ Crash \/ StopVm
           \/ \E v \in Variants, n \in Names \cup {NoName} : StartUp(v, n)
  BY <1>1, <1>7 DEF Fail, GiveUp, Crash, StopVm, StartUp
<1> QED
  BY <1>1, <1>2, <1>3, <1>4, <1>5, <1>6, <1>7 DEF Next, vars

(* A run that found its snapshot valid boots a disk that has it: QEMU's    *)
(* -loadvm names a snapshot that exists, vfkit's clone is complete.        *)
THEOREM RestoredHits ==
    ASSUME ~MidRunEdits, ~MixVariants, ~RemovalsFail, NamesTellApart
    PROVE  Spec => []HitCanBeRestored
<1>1. Init => HitIsWhole
  BY DEF Init, HitIsWhole
<1>2. FreshnessInv /\ ServeInv /\ HitIsWhole /\ [Next]_vars => HitIsWhole'
  BY HitStep
<1>3. FreshnessInv /\ ServeInv /\ HitIsWhole => HitCanBeRestored
  <2> SUFFICES ASSUME FreshnessInv, ServeInv, HitIsWhole, pc = "launch", job.valid
               PROVE  /\ disk[Target].form = "whole"
                      /\ disk[Target].prov # Blank
                      /\ IsQcow => job.name \in disk[Target].snaps
    BY DEF HitCanBeRestored
  <2>1. Snapshots /\ TypeOK
    BY DEF FreshnessInv, StepsOfSnapshots
  <2>2. IsValid(job.variant, job.name, ignition) /\ disk[Target].prov = ignition
    BY <2>1 DEF ServeInv, HitIsServed
  <2>3. ASSUME IsQcow
        PROVE  job.name \in disk[Target].snaps
    <3>1. Target = CachePath /\ job.name \in Names
      BY <2>1, <2>3 DEF Target, Snapshots, TypeOK, Jobs
    <3>2. PICK m \in disk[CachePath].snaps : <<job.name, m>> \in Listed
      BY <2>2, <2>3 DEF IsValid, SnapshotExists, IsQcow, CachePath
    <3>3. m \in Names
      BY <2>1, <3>2, PathsOfRun DEF Disks
    <3> QED
      BY <3>1, <3>2, <3>3 DEF NamesTellApart
  <2>4. ignition # Blank
    BY <2>1, SentinelAssumption DEF TypeOK
  <2> QED
    BY <2>2, <2>3, <2>4 DEF HitIsWhole
<1> QED
  BY <1>1, <1>2, <1>3, Freshness, ServedConfigs, PTL DEF Spec

=============================================================================
