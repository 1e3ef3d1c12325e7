--------------------------- MODULE UpSnapshotProofs ---------------------------
(***************************************************************************)
(* Theorems of UpSnapshot: its type correctness, and that a snapshot       *)
(* accepted for a config is a complete one made from that config, for any  *)
(* number of configs, names and variants.                                  *)
(***************************************************************************)
EXTENDS UpSnapshot, TLAPS

(* What a guest's boot does to a disk keeps the disks well-typed.          *)
LEMMA BootedDiskType ==
    ASSUME TypeOK
    PROVE  /\ BootedDisk \in [Paths -> Disks]
           /\ \A d \in KilledDisk : d \in [Paths -> Disks]
<1>1. Target \in Paths
  BY DEF TypeOK, Target, CachePath, LivePath, Paths, Jobs
<1>2. disk[Target] \in Disks
  BY <1>1 DEF TypeOK
<1>3. Provisioned(disk[Target].prov) \in Configs \cup {Blank}
  BY <1>2 DEF TypeOK, Disks, VMs, Provisioned
<1>4. BootedDisk = [disk EXCEPT ![Target] =
                       [disk[Target] EXCEPT !.prov = Provisioned(disk[Target].prov)]]
  BY <1>1, <1>2 DEF TypeOK, BootedDisk, Disks
<1>5. [disk[Target] EXCEPT !.prov = Provisioned(disk[Target].prov)] \in Disks
  BY <1>2, <1>3 DEF Disks
<1>6. BootedDisk \in [Paths -> Disks]
  BY <1>4, <1>5 DEF TypeOK
<1> QED
  BY <1>6 DEF KilledDisk, TypeOK

(* Paths of the current run.                                               *)
LEMMA PathsOfRun ==
    ASSUME TypeOK
    PROVE  /\ CachePath \in Paths
           /\ LivePath \in Paths
           /\ CachePath # LivePath
           /\ Target \in {CachePath, LivePath}
           /\ job.variant \in Variants
           /\ disk[CachePath] \in Disks
           /\ disk[LivePath] \in Disks
BY DEF TypeOK, Target, CachePath, LivePath, Paths, Jobs

LEMMA FixedDisks == AbsentDisk \in Disks /\ FreshDisk \in Disks
BY DEF AbsentDisk, FreshDisk, Disks

LEMMA CopySourceType ==
    ASSUME TypeOK
    PROVE  CopySource \in Disks
BY PathsOfRun, FixedDisks DEF CopySource

(* TypeOK alone is not inductive: savevm adds the run's name to a disk, so *)
(* the run must have one.                                                  *)
WarmingNames == pc \in {"goss", "warm"} => job.name \in Names

LEMMA WarmingNamesStep ==
    ASSUME TypeOK, WarmingNames, [Next]_vars
    PROVE  WarmingNames'
<1> USE DEF Goto, WarmingNames
<1>1. CASE GuestReady
  BY <1>1 DEF GuestReady, TypeOK, Jobs, Snapshots
<1>2. CASE GossPasses
  BY <1>2 DEF GossPasses
<1>3. CASE \E c \in Configs : EditIgnition(c)
  BY <1>3 DEF EditIgnition
<1>4. CASE UNCHANGED vars
  BY <1>4 DEF vars
<1>5. CASE \E v \in Variants, n \in Names \cup {NoName} : StartUp(v, n)
  BY <1>5 DEF StartUp
<1>6. CASE UpStep /\ ~GuestReady /\ ~GossPasses
  BY <1>6 DEF UpStep, HashIgnition, DropHash, DropArtifact, CheckCache, ReuseOverlay,
     CreateOverlay, RemoveForClone, CopyPart, FinishCopy, Launch, Relaunch,
     GuestSilent, GiveUp, SaveVm, Quit, PowerOff, TruncateHash, WriteHash, Finish
<1>7. CASE Fail \/ Crash \/ StopVm
  BY <1>7 DEF Fail, GiveUp, Crash, StopVm
<1> QED
  BY <1>1, <1>2, <1>3, <1>4, <1>5, <1>6, <1>7 DEF Next

(* Every variable keeps its type, whatever the constants.                  *)
THEOREM TypeCorrect == Spec => []TypeOK
<1>1. Init => TypeOK /\ WarmingNames
  BY ConstantsAssumption, FixedDisks
     DEF Init, TypeOK, NewJob, Jobs, NoVM, VMs, WarmingNames
<1>2. TypeOK /\ WarmingNames /\ [Next]_vars => TypeOK' /\ WarmingNames'
  <2> SUFFICES ASSUME TypeOK, WarmingNames, [Next]_vars PROVE TypeOK'
    BY WarmingNamesStep
  <2> USE DEF TypeOK, Goto
  <2>1. ASSUME NEW c \in Configs, EditIgnition(c) PROVE TypeOK'
    BY <2>1 DEF EditIgnition
  <2>2. ASSUME NEW v \in Variants, NEW n \in Names \cup {NoName}, StartUp(v, n)
        PROVE  TypeOK'
    BY <2>2 DEF StartUp, NewJob, Jobs
  <2>3. CASE HashIgnition
    BY <2>3 DEF HashIgnition, Jobs
  <2>4. ASSUME NEW rebuild \in BOOLEAN, CheckCache(rebuild) PROVE TypeOK'
    <3> DEFINE valid == ~rebuild /\ IsValid(job.variant, job.name, job.hash)
    <3>1. valid \in BOOLEAN
      BY DEF IsValid
    <3>2. job' \in Jobs
      BY <2>4, <3>1 DEF CheckCache, Jobs
    <3> QED
      BY <2>4, <3>2 DEF CheckCache
  <2>5. CASE DropHash
    BY <2>5 DEF DropHash
  <2>6. CASE DropArtifact
    BY <2>6, PathsOfRun, FixedDisks DEF DropArtifact
  <2>7. CASE ReuseOverlay
    BY <2>7 DEF ReuseOverlay
  <2>8. CASE CreateOverlay
    BY <2>8 DEF CreateOverlay
  <2>9. CASE RemoveForClone
    BY <2>9, PathsOfRun, FixedDisks DEF RemoveForClone
  <2>10. CASE CopyPart
    <3>1. CopyDest \in Paths /\ disk[CopyDest] \in Disks
      BY PathsOfRun DEF CopyDest
    <3>2. [AbsentDisk EXCEPT !.form = "partial"] \in Disks
      BY DEF AbsentDisk, Disks
    <3> QED
      BY <2>10, <3>1, <3>2 DEF CopyPart
  <2>11. CASE FinishCopy
    <3>1. CopyDest \in Paths
      BY PathsOfRun DEF CopyDest
    <3> QED
      BY <2>11, <3>1, CopySourceType DEF FinishCopy
  <2>12. CASE Launch
    <3>1. disk[Target] \in Disks
      BY PathsOfRun
    <3> QED
      BY <2>12, <3>1 DEF Launch, LaunchWith, VMs, NoVM, Disks
  <2>13. CASE Relaunch
    <3>1. disk[Target] \in Disks
      BY PathsOfRun
    <3> QED
      BY <2>13, <3>1 DEF Relaunch, LaunchWith, VMs, NoVM, Disks
  <2>14. CASE GuestReady
    <3>1. vm' \in VMs
      BY <2>14 DEF GuestReady, VMs, Provisioned
    <3>2. pc' \in {"record", "finish", "goss", "warm"}
      BY <2>14 DEF GuestReady
    <3> QED
      BY <2>14, <3>1, <3>2, BootedDiskType DEF GuestReady
  <2>15. CASE GuestSilent \/ Fail
    BY <2>15, BootedDiskType DEF GuestSilent, Fail, GiveUp, NoVM, VMs
  <2>16. CASE GossPasses
    BY <2>16 DEF GossPasses
  <2>17. CASE SaveVm
    <3>1. Target \in Paths /\ disk[Target] \in Disks
      BY PathsOfRun
    <3>2. CASE disk' = disk
      BY <2>17, <3>2 DEF SaveVm
    <3>3. CASE disk' = [disk EXCEPT ![Target].snaps = @ \cup {job.name}]
      <4>1. job.name \in Names
        BY <2>17 DEF SaveVm, WarmingNames
      <4>2. [disk[Target] EXCEPT !.snaps = @ \cup {job.name}] \in Disks
        BY <3>1, <4>1 DEF Disks
      <4> QED
        BY <2>17, <3>1, <3>3, <4>2 DEF SaveVm
    <3> QED
      BY <2>17, <3>2, <3>3 DEF SaveVm
  <2>18. CASE Quit
    BY <2>18 DEF Quit, NoVM, VMs
  <2>19. CASE PowerOff
    BY <2>19 DEF PowerOff, NoVM, VMs
  <2>20. CASE TruncateHash
    BY <2>20 DEF TruncateHash, Jobs
  <2>21. CASE WriteHash
    BY <2>21 DEF WriteHash, Jobs
  <2>22. CASE Finish
    BY <2>22 DEF Finish
  <2>23. CASE Crash
    BY <2>23 DEF Crash
  <2>24. CASE StopVm
    BY <2>24, BootedDiskType DEF StopVm, NoVM, VMs
  <2>25. CASE UNCHANGED vars
    BY <2>25 DEF vars
  <2> QED
    BY <2>1, <2>2, <2>3, <2>4, <2>5, <2>6, <2>7, <2>8, <2>9, <2>10, <2>11, <2>12,
       <2>13, <2>14, <2>15, <2>16, <2>17, <2>18, <2>19, <2>20, <2>21, <2>22,
       <2>23, <2>24, <2>25 DEF Next, UpStep
<1> QED
  BY <1>1, <1>2, PTL DEF Spec

-----------------------------------------------------------------------------
(* A guest's boot never provisions a disk again.                           *)
LEMMA BootKeepsProvisioned ==
    ASSUME TypeOK, NEW d \in KilledDisk \cup {BootedDisk}, NEW p \in Paths
    PROVE  /\ d[p].form = disk[p].form
           /\ disk[p].prov # Blank => d[p].prov = disk[p].prov
           /\ p # Target => d[p] = disk[p]
           /\ d[Target].prov \in {disk[Target].prov, Provisioned(disk[Target].prov)}
<1>1. disk \in [Paths -> Disks] /\ Target \in Paths
  BY PathsOfRun DEF TypeOK
<1>2. CASE d = disk
  BY <1>1, <1>2
<1>3. CASE d = BootedDisk
  BY <1>1, <1>3 DEF BootedDisk, Provisioned, Disks
<1> QED
  BY <1>2, <1>3 DEF KilledDisk

(* Boots, killed guests and stops disturb neither the vouched artifact nor *)
(* the other variants' absent ones.                                        *)
LEMMA BootKeepsVouched ==
    ASSUME TypeOK, OneVariantOnly, HashVouches,
           disk' \in KilledDisk \cup {BootedDisk},
           job' = job, hashFile' = hashFile
    PROVE  OneVariantOnly' /\ HashVouches'
<1>1. CachePath' = CachePath /\ Cache' = disk'[CachePath]
  BY DEF CachePath, Cache
<1>2. HashVouches'
  BY <1>1, BootKeepsProvisioned, PathsOfRun, SentinelAssumption
     DEF HashVouches, Cache
<1>3. ASSUME NEW v \in Variants \ {job.variant}
      PROVE  disk'[<<v, "cache">>] = AbsentDisk
  <2>1. <<v, "cache">> \in Paths /\ <<v, "cache">> # Target
    BY DEF Paths, Target, CachePath, LivePath
  <2> QED
    BY <2>1, BootKeepsProvisioned DEF OneVariantOnly
<1> QED
  BY <1>2, <1>3 DEF OneVariantOnly

(* A run that ends, or a VM that is stopped, leaves a sound directory.     *)
LEMMA IdleIsFresh ==
    ASSUME FreshnessInv, TypeOK', disk' \in KilledDisk,
           job' = job, hashFile' = hashFile, pc' = "idle"
    PROVE  FreshnessInv'
<1>1. OneVariantOnly' /\ HashVouches'
  BY BootKeepsVouched DEF FreshnessInv
<1>2. Snapshots' = Snapshots
  BY DEF Snapshots
<1>3. StepsOfSnapshots'
  BY <1>2 DEF FreshnessInv, StepsOfSnapshots
<1>4. ~Rebuilding'
  BY DEF Rebuilding
<1>5. NoHashWhileRebuilding' /\ RebuildsFromIgnition' /\ NoOverlayOverVouched'
  BY <1>4 DEF NoHashWhileRebuilding, RebuildsFromIgnition, NoOverlayOverVouched
<1> QED
  BY <1>1, <1>3, <1>5 DEF FreshnessInv

(* A step that leaves disks, hash and arguments alone preserves what is    *)
(* said of them.                                                           *)
LEMMA FrameIsFresh ==
    ASSUME FreshnessInv, UNCHANGED <<hashFile, disk, job>>
    PROVE  /\ OneVariantOnly' /\ HashVouches'
           /\ Cache' = Cache /\ Target' = Target
           /\ IsQcow' = IsQcow /\ Snapshots' = Snapshots
BY DEF FreshnessInv, OneVariantOnly, HashVouches, Cache, CachePath, LivePath,
       Target, IsQcow, Snapshots

(* Each step of a run with one variant, no edit and no failing removal     *)
(* preserves FreshnessInv.                                                 *)
LEMMA FreshnessStep ==
    ASSUME ~MidRunEdits, ~MixVariants, ~RemovalsFail, FreshnessInv, TypeOK', [Next]_vars
    PROVE  FreshnessInv'
<1> TypeOK
  BY DEF FreshnessInv
<1> USE PathsOfRun, SentinelAssumption DEF Goto
<1>1. ASSUME NEW c \in Configs, EditIgnition(c) PROVE FreshnessInv'
  BY <1>1, FrameIsFresh
  DEF EditIgnition, FreshnessInv, NoHashWhileRebuilding, StepsOfSnapshots,
     NoOverlayOverVouched, RebuildsFromIgnition, Rebuilding
<1>2. ASSUME NEW v \in Variants, NEW n \in Names \cup {NoName}, StartUp(v, n)
      PROVE  FreshnessInv'
  BY <1>2
  DEF StartUp, NewJob, FreshnessInv, OneVariantOnly, HashVouches, NoHashWhileRebuilding,
     StepsOfSnapshots, NoOverlayOverVouched, RebuildsFromIgnition, Rebuilding,
     WarmingUp, Cache, Snapshots, IsQcow, CachePath, LivePath, Target
<1>3. CASE HashIgnition
  BY <1>3
  DEF HashIgnition, FreshnessInv, OneVariantOnly, HashVouches, NoHashWhileRebuilding,
     StepsOfSnapshots, NoOverlayOverVouched, RebuildsFromIgnition, Rebuilding,
     WarmingUp, Cache, Snapshots, IsQcow, CachePath, LivePath, Target, TypeOK, Jobs
<1>4. ASSUME NEW rebuild \in BOOLEAN, CheckCache(rebuild) PROVE FreshnessInv'
  BY <1>4
  DEF CheckCache, FreshnessInv, OneVariantOnly, HashVouches, NoHashWhileRebuilding,
     StepsOfSnapshots, NoOverlayOverVouched, RebuildsFromIgnition, Rebuilding,
     WarmingUp, Cache, Snapshots, IsQcow, CachePath, LivePath, Target, TypeOK, Jobs
<1>5. CASE DropHash
  BY <1>5
  DEF DropHash, FreshnessInv, OneVariantOnly, HashVouches, NoHashWhileRebuilding,
     StepsOfSnapshots, NoOverlayOverVouched, RebuildsFromIgnition, Rebuilding,
     WarmingUp, Cache, Snapshots, IsQcow, CachePath, LivePath, Target
<1>6. CASE DropArtifact
  <2>1. disk' = [disk EXCEPT ![CachePath] = AbsentDisk]
    BY <1>6 DEF DropArtifact
  <2>2. pc = "dropArtifact" /\ pc' = "disk" /\ UNCHANGED <<ignition, hashFile, vm, job, result>>
    BY <1>6 DEF DropArtifact
  <2> QED
    BY <2>1, <2>2
    DEF FreshnessInv, OneVariantOnly, HashVouches, NoHashWhileRebuilding,
       StepsOfSnapshots, NoOverlayOverVouched, RebuildsFromIgnition, Rebuilding,
       WarmingUp, Cache, Snapshots, IsQcow, CachePath, LivePath, Target, TypeOK, Paths, Disks, AbsentDisk,
       FreshDisk, CopyDest, CopySource
<1>7. CASE ReuseOverlay
  <2>1. pc = "disk" /\ IsQcow /\ disk[Target].form # "absent"
    BY <1>7 DEF ReuseOverlay
  <2>2. UNCHANGED <<ignition, hashFile, disk, vm, job>> /\ pc' = "launch"
    BY <1>7 DEF ReuseOverlay
  <2>3. ~Rebuilding
    BY <2>1 DEF Rebuilding, FreshnessInv, RebuildsFromIgnition, Cache, Target,
       AbsentDisk
  <2>4. ~Rebuilding'
    BY <2>1, <2>2, <2>3, FrameIsFresh DEF Rebuilding
  <2> QED
    BY <2>1, <2>2, <2>4, FrameIsFresh
    DEF FreshnessInv, NoHashWhileRebuilding, StepsOfSnapshots,
       NoOverlayOverVouched, RebuildsFromIgnition
<1>8. CASE CreateOverlay
  <2>1. pc = "disk" /\ IsQcow /\ disk[Target].form = "absent"
    BY <1>8 DEF CreateOverlay
  <2>2. UNCHANGED <<ignition, hashFile, disk, vm, job>> /\ pc' = "copyLive"
    BY <1>8 DEF CreateOverlay
  <2>3. Rebuilding' = Rebuilding
    BY <2>1, <2>2, FrameIsFresh DEF Rebuilding
  <2>4. NoOverlayOverVouched'
    BY <2>1, <2>2, FrameIsFresh
    DEF NoOverlayOverVouched, FreshnessInv, HashVouches, Cache, Target
  <2>5. RebuildsFromIgnition'
    <3>1. Rebuilding => disk[CachePath] = AbsentDisk
      BY <2>1 DEF RebuildsFromIgnition, FreshnessInv, Cache
    <3>2. Rebuilding => Cache'.prov = Blank
      BY <2>2, <3>1 DEF AbsentDisk, Cache, CachePath
    <3>3. ~WarmingUp' /\ pc' = "copyLive"
      BY <2>2 DEF WarmingUp
    <3> QED
      BY <2>3, <3>2, <3>3 DEF RebuildsFromIgnition
  <2> QED
    BY <2>1, <2>2, <2>3, <2>4, <2>5, FrameIsFresh
    DEF FreshnessInv, NoHashWhileRebuilding, StepsOfSnapshots
<1>9. CASE RemoveForClone
  BY <1>9
  DEF RemoveForClone, FreshnessInv, OneVariantOnly, HashVouches, NoHashWhileRebuilding,
     StepsOfSnapshots, NoOverlayOverVouched, RebuildsFromIgnition, Rebuilding,
     WarmingUp, Cache, Snapshots, IsQcow, CachePath, LivePath, Target, TypeOK, Paths, Disks, AbsentDisk,
     FreshDisk, CopyDest, CopySource
<1>10. CASE CopyPart
  BY <1>10
  DEF CopyPart, FreshnessInv, OneVariantOnly, HashVouches, NoHashWhileRebuilding,
     StepsOfSnapshots, NoOverlayOverVouched, RebuildsFromIgnition, Rebuilding,
     WarmingUp, Cache, Snapshots, IsQcow, CachePath, LivePath, Target, TypeOK, Paths, Disks, AbsentDisk,
     FreshDisk, CopyDest, CopySource
<1>11. CASE FinishCopy
  BY <1>11
  DEF FinishCopy, FreshnessInv, OneVariantOnly, HashVouches, NoHashWhileRebuilding,
     StepsOfSnapshots, NoOverlayOverVouched, RebuildsFromIgnition, Rebuilding,
     WarmingUp, Cache, Snapshots, IsQcow, CachePath, LivePath, Target, TypeOK, Paths, Disks, AbsentDisk,
     FreshDisk, CopyDest, CopySource
<1>12. CASE Launch
  BY <1>12
  DEF Launch, FreshnessInv, OneVariantOnly, HashVouches, NoHashWhileRebuilding,
     StepsOfSnapshots, NoOverlayOverVouched, RebuildsFromIgnition, Rebuilding,
     WarmingUp, Cache, Snapshots, IsQcow, CachePath, LivePath, Target, LaunchWith, NoVM
<1>13. CASE Relaunch
  BY <1>13
  DEF Relaunch, FreshnessInv, OneVariantOnly, HashVouches, NoHashWhileRebuilding,
     StepsOfSnapshots, NoOverlayOverVouched, RebuildsFromIgnition, Rebuilding,
     WarmingUp, Cache, Snapshots, IsQcow, CachePath, LivePath, Target, LaunchWith, NoVM
<1>14. CASE GuestReady
  <2>1. /\ pc \in {"boot", "reboot"} /\ disk' = BootedDisk
        /\ disk[Target].form = "whole" /\ vm.state = "booting"
        /\ UNCHANGED <<ignition, hashFile, job>>
    BY <1>14 DEF GuestReady
  <2>2. pc = "reboot" => pc' = IF IsQcow THEN "record" ELSE "finish"
    BY <1>14 DEF GuestReady
  <2>3. /\ pc = "boot" /\ Snapshots /\ ~job.valid => pc' \in {"goss", "warm"}
        /\ pc = "boot" /\ ~(Snapshots /\ ~job.valid) => pc' = "finish"
    BY <1>14 DEF GuestReady
  <2>4. OneVariantOnly' /\ HashVouches'
    BY <2>1, BootKeepsVouched DEF FreshnessInv
  <2>5. /\ Target' = Target /\ IsQcow' = IsQcow /\ Snapshots' = Snapshots
        /\ CachePath' = CachePath /\ Cache' = disk'[CachePath]
    BY <2>1 DEF Target, CachePath, LivePath, IsQcow, Snapshots, Cache
  <2>6. Rebuilding' => Rebuilding
    BY <2>1, <2>2, <2>3, <2>5 DEF Rebuilding
  <2>7. StepsOfSnapshots' /\ NoOverlayOverVouched' /\ NoHashWhileRebuilding'
    BY <2>1, <2>2, <2>3, <2>5, <2>6
    DEF FreshnessInv, StepsOfSnapshots, NoOverlayOverVouched, NoHashWhileRebuilding
  <2>8. disk'[Target].form = "whole"
    BY <2>1, BootKeepsProvisioned
  <2>9. ASSUME Rebuilding' PROVE disk'[Target].prov = ignition
    <3>1. Rebuilding /\ RebuildsFromIgnition /\ TypeOK
      BY <2>6, <2>9 DEF FreshnessInv
    <3>2. CASE pc = "boot"
      <4>1. disk[Target].prov = Blank /\ vm.config = ignition
        BY <2>1, <3>1, <3>2 DEF RebuildsFromIgnition
      <4>2. BootedDisk[Target].prov = ignition
        BY <3>1, <4>1 DEF BootedDisk, Provisioned, TypeOK, Disks
      <4> QED
        BY <2>1, <4>2
    <3>3. CASE pc = "reboot"
      <4>1. disk[Target].prov = ignition /\ ignition # Blank
        BY <2>9, <2>1, <2>2, <2>5, <3>1, <3>3
        DEF RebuildsFromIgnition, WarmingUp, TypeOK, Rebuilding
      <4> QED
        BY <2>1, <4>1, <3>1, BootKeepsProvisioned
    <3> QED
      BY <2>1, <3>2, <3>3
  <2>10. RebuildsFromIgnition'
    BY <2>1, <2>2, <2>3, <2>5, <2>8, <2>9
    DEF RebuildsFromIgnition, WarmingUp, Rebuilding, Target
  <2> QED
    BY <2>4, <2>7, <2>10 DEF FreshnessInv
<1>15. CASE GuestSilent \/ Fail
  BY <1>15, IdleIsFresh DEF GuestSilent, Fail, GiveUp
<1>16. CASE GossPasses
  BY <1>16
  DEF GossPasses, FreshnessInv, OneVariantOnly, HashVouches, NoHashWhileRebuilding,
     StepsOfSnapshots, NoOverlayOverVouched, RebuildsFromIgnition, Rebuilding,
     WarmingUp, Cache, Snapshots, IsQcow, CachePath, LivePath, Target
<1>17. CASE SaveVm
  <2>1. /\ pc = "warm" /\ pc' = "quit" /\ IsQcow
        /\ UNCHANGED <<ignition, hashFile, vm, job>>
    BY <1>17 DEF SaveVm
  <2>2. \A p \in Paths : /\ disk'[p].form = disk[p].form
                         /\ disk'[p].prov = disk[p].prov
                         /\ p # Target => disk'[p] = disk[p]
    BY <1>17 DEF SaveVm, FreshnessInv, TypeOK, Disks
  <2> QED
    BY <2>1, <2>2
    DEF Paths, FreshnessInv, OneVariantOnly, HashVouches, NoHashWhileRebuilding,
     StepsOfSnapshots, NoOverlayOverVouched, RebuildsFromIgnition, Rebuilding,
     WarmingUp, Cache, Snapshots, IsQcow, CachePath, LivePath, Target, TypeOK
<1>18. CASE Quit
  BY <1>18
  DEF Quit, FreshnessInv, OneVariantOnly, HashVouches, NoHashWhileRebuilding,
     StepsOfSnapshots, NoOverlayOverVouched, RebuildsFromIgnition, Rebuilding,
     WarmingUp, Cache, Snapshots, IsQcow, CachePath, LivePath, Target
<1>19. CASE PowerOff
  <2>1. /\ pc = "warm" /\ pc' = "clone" /\ ~IsQcow
        /\ UNCHANGED <<ignition, hashFile, job>>
    BY <1>19 DEF PowerOff
  <2>2. \A p \in Paths : /\ disk'[p].form = disk[p].form
                         /\ disk'[p].prov = disk[p].prov
                         /\ p # Target => disk'[p] = disk[p]
    BY <1>19 DEF PowerOff, FreshnessInv, TypeOK, Disks
  <2> QED
    BY <2>1, <2>2
    DEF Paths, FreshnessInv, OneVariantOnly, HashVouches, NoHashWhileRebuilding,
     StepsOfSnapshots, NoOverlayOverVouched, RebuildsFromIgnition, Rebuilding,
     WarmingUp, Cache, Snapshots, IsQcow, CachePath, LivePath, Target, TypeOK
<1>20. CASE TruncateHash
  BY <1>20
  DEF TruncateHash, FreshnessInv, OneVariantOnly, HashVouches, NoHashWhileRebuilding,
     StepsOfSnapshots, NoOverlayOverVouched, RebuildsFromIgnition, Rebuilding,
     WarmingUp, Cache, Snapshots, IsQcow, CachePath, LivePath, Target, TypeOK, Jobs
<1>21. CASE WriteHash
  BY <1>21
  DEF WriteHash, FreshnessInv, OneVariantOnly, HashVouches, NoHashWhileRebuilding,
     StepsOfSnapshots, NoOverlayOverVouched, RebuildsFromIgnition, Rebuilding,
     WarmingUp, Cache, Snapshots, IsQcow, CachePath, LivePath, Target, TypeOK, Jobs
<1>22. CASE Finish
  BY <1>22
  DEF Finish, FreshnessInv, OneVariantOnly, HashVouches, NoHashWhileRebuilding,
     StepsOfSnapshots, NoOverlayOverVouched, RebuildsFromIgnition, Rebuilding,
     WarmingUp, Cache, Snapshots, IsQcow, CachePath, LivePath, Target
<1>23. CASE Crash
  BY <1>23, IdleIsFresh DEF Crash, KilledDisk
<1>24. CASE StopVm
  BY <1>24, IdleIsFresh DEF StopVm
<1>25. CASE UNCHANGED vars
  BY <1>25, FrameIsFresh
  DEF vars, FreshnessInv, NoHashWhileRebuilding, StepsOfSnapshots,
     NoOverlayOverVouched, RebuildsFromIgnition, Rebuilding, WarmingUp
<1> QED
  BY <1>1, <1>2, <1>3, <1>4, <1>5, <1>6, <1>7, <1>8, <1>9, <1>10, <1>11, <1>12, <1>13, <1>14, <1>15, <1>16, <1>17, <1>18, <1>19, <1>20, <1>21, <1>22, <1>23, <1>24, <1>25 DEF Next, UpStep

(* The recorded hash vouches for a complete snapshot of its own config:    *)
(* FreshnessInv is inductive in a directory used with one variant, whose   *)
(* config stays as it is during a run, while files that are to be removed  *)
(* are.                                                                    *)
THEOREM Freshness ==
    ASSUME ~MidRunEdits, ~MixVariants, ~RemovalsFail
    PROVE  Spec => []FreshnessInv
<1>1. Init => FreshnessInv
  <2> SUFFICES ASSUME Init PROVE FreshnessInv
    OBVIOUS
  <2>1. TypeOK
    BY ConstantsAssumption, FixedDisks DEF Init, TypeOK, NewJob, Jobs, NoVM, VMs
  <2>2. OneVariantOnly
    BY DEF Init, OneVariantOnly, Paths
  <2>3. HashVouches
    BY SentinelAssumption DEF Init, HashVouches
  <2> QED
    BY <2>1, <2>2, <2>3
    DEF Init, FreshnessInv, NoHashWhileRebuilding, StepsOfSnapshots,
        NoOverlayOverVouched, RebuildsFromIgnition, Rebuilding, NewJob, Snapshots
<1>2. TypeOK /\ FreshnessInv /\ [Next]_vars /\ TypeOK' => FreshnessInv'
  BY FreshnessStep
<1> QED
  BY <1>1, <1>2, TypeCorrect, PTL DEF Spec

LEMMA VouchedSnapshot ==
    ASSUME FreshnessInv, NEW v \in Variants, NEW n \in Names, NEW h \in Configs, IsValid(v, n, h)
    PROVE  /\ disk[<<v, "cache">>].prov = h
           /\ disk[<<v, "cache">>].form = "whole"
<1>1. hashFile = h /\ disk[<<v, "cache">>].form # "absent"
  BY DEF IsValid
<1>2. v = job.variant
  BY <1>1 DEF FreshnessInv, OneVariantOnly, AbsentDisk
<1> QED
  BY <1>1, <1>2 DEF FreshnessInv, HashVouches, Cache, CachePath

(* In such a directory is_valid never accepts a snapshot of another config.*)
THEOREM AcceptedSnapshots ==
    ASSUME ~MidRunEdits, ~MixVariants, ~RemovalsFail
    PROVE  Spec => []SnapshotFresh
<1>1. FreshnessInv => SnapshotFresh
  BY VouchedSnapshot DEF SnapshotFresh
<1> QED
  BY <1>1, Freshness, PTL

(* ... nor a file that a crash cut short.                                  *)
THEOREM AcceptedFiles ==
    ASSUME ~MidRunEdits, ~MixVariants, ~RemovalsFail
    PROVE  Spec => []AcceptedIsWhole
<1>1. FreshnessInv => AcceptedIsWhole
  BY VouchedSnapshot DEF AcceptedIsWhole
<1> QED
  BY <1>1, Freshness, PTL

=============================================================================
