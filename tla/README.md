# Formal models of fcos-harness

`fcos-harness` brings up Fedora CoreOS virtual machines for tests: it builds an
Ignition config, downloads a base image, makes a disk, launches QEMU or vfkit,
waits for SSH, validates the guest with goss, and can cache a provisioned guest
as a snapshot. Commands are short-lived processes; all they know of each other
is in files: of a *work directory* (Ignition files, disks, `snapshot.hash`, PID
files, `vm-state.json`), of a *cache directory* (images, goss), of the host (the
DHCP leases) and of the guest. What can go wrong is therefore mostly about files
that a failed, killed, earlier or simultaneous command left behind. This
directory holds TLA+ models of that, TLC configurations, and proofs checked by
TLAPS.

## Inventory

Paths are relative to `src/src/`.

| Component | State | Operations | Interacts with | What makes it correct |
|---|---|---|---|---|
| Snapshot pipeline (`cli/up.rs` `run`, `*_prepare_disk`; `snapshot.rs`; `disk.rs`) | ignition file, `snapshot.hash`, overlays or clones per variant, the run's locals | hash, `is_valid`, `invalidate`, create overlay or clone, launch, savevm / poweroff and clone, relaunch, record | backends, QMP, SSH, goss | an accepted snapshot is whole, restorable and of the current config; a rebuild boots a fresh disk; runs end, and recover from what killed ones left |
| VM processes (`cli/up.rs` `run`, `down`; `cli/boot.rs`; `start`, `stop` of `bin/fcos-harness.rs`; `cli/ssh.rs`; `state.rs`; `qemu.rs`, `vfkit.rs`) | VM processes, `qemu.pid`, `vfkit.pid`, the PID file of `start`, `vm-state.json` | launch, wait, write PID and state, detach, keep, shut down; find, SIGTERM, poll, unlink, clean up; connect | kernel, SSH, later commands | no VM is lost, state file and PID file agree, `down` and `stop` stop the VM, a `down` that succeeds has stopped what `up`'s PID files named, `ssh` reaches the VM that `up` handed over |
| Image cache (`fcos.rs`) | images by stream and version, compressed files, a symlink per work directory | `ensure`, `refresh` (cached and flat), download, verify, decompress, symlink | Fedora metadata, other work directories | what is returned is whole, verified, of the asked stream; refresh is current; a stopped command blocks no later one |
| Finding the guest (`vfkit.rs` `launch`, `discover_guest_ip`, `find_lease`, `normalize_mac`, `deterministic_mac`; `ssh.rs` `wait_ready`) | the lease file, the time waited | poll leases, ask by SSH, pause, give up, be killed | DHCP server, guests, other software | the address is that of the own guest; a guest that answers in time is found; waits end |
| Goss (`goss.rs`) | cached binary; goss and gossfile in the guest | look, download, write, chmod, upload, run | server, SSH, overlapping validations | a validation that passed ran goss on its own gossfile; a good binary stays good |
| Ignition builder (`ignition.rs`, `cli/ignition.rs`) | intermediate files of the work directory, the output | copy the base, render and compile sources and overlays, merge, copy out | butane, other builds | the output has its own parts, in order and rendered; a rejected build leaves the output of an earlier one |
| QEMU backend (`qemu.rs`) | child process, QMP socket | build arguments, launch, wait, shutdown, drop | pipeline, VM processes | liveness check, kill on drop |
| QMP client (`qmp.rs`) | one connection per command | greeting, capabilities, command, one read | QEMU | savevm and quit take effect |
| CLI (`cli/mod.rs`), trait (`backend.rs`), platform (`arch.rs`) | none | parsing, forwarding, detection | all | - |

Hard here: kills between two file operations; a file that is cut off and taken
for whole; a removal that fails unnoticed; one file (`snapshot.hash`, a goss path in the guest, an intermediate
`.ign`) used for several things; commands that overlap; a pid, symlink or lease
that is stale; deadlines that are looked at between attempts only.
`PROJECT.json` lists each hazard at its line, with the properties about it.

## Modules

| Module | What it is |
|---|---|
| `UpSnapshot` | one run of `up` at a time in one work directory: its disks, `snapshot.hash`, failures and kills |
| `SnapshotContract` | what `up --snapshot` promises, in three variables: the abstract specification `UpSnapshot` implements |
| `VmLifecycle` | the VM processes of a work directory: `up` from the launch on, `down`, `boot`, `start`, `stop`, `ssh` |
| `ImageCache` | `FcosImage::ensure` and `refresh` by commands that share a cache |
| `GuestWait` | lease discovery and `wait_ready`, for guests that share the host's lease file |
| `GossRun` | goss validations that share the cached binary and the guest |
| `IgnitionBuild` | builds of Ignition configs in one work directory |
| `UpSnapshotProofs`, `ContractProofs`, `VmLifecycleProofs`, `VmStateProofs`, `ImageCacheProofs`, `GuestWaitProofs`, `GossRunProofs`, `IgnitionBuildProofs` | theorems about them, proved with TLAPS |
| `MC*` | instances for TLC |

Every action is the step between two points at which the program can be stopped
or at which another process can act; a failure (any `?`) and a kill are actions
of their own and may come at each of them. Operators whose comment begins with
"Mutant" are plausible wrong versions of the definition after them; no
specification uses them.

**UpSnapshot.** `disk[<<variant, "live">>]` and `disk[<<variant, "cache">>]` are
the files of `overlay_name` and `snapshot_overlay_name`; a disk is absent,
partial or whole, and knows which config its guest was provisioned from and its
internal snapshots. `hashFile` is `snapshot.hash` (absent, truncated, or a
config: SHA-256 is taken as injective). `job` has the arguments and locals of
the run, `pc` its place, in the order of `run`. QEMU and vfkit share the
actions, the branches are where the code has them (`Target`, `GuestReady`,
`SaveVm`/`Quit` against `PowerOff` and the clone). `Fail` is any `?`, which
kills the VM by dropping its handle; `Crash` is a kill, which does not. `Listed`
says which names are found in the listing of which snapshot, `MidRunEdits`
whether the Ignition file is edited while a run is under way, `MixVariants`
whether a directory is used with several variants, `RemovalsFail` whether
`remove_file(..).ok()` may leave a file where it was (the run then goes on, as
the code does). One thing is left out of `up` and stated in the module: it is
not run while a VM of the directory is alive; `VmLifecycle` has such runs.

**VmLifecycle.** Each command is a process with a program counter and its locals
(`cmd`); it knows its VM by `cmd[c].pid` until the end. A QEMU has a host port, a
vfkit guest the address leased to the directory's MAC. The launch of QEMU never
fails, because `is_running` does not wait for the child (see the findings), that
of vfkit does. `up` writes a PID file and then `vm-state.json`; `start` writes
the PID file its user names, asks with `kill(pid, 0)`, and leaves the VM; `boot`
writes no file, and keeps the VM (`--keep`) until Ctrl-C, shuts it down, or
holds its console. `down` looks at both PID files in turn, `stop` at the one of
`start`; both terminate, poll for five seconds, and unlink; that a PID file or
`vm-state.json` cannot be removed is not noticed. `ssh` without arguments takes
the address of `vm-state.json` or the default port. There are three history
variables: `lost` has the VMs that were knowingly given up, `marred` is true from
the kill of a command, or a failed removal of `vm-state.json`, to the next
cleanup of a `down`, and `due[c]` has the VMs that `down` `c` answers for: those
that the PID files of `up` named when it began, less those whose file was
rewritten since.

**ImageCache.** `link[w]` is what the image name in work directory `w` resolves
to: a path of the cache, or itself when it is no symlink. Creating a file
follows a dangling link, as `File::create` does. Two commands may write one
file: whoever truncates or removes a file marks the others using it
`disturbed`, and what they end up with is left open. Both decompressors are
modelled by the same two steps: the file is created, the file is complete.

**GuestWait.** `leases` is the file as lines, tagged and valued: braces, `ip` and
`mac` lines, of which only the needed ones are there. `FindLease` is the scan of
`find_lease`; `Normalize` pads octets, `Written` is how vmnet writes a MAC
(without the zero of a short octet, for the directories of `Short`). `Acquire`,
`OtherLease` and `Expire` are the DHCP server, external. `waited` counts the
time of a wait in ticks; `SshPause` and `SshGivesUp` look at it only after an
ssh has failed, as the code does. A poll may miss a lease that is there, when the
file cannot be read or is read in part, also the last one. `Kill` ends a command
while it waits; its guest goes on until `Down`. `readyAt` and `kept` are history: when the
guest began to answer, and for which directories an earlier VM was killed before
it gave its lease back.

**GossRun.** `cache` is the cached goss by content and executable bit, `guest` the
two files in the guest's `/tmp`. Downloads keep whatever the server replied,
as the code does not look at the status. `Verdicts` is the exit status of
`goss validate` as the guest's shell gives it. `alone` and `clash` are history:
whether another validation ran meanwhile, and whether a download was written
over another's.

**IgnitionBuild.** A config is the sequence of the pieces merged into it; a build
is a `Plan`, a sequence of steps from file to file. Intermediate files have the
same names in every build, so the steps of two builds, and the leftovers of one,
meet in `dir`. `Rendered` is what `--var` makes of a template variable. What
butane does is external: a step either gives the merged or compiled config or is
rejected.

Interaction: `UpSnapshot` and `VmLifecycle` cut `up` at the launch: the first has
the disks and treats the VM as up or not, the second has the processes and
treats the snapshot steps as a stretch that may fail. `GuestWait` and `GossRun`
refine the steps *wait for SSH* and *validate* of the first, which there succeed
or fail; `IgnitionBuild` and `ImageCache` produce the Ignition file and the base
image that it takes as given.

## Runs

Passing:

| Run | Bounds | Shows |
|---|---|---|
| `up_snapshot` | 3 configs, 2 names, QEMU and vfkit, one per directory, no edit during a run, no failing removal | freshness, completeness, restorability, rebuilds from a fresh disk, vouched artifacts that stay, what is served, the refinement of `SnapshotContract`, termination and recovery |
| `up_mixed` | 2 configs, 1 name, variants mixed, edits at any time, any removal of a file may fail unnoticed | what holds without those three restrictions: `RecordOnlyRestorable` |
| `vm_sequential` | 1 command at a time, all six kinds, 2 pids, 2 ports, removals of files may fail | no VM is lost but by a kill, the five seconds of `down`, or a `start` that cannot write its PID file; state and PID files agree; `ssh` reaches the VM of `up`; commands end; `down` and `stop` terminate their VM |
| `vm_overlap` | 2 commands at a time of `up`, `down`, `boot`, 2 pids, 1 port, repeated `up`, removals may fail; pids and commands symmetric (no liveness is checked here) | a `down` that succeeds has told to terminate all VMs it answers for, whatever another `down` takes from it |
| `image_cache` | 1 command at a time, 2 work directories, 2 streams, 1 and 2 versions, cached and flat, stops anywhere but inside a decompression | images returned are whole, of the stream, current after `refresh`; commands recover |
| `guest_wait` | 2 directories, one with a short MAC octet, 2 addresses, 2 lease records, 1 poll, 2 ticks of SSH, pauses of 1 and attempts of 0 or 1 tick, reads that fail, kills | the lookup is right on every file and on every prefix of it; a command waits on its own guest; a guest in time is found; launches end |
| `goss_run` | 2 validations at a time, 2 gossfiles, replies that are goss or an error page, 1 reboot | a validation that was alone and passed ran goss on its own gossfile, as long as no two downloads wrote over each other (`clash`); a good binary stays good; validations end |
| `ignition_build` | 2 builds at a time of 3 kinds (overlay on a base with variables; one source; onto `config.ign` itself) | the output has its own parts in order and rendered; a rejected build keeps the earlier output; builds end |

Violated, each a disagreement of the code with its own text (the findings):

| Run | Property | Because |
|---|---|---|
| `up_shared_hash` | `SnapshotFresh` | `snapshot.hash` is shared by the variants of a directory |
| `vm_double_up` | `ReportedVmStarted` | `is_running` is true for a QEMU that has exited |
| `goss_vacuous` | `PassedRanOwnGossfile` | a reply without a body is cached as goss, and an empty script succeeds |
| `image_unpacking` | `ReturnedIsWhole` | images are decompressed under their final name |

`up_snapshot`, `goss_run` and `image_cache` give the other side: with the cause
excluded the same property holds, through every failure and kill.
`image_unpacking` has no kill; one command with `Cut = TRUE` and no overlap
fails likewise.

### Why the bounds are enough

Three configs distinguish "the current", "the one before" and "another one".
Commands of any number follow one another, since nothing counts them. Two
variants are the least to share the hash file, and there is one of each kind
(QEMU's, vfkit's). Two pids give a VM that was lost or not yet gone beside the
one of the present command, two ports an `up` that is not on the default one.
Two versions are the least for a link to be stale. In `guest_wait` two records
are the least to be confused with each other or with a foreign one, two ticks
leave room for one pause and one more attempt, and each prefix of the file
stands for a read during a write. Two gossfiles distinguish the own from the
other, one reboot a guest without what was uploaded. The three kinds of build
leave behind each other's intermediate files.

The bounds are the constants, `FreePid` in `VmLifecycle` (commands launch only
while a pid is free), `Published` in `ImageCache`, `MaxRecords` in `GuestWait`,
`MaxReboots` in `GossRun` and `FirstOverlay` in `IgnitionBuild`.

### Fairness

Weak fairness of each command's own steps, and of nothing else but the exit of a
VM that received SIGTERM: `UpStep` in `UpSnapshot`; `LaunchStep`, `DownStep` and
`SshStep` in `VmLifecycle`; `Step(c)` or `Step(d)` in the others. The code awaits
only file operations, child processes, the network, and waits with a timeout.
What has no timeout is assumed to end: QEMU exits after the QMP `quit`
(`vm.wait()` at `cli/up.rs:388`), each single `ssh` and `scp` ends
(`ConnectTimeout` bounds the connection only), downloads end, with success or
not, and butane ends. `UndisturbedCommandsSucceed` and `UndisturbedRunsSucceed`
ask for success only once failures have stopped. No fairness is given to users,
failures, kills, the DHCP server or guests; a guest that stays silent is timed
out. Who holds a console or `boot --keep` waits for the user, and `CommandsEnd`
excepts them.

## Proofs

For all values of the constants that satisfy the modules' named assumptions
(`ConstantsAssumption`, in `UpSnapshot` also `SentinelAssumption`). Assumptions of a
single theorem are in its ASSUME. Every safety property of the passing runs,
invariant or action property, is the statement of a theorem; in order:

| Module | Theorem | Assumes | States |
|---|---|---|---|
| `UpSnapshotProofs` | `TypeCorrect` | | `TypeOK` |
| | `Freshness`, `AcceptedSnapshots`, `AcceptedFiles` | one variant, no edit during a run, no failing removal | `FreshnessInv`, `SnapshotFresh`, `AcceptedIsWhole` |
| `ContractProofs` | `ServedConfigs`, `Refinement` | the same | `ServedConfig`, `ImplementsContract` |
| | `RestoredHits` | the same, `NamesTellApart` | `HitCanBeRestored` |
| | `RebuildsCorrect`, `RecordedHashes` | | `RecordOnlyRestorable` |
| | `ArtifactsCorrect`, `FreshRebuilds`, `VouchedArtifacts` | no failing removal | `RebuildBootsFresh`, `VouchedStays` |
| `VmLifecycleProofs` | `TypeCorrect`, `DownsStopNamed` | | `TypeOK`, `DownStopsNamed` |
| | `OneAtATimeKeepsVms` | no overlap, no `up` or `start` over a PID file | `NoVmLeaks` |
| `VmStateProofs` | `StateNamesPid`, `SshReaches` | the same | `StateHasPid`, `SshReachesUpsVm` |
| `ImageCacheProofs` | `TypeCorrect` | | `TypeOK` |
| | `ReturnedImages`, `CurrentRefreshes` | no overlap, no decompression cut short | `ReturnedIsWhole`, `RefreshIsCurrent` |
| | `ReturnedStreams` | one stream in each work directory | `ReturnedIsOfStream` |
| `GuestWaitProofs` | `TypeCorrect`, `LookupCorrect`, `OwnGuests`, `InTimeIsFound` | | `TypeOK`, `LookupMatchesRecords`, `WaitsForOwnGuest`, `GuestInTimeIsFound` |
| `GossRunProofs` | `TypeCorrect`, `GoodBinary` | | `TypeOK`, `GoodBinaryStays` |
| | `PassedValidations` | no empty reply | `PassedRanOwnGossfile` |
| `IgnitionBuildProofs` | `TypeCorrect`, `RejectedBuilds`, `OwnOutputs` | | `TypeOK`, `RejectedKeepsOutput`, `OwnOutput` |

The assumptions are restrictions of use that the code needs and does not check:
`up_shared_hash`, `image_unpacking` and `goss_vacuous` show what happens without
those of `AcceptedSnapshots`, `ReturnedImages` and `PassedValidations`, and an
`up` over a PID file overwrites the only name of the first VM.

**Freshness.** `SnapshotFresh` alone is not inductive: that the artifact is right when
the hash is written depends on everything since the hash was removed.
`FreshnessInv` says it: a hash vouches for its artifact (`HashVouches`); there is
none from invalidation to recording (`NoHashWhileRebuilding`); the disk of a
rebuild is unprovisioned up to its boot, and has the present config's
provisioning from then on (`RebuildsFromIgnition`); nothing creates a file over a
vouched artifact (`NoOverlayOverVouched`); other variants have none
(`OneVariantOnly`). TLC checks `FreshnessInv` in `up_snapshot` as well.

**The guest that is handed over.** `FreshnessInv` says nothing of it; `ServeInv`,
inductive beside it, follows it: a run keeps the config it hashed (`RunOfConfig`),
a hit keeps its snapshot valid and boots its state (`HitIsServed`), a rebuild has
recorded its snapshot when it ends (`RebuiltIsServed`), and the VM has the state
of the disk it was started from (`VmIsOfDisk`). Under the refinement mapping the
end of a run is *HandOver*, the last write of the hash *Fill*, its removal
*Invalidate*, the start of a run or the stop of its VM *Retire*; all else stutters.
`HitIsWhole` adds for `RestoredHits` that the disk a hit boots is complete and has
its snapshot, which the listing only shows if no name is part of another.

**Rebuilds without restriction.** What a rebuild records does not depend on which
config it is of, nor on what it found. `RecordInv` follows only the places of a
run (`StepsOfSnapshots`), a VM that runs having a config (`VmOfConfig`), what is saved or cloned
(`WarmIsWhole`: complete, and booted) and the artifact where its hash is written
(`RecordedIsWhole`: complete, with its snapshot, because `-loadvm` started from
it or the clone has just been finished). So `RecordedHashes` holds with edits,
mixed variants and failing removals, as `up_mixed` checks. `ArtifactInv` adds
what needs removals that succeed: no hash exists while one rebuilds
(`NoHashWhileRebuilding`), the old artifact is gone when the disk is made
(`EmptyBeforeRebuild`), a new overlay has no snapshots (`OverlayIsEmpty`) and a disk
that has some is complete and has booted (`SnapsOfGuests`). `RebuildBootsFresh` and
`VouchedStays` follow, with edits and mixed variants too, unlike freshness.

**VMs.** `NoVmLeaks` needs that one command runs (`OneAtATime`), that the file a
launching command will write holds no pid but its own (`LaunchersFile`), and that
a VM whose file `down` or `stop` is going to unlink has its SIGTERM (`StoppedVm`).
`DownsStopNamed` holds of every behaviour, overlapping commands, repeated `up`, kills
and failing removals included. Its invariant `DownsInv` says of each `down` that it
takes the PID files in their order (`DownOrder`), that the VM it waits for has its
SIGTERM (`Told`), and that a VM it answers for and that was not told to terminate is
named in a PID file it has still to come to (`DueToCome`); another `down` may unlink
that file only after it has signalled the same VM.

**`vm-state.json`.** `up` writes it after the PID file, `down` removes it after both,
and failures and kills leave one without the other. `StateInv` has thirteen parts:
what `vm-state.json` says is known by a PID file or is being taken down by a
`down` that has stopped its VM (`StateKnown`); what launched, what was read and
what is written by the command at each place (`LaunchedVm`, `ReadsPid`,
`UpBeforeState`); and for `ssh`, that every live VM is in a PID file, held, or lost
(`AliveKnown`), that no two live QEMUs have one port, as the second refuses it
(`PortsApart`), and that only the file of vfkit names a vfkit guest
(`FileOfBackend`).

**Images.** `WholeInv`: one command runs and is undisturbed, a partial image is the
one being unpacked (`PartIsUnpacked`), and what the command relies on at each
place (`Relies`: the verified compressed file, then the image). `SinceKnown`: the
version it works on is no older than what was latest when it began.
`ReturnedStreams` needs neither: `StreamInv` says that a path of the cache holds
images of its stream only and that every link leads to one of its directory's
stream, so it holds for overlapping commands and cut decompressions.

**Leases.** That the file is a sequence of whole four-line records (`WholeFile`) is
inductive over the server's steps. From it `LookupOfWholeFile` follows without
induction over data: of the records with a MAC there is a first one, and the scan
at that record, or at a prefix that ends within it, gives its address or none.
`OwnInv`: a guest that is off has no address, records have addresses, and
a record of a directory's MAC has its guest's address unless an earlier VM was killed
(`OwnRecords`). `AskedInTime`: a guest that answers although the last `ssh` went
unheard began to answer during that very attempt, so `readyAt` is the time waited
that the deadline is compared with.

**Goss.** As long as no download wrote over another's, an empty file is never
executable, in the cache or in the guest (`CleanCache`); a validation that is
alone is the only one (`AloneRuns`); at `goss validate` the guest has its gossfile
or none (`OwnGossfileUploaded`).

**Builds.** `PlanOfJob` gives the step at each position of a plan, from the lengths
of the sequences it is put together from, and `PartNumberFacts` that no two parts
have a file in common. `TypeInv` adds to `TypeOK` that what is left of a build is the
end of its plan and that a whole config has a piece. `AloneInv`: a build that no
other one disturbed is alone, and the output is as it found it until its last step
opens it. `BuiltInv`: every part before the step it is at is in its file, what it
holds is what its step makes, `config.ign` has the config at the last step, and
the users' files are as they were. Leftovers of earlier builds are never read,
because each file that is read is of an earlier step or a user's.

Each proof that a step preserves an invariant has one step per action (the
lemmas `Actions` split `Next` where there are many), with lemmas for what several
actions share: the effect of moving on, of ending, of touching a file. That a set of
numbers has a least or a greatest one, which `GuestWaitProofs` and
`IgnitionBuildProofs` need for a first record and a last value, comes from
`NatLessThanWellFounded` and `WFMin`.

Only model-checked: all liveness (`RunsEnd`, `UndisturbedRunsSucceed`,
`CommandsEnd`, `DownStopsVm`, `UndisturbedCommandsSucceed`, `LaunchesEnd`,
`ValidationsEnd`, `BuildsEnd`), as fairness and ENABLED are outside what the
provers can do, and the four violations.

## Not modelled

- Argument parsing, the trait that forwards to the backends, platform detection
  and the firmware search: no state.
- The QMP exchange line by line, and vfkit's REST socket, which nothing here
  talks to: savevm, quit and shutdown are modelled by their effect.
- Removals of the QMP and REST sockets, which nothing here depends on.
- In `IgnitionBuild`, the rewrite of an intermediate `.bu` by an overlapping build
  between its writing and butane's reading of it: `Take` is one step, and the
  properties speak of builds that no other one disturbed.
- The QMP socket as a file, which a second launch removes, and the overlap of
  two `up` with their snapshot steps: `UpSnapshot` has one run at a time.
- Backing files of overlays: a base image that `refresh` replaces under an
  overlay.
- What a file system holds after its guest was killed: a provisioned disk counts
  as whole.
- Reuse by the kernel of a pid that a PID file still names, and a PID file that
  is cut off in the middle.
- File contents other than what the properties tell apart; `scp` downloads,
  which no command uses.

Known to fail outside the passing bounds, besides the violated runs (each found
by TLC when the constant or the guard named is changed):

- `SnapshotFresh` when the Ignition file is edited while the guest boots
  (`MidRunEdits`): the hash that is recorded is taken after the boot
  (`cli/up.rs:345`, `cli/up.rs:411`), not the one compared at the start, and the
  next run restores the old state for the new config;
- `SnapshotFresh`, `RebuildBootsFresh`, `VouchedStays` and `HitCanBeRestored` when a
  removal fails (`RemovalsFail`): `invalidate` drops the error
  (`snapshot.rs:132`, `135`, `138`), the old overlay exists, is booted, and is
  recorded for the new config;
- `HitCanBeRestored` with a snapshot name that is part of another (`Listed`), as
  the listing is searched for a substring;
- `StateHasPid` after a command was killed (without `~marred`), and `NoVmLeaks` when
  `up` or `start` is run over a PID file (`Rerun`).

## Plan

1. Done: all seven models, the refinement of `SnapshotContract`, and a theorem for
   every safety property of the passing runs.
2. `UpSnapshot`: overlapping runs on one disk with the QMP socket; the base image
   as a backing file, composed with `ImageCache`.
3. Proofs: how far the assumptions of `OneAtATimeKeepsVms`, `StateNamesPid` and
   `ReturnedImages` can be weakened, as `ReturnedStreams`, `RecordedHashes` and
   `DownsStopNamed` do without them.
