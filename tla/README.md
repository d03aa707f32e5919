# A TLA+ model of Infiltrator Defragmenter

Infiltrator Defragmenter rewrites the allocation layout of unmounted volumes. A
desktop GUI talks to one privileged helper, the helper runs one engine at a time,
and an engine moves clusters on a raw device in transactions that a crash, a
failed write or a Stop may interrupt anywhere. This directory holds TLA+ models of
the parts whose correctness is about order, interruption and concurrency, the TLC
configurations that check them on small instances, and proofs of the most
important results for every instance.

`PROJECT.json` lists components, runs, the source lines behind each definition,
what the runs found, the hazards of the code and the theorems. Paths below are
relative to `src/defragger/` unless they start with `docs/`.

## Inventory

| Component | State it keeps | Operations | Hard part | What makes it correct |
| --- | --- | --- | --- | --- |
| FAT relocation transaction (`gui/filesystems/fat/native/fat_relocation.c`, `fat_io.c`, `fat_journal.c`, `fat_volume.c`) | the volume, the kernel's view of it, the journal file and its stage | execute, recover, and inside them copy, link, free, with fsync and a journal record between | power loss, death in the middle of a group of writes, interrupted recovery | no path or byte lost; atomic; a pending journal can be finished |
| FAT namespace (`fat_directory.c`) | none (a scan) | `scan_files` | sees half-finished volumes | what an idle volume holds passes the scan |
| FAT layout scheduler (`writer.c`, `fat_relayout.c`, `fat_analysis.c`) | plan, terminal workspace, progress of four passes | preflight, evacuate, forward, unified, adaptive, fallback, verify | tangled layouts, small workspace, Stop between any two transactions | moves only to free clusters; ends; idempotent; internal checks never fail |
| Privileged helper (`native/privileged_helper.cpp`, `src/core/ld_stop.c`) | what `active_mutex_` guards, the child, its output pipe, the GUI's pipe | run, stop, ping, quit, forward output, reap | two threads, a child, a GUI that may vanish | no orphan, one child, no lost Stop, ordered events, shutdown ends |
| Operation engine, helper policy (`native/operation_engine.cpp`, `helper_policy.cpp`) | none | validate one request, exec | none | refuses what it does not know |
| GUI privilege session (`gui/ui/privilege_session.py`) | active request and its id | run, stop, shutdown, handle a message | messages in flight while the user acts | every request completes once; no Stop lost |
| exFAT relayout (`gui/filesystems/exfat/native`) | manifest, two boot regions, root directory and bitmap, copies of objects at the high end | plan, stage the workspace, write the manifest, place, publish both boot regions, commit, roll back, recover; working-image fallback | a crash while a rollback is under way; a torn boot region; the root directory itself moves | nothing but free clusters is written before the manifest; recovery reaches the new layout from anywhere; a Stop restores the old |
| ext transaction (`gui/filesystems/ext4/native`) | journal with phase, plan file, copies in a workspace; or a working image and a commit offset | plan, workspace, direct staging, placing, metadata, verify, restore; clone, arrange, verify, commit, recover | two recoveries in opposite directions (copies back, image forward); a failed write half way; an offset that vouches for blocks | what is discarded has not touched the source; what is restored is the old volume on stable storage; commits resume |
| NTFS transaction (`gui/filesystems/ntfs/native`) | as ext, and the dirty flag of the volume | as ext, with a metadata-only path and a replay instead of a restore once placement was recorded | the dirty flag is read by the same code that recovers | as ext; Recover never refuses what it left |
| XFS rewrite (`gui/filesystems/xfs/native`) | working image, journal with offset | clone, plan, rebuild free-space trees, permute the image, verify, commit, recover | tree blocks that the rebuild needs are themselves movable; payload cycles; the owner uses the volume while the image is made, and only the identity of the target is compared | the image has every payload; the commit resumes; it writes the clone and nothing else |
| HFS+, AFFS, SFS transactions (`gui/filesystems/hfsplus`, `affs`, `sfs`) | working image, journal with digests or a token of the source | lay out an image, verify, bind it to the source, commit, verify, retire, recover | the owner uses the volume while the image is built or between two commands; a half-committed source matches neither digest | no edit of the owner is overwritten; a commit can be finished |
| Device identity (`src/core/ld_device.c`) | none | open, identify, mounted? | device replaced between open and commit | writes stay bound to the target |
| Read-only analysers, block map, JSON, core runtime, desktop GUI, test media | presentation only | parse, render | none of protocol | out of scope |

Interactions: the GUI sends JSON lines to the helper and receives events; the
helper spawns `operation-engine`, which execs a filesystem worker, in its own
process group, reads its output through a pipe and forwards it; Stop is a SIGINT to
that group, which a worker's handler turns into a flag it reads between
transactions; the worker and its later `recover` share the volume, the journal
and, for the whole-volume workers, the working image or plan file beside it. The
owner of the volume is an actor too: a volume is only refused while it is mounted,
so it may be mounted, changed and unmounted between a worker's reads of it.

## Modules

| Module | Models | Depends on |
| --- | --- | --- |
| `FatVolume` | a volume as a function from the smallest separately persistent locations to values; the journal record and the three groups of writes of a transaction | |
| `AtomicRelocation` | what a transaction promises: the volume changes in one step that renames clusters | `FatVolume` |
| `FatRelocation` | the worker between two durable points, commands, recovery, faults | `FatVolume`, refines `AtomicRelocation` |
| `FatNamespace` | the tree and the checks of `scan_files` | `FatVolume` |
| `FatContents` | what the worker's volume means to its user while clusters move; the properties that say so | `FatRelocation`, `FatNamespace` |
| `FatRelocationProofs` | proofs about `FatRelocation`, then about `FatContents` | `FatContents`, `FoldInduction` |
| `FatLayout` | the scheduler; one transaction is one step | |
| `FatLayoutProofs` | proofs about `FatLayout` | `FatLayout`, `FoldInduction` |
| `HelperSession` | the helper's two threads, its child, its pipes | |
| `HelperSessionProofs` | proofs about `HelperSession` | `HelperSession` |
| `StagedImage` | a volume of blocks, the working image and the journal beside it, kill, power loss, the owner | |
| `DigestCommit` | the commit that HFS+, AFFS and SFS make alike, its image bound to the source by a digest | `StagedImage` |
| `OffsetCommit` | the commit by recorded offset of XFS, ext, NTFS and exFAT; the permutation of an image | `StagedImage` |
| `HfsplusTransaction`, `AffsTransaction`, `SfsTransaction` | one worker each: layout, image, token, order of the commit, verification | `DigestCommit` |
| `XfsTransaction` | the XFS worker with its free-space trees | `OffsetCommit` |
| `WorkspaceRelayout` | copies of blocks in the volume's own free cells, the plan, steps of copy, write and flush | `OffsetCommit` |
| `ExtTransaction`, `NtfsTransaction`, `ExfatTransaction` | one worker each: the relayout in place and the fallback | `WorkspaceRelayout` |
| `AtomicRelayout` | what a whole-volume worker promises: the layout changes in one step, and the files hold afterwards what they held when the worker copied them | |
| `StagedCommit` | the four image workers with faults and the owner; their properties | the four workers, refines `AtomicRelayout` |
| `DirectRelayout` | the three in-place workers with faults; their properties | extends `ExtTransaction`, instances of the other two; refines `AtomicRelayout` |
| `FoldInduction` | induction over a fold, to be instantiated for each planner | |
| `StagedCommitProofs` | proofs about the order of writes and records of `StagedCommit`; what the planners and builders of HFS+, AFFS and SFS return; the invariant of those three workers; what the XFS planner, the rebuilt trees and the permutation return | `StagedCommit`, `DigestCommit`, `FoldInduction` |
| `StagedContentsProofs` | what XFS arranges and verifies, the invariant of XFS, and the theorems about all four workers | `StagedCommitProofs` |
| `ExtLayoutProofs` | what the ext planner, the workspace, the scripts of copies and writes and the arranged image make of a volume | `ExtTransaction`, `FoldInduction` |
| `DirectRelayoutProofs` | the invariant of the ext worker, and the theorems about it | `DirectRelayout`, `ExtLayoutProofs` |
| `MCFatRelocation`, `MCFatLayout`, `MCFatLayoutDense`, `MCHelperSession`, `MCStagedCommit`, `MCDirectRelayout` | instances for TLC | |

### FatVolume, FatRelocation

A location is one entry of one FAT copy, the body or the first-cluster field of one
32-byte slot of a cluster, or the root-cluster field or FSInfo hint of one boot
copy. These are what a crash can keep or lose independently. `cache` is the volume
as `pread` shows it, `disk` what is on stable storage; a group of writes changes
`cache`, `fat32_sync` copies it to `disk`, `PowerLoss` keeps any subset of the
difference, `Die` makes any subset of the current group of writes and ends the
process (a failing `ld_pwrite_exact` calls `ld_die`; a kill looks the same).

`complete_relocation_journal` is nine steps: copy, sync, record `J_DATA_COPIED`;
link (destination entries, external predecessors, directory slots, root), sync,
record `J_SWITCHED`; free the sources in every FAT copy and set the hint, sync,
record `J_OLD_FREED`; then the journal is removed. `fat_relocation_execute` is
`Prepare` followed by them; `recover` starts them again from the first, whatever
the stage. The worker refuses to defragment with a pending journal or disagreeing
mirrors. The journal file is replaced and unlinked atomically and durably; that is
what the external Common library does and what the code relies on.

Abstracted: a 32-byte slot is a body (name, attributes, data) and its first-cluster
field; sectors and extents, batching and worker threads of the copy (they write
disjoint ranges), and the older single-file journal. `Prepare` takes any moves that
`build_relocation_map` and the schedulers accept, so `FatRelocation` holds for
every scheduler; `FatLayout` shows that the real one asks only for such moves.

### FatNamespace, FatContents

`Chain` is `fat32_read_chain`, `Objects` what `scan_directory` finds level by level,
down to `MAX_RECURSION_DEPTH` (the constant `MaxDepth`) and one level further, so that
`ScanAccepts` can refuse what the code dies of there. `Contents` is the tree without
its places: paths, the slots of every chain in order, and for each first-cluster
field the paths it leads to, dot entries included. `FatContents` asks what becomes of
it while clusters move. Abstracted: long names and the end-of-directory mark are part
of a slot's body, and the comparison of a file's size with its chain is left out, for
no relocation changes either.

### FatLayout

`place` is each object's chain, which the scheduler knows from a scan before every
transaction. `Start` is preflight and the feasibility checks, `Evacuate` the
preparation of the terminal workspace and the final plan, then the passes in the
order `fat_relayout_volume` tries them: `Forward`/`ForwardPlace`,
`Unified`/`UnifiedPlace`, `Adaptive`, `Fallback`/`Unblock`/`FallbackPlace`, and
`Verify`. Every `ld_die` after the first transaction is the state `died`, except
the fallback's occupied workspace, `occupied`. Stop may be requested at any moment
and is looked at where the code looks. The limits that depend on memory (RAM budget,
preparation batch, the 64 MiB of an adaptive transaction) are fields of `setup`, in
clusters. A plan and a batch are folds over the order of the objects, with the step of
each loop an operator of its own (`PlanStep`, `ForwardStep`, `DirectStep`, `StageStep`,
...) that says when the loop takes an object, skips it or ends.

### HelperSession

The reader thread handles one request at a time; a handler is split where it
releases `active_mutex_` (`handle_stop` into `ReadStop` and `DeliverStop`,
`handle_run` into `ReadRun` and `LaunchWorker`, `stop_active_and_wait` into
`Drain` and `DrainSignal`). The worker thread is `run_request`, split at the spawn,
the publication of the pid, each emit, each line, the wait, the publication of
idleness and the last emit. `child` has the state of each request's process:
`starting` until `ld_stop_install_handlers`, `commit` inside work that must not be
cut short. The pipe holds `PipeLines` lines; a child blocked in `write` does nothing
else; writing when the read end is closed kills it, since `spawn_command` gives
SIGPIPE its default action back. A request number stands for its id and its pid, so
a pid is never reused.

### StagedImage, DigestCommit, OffsetCommit and the four image workers

A volume is a function from blocks to values: the header that identifies it (and
its copies), the allocation map, the block map of each file and the data cells. A
cell holds a payload that says which part of which file it is, so losing or
exchanging one shows. `cache`, `disk` and `PowerLoss` are as in `FatVolume`; a
`Killed` worker keeps what the kernel has. Journals are replaced, and files
removed, atomically and durably, by the external Common library. Planning and
arranging an image are one step each, as nobody but a kill sees them half done,
and then the image is `Partial`.

`DigestCommit` has the protocol of `hfsplus_worker.c`, `affs_worker.c` and
`sfs_worker.c`: `StartWith` remembers a token of the source, `BuildWith` makes and
verifies the image, `Bind` compares the token and records `staged`, `BeginWith`
records `committing`, `CommitBlock` and `SyncCommit` copy, `CommittedIf` reads back
and records `committed`; then the image and the journal go. `ResumeWith` and
`RetireWith` are Recover. Each worker gives it the layout, the token (HFS+: the
volume header; AFFS and SFS: the whole volume), the order of the commit and the
checks. `OffsetCommit` is the protocol of the others: ranges in ascending order,
`SyncRange` and `RecordOffset` after every `Interval` blocks, resumed by `ResumeAt`.
`XfsTransaction` has the journal's phases from `preflight` to `verifying-source`,
and the rebuild of the free-space trees, which borrows free blocks.

`Edit` is the owner: no worker locks its source, so he may mount it, see what its
maps show, write to a file and unmount it between two commands and in every phase in
which an image is made, for XFS from `preflight` to `verifying-stage`. Two things he
does not do in the models: use a volume with a commit to finish, which he leaves to
Recover, and mount it between a worker's last comparison of the target and the
commit's exclusive open (`ld_device.c:394`), after which it cannot be mounted.

HFS+, AFFS and SFS compare what they staged from with what they are about to
overwrite, so an edit in between ends the command. XFS does not
(`xfs_worker.c:334`): its commit puts the cloned bytes back. `StagedCommit` remembers,
in two variables that no step of the system reads, what the files held when XFS
made its clone (`cloned`), and what the owner may expect to find (`promised`): what he
last saw, until a commit of an older clone begins. `AtomicRelayout` has the
same in its variable `copy`, which for the three other workers is always what the
files hold.

Abstracted: HFS+ catalogue and overflow B-trees are a map of forks, the AFFS
directory tree, list blocks and checksums a file map, the SFS B-tree and its two
root copies one block each. XFS has one allocation group and direct extents; its
inode, reverse mapping and reference count trees are left out. XFS is started only
on sound volumes: a file block that is marked free is not cloned
(`xfs_worker.c:288`), so what becomes of a damaged volume is not checked for XFS.

### WorkspaceRelayout and the three in-place workers

`proc.todo` is what the worker has still to do in its phase: rows to copy, blocks to
write, flushes. `Perform` takes the next, so a kill, power loss, Stop or failed
write comes between any two of them; a worker that was stopped, or whose write
failed, leaves the rest of its script undone (`Doing`). ext: `direct-staging` copies the blocks that
move, and the metadata, to the high end; `direct-placing` overwrites;
`direct-metadata` writes maps and bitmap; a Stop, a failed write and Recover put the
copies back. NTFS: best-fit plan, a workspace below the last cluster, the dirty
flag, placement undone on Stop or failure but replayed by Recover once the maps are
written. exFAT: objects are copied to the high end and the manifest, once written,
is a promise to reach the new layout: Recover goes forward from wherever the volume
is, also out of an interrupted rollback; the geometry comes from whichever boot
region is whole. `Scanned` and `Relaid` are the volume as a scan reads it and as the
manifest makes it. When no workspace fits, ext and NTFS make a working image and
commit it by offset.

Not in the model: the blocks libext2fs allocates for extent trees and the ext
superblock copies; NTFS records and attributes (a stream is a run of a block map);
exFAT subdirectories, the up-case table, bad clusters and the working-image
fallback, where the command ends.

## Runs

| Run | Instance and bounds | Shows |
| --- | --- | --- |
| `fat_relocation` | FAT32, 6 clusters, 2 FATs, 2 boot copies, root, subdirectory with dot entries, fragmented file, stale bytes in a free cluster, depth limit 1; up to 2 moves in one transaction, 2 faults | `ContentsKept`, `IdleVolumeScans`, `FirstAttemptReadable`, refinement `Implements`, `EventuallyRetired` |
| `fat_relocation_fat16` | FAT16, 3 clusters, fixed root | finding: `JournalReadable` fails |
| `fat_relocation_stage` | as `fat_relocation` | finding: `StageMonotonic` fails |
| `fat_layout` | a directory and two files on 9 clusters, all ascending placements, 5 setups (RAM of 1, 2, 3, 5 clusters, reserve 0 or 10 %, a bad cluster), Stop anywhere | `NoInternalFailure`, `CompletedIsSatisfied`, `OnlyFreeDestinations` |
| `fat_layout_dense` | four files on 24 clusters around a layout that needs the adaptive and fallback passes, 9 setups, no Stop | the same for the late passes, and `Terminates` |
| `fat_layout_workspace` | as `fat_layout` | finding: `WorkspaceReleased` fails |
| `fat_layout_verify` | as `fat_layout` | finding: `LayoutVerifies` fails |
| `helper_session` | 2 run requests, 1 line in the pipe | `NoOrphan`, `OneChild`, `EventOrder`, `FinishedMeansIdle`, `StopWaitsForHandler`, `StopReachesChild`, `ShutdownEnds` |
| `helper_session_cut` | as `helper_session` | finding: `EngineStopsAtBoundary` fails |
| `staged_commit` | 9 cells, one pinned; files of 2, 1 and 1 cells, one protected (HFS+); fragmented, cyclic, doubly owned and stale volumes; offset interval 3; 1 fault, 1 edit by the owner | `ContentsKept`, `StageReady`, `PlacedIsVerified`, `Recoverable`, `WriteAhead`, `CompletedDurable`, refinement `Implements`, `Resolves` |
| `direct_relayout` | 16 cells, two pinned, 2 header copies, 2 files; volumes with room for a workspace, without (fallback), and too full; 2 faults, Stop and failed writes anywhere | `ContentsKept`, `Recoverable`, `WriteAhead`, `PlacedVerifies`, `Undone`, `CompletedDurable`, refinement `Implements`, `Resolves` |
| `ntfs_replay` | the NTFS volumes of `direct_relayout`, 1 fault | finding: `Replayable` fails |

Why the bounds are enough. Two moves reach every case of a transaction: a chain
whose two links move together, a directory that moves together with its child, a
moved first cluster with and without predecessor, the root; the subdirectory is as deep
as the limit allows. Two faults give a
crash, and a crash of the recovery from it. The theorems below remove both bounds.
Three objects on nine clusters are enough for every pass hand-over except leaving
the adaptive scheduler with work undone and a fallback that unblocks a target;
`fat_layout_dense` starts from a layout, found by search, that needs them. Two
requests are enough for a run that follows, or collides with, another; a pipe of
one line makes it full as early as possible.

In `staged_commit` three files are the least with a cycle of payloads and a
bystander; the pinned cell splits the free space, and nine cells leave just enough
for the ten per cent reserve and the borrowed tree blocks to compete. A fault in
the commit followed by Recover is the case that matters: Recover takes the same
steps again, from the same records, so a second fault repeats the first. In
`direct_relayout` it does not, since Recover of exFAT goes forward and a restore goes
back, so there are two. An interval of 3 puts offsets before, inside and at the end
of the ranges. The owner edits once, in any phase
before a commit: the second edit meets the same comparisons. One edit reaches the XFS
commit that undoes it, and the crash and Recover after that; the theorems have any
number.

Deadlock is checked in the first nine runs: the worker's end states and the
helper's idle state are explicit stuttering steps (`Terminated`, `Quiet`), and in
`FatRelocation` an idle volume without transactions left can still start and end a
command. It is not in the last three, where a volume may really come to rest: a
journal whose working file is gone refuses every command. `Resolves` and
`Recoverable` say which states those are, and no others.

Every property of a passing run has a mutant: a definition changed as a plausible
bug would, with which TLC finds the property violated. The modules mark those
definitions "a mistaken variant"; no action uses them.

## Fairness

- `FatRelocation`: weak fairness of the running process (`Work`) and of
  `StartRecover`: every other command refuses a pending journal and tells the user
  to run recover. Faults are bounded, so some recovery is undisturbed.
- `FatLayout`: the worker is one sequential process that nothing blocks. `Progress`
  says this with `pc \notin Ended` in place of `ENABLED Work`, because TLC cannot
  evaluate ENABLED of the batch computations in reasonable time; that no state
  before an end is without a step is the deadlock check of the same run.
- `HelperSession`: weak fairness of both threads. Of a child only: it gets to its
  first line, a write that can return does, it leaves a commit, and an engine asked
  to stop sees that eventually. A child that was not asked may run for ever.
- `StagedCommit`, `DirectRelayout`: a running worker goes on, since it is one
  sequential process, and somebody runs Recover on what is pending, as every other
  command refuses it. Nothing makes a user start a command, press Stop or edit.
  Stops are not bounded, so `Resolves` is about behaviours in which they come to an
  end.

## What the runs found

1. An interrupted FAT12 or FAT16 command cannot be recovered: the journal records a
   root cluster of 0, which the reader calls corrupt (`fat_journal.c:272`).
2. The recorded stage goes back during recovery, against `docs/ARCHITECTURE.md` and
   `docs/DECISIONS.md`. It is harmless: every group of writes can be repeated, which
   is the heart of the refinement proof.
3. The one-object fallback, kept for very full volumes, dies on the workspace that
   the adaptive scheduler just filled (`writer.c:1707`). In the instances the
   fallback is never seen to finish: the adaptive scheduler gives up only while the
   low run of the workspace is held.
4. A Defragment that reaches the canonical layout around a bad cluster fails its own
   verification, again on every repetition (`fat_analysis.c:485`).
5. When the GUI stops reading, the helper closes the engine's output before it asks
   the engine to stop, and SIGPIPE kills the engine inside a commit. The lifecycle
   test cannot see this, as its child is a Python program, which ignores SIGPIPE.
6. An NTFS Recover marks the volume dirty with a function that refuses a volume
   already marked dirty (`ntfs_worker.c:334`), so a placement that was interrupted
   cannot be replayed, although plan and copies are whole. `Recoverable` and
   `Resolves` name this state, `Refused`, as their exception; everything else about
   it, in particular that no byte is lost, is checked.

Seen while modelling and not the subject of a run:

- The ext, NTFS, XFS, HFS+, AFFS and SFS workers unlink the working file before the
  journal. A kill in between, at the end of a commit or of a restore, leaves a journal
  that Recover cannot use and every command refuses, on a volume that is whole
  (`Stranded`).
- XFS, ext and NTFS compare only the identity of the target: what an owner writes
  between a crash in the commit and Recover is overwritten. In the models
  the owner leaves a volume with a commit to finish to Recover.
- XFS also overwrites what an owner writes between the clone and the commit
  (`xfs_worker.c:288`, `:334`). Its message "the XFS target changed while its working
  image was prepared" is given only when identity, size, UUID or block count differ.
  `staged_commit` has this case, and `ContentsKept` and `Implements` say what the files
  hold after it: the bytes of the clone. The fallbacks
  of ext (`ext_worker.c:307`) and NTFS (`ntfs_worker.c:308`) compare as little;
  `DirectRelayout` has no owner and claims nothing about his edits.
- An NTFS command that dies between marking the source dirty and recording the commit
  (`ntfs_worker.c:771`) is discarded by Recover with the flag left set.
- A comment at `exfat_relayout.c:1197` says data placement never begins until both
  boot copies are valid and dirty; Recover places without setting the flag.
- `exfat_set_stage_boot_dirty` builds the boot sector of the fallback image from a
  plan without placements (`exfat_plan.c:462`). The fallback is not modelled.

## Proofs

`FatRelocationProofs` proves, for every set of volumes, move set and number of
transactions and faults, under the assumptions of `FatVolume` and `FatRelocation`
(cluster numbers are naturals from 2, the active FAT and the primary boot sector are
among the copies, the volumes before the first command are sound):

- `TypeCorrect`: `Spec => []TypeOK`.
- `Invariance`: `Spec => []IInv`. `TypeOK` is not inductive in a useful way: `IInv`
  adds `Consistent` (cache and disk differ only where the pending transaction
  writes) and `Progress` (what each durable point has achieved, for instance that
  after the copy is synced, copying again changes nothing). Without `Progress`
  the refinement does not see that freeing the sources last is enough.
- `Refinement`: `Spec => Implements`. The mapping takes the volume to be what
  finishing the pending journal makes of the disk. The central lemma is `RedoAgree`:
  finishing a transaction gives the same volume from any two volumes that agree
  outside what it writes, because nothing it reads is something it writes. Hence
  crashes, lost writes and repeated recoveries are stutters, `Prepare` is the one
  step that changes the mapped volume, and `RedoRenames` shows it renames clusters.

Its second part, on `FatContents`, proves what that renaming means, for every tree and every depth
limit. The further assumptions are that there are finitely many clusters and that
`scan_files` accepts the volumes before the first command, which it does or the command
ends there (`InitialScans`).

- `SameContents`: two volumes of which one reads as the other with its clusters renamed
  (`Reads`: links, slots, first-cluster fields and the root, from the clusters that
  these do not leave, by a one-to-one renaming) have the same `Contents`. Chains and
  tree are recursive functions; `ChainRenames` and `ObjectsRenamed` go along them by
  induction on the natural numbers, whose theorem `FoldInduction` supplies.
- `TreeKept` (`ContentsKept`), `IdleScans` (`IdleVolumeScans`) and `TreeConstant`, which is
  stronger than the first: no step changes the contents of the committed volume at all.
  The invariant is `CInv`: the committed volume is sound, is accepted by the scan and
  has the original contents. `ScanAcceptsRenamed` needs that the renaming is one-to-one
  on all that lives, hence that destinations were free.
- `ReadableUnrecovered` (`FirstAttemptReadable`). `FirstInv` says what each stage of the
  record stands for in a first attempt: at `PREPARED` disk and cache are the volume the
  record was made from, but for the bytes of its free destinations; from `SWITCHED` on
  they are the committed volume, but for the entries of sources that nothing names any
  more and the hint. It speaks of cache as well as disk, since a power loss mixes
  the two.

`HelperSessionProofs` proves, for any number of run requests and any capacity of the
child's pipe (`Bounds` of `HelperSession` is the only assumption):

- `NoOrphanTheorem`, `OneChildTheorem`: a child that is not reaped is the worker
  thread's, and a helper that has exited has no worker thread. The invariant adds
  which phases of `run_request` hold a child, that a request not yet served has
  none, and that the slot behind `active_mutex_` names the job exactly while the
  worker has not given it up: `handle_run` reads the slot and claims it under two
  separate locks, and only this makes the claim safe.
- `StopWaitsTheorem`: no Stop kills an engine that has not installed its handler.
  Every path to a SIGINT carries its own evidence that the handler is there, because
  each is taken after the lock that protected the evidence was released: a queued
  Stop is delivered at the first line, a Stop in flight read `has_output`, and an
  engine that has written is past its start.
- `EventOrderTheorem`, `FinishedMeansIdleTheorem`: the invariant says which events can
  still be emitted and that every `started` but the current job's has its `finished`.
- `TypeTheorem`.

`FatLayoutProofs` proves, for every finite set of objects, any size of volume, any
options and any layout that a scan accepts:

- `FreeDestinations` (`OnlyFreeDestinations`): the scheduler asks only for relocations to
  clusters that are free, never two objects to one cluster. It is what `FatRelocation`
  assumes of its move sets, so the two models together cover the worker.
- `CompletedSatisfied` (`CompletedIsSatisfied`): what the last verification accepts, the
  next command's preflight calls satisfied. `VerifiedIsSatisfied` is the reason: the plan
  leaves room for each reserve, and no other run of the plan crosses it (`Reserved`).
- `NeverDies` (`NoInternalFailure`): none of the scheduler's own checks ever fails. The
  code gives up when evacuation finds no room, when the plan no longer fits, when a
  staged object is not in the workspace or its target is taken; no sequence of passes and
  batches makes it do so.
- `LayoutTypeCorrect` (`TypeOK`), `LayoutInvariant`.

The invariant `LayoutInv` says that chains are apart and off the bad clusters, the order
lists every object once, the plan's targets are apart and lie below the workspace, the
workspace has no bad cluster, and, phase by phase, which objects may be in it and how far
the order has been walked. Without the phase invariants the forward pass is not seen to
be safe: unlike the unified and the adaptive pass it does not look whether the
workspace is free before it stages there, and is right only because evacuation, and
`ForwardPlace` each time, left nothing in it.
`UnblockedKept` is the same for the fallback, which moves what is in the way to clusters
its staged object has left. `PlanKept`, `DirectBatchDirect`, `ReverseBatchDirect`,
`ForwardBatchStaging`, `UnifiedBatchStaging` and `StageBatchFree` say what the loops of the
scheduler return; each is an instance of `FoldInduction`.

`NeverDies` rests on a second invariant, `SafeInv`: where no pass is under way nothing is
said, in the others what their checks will need. Four facts carry it. A plan lies below
the workspace, so an object in the workspace is in the way of no target. Evacuation has
room (`RoomBelow`): the plan shows that all objects fit below the workspace, so as many
good clusters are free there as the objects in the workspace have clusters there. The
plan still fits when the scheduler plans again (`ShorterPlan`): leaving an object out of
the list never makes a run start later. And the fallback finds a place for what is in the
way (`EnoughSlots`): the slots its staged object has left are at least as many as the
clusters in its target that other objects hold. `StagedTargets` and `UnifiedStagesAll` say
that what a batch has staged is placed by the next step and by nothing in between.

The assumptions are that a volume has finitely many objects, none of them empty
(`FiniteObjects`, `Sizes`); that the limits are numbers, RAM and batch not zero, and bad
clusters lie on the volume (`SetupRecords`); and that no two chains share a cluster
(`ChainsGiven`), since the scan refuses cross-linked volumes.

`StagedCommitProofs` proves, for every set of volumes, interval, number of faults and
of edits (the assumptions of `StagedImage` and `StagedCommit`):

- `WriteAheadTheorem`: the source changes only under a durable record of the commit
  and with the whole image there. The proof does not depend on any planner: lemmas
  `HfsplusSteps`, `AffsSteps` and `SfsSteps` show that each worker only takes steps of
  `DigestCommit`, whatever its layout, token and checks are, and `DigestKeeps` shows
  those preserve the invariant; `XfsKeeps` does it for XFS.
- `UnsyncedIsRepeated`: whenever cache and disk differ, the journal and the image
  repeat the difference. It is part of the inductive invariant: a power loss changes
  `disk` too, and only this makes that change one that `WriteAhead` allows.

`StagedContentsProofs` proves the rest of what `staged_commit` checks, again for every
set of volumes and files, any number of cells, any interval, faults and edits:

- `StagedContentsKept`: no byte is lost or exchanged, and HFS+, AFFS and SFS take none back
  from its owner, whatever he edits in any phase before the commit. For XFS the files
  hold `promised`: an edit made after the clone is undone by the commit, and that is all
  it undoes.
- `StagedStageReady`, `StagedTypeOK`: a bound image is a volume in order with the layout
  that was asked for.
- `StagedPlacedIsVerified`: planner, mover and verifier agree, so no worker throws away a
  layout that could be placed.
- `StagedCompletedDurable`, `StagedImplements`: the refinement of `AtomicRelayout`, step by
  step: beginning the commit changes the layout, and for XFS brings back the contents of the
  clone; making the clone copies, an edit changes contents, all else stutters.

The inductive invariant is `StagedInv`. None of the properties is inductive: that the
settled volume has the owner's contents after the next step needs to know what the
image holds that the step binds, and that needs to know of which source it was built
and whether the owner changed that source since. `DigestInv` (HFS+, AFFS, SFS) and
`XfsInv` say this phase by phase: a token was taken of the source or of an earlier
state of it (`Captured`); an image holds what the owner saw unless the source was
edited after the token (`Fresh`), which is exactly what `Bind` compares, and an XFS image
holds `cloned`; in a commit every block that the image carries is either still to be
written or already in the source (`Carries`, `Agree`; for XFS `Written`, up to the recorded offset); and a volume
a worker starts from, or leaves, is `Intact`. `CommitInv` is the invariant of
`StagedCommitProofs`, on which this one is built.

What the planners compute. They are folds over the files, and an invariant of a fold's
step is an induction over data, which the library's induction theorems cannot be used
for (they take an operator as parameter). `FoldInduction` goes round that: step and
invariant are CONSTANT operators, the theorem `FoldKeeps` is proved once from the
well-foundedness of the naturals, and each planner takes an INSTANCE with its own step
and invariant. So it is proved, for any volume:

- every planner gives each file a run of its own with its reserve, on cells that are free
  or of files (`HfsplusPlanKept`, `AffsPlanKept`, `SfsPlanKept`, `XfsPlanFits`), and what is
  built of it has every payload and passes the checks (`HfsplusBuilds`, `AffsBuilds`,
  `SfsBuilds`);
- `PermuteMoves`: the permutation in place, which follows chains and cycles with one saved
  block (`xfs_plan.c:616`), brings every payload to its target. Its invariant counts: of
  the moves still to do, one always has a target that nothing else needs (`AlwaysDue`, a
  pigeonhole argument), each cycle costs one step more than its moves, so `2 N` steps
  are enough. The bound of the model's fold is therefore no restriction;
- `PoolIsFree`, `TreesApart`: the blocks that the rebuilt free-space trees borrow are free
  before and after the move, so the permutation, which runs later, neither reads nor
  writes them;
- `ArrangedVerifies`: all this together passes `VerifyStage`.

These rest on the assumptions on the constants, which TLC evaluates on every run and
which say what a volume is, not what the workers make of it:

| Assumption | Says | Why |
| --- | --- | --- |
| `CellsAssumption`, `FilesAssumption`, `IntervalAssumption`, `Bounds` | sizes are numbers, files are numbered | |
| `VolumesAssumption`, `StartsAssumption` | a volume has a map for each file and contents for each cell; XFS starts on sound ones | the XFS clone lacks a block that is in use but marked free (`xfs_worker.c:288`) |
| `PinnedAssumption` | fixed metadata is marked used and belongs to no file | it is what the formats keep outside of files |
| `ProtectedAssumption` | on HFS+, nothing else claims a cell of a protected fork, and payloads tell whose a cell is | the worker checks payloads but moves no protected fork |
| `TreeAssumption`, `TreesAssumption` | the pool of the XFS trees is fixed metadata; no file cell holds a tree block | the worker finds the trees from their roots, the model from what a cell holds |

The theorems about `DirectRelayout` rest on the first two rows and on one more:

| Assumption | Says | Why |
| --- | --- | --- |
| `SoundAssumption` | ext and NTFS start on volumes on which no cell belongs twice, every cell of a file is marked used, and the fixed metadata is marked used and in no file | the catalogues refuse a cell that belongs twice (`CatalogPlan`), and trust the allocation map for the rest, on a volume that is marked clean (`ext_common.c:293`): a block that is in use but marked free is not copied by any workspace or image |

`ProtectedAssumption` and `TreesAssumption` were found by proof attempts that failed
without them. What the workers make of a volume on which another fork claims a cell of
a protected one is outside the results; that a file's data could pass for a tree block is
a matter of the model only.

`DirectRelayoutProofs` proves, for the ext worker, every property of `direct_relayout` that
is not about ENABLED or liveness: any set of sound volumes, any number of cells and
files, any interval, any number of faults, and Stop or a failed write between any two
steps. The theorems have the form `Spec /\ worker = "ext" => []P`; `worker` is chosen in the
initial state and never changes.

- `ExtContentsKept`, `ExtTypeOK`: whatever part of a script a power loss keeps, the copies,
  the blocks still in place and those already moved make up every file, on stable
  storage and in what the kernel shows.
- `ExtWriteAhead`: while Recover would throw the command away, only free cells are written.
- `ExtUndone`: what is undone is undone on stable storage before the journal goes.
- `ExtPlacedVerifies`: what planner, copies, permutation and bitmap updates make is never
  refused by `VerifyStage`, in place or in the working image.
- `ExtCompletedDurable`, `ExtImplements`: the refinement of `AtomicRelayout`.

The invariant is `ExtInv`, and again no property is inductive without it. In the phases
that Recover discards (`Quiet`) kernel and disk show what the owner saw, but for free
cells. From `direct-placing` on there is some volume `v`, the one the plan was made of,
whose blocks need no longer be in place; `Copied` says that its copies are in their
slots, on disk and in the cache, and that this is what the recorded digest is of. Since
nothing writes a slot until the journal goes, `Restored` gives `v` back from any mixture
of old and new blocks, which is all that `ContentsKept` asks, however often a restore is
itself interrupted. What a phase has still to do is `Nears(todo, d, c, goal, keep,
reach, area)`: each copy reads only blocks of `keep`, which already are as in `goal` on
disk and in the cache, and writes only blocks of `reach`, what `goal` has there or what
a later step overwrites; what of `area` is not yet as in `goal` is still to be written;
the last step is a flush. `keep` and `reach` are disjoint, and this is why the steps can
be lost and repeated in any order. `StepNears` proves once that a step keeps it and that
the disk is the goal when the script has ended; `ExtLayoutProofs` shows it of the four
scripts: into the workspace (`StagingNears`), to the targets (`PlacingNears`, with
`BatchesAre`: the batches of adjacent targets are a fold, which holds every row and
nothing else), the bitmap and the maps (`MetadataNears`: the first bitmap is not the
goal's but is overwritten later), and back (`RestoringNears`). For the working image the
invariant is `Verified` of the image and `Written` up to the recorded offset
(`ExtCommit`). That `NewLayout` is sound, in order and holds the same files
(`NewLayoutIs`, `NewLayoutVerifies`, `ArrangedVerifies`) comes from the planner, by
`FoldInduction`, and from the workspace, which avoids what the plan uses, reserves
included (`PreparedIsPlan`). The lemmas on runs, `FirstFit` and the permutation are
stated a second time over `ExtTransaction`: those of `StagedCommitProofs` are about
`StagedCommit`'s instance of the same operators.

Only model-checked: of `StagedCommit`, `Recoverable`, which is about ENABLED, and the
liveness property `Resolves`; of `FatLayout`, `Terminates`; of `DirectRelayout`, `Recoverable` and
`Resolves` for the same reasons, and the NTFS and exFAT workers altogether. For NTFS the
scripts are the same kind, but an interrupted placement is replayed as well as restored,
and which of the two depends on whether the maps were written; exFAT goes forward from a
half restored volume, so its invariant needs two goals at once. Liveness under fairness
(`EventuallyRetired`, `Terminates`, `StopReachesChild`, `ShutdownEnds`, `Resolves`) stays with TLC:
the proof system has no rules for ENABLED of these actions.

## Plan

The order in which the models were built: the FAT transaction and its scheduler, the
helper, the image workers, the in-place workers, then the proofs. What is left, in
this order:

1. `PrivilegeClient` composed with `HelperSession`: every request completes once, the
   Stop that overtakes its run request (`privilege_session.py:337`), the thread that
   cannot be started (`privileged_helper.cpp:368`).
2. Proofs about the NTFS and exFAT workers of `DirectRelayout`, with the lemmas on scripts,
   copies and permutations of `ExtLayoutProofs`: `WriteAhead` and `Undone` first, then
   `TypeOK`, `ContentsKept` and the refinement.
3. The working-image fallback of exFAT, over `OffsetCommit`; the older single-file
   FAT journal.

## Not modelled, and why

- The GUI privilege session: planned, see above.
- Parsing and rendering (read-only analysers, block map, JSON, the desktop GUI):
  sequential and stateless. The core runtime wraps system calls.
- Operation engine and helper policy: table lookups before an exec. `HelperSession`
  has both outcomes, a refusal and a child.
- Device identity and the refusal of mounted targets: queries of sysfs and mountinfo.
  The models take the device to be the same from open to commit, and nobody mounts it
  between the last comparison and the exclusive open; the owner's edits say what an
  unmounted target can still meet before that.
- An owner who writes while XFS is cloning: the clone is one step, so an image that mixes
  two states of the volume is not in the model. Edits before and after it are.
- Format detail: what each worker's module leaves out is under its section above, and
  in the notes of `PROJECT.json`. It is where a format stores its maps, never when.
- Hardware that lies about fsync is outside the model, as it is outside the code's
  own safety case (`docs/AUDIT_STATUS.md`). Process ids are never reused. Memory
  exhaustion is a process death.
