---------------------------- MODULE DirectRelayout ----------------------------
(***************************************************************************)
(* The workers that change the layout in place, with a workspace at the    *)
(* high end of the volume, each on the volumes its filesystem selects,     *)
(* with Stop, failed writes, killed workers and power losses.              *)
(***************************************************************************)
EXTENDS ExtTransaction

CONSTANT Starts  \* workers, each with a volume it starts from

ASSUME StartsAssumption == \A s \in Starts : s[2] \in InitialVolumes
ASSUME IntervalAssumption == Interval \in Nat \ {0}

\* A checked filesystem: the workers of EXT and NTFS refuse a cell that belongs
\* twice, and trust the allocation map for the rest.
ASSUME SoundAssumption == \A s \in Starts : s[1] # "exfat" => Sound(s[2])

Ntfs == INSTANCE NtfsTransaction
Exfat == INSTANCE ExfatTransaction

Start == \E s \in Starts : worker = s[1] /\ disk = s[2] /\ Init

Command == \/ worker = "ext" /\ Preflight
           \/ worker = "ntfs" /\ Ntfs!Preflight
           \/ worker = "exfat" /\ Exfat!Preflight
Work == \/ worker = "ext" /\ ExtWork
        \/ worker = "ntfs" /\ Ntfs!Work
        \/ worker = "exfat" /\ Exfat!Work
Recover == \/ worker = "ext" /\ ExtRecover
           \/ worker = "ntfs" /\ Ntfs!Recover
           \/ worker = "exfat" /\ Exfat!Recover
Stop == \/ worker = "ext" /\ ExtStop
        \/ worker = "ntfs" /\ Ntfs!Stop
        \/ worker = "exfat" /\ Exfat!Stop
Failure == \/ worker = "ext" /\ FailDirect
           \/ worker = "ntfs" /\ Ntfs!FailPlacing

Next == Command \/ Work \/ Recover \/ Stop \/ Failure \/ Killed \/ PowerLoss

Spec == Start /\ [][Next]_vars

\* A running worker goes on, and somebody runs Recover on what is pending.
FairSpec == Spec /\ WF_vars(Work \/ Recover)

-----------------------------------------------------------------------------
(* What Recover, or the worker that runs, makes of a volume v: the old     *)
(* layout where the copies are put back, the new one where they are placed *)
(* again or an image is committed.                                         *)

DiscardedPhases == {"none", "preflight", "prepared", "cloning", "arranging", "verifying-stage",
                    "direct-staging", "direct-staged", "workspace-staging"}
RestoredPhases == {"direct-placing", "direct-metadata"}

Committed(v) ==
    Once(LAMBDA S : Overlay(v, stage.image, S), Range(ResumeAt(journal.offset).todo))

\* The new layout, with the clusters the NTFS workspace keeps.
Replaced(v) ==
    LET placed == Ntfs!CopyRows(v, Ntfs!PlaceRows(journal.plan))
    IN [b \in Blocks |-> IF b[1] = "map" THEN Ntfs!FileTarget(journal.plan, b[2])
                         ELSE IF b = Bitmap THEN journal.plan.used ELSE placed[b]]
Remapped(v) == \A f \in Files : v[MapOf(f)] = Ntfs!FileTarget(journal.plan, f)

\* The new layout of the exFAT manifest, with the files its workspace keeps.
Relaid(v) ==
    LET db == journal.plan
        file(c) == {f \in Files : c \in Range(Exfat!Target(db, Exfat!File(f)))}
        source(c, f) == c - db.start[Exfat!File(f)] + db.staged[Exfat!File(f)]
    IN [b \in Blocks |->
           CASE b = Bitmap -> Exfat!Planned(db)
             [] b[1] = "map" -> Exfat!Target(db, Exfat!File(b[2]))
             [] b[1] = "cell" /\ file(b[2]) # {} -> v[Cell(source(b[2], CHOOSE f \in file(b[2]) : TRUE))]
             [] OTHER -> v[b]]

Settled(v) ==
    CASE worker = "exfat" -> IF journal = NoJournal THEN Exfat!Scanned(v) ELSE Relaid(v)
      [] journal.phase \in RestoredPhases -> Restored(v, journal.plan.slots)
      [] journal.phase = "workspace-placing" /\ ~ Remapped(v) -> Restored(v, journal.plan.slots)
      [] journal.phase \in {"workspace-placing", "workspace-metadata"} -> Replaced(v)
      [] journal.phase \in {"commit", "verifying-source"} /\ stage.state = "whole" -> Committed(v)
      [] OTHER -> v

-----------------------------------------------------------------------------
(* Properties.                                                             *)

\* Volumes, journals and images have the shapes the workers rely on.
TypeOK ==
    /\ IsVolume(disk) /\ IsVolume(cache)
    /\ stage.state \in {"none", "plan", "partial", "whole"}
    /\ stage.state = "whole" => IsVolume(stage.image)
    /\ journal.phase \in {"commit", "verifying-source"} /\ stage.state = "whole"
       => journal.offset \in 0..Len(AllocatedRanges(stage.image))
    /\ faults \in 0..MaxFaults

\* No byte of a file is lost: the copies in the workspace, the blocks still in
\* place and those already moved make up every file at every moment, on
\* stable storage and in what the kernel shows, and no cell belongs twice.
ContentsKept ==
    \A v \in {Settled(disk), Settled(cache)} :
       /\ Contents(v) = owner
       /\ IF worker = "exfat" THEN Exclusive(v) ELSE Sound(v)

\* Whatever is pending can be recovered, except for an NTFS volume that was
\* already marked dirty: its Recover marks it again and refuses a dirty one.
Refused == /\ worker = "ntfs" /\ cache[Header] = Ntfs!Dirty
           /\ journal.phase \in Ntfs!WorkspacePhases \union {"direct-metadata", "direct-verifying-source"}
Recoverable ==
    At("down") /\ journal # NoJournal /\ (worker = "exfat" \/ stage # NoStage) => ENABLED Recover \/ Refused

\* ntfs_worker.c says of an interrupted placement that "Recovery can replay
\* placement and metadata from their checksummed copies": while plan file and
\* copies are there, Recover starts.
Replayable ==
    /\ At("down") /\ stage = Ntfs!PlanFile
    /\ journal.phase \in {"workspace-placing", "workspace-metadata", "workspace-verifying-source"}
    => ENABLED Recover

\* While Recover would throw the command away, at most free cells of the
\* volume are written, and the NTFS dirty flag.
WriteAhead ==
    [][journal.phase \in DiscardedPhases =>
          \A b \in Differing(cache, cache') :
             \/ b[1] = "cell" /\ b[2] \in FreeCells(IF worker = "exfat" THEN Exfat!Scanned(cache) ELSE cache)
             \/ worker = "ntfs" /\ b = Header]_vars

\* What is undone, after a Stop, a failed write or a crash, is undone on
\* stable storage before the journal goes: every block that moved is back.
Undone ==
    [][/\ journal.phase \in RestoredPhases \union {"workspace-placing"} /\ journal' = NoJournal
          => Originals(disk, journal.plan.slots) = journal.plan.kept
       /\ worker = "exfat" /\ At("rollback") /\ journal' = NoJournal
          => Exfat!Opens(disk) /\ Exfat!Objects(Exfat!Scanned(disk)) = proc.old]_vars

\* When a finished command gives up its journal, the whole new layout is on
\* stable storage, with the room it was asked for behind each file.
Arranged(v, operation) ==
    \A f \in Files : IsRun(v[MapOf(f)]) /\ ReserveAfter(v, f, operation) \subseteq FreeCells(v)
CompletedDurable ==
    [][/\ journal.phase \in {"direct-verifying", "verifying-source", "workspace-verifying-source"}
          /\ journal' = NoJournal
          => Sound(disk) /\ Arranged(disk, journal.op)
       /\ At("verified") /\ journal' = NoJournal
          => \A s \in {Exfat!Scanned(disk)} : Exclusive(s) /\ Arranged(s, journal.op)]_vars

\* Plan, mover and verifier agree: what was placed is never refused by the
\* worker's own verification.
PlacedVerifies ==
    [][/\ At("arrange") /\ journal'.phase = "verifying-stage" => proc'.pc = "check"
       /\ worker = "ext" /\ At("verifying") => VerifyStage(cache, journal.plan, proc.op)
       /\ worker = "ntfs" /\ At("verifying") => Ntfs!VerifyStage(cache, journal.plan, proc.op)
       /\ worker = "exfat" /\ proc.pc = "committing" /\ proc.todo = <<>>
          => Exfat!VerifiesFinal(cache, proc.op)]_vars

\* Each worker implements the atomic change of layout; what it relays is what
\* the volume holds.
SettledLayout == Once(Maps, Settled(disk))
SettledContents == Once(Contents, Settled(disk))
Volume0 == INSTANCE AtomicRelayout WITH
    InitialLayouts <- {Maps(v) : v \in InitialVolumes},
    layout <- SettledLayout,
    contents <- SettledContents,
    copy <- SettledContents
Implements == Volume0!Atomic

\* The working file went first and the journal was left: no Recover can use it.
Stranded == worker # "exfat" /\ journal # NoJournal /\ stage = NoStage

\* Once nobody asks to stop any more, what a stopped, killed or powered off
\* worker left is resolved, unless it was killed between the removal of its
\* working file and that of its journal, or Recover refuses the NTFS volume.
Resolves ==
    <>[][~ Stop]_vars => (journal # NoJournal ~> journal = NoJournal \/ Stranded \/ Refused)
=============================================================================
