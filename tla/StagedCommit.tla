----------------------------- MODULE StagedCommit -----------------------------
(***************************************************************************)
(* Four workers that commit a verified working image, each on the volume   *)
(* its filesystem selects, with killed workers, power losses and an owner  *)
(* who uses the volume between two commands and while an image is made.    *)
(***************************************************************************)
EXTENDS StagedImage

CONSTANTS Starts,  \* workers, each with a volume it starts from
          Protected, Interval, RecordsPerBlock, TreePool

\* XFS does not ask the free map whether a file may own its blocks; its clone
\* lacks a block that a damaged map has as free.
ASSUME StartsAssumption ==
    \A s \in Starts : /\ s[1] \in {"hfsplus", "affs", "sfs", "xfs"} /\ s[2] \in InitialVolumes
                      /\ s[1] = "xfs" => Sound(s[2])

\* Fixed metadata is marked used and belongs to no file.
ASSUME PinnedAssumption ==
    \A s \in Starts : /\ Pinned \subseteq s[2][Bitmap] \ Movable(s[2])
                      /\ \A c \in Pinned : s[2][Cell(c)] = <<0, c>>

\* On HFS+ a protected fork has its cells to itself, and what is in a cell tells
\* whose it is: the worker compares payloads, but moves no protected fork out
\* of the way of another.
Apart(v) == \A f \in Protected : /\ IsInjective(v[MapOf(f)])
                                 /\ \A g \in Files : \A c \in CellsOf(v, g) : v[Cell(c)][1] = f <=> g = f
ASSUME ProtectedAssumption ==
    Protected \subseteq Files /\ \A s \in Starts : s[1] = "hfsplus" => Apart(s[2])

ASSUME IntervalAssumption == Interval \in Nat \ {0}
ASSUME TreeAssumption == RecordsPerBlock \in Nat \ {0} /\ TreePool \subseteq Pinned

Hfsplus == INSTANCE HfsplusTransaction
Affs == INSTANCE AffsTransaction
Sfs == INSTANCE SfsTransaction
Xfs == INSTANCE XfsTransaction

\* What is in a cell tells a block of the free-space trees, which the worker
\* finds from their roots, from the data of a file.
ASSUME TreesAssumption ==
    \A s \in Starts : s[1] = "xfs" => \A c \in Movable(s[2]) : s[2][Cell(c)] # Xfs!Tree

\* XFS compares the identity of the target and not what is in it before it
\* commits an image made earlier.  To say what it does keep, two variables
\* remember what no step of the system reads.
VARIABLES
    cloned,   \* what the files held when XFS last made its working image
    promised  \* what the owner last saw or, once an XFS commit put back what
              \* was cloned before that, what he saw when it was cloned
allvars == <<vars, cloned, promised>>

Start == /\ \E s \in Starts : worker = s[1] /\ disk = s[2] /\ Init
         /\ cloned = owner
         /\ promised = owner

Work == \/ worker = "hfsplus" /\ Hfsplus!Work
        \/ worker = "affs" /\ Affs!Work
        \/ worker = "sfs" /\ Sfs!Work
        \/ worker = "xfs" /\ Xfs!Work
Recover == \/ worker = "hfsplus" /\ Hfsplus!Recover
           \/ worker = "affs" /\ Affs!Recover
           \/ worker = "sfs" /\ Sfs!Recover
           \/ worker = "xfs" /\ Xfs!Recover
Stop == \/ worker = "hfsplus" /\ (Hfsplus!Abandon \/ Hfsplus!StopStaged \/ Hfsplus!StopCommit)
        \/ worker = "affs" /\ (Affs!Abandon \/ Affs!StopStaged \/ Affs!StopCommit)
        \/ worker = "sfs" /\ (Sfs!Abandon \/ Sfs!StopStaged \/ Sfs!StopCommit)
        \/ worker = "xfs" /\ Xfs!StopStage
Command == \/ worker = "hfsplus" /\ Hfsplus!CaptureTarget
           \/ worker = "affs" /\ Affs!CaptureTarget
           \/ worker = "sfs" /\ Sfs!CaptureTarget
           \/ worker = "xfs" /\ Xfs!Preflight

Move == Command \/ Work \/ Recover \/ Stop \/ Killed \/ PowerLoss \/ Edit \/ RemoveOrphan

Clones == journal.phase = "preflight" /\ journal'.phase = "cloning"
BeginsCommit == journal.phase = "verifying-stage" /\ journal'.phase = "commit"
Remember ==
    /\ cloned' = IF Clones THEN promised ELSE cloned
    /\ promised' = IF edits' # edits THEN owner'
                   ELSE IF BeginsCommit THEN cloned
                   ELSE promised

Next == Move /\ Remember

Spec == Start /\ [][Next]_allvars

\* A running worker goes on, and somebody runs Recover on what is pending.
FairSpec == Spec /\ WF_vars(Work) /\ WF_vars(Recover)

-----------------------------------------------------------------------------
(* Properties.                                                             *)

\* Volumes, journals and images have the shapes the workers rely on.
TypeOK ==
    /\ IsVolume(disk) /\ IsVolume(cache)
    /\ stage.state \in {"none", "partial", "whole"}
    /\ stage.state = "whole" => IsVolume(stage.image)
    /\ worker = "xfs" /\ journal # NoJournal /\ stage.state = "whole"
       => journal.offset \in 0..Len(Xfs!AllocatedRanges(stage.image))
    /\ faults \in 0..MaxFaults /\ edits \in 0..MaxEdits

\* What is on v once Recover has written what the journal binds it to write.
Settled(v) ==
    IF journal.phase = "committing" THEN stage.image
    ELSE IF journal.phase \in {"commit", "verifying-source"} /\ stage.state = "whole"
         THEN Overlay(v, stage.image, Range(Xfs!ResumeAt(journal.offset).todo))
    ELSE v

\* Every byte of every file, and of the fixed metadata, is what its owner
\* last saw, on stable storage and in what the kernel shows, whatever was
\* killed or lost in between, and for HFS+, AFFS and SFS whatever the owner
\* changed.  An XFS commit puts back the bytes of its clone and takes back what
\* the owner wrote since: that, and no other byte, is not kept.
ContentsKept ==
    \A v \in {Settled(disk), Settled(cache)} :
       /\ Contents(v) = IF worker = "xfs" THEN promised ELSE owner
       /\ \A c \in Pinned : v[Cell(c)] = <<0, c>>

\* The files the worker may lay out are in one run each with their reserve.
Arranged(v, op) ==
    \A f \in Files \ (IF worker = "hfsplus" THEN Protected ELSE {}) :
       IsRun(v[MapOf(f)]) /\ ReserveAfter(v, f, op) \subseteq FreeCells(v)

\* The image that a journal binds is a volume in order, whatever disorder
\* the source was in, and has the layout that was asked for.
StageReady ==
    journal.phase \in {"staged", "committing", "committed", "commit", "verifying-source"}
       /\ stage.state = "whole"
    => Sound(stage.image) /\ Arranged(stage.image, journal.op)

\* The planner, the mover and the verifier agree: on a volume in order, what
\* could be placed is never thrown away by the worker's own verification.
PlacedIsVerified ==
    Sound(cache) =>
       CASE At("build") /\ worker = "hfsplus" ->
              (LET built == Hfsplus!BuildStage(cache, proc.op)
               IN built.placed => /\ Hfsplus!ComparePayloads(cache, built.image)
                                  /\ Hfsplus!VerifyLayout(built.image, proc.op))
         [] At("build") /\ worker = "affs" ->
              (LET built == Affs!BuildStage(cache, proc.op)
               IN built.placed => Affs!VerifyLayout(built.image, proc.op))
         [] At("build") /\ worker = "sfs" ->
              (LET built == Sfs!BuildStage(cache, proc.op)
               IN built.placed => Sfs!VerifyLayout(built.image, proc.op))
         [] At("arrange") -> Xfs!Rebuilt.fits => Xfs!Verifies(Xfs!ArrangedImage(Xfs!Rebuilt, Xfs!Targets))
         [] OTHER -> TRUE

\* A half-written source can always be finished: neither its own commit nor
\* a fault makes Recover refuse it.
Recoverable == At("down") /\ journal.phase \in {"committing", "commit"} => ENABLED Recover

\* The source is written only under a durable record that says so, and only
\* while the image that repeats the write is there.
WriteAhead ==
    [][(disk' # disk \/ cache' # cache) /\ edits' = edits
       => journal.phase \in {"committing", "commit"} /\ stage.state = "whole"]_vars

\* When a finished commit gives up its journal, the whole new layout is on
\* stable storage.
CompletedDurable ==
    [][journal.phase \in {"committed", "verifying-source"} /\ journal' = NoJournal /\ edits = 0
       => Sound(disk) /\ Arranged(disk, journal.op)]_vars

\* Each worker implements the atomic change of layout, with the contents of
\* the moment before the change, or for XFS of the moment of its clone.
Copied == IF worker = "xfs" THEN cloned ELSE Contents(Settled(disk))
Volume0 == INSTANCE AtomicRelayout WITH
    InitialLayouts <- {Maps(v) : v \in InitialVolumes},
    layout <- Maps(Settled(disk)),
    contents <- Contents(Settled(disk)),
    copy <- Copied
Implements == Volume0!Atomic

\* The image went first and the journal was left: no Recover can use it.
Stranded == journal # NoJournal /\ stage = NoStage

\* Once nobody asks to stop any more, what a stopped, killed or powered off
\* worker left is resolved, unless it was killed between the removal of its
\* image and that of its journal or the owner used the volume.
Resolves ==
    <>[][~ Stop]_vars =>
       (journal # NoJournal ~> journal = NoJournal \/ Stranded \/ edits > 0)
=============================================================================
