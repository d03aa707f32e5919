---------------------------- MODULE SfsTransaction ----------------------------
(***************************************************************************)
(* The Smart File System worker: sfs_worker.c and the layout it builds     *)
(* with sfs_native.c.  The working image is a copy of the whole            *)
(* filesystem, and until a commit begins the target is recognised by a     *)
(* digest of all of it, from then on by its two root blocks.               *)
(***************************************************************************)
EXTENDS DigestCommit

-----------------------------------------------------------------------------
(* The catalogue.                                                          *)

\* The extent records that the B-tree holds for a file, by their first cell.
ScanExtentContainer(v, f) ==
    LET m == v[MapOf(f)] IN {m[i] : i \in {j \in DOMAIN m : j = 1 \/ m[j] # m[j - 1] + 1}}
ScanBitmap(v) == FreeCells(v)

\* The chain of a file meets no record twice, and no two files share one.
EvaluateFile(v, f) == IsInjective(v[MapOf(f)])
ScanObjectCatalogue(v) ==
    \A f, g \in Files : /\ EvaluateFile(v, f)
                        /\ f # g => ScanExtentContainer(v, f) \intersect ScanExtentContainer(v, g) = {}

\* Extents overlap neither each other nor free blocks.
ScanCatalogue(v) ==
    /\ \A f, g \in Files : f # g => CellsOf(v, f) \intersect CellsOf(v, g) = {}
    /\ Movable(v) \intersect ScanBitmap(v) = {}
    /\ ScanObjectCatalogue(v)

-----------------------------------------------------------------------------
(* The layout.                                                             *)

ChooseRun(claimed, need, reserve) == FirstFit(claimed, need + reserve)
CopyFilePayload(image, v, f, start) == WriteData(image, v, f, start)

\* The records keep their lengths, so a moved file is a run of adjacent ones.
WriteExtentRecords(image, v, f, start) == WriteMap(image, f, start, Len(v[MapOf(f)]))
WriteBitmap(image, used) == [image EXCEPT ![Bitmap] = used]

PlaceObject(v, operation, plan, f) ==
    LET need == Len(v[MapOf(f)])
        reserve == Reserve(operation, need)
        start == ChooseRun(plan.claimed, need, reserve)
    IN IF need = 0 THEN plan
       ELSE IF start = 0 THEN [plan EXCEPT !.placed = FALSE]
       ELSE [claimed |-> plan.claimed \union (start..(start + need + reserve - 1)),
             used |-> plan.used \union (start..(start + need - 1)),
             image |-> WriteExtentRecords(CopyFilePayload(plan.image, v, f, start), v, f, start),
             placed |-> plan.placed]

\* Objects in catalogue order; only what no extent record owns keeps its
\* place.  The image starts as a copy of every block.
BuildStage(v, operation) ==
    LET fixed == v[Bitmap] \ Movable(v)
        empty == [claimed |-> fixed, used |-> fixed, image |-> v, placed |-> TRUE]
        plan == Accumulate(LAMBDA p, f : PlaceObject(v, operation, p, f), empty, FileOrder)
    IN [placed |-> plan.placed, image |-> WriteBitmap(plan.image, plan.used)]

VerifyLayout(v, operation) == ScanCatalogue(v) /\ LaidOut(v, operation)

-----------------------------------------------------------------------------
(* The transaction.                                                        *)

RootToken(v) == v[Header]

\* The recorded digest of the source covers every block, its roots included.
CaptureTarget == ScanCatalogue(cache) /\ StartWith(cache)
Build == At("build") /\ \E built \in {BuildStage(cache, proc.op)} :
            BuildWith(built, VerifyLayout(built.image, proc.op))
CheckSourceUnchanged == Bind(cache = proc.token)

\* The whole filesystem, free blocks too.
CommitOrder(image) ==
    <<Header>> \o [f \in DOMAIN FileOrder |-> MapOf(f)] \o <<Bitmap>> \o CellOrder(Cells)

BeginCommit == BeginWith(CommitOrder(stage.image))
SafeCommitStage == CommitBlock \/ SyncCommit
StopCommit == StopSource
Committed == CommittedIf(VerifyLayout(cache, proc.op))
TransactionCleanup == CleanupStage \/ CleanupJournal

\* check_target_identity, or before a commit began check_source_unchanged.
\* A mistaken variant: the whole source is compared in every phase.
TargetAcceptedWhole == cache = journal.token
TargetAccepted == IF journal.phase = "staged" THEN cache = journal.token
                  ELSE RootToken(cache) = RootToken(journal.token)

\* handle_recovery.
RecoveryAccepts == TargetAccepted /\ StageMatches /\ VerifyLayout(stage.image, journal.op)
RecoverCommit == ResumeWith(RecoveryAccepts, CommitOrder(stage.image))
RecoverCommitted == RetireWith(RecoveryAccepts /\ VerifyLayout(cache, journal.op))

Work == \/ Build \/ CheckSourceUnchanged \/ BeginCommit \/ SafeCommitStage
        \/ Committed \/ TransactionCleanup
Recover == RecoverCommit \/ RecoverCommitted
Next == CaptureTarget \/ Work \/ Recover \/ Abandon \/ StopStaged \/ StopCommit
=============================================================================
