--------------------------- MODULE AffsTransaction ---------------------------
(***************************************************************************)
(* The Amiga OFS/FFS worker: affs_worker.c and the layout it builds with   *)
(* affs_native.c.  Every file can move; file headers, extension lists,     *)
(* directories and bitmap blocks stay where they are.  The target is       *)
(* recognised by its boot blocks and its root block.                       *)
(***************************************************************************)
EXTENDS DigestCommit

-----------------------------------------------------------------------------
(* The layout.                                                             *)

\* The pointers of a file header and of its list blocks.
ScanFile(v, f) == CellsOf(v, f)
ReadBitmap(v) == FreeCells(v)

\* affs_scan's fixed_map: what is neither free nor file data.
FixedMap(v) == (Cells \ ReadBitmap(v)) \ UNION {ScanFile(v, f) : f \in Files}

ChooseRun(fixed, need, reserve) == FirstFit(fixed, need + reserve)

MoveFileData(image, v, f, start) == WriteData(image, v, f, start)
RewritePtrs(image, v, f, start) == WriteMap(image, f, start, Len(v[MapOf(f)]))
\* A mistaken variant: the old bits are only cleared.
BitmapWriteClears(image, used) == [image EXCEPT ![Bitmap] = @ \intersect used]
BitmapWrite(image, used) == [image EXCEPT ![Bitmap] = used]
CopyAllocated(v) == CopyUsed(v)

\* The data comes from the source, the pointers are rewritten in the image.
PlaceFile(v, operation, plan, f) ==
    LET need == Len(v[MapOf(f)])
        reserve == Reserve(operation, need)
        start == ChooseRun(plan.fixed, need, reserve)
    IN IF need = 0 THEN plan
       ELSE IF start = 0 THEN [plan EXCEPT !.placed = FALSE]
       ELSE [fixed |-> plan.fixed \union (start..(start + need + reserve - 1)),
             used |-> plan.used \union (start..(start + need - 1)),
             image |-> RewritePtrs(MoveFileData(plan.image, v, f, start), v, f, start),
             placed |-> plan.placed]

\* Files in the order the directory scan meets them.
BuildStage(v, operation) ==
    LET empty == [fixed |-> FixedMap(v), used |-> FixedMap(v),
                  image |-> CopyAllocated(v), placed |-> TRUE]
        plan == Accumulate(LAMBDA p, f : PlaceFile(v, operation, p, f), empty, FileOrder)
    IN [placed |-> plan.placed, image |-> BitmapWrite(plan.image, plan.used)]

VerifyLayout(v, operation) == LaidOut(v, operation)

-----------------------------------------------------------------------------
(* The transaction.                                                        *)

VolumeToken(v) == v[Header]

CaptureTarget == StartWith(VolumeToken(cache))
Build == At("build") /\ \E built \in {BuildStage(cache, proc.op)} :
            BuildWith(built, VerifyLayout(built.image, proc.op))
CheckUnchangedTarget == Bind(VolumeToken(cache) = proc.token)

\* A mistaken variant: the blocks that the source has allocated.
CommitOrderOfSource(image) ==
    <<Header>> \o [f \in DOMAIN FileOrder |-> MapOf(f)] \o <<Bitmap>> \o CellOrder(cache[Bitmap])
\* One ascending pass over the image's allocated blocks.
CommitOrder(image) ==
    <<Header>> \o [f \in DOMAIN FileOrder |-> MapOf(f)] \o <<Bitmap>> \o CellOrder(image[Bitmap])

BeginCommit == BeginWith(CommitOrder(stage.image))
SafeCommitStage == CommitBlock \/ SyncCommit
StopCommit == StopSource
Committed == CommittedIf(VerifyLayout(cache, proc.op))
TransactionCleanup == CleanupStage \/ CleanupJournal

\* handle_recovery.
RecoveryAccepts == /\ VolumeToken(cache) = journal.token
                   /\ StageMatches
                   /\ VerifyLayout(stage.image, journal.op)
RecoverCommit == ResumeWith(RecoveryAccepts, CommitOrder(stage.image))
RecoverCommitted == RetireWith(RecoveryAccepts /\ VerifyLayout(cache, journal.op))

Work == \/ Build \/ CheckUnchangedTarget \/ BeginCommit \/ SafeCommitStage
        \/ Committed \/ TransactionCleanup
Recover == RecoverCommit \/ RecoverCommitted
Next == CaptureTarget \/ Work \/ Recover \/ Abandon \/ StopStaged \/ StopCommit
=============================================================================
