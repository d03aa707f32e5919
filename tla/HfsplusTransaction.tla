-------------------------- MODULE HfsplusTransaction --------------------------
(***************************************************************************)
(* The HFS+ worker: hfsplus_worker.c and the layout it builds with         *)
(* hfsplus_native.c.  A file of the model is one fork.  The working image  *)
(* is bound to the journal by its digest and to the target by the volume   *)
(* header; a commit always starts from the first allocated block.          *)
(***************************************************************************)
EXTENDS DigestCommit

CONSTANT Protected  \* forks of special files or inside the native journal

Rewritable == Files \ Protected

-----------------------------------------------------------------------------
(* The layout.                                                             *)

ChooseRun(claimed, need, reserve) == FirstFit(claimed, need + reserve)

\* move_fork: the payload is read from the source volume.
MoveFork(image, v, f, start) == WriteData(image, v, f, start)

\* rewrite_inline_fork and rewrite_overflow_fork: one extent.
RewriteFork(image, v, f, start) == WriteMap(image, f, start, Len(v[MapOf(f)]))
RewriteAllocationBitmap(image, used) == [image EXCEPT ![Bitmap] = used]

CopyAllocated(v) == CopyUsed(v)

\* Protected forks and fixed metadata keep their cells; every other fork
\* gives up its own before the first is placed.
Claimed(v) == v[Bitmap] \ UNION {CellsOf(v, f) : f \in Rewritable}

\* Forks in catalogue order, each in the first run that holds it and its
\* reserve; the reserve stays claimed and free.
PlaceFork(v, operation, plan, f) ==
    LET need == Len(v[MapOf(f)])
        reserve == Reserve(operation, need)
        start == ChooseRun(plan.claimed, need, reserve)
    IN IF f \in Protected \/ need = 0 THEN plan
       ELSE IF start = 0 THEN [plan EXCEPT !.placed = FALSE]
       ELSE [claimed |-> plan.claimed \union (start..(start + need + reserve - 1)),
             used |-> plan.used \union (start..(start + need - 1)),
             image |-> RewriteFork(MoveFork(plan.image, v, f, start), v, f, start),
             placed |-> plan.placed]

BuildStage(v, operation) ==
    LET empty == [claimed |-> Claimed(v), used |-> Claimed(v),
                  image |-> CopyAllocated(v), placed |-> TRUE]
        plan == Accumulate(LAMBDA p, f : PlaceFork(v, operation, p, f), empty, FileOrder)
    IN [placed |-> plan.placed, image |-> RewriteAllocationBitmap(plan.image, plan.used)]

\* hfsplus_verify_layout: every rewritable fork is one run with its reserve
\* free behind it, and no fork uses a free block.
ReserveIsFree(v, f, operation) == ReserveAfter(v, f, operation) \subseteq FreeCells(v)
VerifyLayout(v, operation) ==
    /\ \A f \in Rewritable : IsRun(v[MapOf(f)]) /\ ReserveIsFree(v, f, operation)
    /\ \A f \in Files : CellsOf(v, f) \subseteq v[Bitmap]

ComparePayloads(v, image) == Contents(image) = Contents(v)

-----------------------------------------------------------------------------
(* The transaction.                                                        *)

VolumeToken(v) == v[Header]

\* The target is captured before the first block of the image is read.
CaptureTarget == StartWith(VolumeToken(cache))

\* hfsplus_build_stage compares the hash of every fork before it returns.
Build == At("build") /\ \E built \in {BuildStage(cache, proc.op)} :
            BuildWith(built, ComparePayloads(cache, built.image) /\ VerifyLayout(built.image, proc.op))

\* A mistaken variant: only the device is compared, not the header.
CheckNothing == Bind(TRUE)
CheckUnchangedTarget == Bind(VolumeToken(cache) = proc.token)

\* safe_commit_stage: the allocated blocks in ascending order, then the two
\* header regions.
CommitOrder(image) ==
    <<Header>> \o [f \in DOMAIN FileOrder |-> MapOf(f)] \o <<Bitmap>>
    \o CellOrder(image[Bitmap]) \o <<Header>>
BeginCommit == BeginWith(CommitOrder(stage.image))
SafeCommitStage == CommitBlock \/ SyncCommit
StopCommit == StopSource
Committed == CommittedIf(VerifyLayout(cache, proc.op))

TransactionCleanup == CleanupStage \/ CleanupJournal

\* handle_recovery.
RecoveryAccepts == /\ VolumeToken(cache) = journal.token
                   /\ StageMatches
                   /\ VerifyLayout(stage.image, journal.op)
RecoverCommit == ResumeWith(RecoveryAccepts, CommitOrder(stage.image))
RecoverCommitted == RetireWith(RecoveryAccepts /\ VerifyLayout(cache, journal.op))

-----------------------------------------------------------------------------
Work == \/ Build \/ CheckUnchangedTarget \/ BeginCommit \/ SafeCommitStage
        \/ Committed \/ TransactionCleanup
Recover == RecoverCommit \/ RecoverCommitted
Next == CaptureTarget \/ Work \/ Recover \/ Abandon \/ StopStaged \/ StopCommit
=============================================================================
