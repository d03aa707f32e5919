---------------------------- MODULE XfsTransaction ----------------------------
(***************************************************************************)
(* The XFS worker: xfs_worker.c, the planner of xfs_plan.c and the         *)
(* free-space trees of xfs_metadata.c, on one allocation group.  A file of *)
(* the model is an inode with direct extents.  A clone of the allocated    *)
(* blocks is rearranged in place, its free-space trees rebuilt first.      *)
(***************************************************************************)
EXTENDS OffsetCommit

CONSTANTS RecordsPerBlock,  \* free extents that one block of the trees records
          TreePool          \* cells of the old trees and of the AG free list

-----------------------------------------------------------------------------
(* The catalogue.                                                          *)

ScanFreeSpace(v) == FreeCells(v)
InodeFork(v, f) == v[MapOf(f)]

\* Blocks that two inodes claim refuse the volume; the free map is not asked.
ScanCatalogue(v) == Catalogued(v)

-----------------------------------------------------------------------------
(* The plan: where each file goes.                                         *)

\* object_order_compare: the largest span first, then by inode.
ObjectOrderCompare(v, operation, g, f) ==
    \/ Span(v, g, operation) > Span(v, f, operation)
    \/ Span(v, g, operation) = Span(v, f, operation) /\ g < f
ObjectOrder(v, operation) ==
    [i \in DOMAIN FileOrder |->
        CHOOSE f \in Files : Cardinality({g \in Files : ObjectOrderCompare(v, operation, g, f)}) = i - 1]

\* A free gap below the last file that a whole object would fit in.
LeavesRoom(remaining, final, minimum) ==
    \E s \in Cells : s + minimum - 1 < final /\ s..(s + minimum - 1) \subseteq remaining

BuildPlan(v, operation) == AssignTargets(v, operation, ObjectOrder(v, operation))

\* Every object has a place, and what is left below the last one holds none.
PlanAccepted(v, plan, operation) ==
    LET placed == {f \in Files : BlockCount(v, f) # 0}
        final == Max({0} \union {plan.start[f] + BlockCount(v, f) : f \in placed})
        spans == {Span(v, f, operation) : f \in placed}
    IN plan.fits /\ (placed # {} => ~ LeavesRoom(plan.remaining, final, Min(spans)))

\* Every file is at its target, and its reserve is free.
PlanAlreadyApplied(v, plan, operation) ==
    \A f \in Files : /\ InodeFork(v, f) = Run(plan.start[f], BlockCount(v, f))
                     /\ ReserveAfter(v, f, operation) \subseteq ScanFreeSpace(v)

-----------------------------------------------------------------------------
(* The free-space trees.                                                   *)

Tree == <<0, N + 1>>
TreeBlocks(v) == TreePool \union {c \in Cells : v[Cell(c)] = Tree}

ExpectedFreeRanges(v, db) == (ScanFreeSpace(v) \union Movable(v)) \ TargetRanges(db)

\* One record for each free extent.
TreeRequiredBlocks(free) ==
    LET extents == {c \in free : c - 1 \notin free}
    IN (Cardinality(extents) + RecordsPerBlock - 1) \div RecordsPerBlock

\* Trees that outgrow their pool take free blocks, the last first, from what
\* is free before and after the move: the payloads have not moved yet.
EnsureAllocationTreePool(v, free, protected) ==
    LET borrow(p, i) ==
            LET candidates == (ScanFreeSpace(v) \intersect p.free) \ protected
            IN IF TreeRequiredBlocks(p.free) <= Cardinality(p.pool) \/ candidates = {} THEN p
               ELSE [free |-> p.free \ {Max(candidates)}, pool |-> p.pool \union {Max(candidates)}]
    IN Accumulate(borrow, [free |-> free, pool |-> TreeBlocks(v)], Run(1, N))

RebuildAllocationMetadata(v, db, operation) ==
    LET built == EnsureAllocationTreePool(v, ExpectedFreeRanges(v, db), ReserveRanges(db, operation))
    IN [fits |-> built.free # {} /\ TreeRequiredBlocks(built.free) <= Cardinality(built.pool),
        image |-> [b \in Blocks |-> IF b = Bitmap THEN Cells \ built.free
                                    ELSE IF b[1] = "cell" /\ b[2] \in built.pool \ TreePool THEN Tree
                                    ELSE v[b]]]

\* The trees record the planned free map less the blocks they stand in.
VerifyAllocationMetadata(v, catalogue, db) ==
    ScanFreeSpace(v) = ExpectedFreeRanges(catalogue, db) \ TreeBlocks(v)

-----------------------------------------------------------------------------
(* The working image.                                                      *)

CloneAllocated(v) == CopyUsed(v)
PermutePayloads(image, moves) == Permute(image, moves)
ApplyInodeMappings(image, db) ==
    [b \in Blocks |-> IF b[1] = "map" THEN FileTarget(db, b[2]) ELSE image[b]]

VerifyStage(image, source, db, operation) ==
    /\ VerifyAllocationMetadata(image, source, db)
    /\ ScanCatalogue(image)
    /\ \A f \in Files : /\ InodeFork(image, f) = FileTarget(db, f)
                        /\ Contents(image)[f] = db.digest[f]
                        /\ ReserveAfter(image, f, operation) \subseteq ScanFreeSpace(image)

-----------------------------------------------------------------------------
(* The transaction: build_and_commit, and recover_transaction.             *)

Preflight ==
    /\ At("down") /\ journal = NoJournal
    /\ ScanCatalogue(cache)
    /\ \E operation \in Operations :
         /\ journal' = [phase |-> "preflight", op |-> operation, offset |-> 0, plan |-> <<>>]
         /\ proc' = [pc |-> "build", op |-> operation, todo |-> <<>>]
    /\ UNCHANGED stage /\ Aside

CreateStage == /\ At("build")
               /\ stage' = Whole(CloneAllocated(cache))
               /\ journal' = [journal EXCEPT !.phase = "cloning"]
               /\ Goto("plan") /\ Aside

\* Nothing to do, or nothing that can be done, removes the files.
PlanLayout ==
    /\ At("plan")
    /\ \E plan \in {BuildPlan(stage.image, proc.op)} :
          IF PlanAccepted(stage.image, plan, proc.op) /\ ~ PlanAlreadyApplied(stage.image, plan, proc.op)
          THEN /\ journal' = [journal EXCEPT !.phase = "arranging", !.plan = PopulatePlan(stage.image, plan)]
               /\ Goto("arrange")
          ELSE UNCHANGED journal /\ Goto("cleanup")
    /\ UNCHANGED stage /\ Aside

\* First the trees, then the payloads, then the inodes.
Rebuilt == RebuildAllocationMetadata(stage.image, journal.plan, proc.op)
Targets == Moves(stage.image, journal.plan)
ArrangedImage(rebuilt, targets) ==
    ApplyInodeMappings(PermutePayloads(rebuilt.image, targets), journal.plan)
Verifies(image) == VerifyStage(image, stage.image, journal.plan, proc.op)

ArrangeStage ==
    /\ At("arrange")
    /\ \E rebuilt \in {Rebuilt}, targets \in {Targets} : \E image \in {ArrangedImage(rebuilt, targets)} :
         IF rebuilt.fits /\ Verifies(image) THEN stage' = Whole(image) /\ Goto("check")
                                             ELSE UNCHANGED stage /\ Goto("cleanup")
    /\ journal' = [journal EXCEPT !.phase = "verifying-stage"]
    /\ Aside

\* A Stop before the commit.
StopStage == proc.pc \in {"build", "plan", "arrange", "check"} /\ GiveUp

\* The target has the recorded UUID and size, which no mounted use changes.
CheckUnchangedTarget == At("check") /\ ScanCatalogue(cache) /\ BeginCommit

CommitStage == CommitRanges

EnterVerifying == EnterPhase("committed", "verifying-source", "verify-source")
VerifySource == /\ At("verify-source")
                /\ ScanCatalogue(cache) /\ VerifyAllocationMetadata(cache, cache, journal.plan)
                /\ GiveUp

TransactionCleanup == CleanupFiles \/ CleanupJournal

\* Before the commit the source was unchanged: the files are removed.
RecoverDiscard == DiscardPending({"preflight", "cloning", "arranging", "verifying-stage"})

RecoverCommit ==
    /\ At("down") /\ journal.phase \in {"commit", "verifying-source"}
    /\ stage.state = "whole"
    /\ ScanCatalogue(stage.image) /\ VerifyAllocationMetadata(stage.image, stage.image, journal.plan)
    /\ Record("commit")
    /\ proc' = ResumeAt(journal.offset)

Work == \/ CreateStage \/ PlanLayout \/ ArrangeStage \/ CheckUnchangedTarget
        \/ CommitStage \/ EnterVerifying \/ VerifySource \/ TransactionCleanup
Recover == RecoverDiscard \/ RecoverCommit
Next == Preflight \/ Work \/ Recover \/ StopStage
=============================================================================
