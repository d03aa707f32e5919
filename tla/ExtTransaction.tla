---------------------------- MODULE ExtTransaction ----------------------------
(***************************************************************************)
(* The EXT2/3/4 worker: ext_worker.c, the planner of ext_plan.c and the    *)
(* workspace of ext_workspace.c.  A file of the model is a file or         *)
(* directory whose data blocks move; the blocks that describe its mapping  *)
(* stay.  When a high free run holds a copy of every allocated block the   *)
(* layout is changed in place, else through a working image.               *)
(***************************************************************************)
EXTENDS WorkspaceRelayout

-----------------------------------------------------------------------------
(* The catalogue and the plan.                                             *)

\* The blocks of the file cover a range, in whatever order.
AllocationIsContiguous(v, f) ==
    LET c == CellsOf(v, f) IN c # {} => Max(c) - Min(c) + 1 = Cardinality(c)
Growth10Satisfied(v) ==
    \A f \in Files : LET c == CellsOf(v, f) IN
        c # {} => /\ AllocationIsContiguous(v, f)
                  /\ (Max(c) + 1)..(Max(c) + Reserve("growth-defrag", Cardinality(c))) \subseteq FreeCells(v)

\* Shared blocks refuse the volume, and one without files has nothing to move.
CatalogPlan(v) == Catalogued(v) /\ Movable(v) # {}

\* sort_class and inode; the lowest space that holds a file and its reserve.
ExtAssignTargets(v, operation) == AssignTargets(v, operation, FileOrder)
MoveCount(v, db) == Cardinality({c \in Movable(v) : Moves(v, db)[c] # c})

\* The highest free run with room for a copy of every allocated block, none
\* of which the plan uses.
FindHighWorkspace(v, db, operation) ==
    HighWorkspace(FreeCells(v), Len(AllocatedRanges(v)), N,
                  TargetRanges(db) \union ReserveRanges(db, operation))
PrepareWorkspace(v, db, operation, start) ==
    [start |-> db.start, digest |-> db.digest,
     moves |-> Moves(v, db), reserves |-> ReserveRanges(db, operation),
     maps |-> Maps(v), used |-> v[Bitmap],
     slots |-> Slots(AllocatedRanges(v), start), kept |-> <<>>]
WorkspaceRows(db) == SlotRows(AddressOrder(db.used), db.slots)

-----------------------------------------------------------------------------
(* What is written.                                                        *)

Follows(b, c) == b[1] = "cell" /\ c = Cell(b[2] + 1)

\* Rows with adjacent targets, and sources where both must be, are one copy
\* of at most Interval blocks, synced.
Joins(r, s, both) == Follows(r[2], s[2]) /\ (both => Follows(r[1], s[1]))
Batches(rows, both) ==
    LET add(acc, row) == IF acc # <<>> /\ Len(Last(acc)) < Interval /\ Joins(Last(Last(acc)), row, both)
                         THEN [acc EXCEPT ![Len(acc)] = Append(@, row)]
                         ELSE Append(acc, <<row>>)
        synced(done, batch) == done \o <<Copy(batch), Flush>>
    IN Accumulate(synced, <<>>, Accumulate(add, <<>>, rows))

CopyWorkspaceRuns(rows) == Batches(rows, TRUE)

\* The moved blocks in the order of their targets, each from its copy.
PlaceScript(db) ==
    LET moved == {c \in DOMAIN db.moves : db.moves[c] # c}
        source(target) == Cell(CHOOSE c \in moved : db.moves[c] = target)
        targets == Ascending({db.moves[c] : c \in moved})
    IN Batches(Each(LAMBDA target : <<db.slots[source(target)], Cell(target)>>, targets), FALSE)

\* The new blocks and the reserves are marked used before any inode names a
\* new block, the old ones and the reserves free after all do.
OldBlocks(db) == DOMAIN db.moves
NewBlocks(db) == Range(db.moves)
Allocated(db) == db.used \union NewBlocks(db) \union db.reserves
\* A mistaken variant: the reserves stay marked.
ReleasedOldOnly(db) == Allocated(db) \ (OldBlocks(db) \ NewBlocks(db))
Released(db) == Allocated(db) \ ((OldBlocks(db) \ NewBlocks(db)) \union (db.reserves \ OldBlocks(db)))
\* Every map that changes, in scan order.
MapWrites(db) ==
    LET remap(todo, f) == IF db.maps[f] = FileTarget(db, f) THEN todo
                          ELSE Append(todo, Write(MapOf(f), FileTarget(db, f)))
    IN Accumulate(remap, <<>>, FileOrder)
\* A mistaken variant: what is released is not synced.
ApplyMappingsUnsynced(db) ==
    <<Write(Bitmap, Allocated(db)), Flush>> \o MapWrites(db) \o <<Flush, Write(Bitmap, Released(db))>>
ApplyMappings(db) ==
    <<Write(Bitmap, Allocated(db)), Flush>> \o MapWrites(db) \o <<Flush, Write(Bitmap, Released(db)), Flush>>

VerifyStage(v, db, operation) ==
    /\ \A f \in Files : v[MapOf(f)] = FileTarget(db, f)
    /\ Contents(v) = db.digest
    /\ operation = "growth-defrag" => ReserveRanges(db, operation) \subseteq FreeCells(v) /\ Growth10Satisfied(v)

-----------------------------------------------------------------------------
(* The direct relayout: try_workspace_relayout.                            *)

Preflight ==
    /\ At("down") /\ journal = NoJournal
    /\ \E operation \in Operations :
         /\ journal' = [phase |-> "preflight", op |-> operation, offset |-> 0, plan |-> <<>>]
         /\ proc' = Doer("plan", operation, <<>>)
    /\ UNCHANGED stage /\ Aside

\* Nothing to do or no place for some file ends the command; without a
\* workspace the working image is used.
PlanDirect ==
    /\ At("plan") /\ Aside
    /\ \E plan \in {ExtAssignTargets(cache, proc.op)} : \E db \in {PopulatePlan(cache, plan)} :
         LET moves == MoveCount(cache, db)
             start == FindHighWorkspace(cache, db, proc.op)
         IN \/ /\ \/ ~ (CatalogPlan(cache) /\ plan.fits)
                  \/ moves = 0 /\ (proc.op = "growth-defrag" => Growth10Satisfied(cache))
               /\ Goto("cleanup") /\ UNCHANGED files
            \/ /\ CatalogPlan(cache) /\ plan.fits
               /\ \/ moves # 0 /\ start = 0
                  \/ moves = 0 /\ proc.op = "growth-defrag" /\ ~ Growth10Satisfied(cache)
               /\ Goto("clone") /\ UNCHANGED files
            \/ /\ CatalogPlan(cache) /\ plan.fits /\ moves # 0 /\ start # 0
               /\ stage' = PlanFile
               /\ journal' = [journal EXCEPT !.plan = PrepareWorkspace(cache, db, proc.op, start)]
               /\ Goto("prepared")

EnterStaging == Advance("prepared", "direct-staging", "staging", CopyWorkspaceRuns(WorkspaceRows(journal.plan)))

\* The digest of the copies is compared with that of the originals and kept
\* in the plan before the phase says so.
FinishStaging ==
    /\ Finished("staging")
    /\ IF Kept(cache, journal.plan.slots) = Originals(cache, journal.plan.slots)
       THEN /\ journal' = [journal EXCEPT !.phase = "direct-staged",
                                          !.plan.kept = Kept(cache, journal.plan.slots)]
            /\ Goto("staged")
       ELSE Goto("cleanup") /\ UNCHANGED journal
    /\ UNCHANGED stage /\ Aside

\* Between two synced copies, or after the last.
BetweenRuns == Begun /\ (proc.todo # <<>> => Due("copy"))
StopDirect == /\ \/ proc.pc \in {"plan", "staged"}
                 \/ At("staging") /\ BetweenRuns
              /\ GiveUp

\* A mistaken variant: the phase is recorded with the first progress report.
BeginPlacingUnrecorded == /\ Finished("staged") /\ Begin("placing", PlaceScript(journal.plan))
                          /\ UNCHANGED files /\ Aside
BeginPlacing == Advance("staged", "direct-placing", "placing", PlaceScript(journal.plan))
EnterMetadata == Advance("placing", "direct-metadata", "metadata", ApplyMappings(journal.plan))
EnterVerifying == Advance("metadata", "direct-verifying", "verifying", <<>>)
VerifyDirect == /\ At("verifying")
                /\ Goto(IF VerifyStage(cache, journal.plan, proc.op) THEN "cleanup" ELSE "restore")
                /\ UNCHANGED files /\ Aside

-----------------------------------------------------------------------------
(* Restoring the original blocks.                                          *)

StopPlacing == /\ At("placing") /\ BetweenRuns
               /\ Goto("restore") /\ UNCHANGED files /\ Aside

\* A write or a journal record fails and the worker lives on.
FailDirect == /\ proc.pc \in {"placing", "metadata"}
              /\ Fault /\ Goto("restore")
              /\ UNCHANGED <<disk, cache, files, world>>

\* Only copies that have the recorded digest are trusted.
WorkspaceIntact == Kept(cache, journal.plan.slots) = journal.plan.kept
BeginRestore == /\ At("restore") /\ WorkspaceIntact
                /\ Begin("restoring", CopyWorkspaceRuns(Reversed(WorkspaceRows(journal.plan))))
                /\ UNCHANGED files /\ Aside
ValidateRestored == Finished("restoring") /\ Catalogued(cache) /\ GiveUp

-----------------------------------------------------------------------------
(* The working image: build_and_commit.                                    *)

CreateStage == /\ At("clone")
               /\ stage' = Whole(CopyUsed(cache))
               /\ journal' = [journal EXCEPT !.phase = "cloning"]
               /\ Goto("plan-stage") /\ Aside
PlanStage ==
    /\ At("plan-stage")
    /\ journal' = [journal EXCEPT !.phase = "arranging",
                                  !.plan = PopulatePlan(stage.image, ExtAssignTargets(stage.image, proc.op))]
    /\ Goto("arrange")
    /\ UNCHANGED stage /\ Aside

ArrangedImage(image, db, moves) ==
    LET applied == PrepareWorkspace(image, db, proc.op, 0)
        permuted == Permute(image, moves)
    IN [b \in Blocks |-> IF b[1] = "map" THEN FileTarget(db, b[2])
                         ELSE IF b = Bitmap THEN Released(applied) ELSE permuted[b]]
ArrangeStage ==
    /\ At("arrange")
    /\ \E moves \in {Moves(stage.image, journal.plan)} :
         \E image \in {ArrangedImage(stage.image, journal.plan, moves)} :
            IF VerifyStage(image, journal.plan, proc.op) THEN stage' = Whole(image) /\ Goto("check")
                                                         ELSE UNCHANGED stage /\ Goto("cleanup")
    /\ journal' = [journal EXCEPT !.phase = "verifying-stage"]
    /\ Aside

StopStage == proc.pc \in {"plan-stage", "arrange", "check"} /\ GiveUp

CheckUnchangedTarget == At("check") /\ BeginCommit
CommitStage == CommitRanges
EnterVerifyingSource == EnterPhase("committed", "verifying-source", "verify-source")
VerifySource == At("verify-source") /\ VerifyStage(cache, journal.plan, proc.op) /\ GiveUp

TransactionCleanup == CleanupFiles \/ CleanupJournal

-----------------------------------------------------------------------------
(* recover.                                                                *)

\* Nothing but free cells had been written.
RecoverDiscard == DiscardPending({"preflight", "cloning", "arranging", "verifying-stage"})
RecoverStaged == stage # NoStage /\ DiscardPending({"direct-staging", "direct-staged"})

\* A layout that verifies is kept, any other undone.
RecoverDirect ==
    /\ At("down") /\ stage # NoStage
    /\ \/ journal.phase \in {"direct-placing", "direct-metadata"} /\ proc' = Resume("restore")
       \/ /\ journal.phase = "direct-verifying"
          /\ proc' = Resume(IF VerifyStage(cache, journal.plan, journal.op) THEN "cleanup" ELSE "restore")
    /\ UNCHANGED files /\ Aside

RecoverCommit ==
    /\ At("down") /\ journal.phase \in {"commit", "verifying-source"}
    /\ stage.state = "whole" /\ VerifyStage(stage.image, journal.plan, journal.op)
    /\ Record("commit")
    /\ proc' = ResumeAt(journal.offset)

Direct == \/ PlanDirect \/ EnterStaging \/ FinishStaging \/ BeginPlacing \/ EnterMetadata
          \/ EnterVerifying \/ VerifyDirect \/ BeginRestore \/ ValidateRestored \/ Perform
ExtWork == \/ Direct \/ CreateStage \/ PlanStage \/ ArrangeStage \/ CheckUnchangedTarget
           \/ CommitStage \/ EnterVerifyingSource \/ VerifySource \/ TransactionCleanup
ExtRecover == RecoverDiscard \/ RecoverStaged \/ RecoverDirect \/ RecoverCommit
ExtStop == StopDirect \/ StopPlacing \/ StopStage
ExtNext == Preflight \/ ExtWork \/ ExtRecover \/ ExtStop \/ FailDirect
=============================================================================
