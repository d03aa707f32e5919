---------------------------- MODULE NtfsTransaction ----------------------------
(***************************************************************************)
(* The NTFS worker: ntfs_worker.c and the planner of ntfs_plan.c.  A file  *)
(* of the model is an unnamed data stream of the catalogue that may move.  *)
(* Cell c is cluster c - 1; the first cell holds the boot sector, the last *)
(* its copy.  The header is $Volume: 1 clean, 2 dirty.                     *)
(***************************************************************************)
EXTENDS WorkspaceRelayout

Clean == 1
Dirty == 2
SetDirty(flag) == <<Write(Header, flag), Flush>>

-----------------------------------------------------------------------------
(* The plan.                                                               *)

\* The files whose spans add up to the most that fits: choice says which file
\* was the first to reach a sum, and best is taken apart again.
SelectBestFit(left, span, target) ==
    LET reach(choice, f) ==
            [s \in 0..target |-> IF s >= span[f] /\ choice[s] = 0 /\ choice[s - span[f]] # 0
                                 THEN f ELSE choice[s]]
        unreached == [s \in 0..target |-> IF s = 0 THEN -1 ELSE 0]
        selected(choice) ==
            LET from[s \in 0..target] == IF s = 0 THEN {} ELSE {choice[s]} \union from[s - span[choice[s]]]
            IN from[Max({s \in 0..target : choice[s] # 0})]
    IN Once(selected, Accumulate(reach, unreached, left))

\* From the lowest free run on, with every movable stream lifted: all that is
\* left when it fits, else the best fit; each stream with its reserve.
PlanLayout(v, operation) ==
    LET free == (FreeCells(v) \union Movable(v)) \ {1, N}
        span == [f \in Files |-> Span(v, f, operation)]
        capacity(run) == CHOOSE n \in 1..N : run..(run + n - 1) \subseteq free /\ run + n \notin free
        place(p, f) == [p EXCEPT !.start[f] = p.cursor, !.cursor = @ + span[f]]
        fill(p, run) ==
            LET total == FoldLeft(LAMBDA sum, f : sum + span[f], 0, p.left)
                all == total <= capacity(run)
                selected == IF all THEN Range(p.left) ELSE SelectBestFit(p.left, span, capacity(run))
                placed == Accumulate(place, [p EXCEPT !.cursor = run],
                                     SelectSeq(p.left, LAMBDA f : f \in selected))
            IN [placed EXCEPT !.left = SelectSeq(@, LAMBDA f : f \notin selected)]
        none == [start |-> [f \in Files |-> 0], left |-> FileOrder, cursor |-> 0]
        plan == Accumulate(fill, none, Ascending({c \in free : c - 1 \notin free}))
    IN [start |-> plan.start, fits |-> plan.left = <<>>]

\* The plan file: where the streams go, their digests, the clusters to move
\* and the final bitmap.
CreatePlan(v, plan) ==
    LET db == PopulatePlan(v, plan)
    IN db @@ [moves |-> Moves(v, db), used |-> (v[Bitmap] \ Movable(v)) \union TargetRanges(db),
              slots |-> <<>>, kept |-> <<>>]
Moved(db) == {c \in DOMAIN db.moves : db.moves[c] # c}
MoveCount(db) == Cardinality(Moved(db))

\* The clusters before the last that neither the volume nor the plan uses.
FindTerminalWorkspace(v, db) == TerminalWorkspace(FreeCells(v) \ db.used, MoveCount(db), N - 1)

\* One slot for every cluster that moves, in the order of the old clusters.
PrepareWorkspace(db, start) == [db EXCEPT !.slots = Slots(CellOrder(Moved(db)), start)]
WorkspaceRows(db) == SlotRows(CellOrder(Moved(db)), db.slots)
PlaceRows(db) == Each(LAMBDA row : <<row[2], Cell(db.moves[row[1][2]])>>, WorkspaceRows(db))

ApplyMetadata(db) ==
    Each(LAMBDA f : Write(MapOf(f), FileTarget(db, f)), FileOrder) \o <<Write(Bitmap, db.used), Flush>>

VerifyStage(v, db, operation) ==
    /\ \A f \in Files : v[MapOf(f)] = FileTarget(db, f)
    /\ Contents(v) = db.digest
    /\ ReserveRanges(db, operation) \subseteq FreeCells(v)

-----------------------------------------------------------------------------
(* Planning: try_terminal_workspace_relayout.                              *)

\* The layout of a dirty volume is not read.
Preflight == /\ At("down") /\ journal = NoJournal
             /\ cache[Header] = Clean
             /\ \E operation \in Operations : proc' = Doer("plan", operation, <<>>)
             /\ UNCHANGED files /\ Aside

\* The plan file is there before the journal.
Planned(pc, db) == proc' = Doer(pc, proc.op, <<>>) @@ [plan |-> db] /\ stage' = PlanFile
PlanDirect ==
    /\ At("plan") /\ UNCHANGED journal /\ Aside
    /\ \E plan \in {PlanLayout(cache, proc.op)} : \E db \in {CreatePlan(cache, plan)} :
         LET start == FindTerminalWorkspace(cache, db)
         IN \/ ~ plan.fits /\ Exit /\ UNCHANGED stage
            \/ plan.fits /\ MoveCount(db) = 0 /\ Planned("canonical", db)
            \/ plan.fits /\ MoveCount(db) # 0 /\ start # 0 /\ Planned("prepared", PrepareWorkspace(db, start))
            \/ plan.fits /\ MoveCount(db) # 0 /\ start = 0 /\ Unlink("fallback")

FirstRecord(phase, plan) == /\ journal' = [phase |-> phase, op |-> proc.op, offset |-> 0, plan |-> plan]
                            /\ UNCHANGED stage /\ Aside

-----------------------------------------------------------------------------
(* No cluster moves: only the metadata is written.                         *)

BeginMetadataOnly == /\ At("canonical") /\ FirstRecord("direct-metadata", proc.plan)
                     /\ Begin("marking-metadata", SetDirty(Dirty))
EnterMetadataOnly == Advance("marking-metadata", "direct-metadata", "metadata-only", ApplyMetadata(journal.plan))
VerifyMetadataOnly == Advance("metadata-only", "direct-verifying-source", "verifying", <<>>)

-----------------------------------------------------------------------------
(* The workspace.                                                          *)

EnterStaging == /\ At("prepared") /\ FirstRecord("workspace-staging", proc.plan)
                /\ Begin("staging", RowByRow(WorkspaceRows(proc.plan)))

\* The digest of every cluster as it was read is in the plan file when the
\* copies are read back.
FinishStaging ==
    /\ Finished("staging")
    /\ Kept(cache, journal.plan.slots) = Originals(cache, journal.plan.slots)
    /\ journal' = [journal EXCEPT !.phase = "workspace-staged", !.plan.kept = Kept(cache, journal.plan.slots)]
    /\ Goto("staged")
    /\ UNCHANGED stage /\ Aside

BetweenRows == proc.todo # <<>> => Due("copy")
StopDirect == /\ \/ proc.pc \in {"canonical", "prepared", "staged"}
                 \/ At("staging") /\ BetweenRows
              /\ GiveUp

MarkDirty == At("staged") /\ Begin("marking", SetDirty(Dirty)) /\ UNCHANGED files /\ Aside
BeginPlacing == Advance("marking", "workspace-placing", "placing", RowByRow(PlaceRows(journal.plan)))
EnterMetadata == \E pc \in {"placing", "replacing"} :
                    Advance(pc, "workspace-metadata", "metadata", ApplyMetadata(journal.plan))
EnterVerifying == Advance("metadata", "workspace-verifying-source", "verifying", <<>>)
VerifySource == /\ At("verifying") /\ VerifyStage(cache, journal.plan, proc.op)
                /\ Begin("clearing", SetDirty(Clean))
                /\ UNCHANGED files /\ Aside
MarkClean == Finished("clearing") /\ GiveUp

\* A Stop or a failed write while clusters are placed puts the old ones back.
StopPlacing == At("placing") /\ BetweenRows /\ Goto("restore") /\ UNCHANGED files /\ Aside
FailPlacing == /\ At("placing") /\ Fault /\ Goto("restore")
               /\ UNCHANGED <<disk, cache, files, world>>
\* A mistaken variant: the restored clusters are not synced.
RestoreUnsynced(db) == Each(LAMBDA row : Copy(<<row>>), Reversed(WorkspaceRows(db))) \o <<Write(Header, Clean)>>
RestoreScript(db) == RowByRow(Reversed(WorkspaceRows(db))) \o SetDirty(Clean)
BeginRestore == At("restore") /\ Begin("restoring", RestoreScript(journal.plan)) /\ UNCHANGED files /\ Aside
FinishRestore == Finished("restoring") /\ GiveUp

-----------------------------------------------------------------------------
(* The working image: build_and_commit.                                    *)

BeginFallback == At("fallback") /\ FirstRecord("prepared", <<>>) /\ Goto("clone")
CreateStage == /\ At("clone")
               /\ stage' = Whole(CopyUsed(cache))
               /\ journal' = [journal EXCEPT !.phase = "cloning"]
               /\ Goto("plan-stage") /\ Aside
PlanStage ==
    /\ At("plan-stage")
    /\ journal' = [journal EXCEPT !.phase = "arranging",
                                  !.plan = CreatePlan(stage.image, PlanLayout(stage.image, proc.op))]
    /\ Goto("arrange")
    /\ UNCHANGED stage /\ Aside
ArrangedImage(image, db) ==
    LET permuted == Permute(image, db.moves)
    IN [b \in Blocks |-> IF b[1] = "map" THEN FileTarget(db, b[2])
                         ELSE IF b = Bitmap THEN db.used ELSE permuted[b]]
ArrangeStage ==
    /\ At("arrange")
    /\ \E image \in {ArrangedImage(stage.image, journal.plan)} :
          IF VerifyStage(image, journal.plan, proc.op) THEN stage' = Whole(image) /\ Goto("check")
                                                       ELSE UNCHANGED stage /\ Goto("cleanup")
    /\ journal' = [journal EXCEPT !.phase = "verifying-stage"]
    /\ Aside
StopStage == proc.pc \in {"clone", "plan-stage", "arrange", "check"} /\ GiveUp

\* The source is dirty before the commit is recorded; the image is clean.
CheckUnchangedTarget == /\ At("check") /\ Begin("marking-commit", SetDirty(Dirty))
                        /\ UNCHANGED files /\ Aside
CommitStage == (Finished("marking-commit") /\ BeginCommit) \/ CommitRanges
EnterVerifyingSource == EnterPhase("committed", "verifying-source", "verifying")

TransactionCleanup == CleanupFiles \/ CleanupJournal

-----------------------------------------------------------------------------
(* recover_transaction.                                                    *)

RecoverDiscard ==
    DiscardPending({"prepared", "cloning", "arranging", "verifying-stage", "workspace-staging"})

\* The volume is marked dirty again first, and a dirty one cannot be.
Remark(pc) == /\ cache[Header] = Clean
              /\ proc' = Doer(pc, journal.op, SetDirty(Dirty))
              /\ UNCHANGED files /\ Aside
RecoverMetadataOnly == /\ At("down") /\ stage # NoStage
                       /\ journal.phase \in {"direct-metadata", "direct-verifying-source"}
                       /\ Remark("marking-metadata")

\* Copies that have the recorded digests are placed again, without a Stop.
WorkspacePhases == {"workspace-staged", "workspace-placing", "workspace-metadata", "workspace-verifying-source"}
VerifyWorkspace == Kept(cache, journal.plan.slots) = journal.plan.kept
RecoverWorkspace == /\ At("down") /\ journal.phase \in WorkspacePhases /\ stage # NoStage
                    /\ VerifyWorkspace
                    /\ Remark("remarking")
BeginReplacing == Advance("remarking", "workspace-placing", "replacing", RowByRow(PlaceRows(journal.plan)))

RecoverCommit ==
    /\ At("down") /\ journal.phase \in {"commit", "verifying-source"}
    /\ stage.state = "whole" /\ VerifyStage(stage.image, journal.plan, journal.op)
    /\ proc' = IF journal.phase = "commit" THEN ResumeAt(journal.offset) ELSE Resume("committed")
    /\ UNCHANGED files /\ Aside

Direct == \/ PlanDirect \/ BeginMetadataOnly \/ EnterMetadataOnly \/ VerifyMetadataOnly
          \/ EnterStaging \/ FinishStaging \/ MarkDirty \/ BeginPlacing \/ BeginReplacing
          \/ EnterMetadata \/ EnterVerifying \/ VerifySource \/ MarkClean
          \/ BeginRestore \/ FinishRestore \/ Perform
Work == \/ Direct \/ BeginFallback \/ CreateStage \/ PlanStage \/ ArrangeStage \/ CheckUnchangedTarget
        \/ CommitStage \/ EnterVerifyingSource \/ TransactionCleanup
Recover == RecoverDiscard \/ RecoverMetadataOnly \/ RecoverWorkspace \/ RecoverCommit
Stop == StopDirect \/ StopPlacing \/ StopStage
Next == Preflight \/ Work \/ Recover \/ Stop \/ FailPlacing
=============================================================================
