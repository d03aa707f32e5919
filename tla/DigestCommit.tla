----------------------------- MODULE DigestCommit -----------------------------
(***************************************************************************)
(* The steps that the HFS+, Amiga and SFS workers take alike: build and    *)
(* verify a working image, bind it to the journal by its digest and to the *)
(* target by a token of blocks that the commit does not change, replay it  *)
(* from its first block, and remove image and journal.  Each worker gives  *)
(* the layout, the token and the checks.                                   *)
(***************************************************************************)
EXTENDS StagedImage

\* valid_operation.
Operations == {"defrag", "growth-defrag"}

\* A journal or a working image beside it refuses a new operation.
StartWith(token) ==
    /\ At("down") /\ journal = NoJournal /\ stage = NoStage
    /\ \E operation \in Operations :
         proc' = [pc |-> "build", op |-> operation, token |-> token, todo |-> <<>>]
    /\ UNCHANGED files /\ Aside

\* An image that cannot be built or verified is removed.
BuildWith(built, verified) ==
    /\ IF built.placed /\ verified THEN stage' = Whole(built.image) /\ Goto("check")
                                   ELSE stage' = NoStage /\ Exit
    /\ UNCHANGED journal /\ Aside

\* A Stop before or while the image is hashed, or a target that is not the
\* one captured: nothing has been written to the source.
Abandon == At("check") /\ Discard

\* journal_save: the first record.
Bind(unchanged) ==
    /\ At("check")
    /\ unchanged
    /\ journal' = [phase |-> "staged", op |-> proc.op, token |-> proc.token]
    /\ Goto("staged")
    /\ UNCHANGED stage /\ Aside

\* A Stop seen before the first source write.
StopStaged == At("staged") /\ Goto("cleanup") /\ UNCHANGED files /\ Aside

\* A mistaken variant: the phase is recorded with the first progress report.
BeginUnrecorded(order) == /\ At("staged")
                          /\ proc' = [proc EXCEPT !.pc = "commit", !.todo = order]
                          /\ UNCHANGED files /\ Aside
\* "committing" is durable before the first block of the source changes.
BeginWith(order) == /\ At("staged")
                    /\ journal' = [journal EXCEPT !.phase = "committing"]
                    /\ proc' = [proc EXCEPT !.pc = "commit", !.todo = order]
                    /\ UNCHANGED stage /\ Aside

CommitBlock == At("commit") /\ CopyNext

\* Stop is honoured between two blocks, after an fsync; image and journal
\* stay for Recover.
StopSource == At("commit") /\ Sync /\ Exit /\ UNCHANGED files

\* A mistaken variant: no fsync.
SyncCommitNot == /\ At("commit") /\ proc.todo = <<>>
                 /\ Goto("verify") /\ UNCHANGED files /\ Aside
SyncCommit == /\ At("commit") /\ proc.todo = <<>>
              /\ Sync /\ Goto("verify")
              /\ UNCHANGED files

CommittedIf(verified) == At("verify") /\ verified /\ Record("committed") /\ Goto("cleanup")

\* First the image, then the journal.
CleanupStage == At("cleanup") /\ Unlink("retire")
CleanupJournal == At("retire") /\ Retire

\* The image is complete and has the recorded digest: it was synced before
\* its digest was recorded.
StageMatches == stage.state = "whole"

Resume(pc, todo) == proc' = [pc |-> pc, op |-> journal.op, token |-> journal.token, todo |-> todo]

\* A mistaken variant: only a commit that began is resumed.
ResumeBegunOnly(accepted, order) ==
    /\ At("down") /\ journal.phase = "committing"
    /\ accepted
    /\ Record("committing") /\ Resume("commit", order)
ResumeWith(accepted, order) ==
    /\ At("down") /\ journal.phase \in {"staged", "committing"}
    /\ accepted
    /\ Record("committing") /\ Resume("commit", order)

RetireWith(accepted) == /\ At("down") /\ journal.phase = "committed"
                        /\ accepted
                        /\ Resume("cleanup", <<>>)
                        /\ UNCHANGED files /\ Aside
=============================================================================
