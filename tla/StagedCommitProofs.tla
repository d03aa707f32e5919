-------------------------- MODULE StagedCommitProofs --------------------------
(***************************************************************************)
(* The four staged workers write the source ahead of nothing: for every    *)
(* volume, set of files, planner result, number of faults and of owner's   *)
(* edits, and for HFS+, AFFS, SFS and XFS alike.  Then what the planners   *)
(* of the HFS+, Amiga and SFS workers build, for every volume, operation   *)
(* and number of files; with that, these three keep every byte of every    *)
(* file and of the fixed metadata, whatever is killed, lost or changed     *)
(* between their steps, and what a worker accepts of its own image it may  *)
(* commit.  Last, what the XFS worker plans and moves: each file has a run,*)
(* the rebuilt trees take free blocks, and the permutation brings every    *)
(* block to its target.                                                    *)
(***************************************************************************)
EXTENDS StagedCommit, DigestCommit, FiniteSetTheorems, TLAPS

\* A durable record says that the source is being written, and the image
\* that repeats the writes is there.
Writing == journal.phase \in {"committing", "commit"} /\ stage.state = "whole"
WritingPhases == {"committing", "commit", "verifying-source"}

\* The running worker, by its next step.
StepInv ==
    /\ proc.pc \in {"build", "plan", "arrange", "check"} => journal.phase \notin WritingPhases
    /\ proc.pc \in {"check", "staged"} => stage.state = "whole"
    /\ proc.pc \in {"staged", "verify-source", "cleanup", "retire"} => journal.phase \notin {"committing", "commit"}
    /\ proc.pc \in {"commit", "record", "verify", "committed"} => Writing
    /\ proc.pc \in {"record", "verify", "committed", "verify-source"} => disk = cache

Shape == /\ "pc" \in DOMAIN proc /\ "phase" \in DOMAIN journal
         /\ disk = [b \in Blocks |-> disk[b]] /\ cache = [b \in Blocks |-> cache[b]]
         /\ edits \in Nat

\* What a power loss may take back was written under the record.
CommitInv == Shape /\ StepInv /\ (disk # cache => Writing)

\* The source changes only as WriteAhead allows.
Guarded == (disk' # disk \/ cache' # cache) /\ edits' = edits => Writing

-----------------------------------------------------------------------------
(* Steps by what they leave alone.                                         *)

\* Fields of a process and of a journal after an EXCEPT.
LEMMA Records ==
  /\ \A p : "pc" \in DOMAIN p => \A x : [p EXCEPT !.pc = x].pc = x /\ "pc" \in DOMAIN [p EXCEPT !.pc = x]
  /\ \A p : "pc" \in DOMAIN p => \A x, y :
        /\ [p EXCEPT !.pc = x, !.todo = y].pc = x
        /\ "pc" \in DOMAIN [p EXCEPT !.pc = x, !.todo = y]
  /\ \A p : "pc" \in DOMAIN p => \A y : [p EXCEPT !.todo = y].pc = p.pc /\ "pc" \in DOMAIN [p EXCEPT !.todo = y]
  /\ \A j : "phase" \in DOMAIN j => \A x : [j EXCEPT !.phase = x].phase = x /\ "phase" \in DOMAIN [j EXCEPT !.phase = x]
  /\ \A j : "phase" \in DOMAIN j => \A x, y :
        /\ [j EXCEPT !.phase = x, !.plan = y].phase = x
        /\ "phase" \in DOMAIN [j EXCEPT !.phase = x, !.plan = y]
        /\ [j EXCEPT !.phase = x, !.offset = y].phase = x
        /\ "phase" \in DOMAIN [j EXCEPT !.phase = x, !.offset = y]
  /\ \A j : "phase" \in DOMAIN j => \A y : [j EXCEPT !.offset = y].phase = j.phase /\ "phase" \in DOMAIN [j EXCEPT !.offset = y]
OBVIOUS

\* Only a file beside the volume changes.
LEMMA AsideKeeps ==
  ASSUME CommitInv, UNCHANGED <<disk, cache, edits>>,
         "pc" \in DOMAIN proc', "phase" \in DOMAIN journal', StepInv',
         disk # cache => Writing'
  PROVE  CommitInv' /\ Guarded
BY DEF CommitInv, Shape, Guarded

-----------------------------------------------------------------------------
(* HFS+, AFFS and SFS take the steps of DigestCommit.                      *)

DigestStep ==
    \/ \E token : StartWith(token)
    \/ At("build") /\ \E built, verified : BuildWith(built, verified)
    \/ \E unchanged : Bind(unchanged)
    \/ \E order : BeginWith(order)
    \/ CommitBlock \/ SyncCommit \/ StopSource
    \/ \E verified : CommittedIf(verified)
    \/ CleanupStage \/ CleanupJournal \/ Abandon \/ StopStaged
    \/ \E order : ResumeWith(StageMatches, order)
    \/ \E accepted : RetireWith(accepted)

\* Whatever a worker's layout, token, order and checks are, a step of
\* DigestCommit keeps the invariant.
LEMMA DigestKeeps ==
  ASSUME CommitInv, DigestStep
  PROVE  CommitInv' /\ Guarded
<1>. USE DEF At, Goto, Exit, Idle, Aside, world, files
<1>a. /\ "pc" \in DOMAIN proc /\ "phase" \in DOMAIN journal
      /\ disk = [b \in Blocks |-> disk[b]] /\ cache = [b \in Blocks |-> cache[b]]
      /\ edits \in Nat
      /\ StepInv
      /\ disk # cache => Writing
  BY DEF CommitInv, Shape
<1>1. ASSUME NEW token, StartWith(token) PROVE CommitInv' /\ Guarded
  <2>1. /\ UNCHANGED <<disk, cache, edits, stage, journal>> /\ journal.phase = "none"
        /\ proc'.pc = "build" /\ "pc" \in DOMAIN proc'
    BY <1>1 DEF StartWith, NoJournal
  <2>. QED BY <1>a, <2>1, AsideKeeps DEF StepInv, Writing, WritingPhases
<1>2. ASSUME At("build"), NEW built, NEW verified, BuildWith(built, verified)
      PROVE  CommitInv' /\ Guarded
  <2>1. /\ UNCHANGED <<disk, cache, edits, journal>> /\ "pc" \in DOMAIN proc'
        /\ proc'.pc = "down" \/ (proc'.pc = "check" /\ stage'.state = "whole")
    BY <1>a, <1>2, Records DEF BuildWith, Whole
  <2>2. journal.phase \notin WritingPhases
    BY <1>a, <1>2 DEF StepInv
  <2>. QED BY <1>a, <2>1, <2>2, AsideKeeps DEF StepInv, Writing, WritingPhases
<1>3. ASSUME NEW unchanged, Bind(unchanged) PROVE CommitInv' /\ Guarded
  <2>1. /\ UNCHANGED <<disk, cache, edits, stage>> /\ "pc" \in DOMAIN proc' /\ "phase" \in DOMAIN journal'
        /\ proc.pc = "check" /\ proc'.pc = "staged" /\ journal'.phase = "staged"
    BY <1>a, <1>3, Records DEF Bind
  <2>. QED BY <1>a, <2>1, AsideKeeps DEF StepInv, Writing, WritingPhases
<1>4. ASSUME NEW order, BeginWith(order) PROVE CommitInv' /\ Guarded
  <2>1. /\ UNCHANGED <<disk, cache, edits, stage>> /\ "pc" \in DOMAIN proc' /\ "phase" \in DOMAIN journal'
        /\ proc.pc = "staged" /\ proc'.pc = "commit" /\ journal'.phase = "committing"
    BY <1>a, <1>4, Records DEF BeginWith
  <2>. QED BY <1>a, <2>1, AsideKeeps DEF StepInv, Writing, WritingPhases
<1>5. CASE CommitBlock
  <2>1. /\ UNCHANGED <<disk, edits, stage, journal>> /\ "pc" \in DOMAIN proc'
        /\ proc.pc = "commit" /\ proc'.pc = "commit"
        /\ cache' = [cache EXCEPT ![Head(proc.todo)] = stage.image[Head(proc.todo)]]
    BY <1>a, <1>5, Records DEF CommitBlock, CopyNext
  <2>2. cache' = [b \in Blocks |-> cache'[b]]
    BY <1>a, <2>1
  <2>. QED BY <1>a, <2>1, <2>2 DEF CommitInv, Shape, StepInv, Writing, Guarded
<1>6. CASE SyncCommit
  <2>1. /\ UNCHANGED <<cache, edits, stage, journal>> /\ "pc" \in DOMAIN proc'
        /\ proc.pc = "commit" /\ proc'.pc = "verify" /\ disk' = cache
    BY <1>a, <1>6, Records DEF SyncCommit, Sync
  <2>. QED BY <1>a, <2>1 DEF CommitInv, Shape, StepInv, Writing, Guarded
<1>7. CASE StopSource
  <2>1. /\ UNCHANGED <<cache, edits, stage, journal>> /\ "pc" \in DOMAIN proc'
        /\ proc.pc = "commit" /\ proc'.pc = "down" /\ disk' = cache
    BY <1>a, <1>7 DEF StopSource, Sync
  <2>. QED BY <1>a, <2>1 DEF CommitInv, Shape, StepInv, Writing, Guarded
<1>8. ASSUME NEW verified, CommittedIf(verified) PROVE CommitInv' /\ Guarded
  <2>1. /\ UNCHANGED <<disk, cache, edits, stage>> /\ "pc" \in DOMAIN proc' /\ "phase" \in DOMAIN journal'
        /\ proc.pc = "verify" /\ proc'.pc = "cleanup" /\ journal'.phase = "committed"
    BY <1>a, <1>8, Records DEF CommittedIf, Record
  <2>. QED BY <1>a, <2>1, AsideKeeps DEF StepInv, Writing, WritingPhases
<1>9. CASE CleanupStage \/ StopStaged \/ CleanupJournal \/ Abandon
  <2>1. /\ UNCHANGED <<disk, cache, edits>> /\ "pc" \in DOMAIN proc' /\ "phase" \in DOMAIN journal'
        /\ proc.pc \in {"cleanup", "retire", "check", "staged"}
        /\ proc'.pc \in {"cleanup", "retire", "down"}
        /\ journal' = journal \/ journal'.phase = "none"
    BY <1>a, <1>9, Records DEF CleanupStage, CleanupJournal, Abandon, StopStaged, Unlink, Retire, Discard, NoJournal
  <2>. QED BY <1>a, <2>1, AsideKeeps DEF StepInv, Writing, WritingPhases
<1>10. ASSUME NEW order, ResumeWith(StageMatches, order) PROVE CommitInv' /\ Guarded
  <2>1. /\ UNCHANGED <<disk, cache, edits, stage>> /\ "pc" \in DOMAIN proc' /\ "phase" \in DOMAIN journal'
        /\ stage.state = "whole" /\ proc'.pc = "commit" /\ journal'.phase = "committing"
    BY <1>a, <1>10, Records DEF ResumeWith, Resume, Record, StageMatches
  <2>. QED BY <1>a, <2>1, AsideKeeps DEF StepInv, Writing, WritingPhases
<1>11. ASSUME NEW accepted, RetireWith(accepted) PROVE CommitInv' /\ Guarded
  <2>1. /\ UNCHANGED <<disk, cache, edits, stage, journal>> /\ "pc" \in DOMAIN proc'
        /\ proc'.pc = "cleanup" /\ journal.phase = "committed"
    BY <1>11 DEF RetireWith, Resume
  <2>. QED BY <1>a, <2>1, AsideKeeps DEF StepInv, Writing, WritingPhases
<1>. QED BY <1>1, <1>2, <1>3, <1>4, <1>5, <1>6, <1>7, <1>8, <1>9, <1>10, <1>11 DEF DigestStep

\* Whatever its layout and checks are, the HFS+ worker takes steps of DigestCommit.
LEMMA HfsplusSteps ==
  ASSUME Hfsplus!Next PROVE DigestStep
<1>. USE DEF Hfsplus!At, At, Hfsplus!Goto, Goto, Hfsplus!Exit, Exit, Hfsplus!Idle, Idle,
         Hfsplus!Aside, Aside, Hfsplus!world, world, Hfsplus!files, files, Hfsplus!NoJournal,
         NoJournal, Hfsplus!NoStage, NoStage, Hfsplus!Record, Record, Hfsplus!Sync, Sync,
         Hfsplus!Unlink, Unlink, Hfsplus!Discard, Discard, Hfsplus!Retire, Retire,
         Hfsplus!CopyNext, CopyNext, Hfsplus!Whole, Whole
<1>1. Hfsplus!CaptureTarget => \E token : StartWith(token)
  BY DEF Hfsplus!CaptureTarget, Hfsplus!StartWith, StartWith, Hfsplus!Operations, Operations
<1>2. Hfsplus!Build => (At("build") /\ \E built, verified : BuildWith(built, verified))
  BY DEF Hfsplus!Build, Hfsplus!BuildWith, BuildWith
<1>3. Hfsplus!CheckUnchangedTarget => \E unchanged : Bind(unchanged)
  BY DEF Hfsplus!CheckUnchangedTarget, Hfsplus!Bind, Bind
<1>4. Hfsplus!BeginCommit => \E order : BeginWith(order)
  BY DEF Hfsplus!BeginCommit, Hfsplus!BeginWith, BeginWith
<1>5. Hfsplus!SafeCommitStage => (CommitBlock \/ SyncCommit)
  BY DEF Hfsplus!SafeCommitStage, Hfsplus!CommitBlock, CommitBlock, Hfsplus!SyncCommit,
     SyncCommit
<1>6. Hfsplus!Committed => \E verified : CommittedIf(verified)
  BY DEF Hfsplus!Committed, Hfsplus!CommittedIf, CommittedIf
<1>7. Hfsplus!TransactionCleanup => (CleanupStage \/ CleanupJournal)
  BY DEF Hfsplus!TransactionCleanup, Hfsplus!CleanupStage, CleanupStage, Hfsplus!CleanupJournal,
     CleanupJournal
<1>8. Hfsplus!RecoverCommit => \E order : ResumeWith(StageMatches, order)
  BY DEF Hfsplus!RecoverCommit, Hfsplus!RecoveryAccepts, Hfsplus!ResumeWith, ResumeWith,
     Hfsplus!Resume, Resume, Hfsplus!StageMatches, StageMatches
<1>9. Hfsplus!RecoverCommitted => \E accepted : RetireWith(accepted)
  BY DEF Hfsplus!RecoverCommitted, Hfsplus!RetireWith, RetireWith, Hfsplus!Resume, Resume
<1>10. Hfsplus!Abandon => Abandon
  BY DEF Hfsplus!Abandon, Abandon
<1>11. Hfsplus!StopStaged => StopStaged
  BY DEF Hfsplus!StopStaged, StopStaged
<1>12. Hfsplus!StopCommit => StopSource
  BY DEF Hfsplus!StopCommit, Hfsplus!StopSource, StopSource
<1>. QED BY <1>1, <1>2, <1>3, <1>4, <1>5, <1>6, <1>7, <1>8, <1>9, <1>10, <1>11, <1>12
        DEF DigestStep, Hfsplus!Next, Hfsplus!Work, Hfsplus!Recover

\* So does the Amiga worker.
LEMMA AffsSteps ==
  ASSUME Affs!Next PROVE DigestStep
<1>. USE DEF Affs!At, At, Affs!Goto, Goto, Affs!Exit, Exit, Affs!Idle, Idle, Affs!Aside, Aside,
         Affs!world, world, Affs!files, files, Affs!NoJournal, NoJournal, Affs!NoStage, NoStage,
         Affs!Record, Record, Affs!Sync, Sync, Affs!Unlink, Unlink, Affs!Discard, Discard,
         Affs!Retire, Retire, Affs!CopyNext, CopyNext, Affs!Whole, Whole
<1>1. Affs!CaptureTarget => \E token : StartWith(token)
  BY DEF Affs!CaptureTarget, Affs!StartWith, StartWith, Affs!Operations, Operations
<1>2. Affs!Build => (At("build") /\ \E built, verified : BuildWith(built, verified))
  BY DEF Affs!Build, Affs!BuildWith, BuildWith
<1>3. Affs!CheckUnchangedTarget => \E unchanged : Bind(unchanged)
  BY DEF Affs!CheckUnchangedTarget, Affs!Bind, Bind
<1>4. Affs!BeginCommit => \E order : BeginWith(order)
  BY DEF Affs!BeginCommit, Affs!BeginWith, BeginWith
<1>5. Affs!SafeCommitStage => (CommitBlock \/ SyncCommit)
  BY DEF Affs!SafeCommitStage, Affs!CommitBlock, CommitBlock, Affs!SyncCommit, SyncCommit
<1>6. Affs!Committed => \E verified : CommittedIf(verified)
  BY DEF Affs!Committed, Affs!CommittedIf, CommittedIf
<1>7. Affs!TransactionCleanup => (CleanupStage \/ CleanupJournal)
  BY DEF Affs!TransactionCleanup, Affs!CleanupStage, CleanupStage, Affs!CleanupJournal,
     CleanupJournal
<1>8. Affs!RecoverCommit => \E order : ResumeWith(StageMatches, order)
  BY DEF Affs!RecoverCommit, Affs!RecoveryAccepts, Affs!ResumeWith, ResumeWith, Affs!Resume,
     Resume, Affs!StageMatches, StageMatches
<1>9. Affs!RecoverCommitted => \E accepted : RetireWith(accepted)
  BY DEF Affs!RecoverCommitted, Affs!RetireWith, RetireWith, Affs!Resume, Resume
<1>10. Affs!Abandon => Abandon
  BY DEF Affs!Abandon, Abandon
<1>11. Affs!StopStaged => StopStaged
  BY DEF Affs!StopStaged, StopStaged
<1>12. Affs!StopCommit => StopSource
  BY DEF Affs!StopCommit, Affs!StopSource, StopSource
<1>. QED BY <1>1, <1>2, <1>3, <1>4, <1>5, <1>6, <1>7, <1>8, <1>9, <1>10, <1>11, <1>12
        DEF DigestStep, Affs!Next, Affs!Work, Affs!Recover

\* So does the SFS worker.
LEMMA SfsSteps ==
  ASSUME Sfs!Next PROVE DigestStep
<1>. USE DEF Sfs!At, At, Sfs!Goto, Goto, Sfs!Exit, Exit, Sfs!Idle, Idle, Sfs!Aside, Aside,
         Sfs!world, world, Sfs!files, files, Sfs!NoJournal, NoJournal, Sfs!NoStage, NoStage,
         Sfs!Record, Record, Sfs!Sync, Sync, Sfs!Unlink, Unlink, Sfs!Discard, Discard,
         Sfs!Retire, Retire, Sfs!CopyNext, CopyNext, Sfs!Whole, Whole
<1>1. Sfs!CaptureTarget => \E token : StartWith(token)
  BY DEF Sfs!CaptureTarget, Sfs!StartWith, StartWith, Sfs!Operations, Operations
<1>2. Sfs!Build => (At("build") /\ \E built, verified : BuildWith(built, verified))
  BY DEF Sfs!Build, Sfs!BuildWith, BuildWith
<1>3. Sfs!CheckSourceUnchanged => \E unchanged : Bind(unchanged)
  BY DEF Sfs!CheckSourceUnchanged, Sfs!Bind, Bind
<1>4. Sfs!BeginCommit => \E order : BeginWith(order)
  BY DEF Sfs!BeginCommit, Sfs!BeginWith, BeginWith
<1>5. Sfs!SafeCommitStage => (CommitBlock \/ SyncCommit)
  BY DEF Sfs!SafeCommitStage, Sfs!CommitBlock, CommitBlock, Sfs!SyncCommit, SyncCommit
<1>6. Sfs!Committed => \E verified : CommittedIf(verified)
  BY DEF Sfs!Committed, Sfs!CommittedIf, CommittedIf
<1>7. Sfs!TransactionCleanup => (CleanupStage \/ CleanupJournal)
  BY DEF Sfs!TransactionCleanup, Sfs!CleanupStage, CleanupStage, Sfs!CleanupJournal,
     CleanupJournal
<1>8. Sfs!RecoverCommit => \E order : ResumeWith(StageMatches, order)
  BY DEF Sfs!RecoverCommit, Sfs!RecoveryAccepts, Sfs!ResumeWith, ResumeWith, Sfs!Resume, Resume,
     Sfs!StageMatches, StageMatches
<1>9. Sfs!RecoverCommitted => \E accepted : RetireWith(accepted)
  BY DEF Sfs!RecoverCommitted, Sfs!RetireWith, RetireWith, Sfs!Resume, Resume
<1>10. Sfs!Abandon => Abandon
  BY DEF Sfs!Abandon, Abandon
<1>11. Sfs!StopStaged => StopStaged
  BY DEF Sfs!StopStaged, StopStaged
<1>12. Sfs!StopCommit => StopSource
  BY DEF Sfs!StopCommit, Sfs!StopSource, StopSource
<1>. QED BY <1>1, <1>2, <1>3, <1>4, <1>5, <1>6, <1>7, <1>8, <1>9, <1>10, <1>11, <1>12
        DEF DigestStep, Sfs!Next, Sfs!Work, Sfs!Recover

-----------------------------------------------------------------------------
(* XFS records how far it came.                                            *)

\* XFS writes the source only under a record of the commit and syncs before it records an offset.
LEMMA XfsKeeps ==
  ASSUME CommitInv, Xfs!Next
  PROVE  CommitInv' /\ Guarded
<1>. USE DEF Xfs!At, Xfs!Goto, Xfs!Exit, Xfs!Idle, Xfs!Aside, Xfs!world, Xfs!files
<1>a. /\ "pc" \in DOMAIN proc /\ "phase" \in DOMAIN journal
      /\ disk = [b \in Blocks |-> disk[b]] /\ cache = [b \in Blocks |-> cache[b]]
      /\ edits \in Nat
      /\ StepInv
      /\ disk # cache => Writing
  BY DEF CommitInv, Shape
<1>1. CASE Xfs!Preflight
  <2>1. /\ UNCHANGED <<disk, cache, edits, stage>> /\ "pc" \in DOMAIN proc' /\ "phase" \in DOMAIN journal'
        /\ proc'.pc = "build" /\ journal.phase = "none" /\ journal'.phase = "preflight"
    BY <1>1 DEF Xfs!Preflight, Xfs!NoJournal
  <2>. QED BY <1>a, <2>1, AsideKeeps DEF StepInv, Writing, WritingPhases
<1>2. CASE Xfs!CreateStage
  <2>1. /\ UNCHANGED <<disk, cache, edits>> /\ "pc" \in DOMAIN proc' /\ "phase" \in DOMAIN journal'
        /\ proc.pc = "build" /\ proc'.pc = "plan" /\ journal'.phase = "cloning"
    BY <1>a, <1>2, Records DEF Xfs!CreateStage
  <2>. QED BY <1>a, <2>1, AsideKeeps DEF StepInv, Writing, WritingPhases
<1>3. CASE Xfs!PlanLayout
  <2>1. /\ UNCHANGED <<disk, cache, edits, stage>> /\ "pc" \in DOMAIN proc' /\ "phase" \in DOMAIN journal'
        /\ proc.pc = "plan" /\ proc'.pc \in {"arrange", "cleanup"}
        /\ journal' = journal \/ journal'.phase = "arranging"
    BY <1>a, <1>3, Records DEF Xfs!PlanLayout
  <2>. QED BY <1>a, <2>1, AsideKeeps DEF StepInv, Writing, WritingPhases
<1>4. CASE Xfs!ArrangeStage
  <2>1. /\ UNCHANGED <<disk, cache, edits>> /\ "pc" \in DOMAIN proc' /\ "phase" \in DOMAIN journal'
        /\ proc.pc = "arrange" /\ journal'.phase = "verifying-stage"
        /\ proc'.pc = "cleanup" \/ (proc'.pc = "check" /\ stage'.state = "whole")
    BY <1>a, <1>4, Records DEF Xfs!ArrangeStage, Xfs!Whole
  <2>. QED BY <1>a, <2>1, AsideKeeps DEF StepInv, Writing, WritingPhases
<1>5. CASE Xfs!CheckUnchangedTarget
  <2>1. /\ UNCHANGED <<disk, cache, edits, stage>> /\ "pc" \in DOMAIN proc' /\ "phase" \in DOMAIN journal'
        /\ proc.pc = "check" /\ proc'.pc = "commit" /\ journal'.phase = "commit"
    BY <1>a, <1>5, Records DEF Xfs!CheckUnchangedTarget, Xfs!BeginCommit
  <2>. QED BY <1>a, <2>1, AsideKeeps DEF StepInv, Writing, WritingPhases
<1>6. CASE Xfs!CopyBlock
  <2>1. /\ UNCHANGED <<disk, edits, stage, journal>> /\ "pc" \in DOMAIN proc'
        /\ proc.pc = "commit" /\ proc'.pc = "commit"
        /\ cache' = [cache EXCEPT ![Head(proc.todo)] = stage.image[Head(proc.todo)]]
    BY <1>a, <1>6, Records DEF Xfs!CopyBlock, Xfs!CopyNext
  <2>2. cache' = [b \in Blocks |-> cache'[b]]
    BY <1>a, <2>1
  <2>. QED BY <1>a, <2>1, <2>2 DEF CommitInv, Shape, StepInv, Writing, Guarded
<1>7. CASE Xfs!SyncRange
  <2>1. /\ UNCHANGED <<cache, edits, stage, journal>> /\ "pc" \in DOMAIN proc'
        /\ proc.pc = "commit" /\ proc'.pc = "record" /\ disk' = cache
    BY <1>a, <1>7, Records DEF Xfs!SyncRange, Xfs!Sync
  <2>. QED BY <1>a, <2>1 DEF CommitInv, Shape, StepInv, Writing, Guarded
<1>8. CASE Xfs!RecordOffset
  <2>1. /\ UNCHANGED <<disk, cache, edits, stage>> /\ "pc" \in DOMAIN proc' /\ "phase" \in DOMAIN journal'
        /\ proc.pc = "record" /\ proc'.pc \in {"commit", "committed"} /\ journal'.phase = journal.phase
    BY <1>a, <1>8, Records DEF Xfs!RecordOffset
  <2>. QED BY <1>a, <2>1, AsideKeeps DEF StepInv, Writing, WritingPhases
<1>9. CASE Xfs!EnterVerifying
  <2>1. /\ UNCHANGED <<disk, cache, edits, stage>> /\ "pc" \in DOMAIN proc' /\ "phase" \in DOMAIN journal'
        /\ proc.pc = "committed" /\ proc'.pc = "verify-source" /\ journal'.phase = "verifying-source"
    BY <1>a, <1>9, Records DEF Xfs!EnterVerifying, Xfs!EnterPhase, Xfs!Record
  <2>. QED BY <1>a, <2>1, AsideKeeps DEF StepInv, Writing, WritingPhases
<1>10. CASE Xfs!VerifySource \/ Xfs!StopStage
  <2>1. /\ UNCHANGED <<disk, cache, edits, stage, journal>> /\ "pc" \in DOMAIN proc'
        /\ proc.pc \in {"build", "plan", "arrange", "check", "verify-source"} /\ proc'.pc = "cleanup"
    BY <1>a, <1>10, Records DEF Xfs!VerifySource, Xfs!StopStage, Xfs!GiveUp
  <2>2. journal.phase \notin {"committing", "commit"}
    BY <1>a, <1>10, <2>1 DEF StepInv, Writing, WritingPhases
  <2>. QED BY <1>a, <2>1, <2>2, AsideKeeps DEF StepInv, Writing, WritingPhases
<1>11. CASE Xfs!TransactionCleanup
  <2>1. /\ UNCHANGED <<disk, cache, edits>> /\ "pc" \in DOMAIN proc' /\ "phase" \in DOMAIN journal'
        /\ proc.pc \in {"cleanup", "retire"} /\ proc'.pc \in {"retire", "down"}
        /\ journal' = journal \/ journal'.phase = "none"
    BY <1>a, <1>11, Records DEF Xfs!TransactionCleanup, Xfs!CleanupFiles, Xfs!CleanupJournal,
       Xfs!Unlink, Xfs!Retire, Xfs!NoJournal
  <2>. QED BY <1>a, <2>1, AsideKeeps DEF StepInv, Writing, WritingPhases
<1>12. CASE Xfs!RecoverDiscard
  <2>1. /\ UNCHANGED <<disk, cache, edits, stage, journal>> /\ "pc" \in DOMAIN proc'
        /\ proc'.pc = "cleanup" /\ journal.phase \in {"preflight", "cloning", "arranging", "verifying-stage"}
    BY <1>12 DEF Xfs!RecoverDiscard, Xfs!DiscardPending, Xfs!Resume
  <2>. QED BY <1>a, <2>1, AsideKeeps DEF StepInv, Writing, WritingPhases
<1>13. CASE Xfs!RecoverCommit
  <2>1. /\ UNCHANGED <<disk, cache, edits, stage>> /\ "pc" \in DOMAIN proc' /\ "phase" \in DOMAIN journal'
        /\ stage.state = "whole" /\ proc'.pc = "commit" /\ journal'.phase = "commit"
    BY <1>a, <1>13, Records DEF Xfs!RecoverCommit, Xfs!Record, Xfs!ResumeAt
  <2>. QED BY <1>a, <2>1, AsideKeeps DEF StepInv, Writing, WritingPhases
<1>. QED BY <1>1, <1>2, <1>3, <1>4, <1>5, <1>6, <1>7, <1>8, <1>9, <1>10, <1>11, <1>12, <1>13
        DEF Xfs!Next, Xfs!Work, Xfs!Recover, Xfs!CommitStage, Xfs!CommitRanges

-----------------------------------------------------------------------------
(* The world: killed workers, power losses and the owner.                  *)

\* Nothing outside a worker writes the source but a power loss and the owner.
LEMMA WorldKeeps ==
  ASSUME CommitInv, Killed \/ PowerLoss \/ Edit \/ RemoveOrphan
  PROVE  CommitInv' /\ Guarded
<1>a. /\ "pc" \in DOMAIN proc /\ "phase" \in DOMAIN journal
      /\ disk = [b \in Blocks |-> disk[b]] /\ cache = [b \in Blocks |-> cache[b]]
      /\ edits \in Nat
      /\ StepInv
      /\ disk # cache => Writing
  BY DEF CommitInv, Shape
<1>1. ASSUME Stopped
      PROVE  /\ UNCHANGED <<journal, edits>> /\ proc'.pc = "down" /\ "pc" \in DOMAIN proc'
             /\ Writing => Writing'
  BY <1>1, <1>a DEF Stopped, Exit, Idle, world, StepInv, Writing, WritingPhases, Partial
<1>2. CASE Killed
  <2>1. UNCHANGED <<disk, cache>> /\ Stopped
    BY <1>2 DEF Killed
  <2>. QED BY <1>a, <1>1, <2>1, AsideKeeps DEF StepInv
<1>3. CASE PowerLoss
  <2>1. PICK kept \in SUBSET Differing(cache, disk) : disk' = Overlay(disk, cache, kept)
    BY <1>3 DEF PowerLoss
  <2>2. cache' = disk' /\ Stopped
    BY <1>3 DEF PowerLoss
  <2>3. disk' = [b \in Blocks |-> disk'[b]]
    BY <2>1 DEF Overlay
  <2>4. disk = cache => disk' = disk
    <3>1. ASSUME disk = cache PROVE disk' = [b \in Blocks |-> disk[b]]
      BY <2>1, <3>1 DEF Overlay
    <3>. QED BY <1>a, <3>1
  <2>5. CommitInv'
    BY <1>a, <1>1, <2>2, <2>3 DEF CommitInv, Shape, StepInv
  <2>6. Guarded
    BY <1>a, <2>2, <2>4 DEF Guarded
  <2>. QED BY <2>5, <2>6
<1>4. CASE Edit
  <2>1. /\ disk' = cache' /\ UNCHANGED <<stage, journal, proc>>
        /\ edits' = edits + 1
        /\ proc.pc \in {"down", "build", "plan", "arrange", "check"}
    BY <1>4 DEF Edit
  <2>2. cache' = [b \in Blocks |-> cache'[b]]
    <3>1. PICK f \in Files : \E c \in CellsOf(cache, f) :
             cache' = [cache EXCEPT ![Header] = @ + 1, ![Cell(c)] = <<f, 9>>]
      BY <1>4 DEF Edit
    <3>. QED BY <1>a, <3>1
  <2>. QED BY <1>a, <2>1, <2>2 DEF CommitInv, Shape, StepInv, Writing, Guarded
<1>5. CASE RemoveOrphan
  <2>1. UNCHANGED <<disk, cache, edits, journal, proc>> /\ proc.pc = "down" /\ journal.phase = "none"
    BY <1>5 DEF RemoveOrphan, Aside, world, At, NoJournal
  <2>. QED BY <1>a, <2>1, AsideKeeps DEF StepInv, Writing, WritingPhases
<1>. QED BY <1>2, <1>3, <1>4, <1>5

-----------------------------------------------------------------------------
\* Every step keeps the invariant and is guarded by the record of the commit.
LEMMA StepKeeps ==
  ASSUME CommitInv, Move
  PROVE  CommitInv' /\ Guarded
<1>1. CASE Hfsplus!Next
  BY <1>1, HfsplusSteps, DigestKeeps
<1>2. CASE Affs!Next
  BY <1>2, AffsSteps, DigestKeeps
<1>3. CASE Sfs!Next
  BY <1>3, SfsSteps, DigestKeeps
<1>4. CASE Xfs!Next
  BY <1>4, XfsKeeps
<1>5. CASE Killed \/ PowerLoss \/ Edit \/ RemoveOrphan
  BY <1>5, WorldKeeps
<1>. QED BY <1>1, <1>2, <1>3, <1>4, <1>5
        DEF Move, Command, Work, Recover, Stop,
            Hfsplus!Next, Affs!Next, Sfs!Next, Xfs!Next

\* A stutter keeps it.
LEMMA StutterKeeps ==
  ASSUME CommitInv, UNCHANGED vars
  PROVE  CommitInv'
BY DEF CommitInv, Shape, StepInv, Writing, vars

\* What cache and disk differ in, a whole image and the journal always repeat.
LEMMA CommitInvHolds == Spec => []CommitInv
<1>1. Start => CommitInv
  <2>. SUFFICES ASSUME Start PROVE CommitInv
    OBVIOUS
  <2>1. /\ disk \in InitialVolumes /\ cache = disk /\ proc.pc = "down" /\ "pc" \in DOMAIN proc
        /\ journal.phase = "none" /\ "phase" \in DOMAIN journal /\ edits = 0
    BY DEF Start, Init, Idle, NoJournal
  <2>2. disk = [b \in Blocks |-> disk[b]]
    BY <2>1, VolumesAssumption DEF IsVolume
  <2>. QED BY <2>1, <2>2 DEF CommitInv, Shape, StepInv
<1>2. CommitInv /\ [Next]_allvars => CommitInv'
  BY StepKeeps, StutterKeeps DEF Next, allvars
<1>. QED BY <1>1, <1>2, PTL DEF Spec

\* The source changes, in the kernel or on stable storage, by a commit, its
\* replay or what a power loss takes back of them, only under a durable record
\* that says so and while the image that repeats the write is there: for HFS+,
\* AFFS, SFS and XFS, any volume and any number of faults and of edits.
THEOREM WriteAheadTheorem == Spec => WriteAhead
<1>1. CommitInv /\ [Next]_allvars =>
        [(disk' # disk \/ cache' # cache) /\ edits' = edits
         => journal.phase \in {"committing", "commit"} /\ stage.state = "whole"]_vars
  <2>. SUFFICES ASSUME CommitInv, [Next]_allvars
                PROVE  UNCHANGED vars \/ Guarded
    BY DEF Guarded, Writing
  <2>. QED BY StepKeeps DEF Next, allvars
<1>. QED BY <1>1, CommitInvHolds, PTL DEF Spec, WriteAhead

\* Nothing of the source waits in the kernel when a worker is done with it:
\* what differs from stable storage is repeated by the recorded commit.
THEOREM UnsyncedIsRepeated == Spec => [](disk # cache => Writing)
BY CommitInvHolds, PTL DEF CommitInv

-----------------------------------------------------------------------------
(* What the planners return.                                               *)

\* Induction on the natural numbers.
NatFacts == INSTANCE FoldInduction WITH Step <- LAMBDA v, op, p, x : p, Inv <- LAMBDA v, op, i, p : TRUE

-----------------------------------------------------------------------------
(* The blocks of a volume.                                                 *)

\* Blocks of different names are different blocks.
LEMMA BlockNames ==
  /\ \A c, d : Cell(c) = Cell(d) => c = d
  /\ \A f, g : MapOf(f) = MapOf(g) => f = g
  /\ \A c, f : Cell(c) # MapOf(f) /\ Cell(c) # Header /\ Cell(c) # Bitmap
  /\ \A f : MapOf(f) # Header /\ MapOf(f) # Bitmap
  /\ Header # Bitmap
  /\ \A c : Cell(c)[1] = "cell" /\ Cell(c)[2] = c
  /\ \A f : MapOf(f)[1] = "map" /\ MapOf(f)[2] = f
  /\ Header[1] = "head" /\ Bitmap[1] = "bitmap" /\ \A m : Mirror(m)[1] = "head"
BY DEF Cell, MapOf, Header, Bitmap, Mirror

\* The blocks of a volume are the header and its copies, the bitmap, the maps of
\* the files and the cells.
LEMMA BlockSet ==
  /\ Header \in Blocks /\ Bitmap \in Blocks
  /\ \A f \in Files : MapOf(f) \in Blocks
  /\ \A c \in Cells : Cell(c) \in Blocks
BY DEF Blocks

\* The files are numbered in scan order.
LEMMA FileNumbers ==
  /\ Cardinality(Files) \in Nat
  /\ FileOrder = [j \in 1..Cardinality(Files) |-> j]
  /\ \A f \in Files : f \in Nat /\ f > 0
<1>1. Cardinality(Files) \in Nat
  BY FilesAssumption, FS_CardinalityType
<1>. QED BY <1>1, FilesAssumption DEF FileOrder, Run

\* A reserve is a number of cells.
LEMMA ReserveIsNat == \A op : \A n \in Nat : Reserve(op, n) \in Nat
BY DEF Reserve

\* FirstFit is an unclaimed run of cells, or 0.
LEMMA FirstFitFits ==
  \A claimed : \A span \in Nat :
     LET s == FirstFit(claimed, span) IN
     s # 0 => s \in Cells /\ s + span - 1 <= N /\ claimed \intersect (s..(s + span - 1)) = {}
<1>. TAKE claimed
<1>. TAKE span \in Nat
<1>. DEFINE fits == {s \in Cells : s + span - 1 <= N /\ claimed \intersect (s..(s + span - 1)) = {}}
<1>1. fits \subseteq Nat
  BY CellsAssumption DEF Cells
<1>2. fits # {} => Min(fits) \in fits
  <2>. HIDE DEF fits
  <2>. QED BY <1>1, NatFacts!MinOfNat DEF NatFacts!Min, Min
<1>3. FirstFit(claimed, span) = IF fits = {} THEN 0 ELSE Min(fits)
  BY DEF FirstFit
<1>. HIDE DEF fits
<1>4. FirstFit(claimed, span) # 0 => FirstFit(claimed, span) \in fits
  BY <1>2, <1>3
<1>. QED BY <1>4 DEF fits

-----------------------------------------------------------------------------
(* One file laid out.                                                      *)

\* File f of v stands in one run of image, on cells that were not fixed, and
\* its reserve is claimed but not used.
Placed(v, op, fixed, claimed, used, image, f) ==
    LET m == v[MapOf(f)]
        s == image[MapOf(f)][1]
    IN /\ s \in Cells
       /\ s + Len(m) + Reserve(op, Len(m)) - 1 <= N
       /\ image[MapOf(f)] = Run(s, Len(m))
       /\ \A c \in s..(s + Len(m) - 1) : c \in used /\ c \notin fixed
       /\ \A c \in (s + Len(m))..(s + Len(m) + Reserve(op, Len(m)) - 1) : c \in claimed /\ c \notin used
       /\ \A j \in 1..Len(m) : image[Cell(s + j - 1)] = v[Cell(m[j])]

\* The files of moved are laid out, and the rest of image is as it was.
Laid(v, op, fixed, moved, claimed, used, image) ==
    /\ image = [b \in Blocks |-> image[b]]
    /\ image[Header] = v[Header]
    /\ fixed \subseteq used /\ used \subseteq claimed /\ claimed \subseteq Cells
    /\ \A c \in Cells : image[Cell(c)] = Junk \/ \E d \in Cells : image[Cell(c)] = v[Cell(d)]
    /\ \A c \in fixed : image[Cell(c)] = v[Cell(c)]
    /\ \A f \in moved : Placed(v, op, fixed, claimed, used, image, f)
    /\ \A f, g \in moved : f # g => CellsOf(image, f) \intersect CellsOf(image, g) = {}
    /\ \A f \in Files \ moved : image[MapOf(f)] = v[MapOf(f)]

\* What the copy of a file's data and of its map changes in an image.
LEMMA FileWritten ==
  ASSUME NEW v, NEW image, NEW f \in Files, NEW start,
         image = [b \in Blocks |-> image[b]],
         NEW w, w = WriteMap(WriteData(image, v, f, start), f, start, Len(v[MapOf(f)]))
  PROVE  /\ w = [b \in Blocks |-> w[b]]
         /\ w[Header] = image[Header]
         /\ w[MapOf(f)] = Run(start, Len(v[MapOf(f)]))
         /\ \A g \in Files : g # f => w[MapOf(g)] = image[MapOf(g)]
         /\ \A c \in Cells : w[Cell(c)] = IF c \in start..(start + Len(v[MapOf(f)]) - 1)
                                          THEN v[Cell(v[MapOf(f)][c - start + 1])] ELSE image[Cell(c)]
<1>. DEFINE d == WriteData(image, v, f, start)
<1>1. /\ d = [b \in Blocks |-> d[b]]
      /\ d[Header] = image[Header]
      /\ \A g \in Files : d[MapOf(g)] = image[MapOf(g)]
      /\ \A c \in Cells : d[Cell(c)] = IF c \in start..(start + Len(v[MapOf(f)]) - 1)
                                       THEN v[Cell(v[MapOf(f)][c - start + 1])] ELSE image[Cell(c)]
  BY BlockNames, BlockSet DEF WriteData
<1>. HIDE DEF d
<1>2. w = [d EXCEPT ![MapOf(f)] = Run(start, Len(v[MapOf(f)]))]
  BY DEF WriteMap, d
<1>3. /\ w = [b \in Blocks |-> w[b]]
      /\ w[MapOf(f)] = Run(start, Len(v[MapOf(f)]))
      /\ \A b \in Blocks : b # MapOf(f) => w[b] = d[b]
  BY <1>1, <1>2, BlockSet
<1>4. /\ w[Header] = d[Header]
      /\ \A g \in Files : g # f => w[MapOf(g)] = d[MapOf(g)]
      /\ \A c \in Cells : w[Cell(c)] = d[Cell(c)]
  BY <1>3, BlockNames, BlockSet
<1>. QED BY <1>1, <1>3, <1>4

\* A run of n cells from s on is the cells s to s + n - 1.
LEMMA RunIs ==
  \A s, n \in Nat : /\ Run(s, n) = [j \in 1..n |-> s + j - 1]
                    /\ Range(Run(s, n)) = s..(s + n - 1)
                    /\ n > 0 => Run(s, n)[1] = s
                    /\ Run(s, n) \in Seq(Int) /\ Len(Run(s, n)) = n
<1>. TAKE s, n \in Nat
<1>1. \A c \in s..(s + n - 1) : c - s + 1 \in 1..n /\ c = s + (c - s + 1) - 1
  OBVIOUS
<1>2. \A j \in 1..n : s + j - 1 \in s..(s + n - 1)
  OBVIOUS
<1>3. Range(Run(s, n)) = s..(s + n - 1)
  BY <1>1, <1>2 DEF Run, Range
<1>4. Run(s, n) \in Seq(Int) /\ Len(Run(s, n)) = n
  BY DEF Run
<1>. QED BY <1>3, <1>4 DEF Run

\* Places in a run and cells of it.
LEMMA InRun ==
  \A s, n \in Nat :
     /\ \A j \in 1..n : s + j - 1 \in s..(s + n - 1) /\ (s + j - 1) - s + 1 = j
     /\ \A c \in s..(s + n - 1) : c \in Nat /\ c - s + 1 \in 1..n /\ s + (c - s + 1) - 1 = c
OBVIOUS

\* A run in a span of cells stays inside it.
LEMMA RunInside ==
  \A s, n, r, k \in Nat : s > 0 /\ n > 0 /\ s + n + r - 1 <= k =>
     /\ \A c \in s..(s + n + r - 1) : c \in 1..k
     /\ \A c \in s..(s + n - 1) : c \in s..(s + n + r - 1) /\ c - s + 1 \in 1..n
     /\ \A c \in (s + n)..(s + n + r - 1) : c \in s..(s + n + r - 1) /\ c \notin s..(s + n - 1)
OBVIOUS

\* The place that the planner finds for file f.
Room(v, op, claimed, f, need, reserve, start) ==
    /\ need = Len(v[MapOf(f)]) /\ need # 0
    /\ reserve = Reserve(op, need)
    /\ start = FirstFit(claimed, need + reserve) /\ start # 0

\* Laying out one file leaves every other file as it was laid out, and fixed
\* cells alone.
LEMMA LayOne ==
  ASSUME NEW v, NEW op, NEW fixed, NEW moved, NEW claimed, NEW used, NEW image, IsVolume(v),
         Laid(v, op, fixed, moved, claimed, used, image),
         NEW f \in Files, f \notin moved, moved \subseteq Files,
         NEW need, NEW reserve, NEW start, Room(v, op, claimed, f, need, reserve, start)
  PROVE  Laid(v, op, fixed, moved \union {f},
              claimed \union (start..(start + need + reserve - 1)),
              used \union (start..(start + need - 1)),
              WriteMap(WriteData(image, v, f, start), f, start, need))
<1>. DEFINE w == WriteMap(WriteData(image, v, f, start), f, start, need)
            claimed1 == claimed \union (start..(start + need + reserve - 1))
            used1 == used \union (start..(start + need - 1))
<1>1. /\ v[MapOf(f)] \in Seq(Cells) /\ need \in Nat /\ need > 0 /\ reserve \in Nat /\ need + reserve \in Nat
      /\ \A j \in 1..need : v[MapOf(f)][j] \in Cells
  <2>1. v[MapOf(f)] \in Seq(Cells)
    BY DEF IsVolume
  <2>2. need \in Nat /\ need > 0
    BY <2>1 DEF Room
  <2>3. reserve \in Nat
    BY <2>2, ReserveIsNat DEF Room
  <2>4. \A j \in 1..need : v[MapOf(f)][j] \in Cells
    BY <2>1 DEF Room
  <2>. QED BY <2>1, <2>2, <2>3, <2>4
<1>2. /\ start \in Cells /\ start \in Nat /\ start > 0 /\ N \in Nat
      /\ start + need + reserve - 1 <= N
      /\ \A c \in start..(start + need + reserve - 1) : c \notin claimed
  <2>1. /\ start \in Cells
        /\ start + (need + reserve) - 1 <= N
        /\ claimed \intersect (start..(start + (need + reserve) - 1)) = {}
    BY <1>1, FirstFitFits DEF Room
  <2>2. start \in Nat /\ start > 0
    BY <2>1, CellsAssumption DEF Cells
  <2>3. start + (need + reserve) - 1 = start + need + reserve - 1
    BY <1>1, <2>2
  <2>. QED BY <2>1, <2>2, <2>3, CellsAssumption
<1>3. /\ w = [b \in Blocks |-> w[b]]
      /\ w[Header] = image[Header]
      /\ w[MapOf(f)] = Run(start, need)
      /\ \A g \in Files : g # f => w[MapOf(g)] = image[MapOf(g)]
      /\ \A c \in Cells : w[Cell(c)] = IF c \in start..(start + need - 1)
                                       THEN v[Cell(v[MapOf(f)][c - start + 1])] ELSE image[Cell(c)]
  <2>1. image = [b \in Blocks |-> image[b]]
    BY DEF Laid
  <2>2. w = WriteMap(WriteData(image, v, f, start), f, start, Len(v[MapOf(f)]))
    BY DEF Room
  <2>3. need = Len(v[MapOf(f)])
    BY DEF Room
  <2>. HIDE DEF w
  <2>4. /\ w = [b \in Blocks |-> w[b]]
        /\ w[Header] = image[Header]
        /\ w[MapOf(f)] = Run(start, Len(v[MapOf(f)]))
        /\ \A g \in Files : g # f => w[MapOf(g)] = image[MapOf(g)]
        /\ \A c \in Cells : w[Cell(c)] = IF c \in start..(start + Len(v[MapOf(f)]) - 1)
                                         THEN v[Cell(v[MapOf(f)][c - start + 1])] ELSE image[Cell(c)]
    BY <2>1, <2>2, FileWritten
  <2>. QED BY <2>3, <2>4
<1>. HIDE DEF w
<1>4. /\ image[Header] = v[Header]
      /\ fixed \subseteq used /\ used \subseteq claimed /\ claimed \subseteq Cells
      /\ \A c \in Cells : image[Cell(c)] = Junk \/ \E d \in Cells : image[Cell(c)] = v[Cell(d)]
      /\ \A c \in fixed : image[Cell(c)] = v[Cell(c)]
      /\ \A g \in moved : Placed(v, op, fixed, claimed, used, image, g)
      /\ \A g, h \in moved : g # h => CellsOf(image, g) \intersect CellsOf(image, h) = {}
      /\ \A g \in Files \ moved : image[MapOf(g)] = v[MapOf(g)]
  BY DEF Laid
<1>5. /\ \A c \in start..(start + need + reserve - 1) : c \in Cells
      /\ \A c \in start..(start + need - 1) : c \in start..(start + need + reserve - 1) /\ c - start + 1 \in 1..need
  <2>. HIDE DEF claimed1, used1
  <2>1. /\ need \in Nat /\ need > 0 /\ reserve \in Nat /\ start \in Nat /\ start > 0 /\ N \in Nat
        /\ start + need + reserve - 1 <= N
    BY <1>1, <1>2
  <2>. QED BY <2>1, RunInside DEF Cells
<1>6. fixed \subseteq used1 /\ used1 \subseteq claimed1 /\ claimed1 \subseteq Cells
  BY <1>4, <1>5
<1>7. \A c \in claimed : c \in Cells /\ w[Cell(c)] = image[Cell(c)]
  BY <1>2, <1>3, <1>4, <1>5
<1>8. \A c \in Cells : w[Cell(c)] = Junk \/ \E d \in Cells : w[Cell(c)] = v[Cell(d)]
  <2>. TAKE c \in Cells
  <2>1. CASE c \in start..(start + need - 1)
    <3>1. c - start + 1 \in 1..need
      BY <1>5, <2>1
    <3>2. v[MapOf(f)][c - start + 1] \in Cells
      BY <1>1, <3>1
    <3>. QED BY <1>3, <2>1, <3>2
  <2>2. CASE c \notin start..(start + need - 1)
    BY <1>3, <1>4, <2>2
  <2>. QED BY <2>1, <2>2
<1>9. \A c \in fixed : w[Cell(c)] = v[Cell(c)]
  BY <1>4, <1>7
<1>10. w[MapOf(f)][1] = start /\ CellsOf(w, f) = start..(start + need - 1)
  <2>1. Range(Run(start, need)) = start..(start + need - 1) /\ Run(start, need)[1] = start
    BY <1>1, <1>2, RunIs
  <2>. QED BY <1>3, <2>1 DEF CellsOf
<1>11. Placed(v, op, fixed, claimed1, used1, w, f)
  <2>1. \A c \in start..(start + need - 1) : c \in used1 /\ c \notin fixed
    BY <1>2, <1>4, <1>5
  <2>2. \A c \in (start + need)..(start + need + reserve - 1) : c \in claimed1 /\ c \notin used1
    <3>. TAKE c \in (start + need)..(start + need + reserve - 1)
    <3>1. c \in start..(start + need + reserve - 1) /\ c \notin start..(start + need - 1)
      BY <1>1, <1>2, RunInside
    <3>. QED BY <1>2, <1>4, <3>1
  <2>3. \A j \in 1..need : w[Cell(start + j - 1)] = v[Cell(v[MapOf(f)][j])]
    <3>. TAKE j \in 1..need
    <3>1. start + j - 1 \in start..(start + need - 1) /\ (start + j - 1) - start + 1 = j
      BY <1>1, <1>2, InRun
    <3>. QED BY <1>3, <1>5, <3>1
  <2>. HIDE DEF claimed1, used1
  <2>4. need = Len(v[MapOf(f)]) /\ reserve = Reserve(op, need)
    BY DEF Room
  <2>. QED BY <1>2, <1>3, <1>10, <2>1, <2>2, <2>3, <2>4 DEF Placed
<1>12. ASSUME NEW g \in moved
       PROVE  /\ Placed(v, op, fixed, claimed1, used1, w, g)
              /\ CellsOf(w, g) = CellsOf(image, g) /\ CellsOf(w, g) \subseteq claimed
  <2>. DEFINE m == v[MapOf(g)]
              s == image[MapOf(g)][1]
              r == Reserve(op, Len(m))
  <2>1. g \in Files /\ g # f /\ w[MapOf(g)] = image[MapOf(g)]
    BY <1>3, <1>12
  <2>2. /\ s \in Cells
        /\ s + Len(m) + r - 1 <= N
        /\ image[MapOf(g)] = Run(s, Len(m))
        /\ \A c \in s..(s + Len(m) - 1) : c \in used /\ c \notin fixed
        /\ \A c \in (s + Len(m))..(s + Len(m) + r - 1) : c \in claimed /\ c \notin used
        /\ \A j \in 1..Len(m) : image[Cell(s + j - 1)] = v[Cell(m[j])]
    BY <1>4, <1>12 DEF Placed
  <2>3. s \in Nat /\ m \in Seq(Cells) /\ Len(m) \in Nat
    BY <2>1, <2>2, CellsAssumption DEF IsVolume, Cells
  <2>4. CellsOf(image, g) = s..(s + Len(m) - 1)
    BY <2>2, <2>3, RunIs DEF CellsOf
  <2>5. CellsOf(w, g) = CellsOf(image, g)
    BY <2>1 DEF CellsOf
  <2>6. \A c \in s..(s + Len(m) - 1) : c \in used1 /\ c \notin fixed
    BY <2>2
  <2>7. \A c \in (s + Len(m))..(s + Len(m) + r - 1) : c \in claimed1 /\ c \notin used1
    BY <1>2, <1>5, <2>2
  <2>8. \A j \in 1..Len(m) : w[Cell(s + j - 1)] = v[Cell(m[j])]
    <3>. TAKE j \in 1..Len(m)
    <3>1. s + j - 1 \in s..(s + Len(m) - 1)
      BY <2>3
    <3>2. s + j - 1 \in claimed
      BY <1>4, <2>2, <3>1
    <3>. QED BY <1>7, <2>2, <3>2
  <2>9. CellsOf(image, g) \subseteq claimed
    BY <1>4, <2>2, <2>4
  <2>. HIDE DEF claimed1, used1
  <2>. QED BY <2>1, <2>2, <2>5, <2>6, <2>7, <2>8, <2>9 DEF Placed
<1>13. \A g \in moved \union {f} : Placed(v, op, fixed, claimed1, used1, w, g)
  BY <1>11, <1>12
<1>14. \A g, h \in moved \union {f} : g # h => CellsOf(w, g) \intersect CellsOf(w, h) = {}
  <2>1. \A g \in moved : CellsOf(w, g) \intersect CellsOf(w, f) = {}
    BY <1>2, <1>5, <1>10, <1>12
  <2>2. \A g, h \in moved : g # h => CellsOf(w, g) \intersect CellsOf(w, h) = {}
    BY <1>4, <1>12
  <2>. QED BY <2>1, <2>2
<1>15. \A g \in Files \ (moved \union {f}) : w[MapOf(g)] = v[MapOf(g)]
  BY <1>3, <1>4
<1>16. w[Header] = v[Header]
  BY <1>3, <1>4
<1>17. Laid(v, op, fixed, moved \union {f}, claimed1, used1, w)
  <2>. HIDE DEF claimed1, used1
  <2>. QED BY <1>3, <1>6, <1>8, <1>9, <1>13, <1>14, <1>15, <1>16 DEF Laid
<1>. QED BY <1>17 DEF w

-----------------------------------------------------------------------------
(* A finished layout.                                                      *)

\* The files of S have new places in w, in order and with their data; the
\* other files and the fixed cells are as they were.
Relaid(v, op, fixed, S, w) ==
    /\ IsVolume(w)
    /\ fixed \subseteq w[Bitmap] /\ \A c \in fixed : w[Cell(c)] = v[Cell(c)]
    /\ \A f \in S : /\ IsRun(w[MapOf(f)]) /\ ReserveAfter(w, f, op) \subseteq FreeCells(w)
                    /\ IsInjective(w[MapOf(f)]) /\ CellsOf(w, f) \subseteq w[Bitmap] \ fixed
                    /\ Contents(w)[f] = Contents(v)[f]
    /\ \A f, g \in S : f # g => CellsOf(w, f) \intersect CellsOf(w, g) = {}
    /\ \A f \in Files \ S : w[MapOf(f)] = v[MapOf(f)]

NonEmpty(v, S) == {f \in S : v[MapOf(f)] # <<>>}

\* A run is one.
LEMMA RunInOrder ==
  \A s, n \in Nat : IsRun(Run(s, n)) /\ IsInjective(Run(s, n))
<1>. TAKE s, n \in Nat
<1>1. \A j \in 1..n : Run(s, n)[j] = s + j - 1
  BY DEF Run
<1>2. DOMAIN Run(s, n) = 1..n /\ Len(Run(s, n)) = n
  BY RunIs DEF Run
<1>3. \A j \in 2..n : j \in 1..n /\ j - 1 \in 1..n
  OBVIOUS
<1>4. \A j \in 2..n : s + j - 1 = (s + (j - 1) - 1) + 1
  OBVIOUS
<1>5. IsRun(Run(s, n))
  BY <1>1, <1>2, <1>3, <1>4 DEF IsRun
<1>6. IsInjective(Run(s, n))
  BY <1>1, <1>2 DEF IsInjective
<1>. QED BY <1>5, <1>6

\* An image with every file laid out is the volume in a new layout.
LEMMA LaidIsRelaid ==
  ASSUME NEW v, NEW op, NEW fixed, NEW S, S \subseteq Files, NEW claimed, NEW used, NEW image,
         IsVolume(v), Laid(v, op, fixed, NonEmpty(v, S), claimed, used, image)
  PROVE  Relaid(v, op, fixed, S, [image EXCEPT ![Bitmap] = used])
<1>. DEFINE w == [image EXCEPT ![Bitmap] = used]
            moved == NonEmpty(v, S)
<1>1. /\ image = [b \in Blocks |-> image[b]]
      /\ image[Header] = v[Header]
      /\ fixed \subseteq used /\ used \subseteq claimed /\ claimed \subseteq Cells
      /\ \A c \in Cells : image[Cell(c)] = Junk \/ \E d \in Cells : image[Cell(c)] = v[Cell(d)]
      /\ \A c \in fixed : image[Cell(c)] = v[Cell(c)]
      /\ \A f \in moved : Placed(v, op, fixed, claimed, used, image, f)
      /\ \A f, g \in moved : f # g => CellsOf(image, f) \intersect CellsOf(image, g) = {}
      /\ \A f \in Files \ moved : image[MapOf(f)] = v[MapOf(f)]
  BY DEF Laid
<1>2. /\ w = [b \in Blocks |-> w[b]]
      /\ w[Bitmap] = used
      /\ \A b \in Blocks : b # Bitmap => w[b] = image[b]
  BY <1>1, BlockSet
<1>. HIDE DEF w
<1>3. /\ w[Header] = v[Header]
      /\ \A f \in Files : w[MapOf(f)] = image[MapOf(f)]
      /\ \A c \in Cells : w[Cell(c)] = image[Cell(c)]
  BY <1>1, <1>2, BlockSet, BlockNames
<1>4. ASSUME NEW f \in moved
      PROVE  LET m == v[MapOf(f)]
                 s == w[MapOf(f)][1]
             IN /\ f \in Files /\ m \in Seq(Cells) /\ Len(m) \in Nat /\ Len(m) > 0
                /\ s \in Cells /\ s \in Nat
                /\ Reserve(op, Len(m)) \in Nat
                /\ s + Len(m) + Reserve(op, Len(m)) - 1 <= N
                /\ w[MapOf(f)] = Run(s, Len(m))
                /\ CellsOf(w, f) = s..(s + Len(m) - 1)
                /\ \A c \in s..(s + Len(m) - 1) : c \in used /\ c \notin fixed
                /\ \A c \in (s + Len(m))..(s + Len(m) + Reserve(op, Len(m)) - 1) : c \in Cells \ used
                /\ \A j \in 1..Len(m) : w[Cell(s + j - 1)] = v[Cell(m[j])]
  <2>. DEFINE m == v[MapOf(f)]
              s == w[MapOf(f)][1]
  <2>1. f \in Files /\ m \in Seq(Cells) /\ m # <<>>
    BY <1>4 DEF IsVolume, NonEmpty
  <2>2. Len(m) \in Nat /\ Len(m) > 0
    BY <2>1
  <2>3. Reserve(op, Len(m)) \in Nat
    BY <2>2, ReserveIsNat
  <2>4. w[MapOf(f)] = image[MapOf(f)]
    BY <1>3, <2>1
  <2>5. /\ s \in Cells
        /\ s + Len(m) + Reserve(op, Len(m)) - 1 <= N
        /\ w[MapOf(f)] = Run(s, Len(m))
        /\ \A c \in s..(s + Len(m) - 1) : c \in used /\ c \notin fixed
        /\ \A c \in (s + Len(m))..(s + Len(m) + Reserve(op, Len(m)) - 1) : c \in claimed /\ c \notin used
        /\ \A j \in 1..Len(m) : image[Cell(s + j - 1)] = v[Cell(m[j])]
    <3>1. Placed(v, op, fixed, claimed, used, image, f)
      BY <1>1, <1>4
    <3>2. /\ image[MapOf(f)][1] \in Cells
          /\ image[MapOf(f)][1] + Len(m) + Reserve(op, Len(m)) - 1 <= N
          /\ image[MapOf(f)] = Run(image[MapOf(f)][1], Len(m))
          /\ \A c \in image[MapOf(f)][1]..(image[MapOf(f)][1] + Len(m) - 1) : c \in used /\ c \notin fixed
          /\ \A c \in (image[MapOf(f)][1] + Len(m))..(image[MapOf(f)][1] + Len(m) + Reserve(op, Len(m)) - 1) :
                c \in claimed /\ c \notin used
          /\ \A j \in 1..Len(m) : image[Cell(image[MapOf(f)][1] + j - 1)] = v[Cell(m[j])]
      BY <3>1 DEF Placed
    <3>. HIDE DEF m
    <3>. QED BY <2>4, <3>2
  <2>6. s \in Nat
    BY <2>5, CellsAssumption DEF Cells
  <2>7. CellsOf(w, f) = s..(s + Len(m) - 1)
    BY <2>2, <2>5, <2>6, RunIs DEF CellsOf
  <2>8. \A j \in 1..Len(m) : s + j - 1 \in s..(s + Len(m) - 1)
    BY <2>2, <2>6, InRun
  <2>9. \A j \in 1..Len(m) : s + j - 1 \in Cells
    BY <1>1, <2>5, <2>8
  <2>10. \A j \in 1..Len(m) : w[Cell(s + j - 1)] = v[Cell(m[j])]
    BY <1>3, <2>5, <2>9
  <2>. HIDE DEF m, s
  <2>11. \A c \in (s + Len(m))..(s + Len(m) + Reserve(op, Len(m)) - 1) : c \in Cells \ used
    BY <1>1, <2>5
  <2>. QED BY <2>1, <2>2, <2>3, <2>5, <2>6, <2>7, <2>10, <2>11 DEF m, s
<1>5. \A f \in S \ moved : f \in Files /\ w[MapOf(f)] = <<>> /\ v[MapOf(f)] = <<>>
  BY <1>1, <1>3 DEF NonEmpty
<1>6. ASSUME NEW f \in moved
      PROVE  /\ IsRun(w[MapOf(f)]) /\ ReserveAfter(w, f, op) \subseteq FreeCells(w)
             /\ IsInjective(w[MapOf(f)]) /\ CellsOf(w, f) \subseteq w[Bitmap] \ fixed
             /\ Contents(w)[f] = Contents(v)[f]
             /\ w[MapOf(f)] \in Seq(Cells)
  <2>. DEFINE m == v[MapOf(f)]
              s == w[MapOf(f)][1]
  <2>1. /\ f \in Files /\ m \in Seq(Cells) /\ Len(m) \in Nat /\ Len(m) > 0
        /\ s \in Cells /\ s \in Nat
        /\ Reserve(op, Len(m)) \in Nat
        /\ s + Len(m) + Reserve(op, Len(m)) - 1 <= N
        /\ w[MapOf(f)] = Run(s, Len(m))
        /\ CellsOf(w, f) = s..(s + Len(m) - 1)
        /\ \A c \in s..(s + Len(m) - 1) : c \in used /\ c \notin fixed
        /\ \A c \in (s + Len(m))..(s + Len(m) + Reserve(op, Len(m)) - 1) : c \in Cells \ used
        /\ \A j \in 1..Len(m) : w[Cell(s + j - 1)] = v[Cell(m[j])]
    BY <1>4, <1>6
  <2>. HIDE DEF m, s
  <2>2. IsRun(w[MapOf(f)]) /\ IsInjective(w[MapOf(f)])
    BY <2>1, RunInOrder
  <2>3. CellsOf(w, f) \subseteq w[Bitmap] \ fixed
    BY <1>2, <2>1
  <2>4. /\ w[MapOf(f)] = [j \in 1..Len(m) |-> s + j - 1] /\ Len(w[MapOf(f)]) = Len(m)
        /\ DOMAIN w[MapOf(f)] = 1..Len(m) /\ DOMAIN m = 1..Len(m)
    <3>1. /\ Run(s, Len(m)) = [j \in 1..Len(m) |-> s + j - 1]
          /\ Len(Run(s, Len(m))) = Len(m)
      BY <2>1, RunIs
    <3>2. DOMAIN m = 1..Len(m)
      BY <2>1
    <3>. QED BY <2>1, <3>1, <3>2
  <2>5. w[MapOf(f)][Len(m)] = s + Len(m) - 1
    BY <2>1, <2>4
  <2>6. ReserveAfter(w, f, op) \subseteq FreeCells(w)
    <3>1. Last(w[MapOf(f)]) = s + Len(m) - 1
      BY <2>4, <2>5 DEF Last
    <3>2. (s + Len(m) - 1) + 1 = s + Len(m)
          /\ (s + Len(m) - 1) + Reserve(op, Len(m)) = s + Len(m) + Reserve(op, Len(m)) - 1
      BY <2>1
    <3>3. ReserveAfter(w, f, op) \subseteq (s + Len(m))..(s + Len(m) + Reserve(op, Len(m)) - 1)
      BY <2>1, <2>4, <3>1, <3>2 DEF ReserveAfter
    <3>. QED BY <1>2, <2>1, <3>3 DEF FreeCells
  <2>7. Contents(w)[f] = Contents(v)[f]
    <3>1. Contents(w)[f] = [j \in 1..Len(m) |-> w[Cell(w[MapOf(f)][j])]]
      BY <2>1, <2>4 DEF Contents
    <3>2. Contents(v)[f] = [j \in 1..Len(m) |-> v[Cell(m[j])]]
      BY <2>1, <2>4 DEF Contents, m
    <3>3. \A j \in 1..Len(m) : w[Cell(w[MapOf(f)][j])] = v[Cell(m[j])]
      BY <2>1, <2>4
    <3>. QED BY <3>1, <3>2, <3>3
  <2>8. w[MapOf(f)] \in Seq(Cells)
    <3>1. \A j \in 1..Len(m) : s + j - 1 \in Cells
      BY <1>1, <2>1, InRun
    <3>2. [j \in 1..Len(m) |-> s + j - 1] \in Seq(Cells)
      BY <2>1, <3>1
    <3>. QED BY <2>4, <3>2
  <2>. QED BY <2>2, <2>3, <2>6, <2>7, <2>8
<1>7. ASSUME NEW f \in S \ moved
      PROVE  /\ IsRun(w[MapOf(f)]) /\ ReserveAfter(w, f, op) \subseteq FreeCells(w)
             /\ IsInjective(w[MapOf(f)]) /\ CellsOf(w, f) = {}
             /\ Contents(w)[f] = Contents(v)[f]
  <2>1. w[MapOf(f)] = <<>> /\ v[MapOf(f)] = <<>> /\ f \in Files
    BY <1>5, <1>7
  <2>. QED BY <2>1 DEF IsRun, ReserveAfter, IsInjective, CellsOf, Range, Contents
<1>8. \A f \in S : f \in moved \/ f \in S \ moved
  OBVIOUS
<1>9. \A f \in Files \ S : w[MapOf(f)] = v[MapOf(f)]
  BY <1>1, <1>3 DEF NonEmpty
<1>10. \A f, g \in S : f # g => CellsOf(w, f) \intersect CellsOf(w, g) = {}
  <2>1. \A f \in moved : f \in Files /\ CellsOf(w, f) = CellsOf(image, f)
    BY <1>3 DEF CellsOf, NonEmpty
  <2>. QED BY <1>1, <1>7, <1>8, <2>1
<1>11. IsVolume(w)
  <2>1. \A f \in Files : w[MapOf(f)] \in Seq(Cells)
    <3>1. \A f \in Files : f \in moved \/ w[MapOf(f)] = v[MapOf(f)]
      BY <1>1, <1>3
    <3>. QED BY <1>6, <3>1 DEF IsVolume
  <2>2. \A c \in Cells : w[Cell(c)] \in Payloads \/ w[Cell(c)][1] < 0
    <3>1. Junk \in Payloads
      BY DEF Junk, Payloads
    <3>2. \A d \in Cells : v[Cell(d)] \in Payloads \/ v[Cell(d)][1] < 0
      BY DEF IsVolume
    <3>3. \A c \in Cells : w[Cell(c)] = Junk \/ \E d \in Cells : w[Cell(c)] = v[Cell(d)]
      BY <1>1, <1>3
    <3>. QED BY <3>1, <3>2, <3>3
  <2>. QED BY <1>1, <1>2, <1>3, <2>1, <2>2 DEF IsVolume
<1>12. fixed \subseteq w[Bitmap] /\ \A c \in fixed : w[Cell(c)] = v[Cell(c)]
  BY <1>1, <1>2, <1>3
<1>13. \A f \in S : /\ IsRun(w[MapOf(f)]) /\ ReserveAfter(w, f, op) \subseteq FreeCells(w)
                    /\ IsInjective(w[MapOf(f)]) /\ CellsOf(w, f) \subseteq w[Bitmap] \ fixed
                    /\ Contents(w)[f] = Contents(v)[f]
  <2>. HIDE DEF moved
  <2>. QED BY <1>6, <1>7, <1>8
<1>14. Relaid(v, op, fixed, S, w)
  BY <1>9, <1>10, <1>11, <1>12, <1>13 DEF Relaid
<1>. QED BY <1>14 DEF w

-----------------------------------------------------------------------------
(* The files one after the other.                                          *)

UpTo(v, S, i) == {f \in NonEmpty(v, S) : f <= i}

\* Once file i was looked at, the files of S up to i are laid out.
LEMMA PlanGrows ==
  ASSUME NEW v, NEW op, NEW fixed, NEW S, S \subseteq Files, NEW claimed, NEW used, NEW image,
         IsVolume(v), NEW i \in Files,
         Laid(v, op, fixed, UpTo(v, S, i - 1), claimed, used, image)
  PROVE  LET need == Len(v[MapOf(i)])
             reserve == Reserve(op, need)
             start == FirstFit(claimed, need + reserve)
         IN /\ i \notin S \/ need = 0 => Laid(v, op, fixed, UpTo(v, S, i), claimed, used, image)
            /\ i \in S /\ need # 0 /\ start # 0 =>
                  Laid(v, op, fixed, UpTo(v, S, i),
                       claimed \union (start..(start + need + reserve - 1)),
                       used \union (start..(start + need - 1)),
                       WriteMap(WriteData(image, v, i, start), i, start, need))
<1>1. S \subseteq Nat /\ i \in Nat /\ v[MapOf(i)] \in Seq(Cells)
  BY FileNumbers DEF IsVolume
<1>2. Len(v[MapOf(i)]) = 0 <=> v[MapOf(i)] = <<>>
  BY <1>1
<1>3. i \notin S \/ Len(v[MapOf(i)]) = 0 => UpTo(v, S, i) = UpTo(v, S, i - 1)
  <2>1. \A f \in S : f <= i <=> f <= i - 1 \/ f = i
    BY <1>1
  <2>. QED BY <1>2, <2>1 DEF UpTo, NonEmpty
<1>4. i \in S /\ Len(v[MapOf(i)]) # 0 => UpTo(v, S, i) = UpTo(v, S, i - 1) \union {i}
  <2>1. \A f \in S : f <= i <=> f <= i - 1 \/ f = i
    BY <1>1
  <2>. QED BY <1>2, <2>1 DEF UpTo, NonEmpty
<1>5. UpTo(v, S, i - 1) \subseteq Files /\ i \notin UpTo(v, S, i - 1)
  <2>1. ~ (i <= i - 1)
    BY <1>1
  <2>. QED BY <2>1 DEF UpTo, NonEmpty
<1>6. ASSUME NEW need, NEW reserve, NEW start, Room(v, op, claimed, i, need, reserve, start), i \in S
      PROVE  Laid(v, op, fixed, UpTo(v, S, i),
                  claimed \union (start..(start + need + reserve - 1)),
                  used \union (start..(start + need - 1)),
                  WriteMap(WriteData(image, v, i, start), i, start, need))
  <2>1. Laid(v, op, fixed, UpTo(v, S, i - 1) \union {i},
             claimed \union (start..(start + need + reserve - 1)),
             used \union (start..(start + need - 1)),
             WriteMap(WriteData(image, v, i, start), i, start, need))
    BY <1>5, <1>6, LayOne
  <2>2. UpTo(v, S, i) = UpTo(v, S, i - 1) \union {i}
    BY <1>4, <1>6 DEF Room
  <2>. QED BY <2>1, <2>2
<1>. QED BY <1>3, <1>6 DEF Room

\* Before the first file.
LEMMA PlanStarts ==
  ASSUME NEW v, NEW op, NEW fixed, fixed \subseteq v[Bitmap], NEW S, S \subseteq Files, IsVolume(v)
  PROVE  /\ Laid(v, op, fixed, UpTo(v, S, 0), fixed, fixed, v)
         /\ Laid(v, op, fixed, UpTo(v, S, 0), fixed, fixed, CopyUsed(v))
<1>1. UpTo(v, S, 0) = {}
  BY FileNumbers DEF UpTo, NonEmpty
<1>2. /\ v = [b \in Blocks |-> v[b]] /\ v[Bitmap] \subseteq Cells
  BY DEF IsVolume
<1>3. /\ CopyUsed(v) = [b \in Blocks |-> CopyUsed(v)[b]]
      /\ CopyUsed(v)[Header] = v[Header]
      /\ \A f \in Files : CopyUsed(v)[MapOf(f)] = v[MapOf(f)]
      /\ \A c \in Cells : CopyUsed(v)[Cell(c)] = IF c \in FreeCells(v) THEN Junk ELSE v[Cell(c)]
  BY BlockNames, BlockSet DEF CopyUsed
<1>4. \A c \in fixed : c \in Cells /\ c \notin FreeCells(v)
  BY <1>2 DEF FreeCells
<1>. QED BY <1>1, <1>2, <1>3, <1>4 DEF Laid

-----------------------------------------------------------------------------
(* HFS+.                                                                   *)

HfsplusStep(v, op, p, f) == Hfsplus!PlaceFork(v, op, p, f)
HfsplusPlanned(v, op, i, p) ==
    /\ p = [claimed |-> p.claimed, used |-> p.used, image |-> p.image, placed |-> p.placed]
    /\ p.placed => Laid(v, op, Hfsplus!Claimed(v), UpTo(v, Files \ Protected, i), p.claimed, p.used, p.image)
HfsplusFold == INSTANCE FoldInduction WITH Step <- HfsplusStep, Inv <- HfsplusPlanned

\* One step of the planner of HFS+ keeps what the plan promises.
LEMMA HfsplusPlanKept ==
  ASSUME NEW v, NEW op, IsVolume(v), NEW i \in Files, NEW p, HfsplusPlanned(v, op, i - 1, p)
  PROVE  HfsplusPlanned(v, op, i, HfsplusStep(v, op, p, i))
<1>. DEFINE need == Len(v[MapOf(i)])
            reserve == Reserve(op, need)
            start == FirstFit(p.claimed, need + reserve)
            placed == [claimed |-> p.claimed \union (start..(start + need + reserve - 1)),
                       used |-> p.used \union (start..(start + need - 1)),
                       image |-> WriteMap(WriteData(p.image, v, i, start), i, start, need),
                       placed |-> p.placed]
<1>1. HfsplusStep(v, op, p, i) =
        IF i \in Protected \/ need = 0 THEN p
        ELSE IF start = 0 THEN [p EXCEPT !.placed = FALSE] ELSE placed
  BY DEF HfsplusStep, Hfsplus!PlaceFork, Hfsplus!ChooseRun, Hfsplus!RewriteFork, Hfsplus!MoveFork,
         Hfsplus!FirstFit, FirstFit, Hfsplus!Reserve, Reserve,
         Hfsplus!WriteMap, WriteMap, Hfsplus!WriteData, WriteData,
         Hfsplus!MapOf, MapOf, Hfsplus!Cell, Cell, Hfsplus!Cells, Cells, Hfsplus!Min, Min,
         Hfsplus!Blocks, Blocks, Hfsplus!Header, Header, Hfsplus!Bitmap, Bitmap, Hfsplus!Mirror, Mirror,
         Hfsplus!Run, Run
<1>2. p = [claimed |-> p.claimed, used |-> p.used, image |-> p.image, placed |-> p.placed]
  BY DEF HfsplusPlanned
<1>3. Files \ Protected \subseteq Files
  OBVIOUS
<1>4. ASSUME p.placed
      PROVE  /\ i \in Protected \/ need = 0
                => Laid(v, op, Hfsplus!Claimed(v), UpTo(v, Files \ Protected, i), p.claimed, p.used, p.image)
             /\ ~ (i \in Protected) /\ need # 0 /\ start # 0 =>
                Laid(v, op, Hfsplus!Claimed(v), UpTo(v, Files \ Protected, i),
                     p.claimed \union (start..(start + need + reserve - 1)),
                     p.used \union (start..(start + need - 1)),
                     WriteMap(WriteData(p.image, v, i, start), i, start, need))
  <2>1. Laid(v, op, Hfsplus!Claimed(v), UpTo(v, Files \ Protected, i - 1), p.claimed, p.used, p.image)
    BY <1>4 DEF HfsplusPlanned
  <2>. QED BY <1>3, <2>1, PlanGrows
<1>5. CASE i \in Protected \/ need = 0
  BY <1>1, <1>2, <1>4, <1>5 DEF HfsplusPlanned
<1>6. CASE ~ (i \in Protected \/ need = 0) /\ start = 0
  <2>1. HfsplusStep(v, op, p, i) = [p EXCEPT !.placed = FALSE]
    BY <1>1, <1>6
  <2>. HIDE DEF need, start
  <2>. QED BY <1>2, <2>1 DEF HfsplusPlanned
<1>7. CASE ~ (i \in Protected \/ need = 0) /\ start # 0
  <2>1. HfsplusStep(v, op, p, i) = placed
    BY <1>1, <1>7
  <2>2. /\ placed.placed = p.placed
        /\ placed = [claimed |-> placed.claimed, used |-> placed.used, image |-> placed.image, placed |-> placed.placed]
        /\ p.placed => Laid(v, op, Hfsplus!Claimed(v), UpTo(v, Files \ Protected, i), placed.claimed, placed.used, placed.image)
    BY <1>4, <1>7
  <2>. HIDE DEF placed, need, start
  <2>. QED BY <2>1, <2>2 DEF HfsplusPlanned
<1>. QED BY <1>5, <1>6, <1>7

\* What the HFS+ planner places, it lays out in order.
LEMMA HfsplusBuilds ==
  ASSUME NEW v, NEW op, IsVolume(v), Hfsplus!BuildStage(v, op).placed
  PROVE  Relaid(v, op, Hfsplus!Claimed(v), (Files \ Protected), Hfsplus!BuildStage(v, op).image)
<1>. DEFINE empty == [claimed |-> Hfsplus!Claimed(v), used |-> Hfsplus!Claimed(v), image |-> CopyUsed(v), placed |-> TRUE]
            n == Cardinality(Files)
            plan == HfsplusFold!Folded(v, op, empty, FileOrder)
<1>1. Hfsplus!BuildStage(v, op) = [placed |-> plan.placed, image |-> [plan.image EXCEPT ![Bitmap] = plan.used]]
  <2>. DEFINE empty0 == [claimed |-> Hfsplus!Claimed(v), used |-> Hfsplus!Claimed(v), image |-> Hfsplus!CopyAllocated(v), placed |-> TRUE]
              plan0 == HfsplusFold!Folded(v, op, empty0, Hfsplus!FileOrder)
  <2>1. Hfsplus!BuildStage(v, op) = [placed |-> plan0.placed, image |-> Hfsplus!RewriteAllocationBitmap(plan0.image, plan0.used)]
    BY DEF Hfsplus!BuildStage, Hfsplus!Accumulate, Hfsplus!Once, HfsplusFold!Folded, HfsplusStep,
           Hfsplus!FoldLeft, HfsplusFold!FoldLeft, Hfsplus!MapThenFoldSet, HfsplusFold!MapThenFoldSet,
           Hfsplus!Max, HfsplusFold!Max
  <2>2. Hfsplus!FileOrder = FileOrder
    BY DEF Hfsplus!FileOrder, FileOrder, Hfsplus!Run, Run, Hfsplus!Cardinality, Cardinality, Hfsplus!IsFiniteSet, IsFiniteSet
  <2>3. empty0 = empty
    BY DEF Hfsplus!CopyAllocated, Hfsplus!CopyUsed, CopyUsed,
         Hfsplus!Blocks, Blocks, Hfsplus!Header, Header, Hfsplus!Mirror, Mirror, Hfsplus!MapOf, MapOf, Hfsplus!Cell, Cell,
         Hfsplus!Cells, Cells, Hfsplus!FreeCells, FreeCells, Hfsplus!Junk, Junk, Hfsplus!Bitmap, Bitmap
  <2>4. plan0 = plan
    <3>. HIDE DEF empty, empty0
    <3>. QED BY <2>2, <2>3
  <2>5. Hfsplus!RewriteAllocationBitmap(plan.image, plan.used) = [plan.image EXCEPT ![Bitmap] = plan.used]
    BY DEF Hfsplus!RewriteAllocationBitmap, Hfsplus!Bitmap, Bitmap
  <2>. HIDE DEF plan, plan0
  <2>. QED BY <2>1, <2>4, <2>5
<1>2. n \in Nat /\ DOMAIN FileOrder = 1..n /\ \A i \in 1..n : FileOrder[i] = i /\ i \in Files
  BY FileNumbers, FilesAssumption
<1>3. Hfsplus!Claimed(v) \subseteq v[Bitmap] /\ (Files \ Protected) \subseteq Files
  BY DEF Hfsplus!Claimed, Hfsplus!Bitmap, Bitmap, IsVolume
<1>4. HfsplusPlanned(v, op, 0, empty)
  BY <1>3, PlanStarts DEF HfsplusPlanned
<1>5. \A i \in 1..n : \A p : HfsplusPlanned(v, op, i - 1, p) => HfsplusPlanned(v, op, i, HfsplusStep(v, op, p, FileOrder[i]))
  BY <1>2, HfsplusPlanKept
<1>6. HfsplusPlanned(v, op, n, plan)
  <2>. HIDE DEF n, empty
  <2>. QED BY <1>2, <1>4, <1>5, HfsplusFold!FoldKeeps
<1>. HIDE DEF plan
<1>7. UpTo(v, (Files \ Protected), n) = NonEmpty(v, (Files \ Protected))
  <2>1. \A f \in Files : f <= n
    BY <1>2, FilesAssumption
  <2>. QED BY <2>1 DEF UpTo, NonEmpty
<1>8. plan.placed
  BY <1>1
<1>9. Laid(v, op, Hfsplus!Claimed(v), NonEmpty(v, (Files \ Protected)), plan.claimed, plan.used, plan.image)
  BY <1>6, <1>7, <1>8 DEF HfsplusPlanned
<1>10. Relaid(v, op, Hfsplus!Claimed(v), (Files \ Protected), [plan.image EXCEPT ![Bitmap] = plan.used])
  BY <1>3, <1>9, LaidIsRelaid
<1>. QED BY <1>1, <1>10

-----------------------------------------------------------------------------
(* The Amiga file systems.                                                 *)

AffsStep(v, op, p, f) == Affs!PlaceFile(v, op, p, f)
AffsPlanned(v, op, i, p) ==
    /\ p = [fixed |-> p.fixed, used |-> p.used, image |-> p.image, placed |-> p.placed]
    /\ p.placed => Laid(v, op, Affs!FixedMap(v), UpTo(v, Files, i), p.fixed, p.used, p.image)
AffsFold == INSTANCE FoldInduction WITH Step <- AffsStep, Inv <- AffsPlanned

\* One step of the planner of AFFS keeps what the plan promises.
LEMMA AffsPlanKept ==
  ASSUME NEW v, NEW op, IsVolume(v), NEW i \in Files, NEW p, AffsPlanned(v, op, i - 1, p)
  PROVE  AffsPlanned(v, op, i, AffsStep(v, op, p, i))
<1>. DEFINE need == Len(v[MapOf(i)])
            reserve == Reserve(op, need)
            start == FirstFit(p.fixed, need + reserve)
            placed == [fixed |-> p.fixed \union (start..(start + need + reserve - 1)),
                       used |-> p.used \union (start..(start + need - 1)),
                       image |-> WriteMap(WriteData(p.image, v, i, start), i, start, need),
                       placed |-> p.placed]
<1>1. AffsStep(v, op, p, i) =
        IF need = 0 THEN p
        ELSE IF start = 0 THEN [p EXCEPT !.placed = FALSE] ELSE placed
  BY DEF AffsStep, Affs!PlaceFile, Affs!ChooseRun, Affs!RewritePtrs, Affs!MoveFileData,
         Affs!FirstFit, FirstFit, Affs!Reserve, Reserve,
         Affs!WriteMap, WriteMap, Affs!WriteData, WriteData,
         Affs!MapOf, MapOf, Affs!Cell, Cell, Affs!Cells, Cells, Affs!Min, Min,
         Affs!Blocks, Blocks, Affs!Header, Header, Affs!Bitmap, Bitmap, Affs!Mirror, Mirror,
         Affs!Run, Run
<1>2. p = [fixed |-> p.fixed, used |-> p.used, image |-> p.image, placed |-> p.placed]
  BY DEF AffsPlanned
<1>3. Files \subseteq Files
  OBVIOUS
<1>4. ASSUME p.placed
      PROVE  /\ need = 0
                => Laid(v, op, Affs!FixedMap(v), UpTo(v, Files, i), p.fixed, p.used, p.image)
             /\ need # 0 /\ start # 0 =>
                Laid(v, op, Affs!FixedMap(v), UpTo(v, Files, i),
                     p.fixed \union (start..(start + need + reserve - 1)),
                     p.used \union (start..(start + need - 1)),
                     WriteMap(WriteData(p.image, v, i, start), i, start, need))
  <2>1. Laid(v, op, Affs!FixedMap(v), UpTo(v, Files, i - 1), p.fixed, p.used, p.image)
    BY <1>4 DEF AffsPlanned
  <2>. QED BY <1>3, <2>1, PlanGrows
<1>5. CASE need = 0
  BY <1>1, <1>2, <1>4, <1>5 DEF AffsPlanned
<1>6. CASE need # 0 /\ start = 0
  <2>1. AffsStep(v, op, p, i) = [p EXCEPT !.placed = FALSE]
    BY <1>1, <1>6
  <2>. HIDE DEF need, start
  <2>. QED BY <1>2, <2>1 DEF AffsPlanned
<1>7. CASE need # 0 /\ start # 0
  <2>1. AffsStep(v, op, p, i) = placed
    BY <1>1, <1>7
  <2>2. /\ placed.placed = p.placed
        /\ placed = [fixed |-> placed.fixed, used |-> placed.used, image |-> placed.image, placed |-> placed.placed]
        /\ p.placed => Laid(v, op, Affs!FixedMap(v), UpTo(v, Files, i), placed.fixed, placed.used, placed.image)
    BY <1>4, <1>7
  <2>. HIDE DEF placed, need, start
  <2>. QED BY <2>1, <2>2 DEF AffsPlanned
<1>. QED BY <1>5, <1>6, <1>7

\* What the Amiga planner places, it lays out in order.
LEMMA AffsBuilds ==
  ASSUME NEW v, NEW op, IsVolume(v), Affs!BuildStage(v, op).placed
  PROVE  Relaid(v, op, Affs!FixedMap(v), Files, Affs!BuildStage(v, op).image)
<1>. DEFINE empty == [fixed |-> Affs!FixedMap(v), used |-> Affs!FixedMap(v), image |-> CopyUsed(v), placed |-> TRUE]
            n == Cardinality(Files)
            plan == AffsFold!Folded(v, op, empty, FileOrder)
<1>1. Affs!BuildStage(v, op) = [placed |-> plan.placed, image |-> [plan.image EXCEPT ![Bitmap] = plan.used]]
  <2>. DEFINE empty0 == [fixed |-> Affs!FixedMap(v), used |-> Affs!FixedMap(v), image |-> Affs!CopyAllocated(v), placed |-> TRUE]
              plan0 == AffsFold!Folded(v, op, empty0, Affs!FileOrder)
  <2>1. Affs!BuildStage(v, op) = [placed |-> plan0.placed, image |-> Affs!BitmapWrite(plan0.image, plan0.used)]
    BY DEF Affs!BuildStage, Affs!Accumulate, Affs!Once, AffsFold!Folded, AffsStep,
           Affs!FoldLeft, AffsFold!FoldLeft, Affs!MapThenFoldSet, AffsFold!MapThenFoldSet,
           Affs!Max, AffsFold!Max
  <2>2. Affs!FileOrder = FileOrder
    BY DEF Affs!FileOrder, FileOrder, Affs!Run, Run, Affs!Cardinality, Cardinality, Affs!IsFiniteSet, IsFiniteSet
  <2>3. empty0 = empty
    BY DEF Affs!CopyAllocated, Affs!CopyUsed, CopyUsed,
         Affs!Blocks, Blocks, Affs!Header, Header, Affs!Mirror, Mirror, Affs!MapOf, MapOf, Affs!Cell, Cell,
         Affs!Cells, Cells, Affs!FreeCells, FreeCells, Affs!Junk, Junk, Affs!Bitmap, Bitmap
  <2>4. plan0 = plan
    <3>. HIDE DEF empty, empty0
    <3>. QED BY <2>2, <2>3
  <2>5. Affs!BitmapWrite(plan.image, plan.used) = [plan.image EXCEPT ![Bitmap] = plan.used]
    BY DEF Affs!BitmapWrite, Affs!Bitmap, Bitmap
  <2>. HIDE DEF plan, plan0
  <2>. QED BY <2>1, <2>4, <2>5
<1>2. n \in Nat /\ DOMAIN FileOrder = 1..n /\ \A i \in 1..n : FileOrder[i] = i /\ i \in Files
  BY FileNumbers, FilesAssumption
<1>3. Affs!FixedMap(v) \subseteq v[Bitmap] /\ Files \subseteq Files
  BY DEF Affs!FixedMap, Affs!ReadBitmap, Affs!FreeCells, Affs!Cells, Affs!Bitmap, Bitmap, IsVolume
<1>4. AffsPlanned(v, op, 0, empty)
  BY <1>3, PlanStarts DEF AffsPlanned
<1>5. \A i \in 1..n : \A p : AffsPlanned(v, op, i - 1, p) => AffsPlanned(v, op, i, AffsStep(v, op, p, FileOrder[i]))
  BY <1>2, AffsPlanKept
<1>6. AffsPlanned(v, op, n, plan)
  <2>. HIDE DEF n, empty
  <2>. QED BY <1>2, <1>4, <1>5, AffsFold!FoldKeeps
<1>. HIDE DEF plan
<1>7. UpTo(v, Files, n) = NonEmpty(v, Files)
  <2>1. \A f \in Files : f <= n
    BY <1>2, FilesAssumption
  <2>. QED BY <2>1 DEF UpTo, NonEmpty
<1>8. plan.placed
  BY <1>1
<1>9. Laid(v, op, Affs!FixedMap(v), NonEmpty(v, Files), plan.fixed, plan.used, plan.image)
  BY <1>6, <1>7, <1>8 DEF AffsPlanned
<1>10. Relaid(v, op, Affs!FixedMap(v), Files, [plan.image EXCEPT ![Bitmap] = plan.used])
  BY <1>3, <1>9, LaidIsRelaid
<1>. QED BY <1>1, <1>10

-----------------------------------------------------------------------------
(* The Smart File System.                                                  *)

SfsStep(v, op, p, f) == Sfs!PlaceObject(v, op, p, f)
SfsPlanned(v, op, i, p) ==
    /\ p = [claimed |-> p.claimed, used |-> p.used, image |-> p.image, placed |-> p.placed]
    /\ p.placed => Laid(v, op, v[Bitmap] \ Movable(v), UpTo(v, Files, i), p.claimed, p.used, p.image)
SfsFold == INSTANCE FoldInduction WITH Step <- SfsStep, Inv <- SfsPlanned

\* One step of the planner of SFS keeps what the plan promises.
LEMMA SfsPlanKept ==
  ASSUME NEW v, NEW op, IsVolume(v), NEW i \in Files, NEW p, SfsPlanned(v, op, i - 1, p)
  PROVE  SfsPlanned(v, op, i, SfsStep(v, op, p, i))
<1>. DEFINE need == Len(v[MapOf(i)])
            reserve == Reserve(op, need)
            start == FirstFit(p.claimed, need + reserve)
            placed == [claimed |-> p.claimed \union (start..(start + need + reserve - 1)),
                       used |-> p.used \union (start..(start + need - 1)),
                       image |-> WriteMap(WriteData(p.image, v, i, start), i, start, need),
                       placed |-> p.placed]
<1>1. SfsStep(v, op, p, i) =
        IF need = 0 THEN p
        ELSE IF start = 0 THEN [p EXCEPT !.placed = FALSE] ELSE placed
  BY DEF SfsStep, Sfs!PlaceObject, Sfs!ChooseRun, Sfs!WriteExtentRecords, Sfs!CopyFilePayload,
         Sfs!FirstFit, FirstFit, Sfs!Reserve, Reserve,
         Sfs!WriteMap, WriteMap, Sfs!WriteData, WriteData,
         Sfs!MapOf, MapOf, Sfs!Cell, Cell, Sfs!Cells, Cells, Sfs!Min, Min,
         Sfs!Blocks, Blocks, Sfs!Header, Header, Sfs!Bitmap, Bitmap, Sfs!Mirror, Mirror,
         Sfs!Run, Run
<1>2. p = [claimed |-> p.claimed, used |-> p.used, image |-> p.image, placed |-> p.placed]
  BY DEF SfsPlanned
<1>3. Files \subseteq Files
  OBVIOUS
<1>4. ASSUME p.placed
      PROVE  /\ need = 0
                => Laid(v, op, v[Bitmap] \ Movable(v), UpTo(v, Files, i), p.claimed, p.used, p.image)
             /\ need # 0 /\ start # 0 =>
                Laid(v, op, v[Bitmap] \ Movable(v), UpTo(v, Files, i),
                     p.claimed \union (start..(start + need + reserve - 1)),
                     p.used \union (start..(start + need - 1)),
                     WriteMap(WriteData(p.image, v, i, start), i, start, need))
  <2>1. Laid(v, op, v[Bitmap] \ Movable(v), UpTo(v, Files, i - 1), p.claimed, p.used, p.image)
    BY <1>4 DEF SfsPlanned
  <2>. QED BY <1>3, <2>1, PlanGrows
<1>5. CASE need = 0
  BY <1>1, <1>2, <1>4, <1>5 DEF SfsPlanned
<1>6. CASE need # 0 /\ start = 0
  <2>1. SfsStep(v, op, p, i) = [p EXCEPT !.placed = FALSE]
    BY <1>1, <1>6
  <2>. HIDE DEF need, start
  <2>. QED BY <1>2, <2>1 DEF SfsPlanned
<1>7. CASE need # 0 /\ start # 0
  <2>1. SfsStep(v, op, p, i) = placed
    BY <1>1, <1>7
  <2>2. /\ placed.placed = p.placed
        /\ placed = [claimed |-> placed.claimed, used |-> placed.used, image |-> placed.image, placed |-> placed.placed]
        /\ p.placed => Laid(v, op, v[Bitmap] \ Movable(v), UpTo(v, Files, i), placed.claimed, placed.used, placed.image)
    BY <1>4, <1>7
  <2>. HIDE DEF placed, need, start
  <2>. QED BY <2>1, <2>2 DEF SfsPlanned
<1>. QED BY <1>5, <1>6, <1>7

\* What the SFS planner places, it lays out in order.
LEMMA SfsBuilds ==
  ASSUME NEW v, NEW op, IsVolume(v), Sfs!BuildStage(v, op).placed
  PROVE  Relaid(v, op, (v[Bitmap] \ Movable(v)), Files, Sfs!BuildStage(v, op).image)
<1>. DEFINE empty == [claimed |-> (v[Bitmap] \ Movable(v)), used |-> (v[Bitmap] \ Movable(v)), image |-> v, placed |-> TRUE]
            n == Cardinality(Files)
            plan == SfsFold!Folded(v, op, empty, FileOrder)
<1>1. Sfs!BuildStage(v, op) = [placed |-> plan.placed, image |-> [plan.image EXCEPT ![Bitmap] = plan.used]]
  <2>. DEFINE empty0 == [claimed |-> (v[Sfs!Bitmap] \ Sfs!Movable(v)), used |-> (v[Sfs!Bitmap] \ Sfs!Movable(v)), image |-> v, placed |-> TRUE]
              plan0 == SfsFold!Folded(v, op, empty0, Sfs!FileOrder)
  <2>1. Sfs!BuildStage(v, op) = [placed |-> plan0.placed, image |-> Sfs!WriteBitmap(plan0.image, plan0.used)]
    BY DEF Sfs!BuildStage, Sfs!Accumulate, Sfs!Once, SfsFold!Folded, SfsStep,
           Sfs!FoldLeft, SfsFold!FoldLeft, Sfs!MapThenFoldSet, SfsFold!MapThenFoldSet,
           Sfs!Max, SfsFold!Max
  <2>2. Sfs!FileOrder = FileOrder
    BY DEF Sfs!FileOrder, FileOrder, Sfs!Run, Run, Sfs!Cardinality, Cardinality, Sfs!IsFiniteSet, IsFiniteSet
  <2>3. empty0 = empty
    BY DEF Sfs!Bitmap, Bitmap, Sfs!Movable, Movable, Sfs!CellsOf, CellsOf, Sfs!Range, Range, Sfs!MapOf, MapOf
  <2>4. plan0 = plan
    <3>. HIDE DEF empty, empty0
    <3>. QED BY <2>2, <2>3
  <2>5. Sfs!WriteBitmap(plan.image, plan.used) = [plan.image EXCEPT ![Bitmap] = plan.used]
    BY DEF Sfs!WriteBitmap, Sfs!Bitmap, Bitmap
  <2>. HIDE DEF plan, plan0
  <2>. QED BY <2>1, <2>4, <2>5
<1>2. n \in Nat /\ DOMAIN FileOrder = 1..n /\ \A i \in 1..n : FileOrder[i] = i /\ i \in Files
  BY FileNumbers, FilesAssumption
<1>3. (v[Bitmap] \ Movable(v)) \subseteq v[Bitmap] /\ Files \subseteq Files
  BY DEF IsVolume
<1>4. SfsPlanned(v, op, 0, empty)
  BY <1>3, PlanStarts DEF SfsPlanned
<1>5. \A i \in 1..n : \A p : SfsPlanned(v, op, i - 1, p) => SfsPlanned(v, op, i, SfsStep(v, op, p, FileOrder[i]))
  BY <1>2, SfsPlanKept
<1>6. SfsPlanned(v, op, n, plan)
  <2>. HIDE DEF n, empty
  <2>. QED BY <1>2, <1>4, <1>5, SfsFold!FoldKeeps
<1>. HIDE DEF plan
<1>7. UpTo(v, Files, n) = NonEmpty(v, Files)
  <2>1. \A f \in Files : f <= n
    BY <1>2, FilesAssumption
  <2>. QED BY <2>1 DEF UpTo, NonEmpty
<1>8. plan.placed
  BY <1>1
<1>9. Laid(v, op, (v[Bitmap] \ Movable(v)), NonEmpty(v, Files), plan.claimed, plan.used, plan.image)
  BY <1>6, <1>7, <1>8 DEF SfsPlanned
<1>10. Relaid(v, op, (v[Bitmap] \ Movable(v)), Files, [plan.image EXCEPT ![Bitmap] = plan.used])
  BY <1>3, <1>9, LaidIsRelaid
<1>. QED BY <1>1, <1>10

-----------------------------------------------------------------------------
(* What is asked of a volume.  These are operators of worker w and owner o *)
(* and not of the variables, so that a step is reasoned about by its       *)
(* arguments.                                                              *)

KeepsPins(v) == Pinned \subseteq v[Bitmap] \ Movable(v) /\ \A c \in Pinned : v[Cell(c)] = <<0, c>>

\* A volume that worker w can start from.
Intact(w, v) == /\ IsVolume(v) /\ KeepsPins(v)
                /\ w = "hfsplus" => Apart(v)
                /\ w = "xfs" => Sound(v)

LaidOutBy(w, v, op) ==
    \A f \in Files \ (IF w = "hfsplus" THEN Protected ELSE {}) :
       IsRun(v[MapOf(f)]) /\ ReserveAfter(v, f, op) \subseteq FreeCells(v)

\* An image that may be committed.
Good(w, v, op) == Intact(w, v) /\ Sound(v) /\ LaidOutBy(w, v, op)

\* What the owner last saw.
Current(w, o, v) == Intact(w, v) /\ Contents(v) = o

\* The header in the token of worker w: the SFS token is the whole volume.
HeaderIn(w, token) == IF w = "sfs" THEN token[Header] ELSE token

\* The token was taken of v or of what v was before an edit; the image holds
\* what the owner saw, unless v was edited since.
Captured(w, v, token) == HeaderIn(w, token) \in Nat /\ HeaderIn(w, token) <= v[Header]
Fresh(w, o, v, token, image) == v[Header] = HeaderIn(w, token) => Contents(image) = o

\* What a commit of image has to write, and what it has written to v.
Carries(image) == {Header, Bitmap} \union {MapOf(f) : f \in Files} \union {Cell(c) : c \in image[Bitmap]}
Agree(v, image, S) == \A b \in S : v[b] = image[b]

-----------------------------------------------------------------------------
(* Volumes that change.                                                    *)

\* The cells of a file are cells of the volume.
LEMMA CellsInside ==
  ASSUME NEW v, IsVolume(v)
  PROVE  /\ \A f \in Files : CellsOf(v, f) \subseteq Cells /\ CellsOf(v, f) \subseteq Movable(v)
         /\ v[Bitmap] \subseteq Cells /\ v = [b \in Blocks |-> v[b]] /\ v[Header] \in Nat
<1>1. ASSUME NEW f \in Files PROVE CellsOf(v, f) \subseteq Cells
  <2>. DEFINE m == v[MapOf(f)]
  <2>1. m \in Seq(Cells)
    BY DEF IsVolume
  <2>. HIDE DEF m
  <2>2. \A j \in DOMAIN m : m[j] \in Cells
    BY <2>1
  <2>. QED BY <2>2 DEF CellsOf, Range, m
<1>2. \A f \in Files : CellsOf(v, f) \subseteq Movable(v)
  BY DEF Movable
<1>. QED BY <1>1, <1>2 DEF IsVolume

\* A volume whose blocks come from two others.
LEMMA MixIsVolume ==
  ASSUME NEW v, NEW u, NEW w, IsVolume(v), IsVolume(u), w = [b \in Blocks |-> w[b]],
         \A b \in Blocks : w[b] = v[b] \/ w[b] = u[b]
  PROVE  IsVolume(w)
<1>1. w[Header] \in Nat /\ w[Bitmap] \in SUBSET Cells
  BY BlockSet DEF IsVolume
<1>2. \A f \in Files : w[MapOf(f)] \in Seq(Cells)
  BY BlockSet DEF IsVolume
<1>3. \A c \in Cells : w[Cell(c)] \in Payloads \/ w[Cell(c)][1] < 0
  BY BlockSet DEF IsVolume
<1>. QED BY <1>1, <1>2, <1>3 DEF IsVolume

\* A volume that agrees with a good image on all it carries is as good.
LEMMA AgreeIsGood ==
  ASSUME NEW w, NEW v, NEW image, NEW op, Good(w, image, op), IsVolume(v), Agree(v, image, Carries(image))
  PROVE  Good(w, v, op) /\ Contents(v) = Contents(image) /\ Maps(v) = Maps(image)
<1>1. /\ v[Bitmap] = image[Bitmap]
      /\ \A f \in Files : v[MapOf(f)] = image[MapOf(f)]
      /\ \A c \in image[Bitmap] : v[Cell(c)] = image[Cell(c)]
  BY DEF Agree, Carries
<1>2. \A f \in Files : CellsOf(v, f) = CellsOf(image, f)
  BY <1>1 DEF CellsOf
<1>3. Movable(v) = Movable(image) /\ FreeCells(v) = FreeCells(image)
  BY <1>1, <1>2 DEF Movable, FreeCells
<1>4. Sound(image) /\ KeepsPins(image) /\ LaidOutBy(w, image, op)
  BY DEF Good, Intact
<1>5. \A f \in Files : CellsOf(image, f) \subseteq image[Bitmap]
  BY <1>4 DEF Sound, Exclusive
<1>6. Sound(v)
  BY <1>1, <1>2, <1>3, <1>4 DEF Sound, Exclusive
<1>7. KeepsPins(v)
  BY <1>1, <1>3, <1>4 DEF KeepsPins
<1>8. LaidOutBy(w, v, op)
  BY <1>1, <1>3, <1>4 DEF LaidOutBy, ReserveAfter
<1>9. \A f \in Files : \A c \in CellsOf(v, f) : v[Cell(c)] = image[Cell(c)]
  BY <1>1, <1>2, <1>5
<1>10. w = "hfsplus" => Apart(v)
  <2>1. w = "hfsplus" => Apart(image)
    BY DEF Good, Intact
  <2>. QED BY <1>1, <1>2, <1>9, <2>1, ProtectedAssumption DEF Apart
<1>11. Contents(v) = Contents(image)
  <2>1. ASSUME NEW f \in Files
        PROVE  [j \in DOMAIN v[MapOf(f)] |-> v[Cell(v[MapOf(f)][j])]]
               = [j \in DOMAIN image[MapOf(f)] |-> image[Cell(image[MapOf(f)][j])]]
    <3>1. \A j \in DOMAIN v[MapOf(f)] : v[MapOf(f)][j] \in CellsOf(v, f)
      BY DEF CellsOf, Range
    <3>2. \A j \in DOMAIN v[MapOf(f)] : v[Cell(v[MapOf(f)][j])] = image[Cell(image[MapOf(f)][j])]
      BY <1>1, <1>9, <3>1
    <3>. QED BY <1>1, <3>2
  <2>. QED BY <2>1 DEF Contents
<1>12. Maps(v) = Maps(image)
  BY <1>1 DEF Maps
<1>. QED BY <1>6, <1>7, <1>8, <1>10, <1>11, <1>12 DEF Good, Intact

\* What the owner's edit of a cell of file f changes.
EditOf(v, w) == \E f \in Files : \E c \in CellsOf(v, f) :
                   w = [v EXCEPT ![Header] = @ + 1, ![Cell(c)] = <<f, 9>>]

\* An edit changes no map, and keeps a volume in whatever order it was.
LEMMA EditKeepsVolume ==
  ASSUME NEW v, NEW w, IsVolume(v), EditOf(v, w)
  PROVE  /\ IsVolume(w) /\ w[Header] = v[Header] + 1 /\ Maps(w) = Maps(v)
         /\ \A k : Intact(k, v) => Intact(k, w)
         /\ \A k, op : Good(k, v, op) => Good(k, w, op)
<1>0. PICK f \in Files : \E c \in CellsOf(v, f) : w = [v EXCEPT ![Header] = @ + 1, ![Cell(c)] = <<f, 9>>]
  BY DEF EditOf
<1>1. PICK c \in CellsOf(v, f) : w = [v EXCEPT ![Header] = @ + 1, ![Cell(c)] = <<f, 9>>]
  BY <1>0
<1>2. c \in Cells /\ c \in Movable(v) /\ v = [b \in Blocks |-> v[b]] /\ v[Header] \in Nat
  BY CellsInside
<1>3. /\ w = [b \in Blocks |-> w[b]]
      /\ w[Header] = v[Header] + 1
      /\ w[Cell(c)] = <<f, 9>>
      /\ \A b \in Blocks : b # Header /\ b # Cell(c) => w[b] = v[b]
  BY <1>1, <1>2, BlockSet, BlockNames
<1>4. /\ w[Bitmap] = v[Bitmap]
      /\ \A g \in Files : w[MapOf(g)] = v[MapOf(g)]
      /\ \A d \in Cells : d # c => w[Cell(d)] = v[Cell(d)]
  BY <1>3, BlockSet, BlockNames
<1>5. <<f, 9>> \in Payloads
  BY DEF Payloads
<1>6. IsVolume(w)
  <2>1. \A d \in Cells : w[Cell(d)] \in Payloads \/ w[Cell(d)][1] < 0
    BY <1>3, <1>4, <1>5 DEF IsVolume
  <2>2. w[Header] \in Nat
    BY <1>2, <1>3
  <2>. QED BY <1>3, <1>4, <2>1, <2>2 DEF IsVolume
<1>7. \A g \in Files : CellsOf(w, g) = CellsOf(v, g) /\ CellsOf(v, g) \subseteq Cells
  BY <1>4, CellsInside DEF CellsOf
<1>8. Movable(w) = Movable(v) /\ FreeCells(w) = FreeCells(v)
  BY <1>4, <1>7 DEF Movable, FreeCells
<1>9. KeepsPins(v) => KeepsPins(w)
  <2>1. KeepsPins(v) => \A d \in Pinned : d \in Cells /\ d # c
    BY <1>2 DEF KeepsPins, IsVolume
  <2>. QED BY <1>4, <1>8, <2>1 DEF KeepsPins
<1>10. Sound(v) => Sound(w)
  BY <1>4, <1>7, <1>8 DEF Sound, Exclusive
<1>11. \A k, op : LaidOutBy(k, v, op) => LaidOutBy(k, w, op)
  BY <1>4, <1>8 DEF LaidOutBy, ReserveAfter
<1>12. Apart(v) => Apart(w)
  <2>. SUFFICES ASSUME Apart(v), NEW p \in Protected
                PROVE  /\ IsInjective(w[MapOf(p)])
                       /\ \A g \in Files : \A d \in CellsOf(w, g) : w[Cell(d)][1] = p <=> g = p
    BY DEF Apart
  <2>1. IsInjective(w[MapOf(p)])
    BY <1>4, ProtectedAssumption DEF Apart
  <2>2. ASSUME NEW g \in Files, NEW d \in CellsOf(w, g) PROVE w[Cell(d)][1] = p <=> g = p
    <3>1. v[Cell(d)][1] = p <=> g = p
      BY <1>7 DEF Apart
    <3>2. v[Cell(c)][1] = p <=> f = p
      BY DEF Apart
    <3>3. d \in Cells
      BY <1>7
    <3>4. CASE d = c
      <4>1. w[Cell(d)][1] = f
        BY <1>3, <3>4
      <4>. QED BY <3>1, <3>2, <3>4, <4>1
    <3>5. CASE d # c
      BY <1>4, <3>1, <3>3, <3>5
    <3>. QED BY <3>4, <3>5
  <2>. QED BY <2>1, <2>2
<1>13. Maps(w) = Maps(v)
  BY <1>4 DEF Maps
<1>. QED BY <1>3, <1>6, <1>9, <1>10, <1>11, <1>12, <1>13 DEF Intact, Good

-----------------------------------------------------------------------------
(* What a planner builds may be committed.                                 *)

\* The Amiga and SFS workers lay out every file.
LEMMA RelaidIsGood ==
  ASSUME NEW w, w \in {"affs", "sfs"}, NEW v, NEW op, NEW image, Intact(w, v),
         Relaid(v, op, v[Bitmap] \ Movable(v), Files, image)
  PROVE  Good(w, image, op) /\ Contents(image) = Contents(v)
<1>1. /\ IsVolume(image)
      /\ (v[Bitmap] \ Movable(v)) \subseteq image[Bitmap]
      /\ \A c \in v[Bitmap] \ Movable(v) : image[Cell(c)] = v[Cell(c)]
      /\ \A f \in Files : /\ IsRun(image[MapOf(f)]) /\ ReserveAfter(image, f, op) \subseteq FreeCells(image)
                          /\ IsInjective(image[MapOf(f)])
                          /\ CellsOf(image, f) \subseteq image[Bitmap] \ (v[Bitmap] \ Movable(v))
                          /\ Contents(image)[f] = Contents(v)[f]
      /\ \A f, g \in Files : f # g => CellsOf(image, f) \intersect CellsOf(image, g) = {}
  BY DEF Relaid
<1>2. KeepsPins(v)
  BY DEF Intact
<1>3. Pinned \subseteq image[Bitmap] \ Movable(image)
  BY <1>1, <1>2 DEF KeepsPins, Movable
<1>4. KeepsPins(image)
  BY <1>1, <1>2, <1>3 DEF KeepsPins
<1>5. Sound(image)
  BY <1>1, <1>3 DEF Sound, Exclusive
<1>6. LaidOutBy(w, image, op)
  BY <1>1 DEF LaidOutBy
<1>7. Contents(image) = Contents(v)
  BY <1>1 DEF Contents
<1>. QED BY <1>1, <1>4, <1>5, <1>6, <1>7 DEF Good, Intact

\* HFS+ compares the forks and asks the map whether a fork may own its
\* blocks.
LEMMA RelaidApartIsGood ==
  ASSUME NEW v, NEW op, NEW image, Intact("hfsplus", v),
         Relaid(v, op, v[Bitmap] \ UNION {CellsOf(v, f) : f \in Files \ Protected}, Files \ Protected, image),
         Contents(image) = Contents(v),
         \A f \in Files : CellsOf(image, f) \subseteq image[Bitmap]
  PROVE  Good("hfsplus", image, op)
<1>. DEFINE fixed == v[Bitmap] \ UNION {CellsOf(v, f) : f \in Files \ Protected}
<1>1. /\ IsVolume(image)
      /\ fixed \subseteq image[Bitmap]
      /\ \A c \in fixed : image[Cell(c)] = v[Cell(c)]
      /\ \A f \in Files \ Protected :
            /\ IsRun(image[MapOf(f)]) /\ ReserveAfter(image, f, op) \subseteq FreeCells(image)
            /\ IsInjective(image[MapOf(f)])
            /\ CellsOf(image, f) \subseteq image[Bitmap] \ fixed
      /\ \A f, g \in Files \ Protected : f # g => CellsOf(image, f) \intersect CellsOf(image, g) = {}
      /\ \A f \in Files : f \in Protected => image[MapOf(f)] = v[MapOf(f)]
  BY DEF Relaid
<1>2. KeepsPins(v) /\ Apart(v) /\ IsVolume(v)
  BY DEF Intact
<1>3. \A f \in Files : f \in Protected => CellsOf(image, f) = CellsOf(v, f)
  BY <1>1 DEF CellsOf
<1>4. Pinned \subseteq fixed
  BY <1>2 DEF KeepsPins, Movable
<1>. HIDE DEF fixed
<1>5. Pinned \subseteq image[Bitmap] \ Movable(image)
  <2>1. \A c \in Pinned : \A f \in Files : c \notin CellsOf(image, f)
    BY <1>1, <1>2, <1>3, <1>4 DEF KeepsPins, Movable
  <2>. QED BY <1>1, <1>4, <2>1 DEF Movable
<1>6. KeepsPins(image)
  BY <1>1, <1>2, <1>4, <1>5 DEF KeepsPins
<1>7. Apart(image)
  <2>. SUFFICES ASSUME NEW p \in Protected
                PROVE  /\ IsInjective(image[MapOf(p)])
                       /\ \A g \in Files : \A c \in CellsOf(image, g) : image[Cell(c)][1] = p <=> g = p
    BY DEF Apart
  <2>1. IsInjective(image[MapOf(p)])
    BY <1>1, <1>2, ProtectedAssumption DEF Apart
  <2>2. ASSUME NEW g \in Files, NEW c \in CellsOf(image, g) PROVE image[Cell(c)][1] = p <=> g = p
    <3>1. PICK j \in DOMAIN image[MapOf(g)] : c = image[MapOf(g)][j]
      BY DEF CellsOf, Range
    <3>2. [i \in DOMAIN image[MapOf(g)] |-> image[Cell(image[MapOf(g)][i])]]
          = [i \in DOMAIN v[MapOf(g)] |-> v[Cell(v[MapOf(g)][i])]]
      BY DEF Contents
    <3>3. j \in DOMAIN v[MapOf(g)] /\ image[Cell(c)] = v[Cell(v[MapOf(g)][j])]
      BY <3>1, <3>2
    <3>4. v[MapOf(g)][j] \in CellsOf(v, g)
      BY <3>3 DEF CellsOf, Range
    <3>. QED BY <1>2, <3>3, <3>4 DEF Apart
  <2>. QED BY <2>1, <2>2
<1>8. \A f \in Files : IsInjective(image[MapOf(f)])
  BY <1>1, <1>7 DEF Apart
<1>9. ASSUME NEW f \in Files, NEW g \in Files, f # g PROVE CellsOf(image, f) \intersect CellsOf(image, g) = {}
  <2>1. CASE f \in Protected \/ g \in Protected
    BY <1>7, <1>9, <2>1 DEF Apart
  <2>. QED BY <1>1, <1>9, <2>1
<1>10. Sound(image)
  BY <1>5, <1>8, <1>9 DEF Sound, Exclusive
<1>11. LaidOutBy("hfsplus", image, op)
  BY <1>1 DEF LaidOutBy
<1>. QED BY <1>1, <1>6, <1>7, <1>10, <1>11 DEF Good, Intact

\* The names that a worker's module has for the same things.
LEMMA HfsplusNames ==
  /\ \A v : Hfsplus!Claimed(v) = v[Bitmap] \ UNION {CellsOf(v, f) : f \in Files \ Protected}
  /\ \A v, w : Hfsplus!ComparePayloads(v, w) <=> Contents(w) = Contents(v)
  /\ \A v, op : Hfsplus!VerifyLayout(v, op) <=>
        /\ \A f \in Files \ Protected : IsRun(v[MapOf(f)]) /\ ReserveAfter(v, f, op) \subseteq FreeCells(v)
        /\ \A f \in Files : CellsOf(v, f) \subseteq v[Bitmap]
  /\ \A v : Hfsplus!VolumeToken(v) = v[Header]
BY DEF Hfsplus!Claimed, Hfsplus!Rewritable, Hfsplus!Bitmap, Bitmap, Hfsplus!CellsOf, CellsOf,
       Hfsplus!MapOf, MapOf, Hfsplus!Range, Range, Hfsplus!ComparePayloads, Hfsplus!Contents, Contents,
       Hfsplus!Cell, Cell, Hfsplus!VerifyLayout, Hfsplus!IsRun, IsRun, Hfsplus!ReserveIsFree,
       Hfsplus!ReserveAfter, ReserveAfter, Hfsplus!Reserve, Reserve, Hfsplus!Last, Last,
       Hfsplus!FreeCells, FreeCells, Hfsplus!Cells, Cells, Hfsplus!VolumeToken, Hfsplus!Header, Header

\* The names of AffsTransaction are those of StagedImage.
LEMMA AffsNames ==
  /\ \A v : v[Bitmap] \subseteq Cells => Affs!FixedMap(v) = v[Bitmap] \ Movable(v)
  /\ \A v, op : Affs!VerifyLayout(v, op) <=> LaidOut(v, op)
  /\ \A v : Affs!VolumeToken(v) = v[Header]
BY DEF Affs!FixedMap, Affs!Bitmap, Bitmap, Affs!CellsOf, CellsOf, Affs!ReadBitmap, Affs!ScanFile,
       Affs!MapOf, MapOf, Affs!Range, Range, Movable,
       Affs!VerifyLayout, Affs!LaidOut, LaidOut, Affs!IsRun, IsRun,
       Affs!ReserveAfter, ReserveAfter, Affs!Reserve, Reserve, Affs!Last, Last,
       Affs!FreeCells, FreeCells, Affs!Cells, Cells, Affs!VolumeToken, Affs!Header, Header

\* The names of SfsTransaction are those of StagedImage.
LEMMA SfsNames ==
  /\ \A v : Sfs!ScanCatalogue(v) <=>
        /\ \A f, g \in Files : f # g => CellsOf(v, f) \intersect CellsOf(v, g) = {}
        /\ Movable(v) \intersect FreeCells(v) = {}
        /\ \A f \in Files : IsInjective(v[MapOf(f)])
  /\ \A v, op : Sfs!VerifyLayout(v, op) <=> Sfs!ScanCatalogue(v) /\ LaidOut(v, op)
  /\ \A v : Sfs!RootToken(v) = v[Header]
<1>1. ASSUME NEW v
      PROVE  Sfs!ScanCatalogue(v) <=>
               /\ \A f, g \in Files : f # g => CellsOf(v, f) \intersect CellsOf(v, g) = {}
               /\ Movable(v) \intersect FreeCells(v) = {}
               /\ \A f \in Files : IsInjective(v[MapOf(f)])
  <2>1. /\ \A f : Sfs!CellsOf(v, f) = CellsOf(v, f) /\ Sfs!MapOf(f) = MapOf(f)
        /\ Sfs!Movable(v) = Movable(v) /\ Sfs!FreeCells(v) = FreeCells(v)
        /\ \A m : Sfs!IsInjective(m) = IsInjective(m)
    BY DEF Sfs!CellsOf, CellsOf, Sfs!MapOf, MapOf, Sfs!Range, Range, Sfs!Movable, Movable,
           Sfs!FreeCells, FreeCells, Sfs!Cells, Cells, Sfs!Bitmap, Bitmap, Sfs!IsInjective, IsInjective
  <2>2. \A f : Sfs!ScanExtentContainer(v, f) \subseteq CellsOf(v, f)
    BY <2>1 DEF Sfs!ScanExtentContainer, CellsOf, Range
  <2>. QED BY <2>1, <2>2 DEF Sfs!ScanCatalogue, Sfs!ScanBitmap, Sfs!ScanObjectCatalogue, Sfs!EvaluateFile
<1>2. \A v, op : Sfs!LaidOut(v, op) <=> LaidOut(v, op)
  BY DEF Sfs!MapOf, MapOf, Sfs!LaidOut, LaidOut, Sfs!IsRun, IsRun,
         Sfs!ReserveAfter, ReserveAfter, Sfs!Reserve, Reserve, Sfs!Last, Last,
         Sfs!FreeCells, FreeCells, Sfs!Cells, Cells, Sfs!Bitmap, Bitmap
<1>3. \A v, op : Sfs!VerifyLayout(v, op) <=> Sfs!ScanCatalogue(v) /\ LaidOut(v, op)
  BY <1>2 DEF Sfs!VerifyLayout
<1>4. \A v : Sfs!RootToken(v) = v[Header]
  BY DEF Sfs!RootToken, Sfs!Header, Header
<1>. QED BY <1>1, <1>3, <1>4

\* An HFS+ image that was placed and verified may be committed, and if the
\* source is in order, every image that was placed is verified.
LEMMA HfsplusBuiltIsGood ==
  ASSUME NEW v, NEW op, Intact("hfsplus", v), NEW built, built = Hfsplus!BuildStage(v, op), built.placed,
         Hfsplus!ComparePayloads(v, built.image), Hfsplus!VerifyLayout(built.image, op)
  PROVE  Good("hfsplus", built.image, op) /\ Contents(built.image) = Contents(v)
<1>1. IsVolume(v)
  BY DEF Intact
<1>2. Relaid(v, op, v[Bitmap] \ UNION {CellsOf(v, f) : f \in Files \ Protected}, Files \ Protected, built.image)
  BY <1>1, HfsplusBuilds, HfsplusNames
<1>. QED BY <1>2, HfsplusNames, RelaidApartIsGood

\* HFS+ verifies what it could place, on a volume in which no cell is owned twice.
LEMMA HfsplusPlacedIsVerified ==
  ASSUME NEW v, NEW op, IsVolume(v), Exclusive(v), NEW built, built = Hfsplus!BuildStage(v, op), built.placed
  PROVE  Hfsplus!ComparePayloads(v, built.image) /\ Hfsplus!VerifyLayout(built.image, op)
<1>. DEFINE fixed == v[Bitmap] \ UNION {CellsOf(v, f) : f \in Files \ Protected}
            image == built.image
<1>0. Relaid(v, op, fixed, Files \ Protected, image)
  BY HfsplusBuilds, HfsplusNames
<1>1. /\ fixed \subseteq image[Bitmap]
      /\ \A c \in fixed : image[Cell(c)] = v[Cell(c)]
      /\ \A f \in Files \ Protected :
            /\ IsRun(image[MapOf(f)]) /\ ReserveAfter(image, f, op) \subseteq FreeCells(image)
            /\ CellsOf(image, f) \subseteq image[Bitmap]
            /\ Contents(image)[f] = Contents(v)[f]
      /\ \A f \in Files : f \in Protected => image[MapOf(f)] = v[MapOf(f)]
  <2>. HIDE DEF fixed, image
  <2>. QED BY <1>0 DEF Relaid
<1>2. ASSUME NEW f \in Files, f \in Protected PROVE CellsOf(image, f) \subseteq fixed
  <2>1. CellsOf(image, f) = CellsOf(v, f)
    BY <1>1, <1>2 DEF CellsOf
  <2>2. CellsOf(v, f) \subseteq v[Bitmap]
    BY DEF Exclusive
  <2>3. \A g \in Files \ Protected : CellsOf(v, f) \intersect CellsOf(v, g) = {}
    BY <1>2 DEF Exclusive
  <2>. QED BY <2>1, <2>2, <2>3
<1>. HIDE DEF fixed, image
<1>3. \A f \in Files : CellsOf(image, f) \subseteq image[Bitmap]
  BY <1>1, <1>2
<1>4. ASSUME NEW f \in Files, f \in Protected PROVE Contents(image)[f] = Contents(v)[f]
  <2>1. image[MapOf(f)] = v[MapOf(f)]
    BY <1>1, <1>4
  <2>2. \A j \in DOMAIN image[MapOf(f)] : image[MapOf(f)][j] \in CellsOf(image, f)
    BY DEF CellsOf, Range
  <2>3. \A j \in DOMAIN image[MapOf(f)] : image[Cell(image[MapOf(f)][j])] = v[Cell(image[MapOf(f)][j])]
    BY <1>1, <1>2, <1>4, <2>2
  <2>. QED BY <2>1, <2>3 DEF Contents
<1>5. \A f \in Files : Contents(image)[f] = Contents(v)[f]
  BY <1>1, <1>4
<1>6. Contents(image) = Contents(v)
  BY <1>5 DEF Contents
<1>. QED BY <1>1, <1>3, <1>6, HfsplusNames DEF image

\* An Amiga image that was placed may be committed, and is verified.
LEMMA AffsBuiltIsGood ==
  ASSUME NEW v, NEW op, IsVolume(v), NEW built, built = Affs!BuildStage(v, op), built.placed
  PROVE  /\ Affs!VerifyLayout(built.image, op)
         /\ Intact("affs", v) => Good("affs", built.image, op) /\ Contents(built.image) = Contents(v)
<1>1. Affs!FixedMap(v) = v[Bitmap] \ Movable(v)
  BY CellsInside, AffsNames
<1>2. Relaid(v, op, v[Bitmap] \ Movable(v), Files, built.image)
  BY <1>1, AffsBuilds
<1>3. LaidOut(built.image, op)
  BY <1>2 DEF Relaid, LaidOut
<1>4. Intact("affs", v) => Good("affs", built.image, op) /\ Contents(built.image) = Contents(v)
  BY <1>2, RelaidIsGood
<1>. QED BY <1>3, <1>4, AffsNames

\* The same of SFS.
LEMMA SfsBuiltIsGood ==
  ASSUME NEW v, NEW op, IsVolume(v), NEW built, built = Sfs!BuildStage(v, op), built.placed
  PROVE  /\ Sfs!VerifyLayout(built.image, op)
         /\ Intact("sfs", v) => Good("sfs", built.image, op) /\ Contents(built.image) = Contents(v)
<1>2. Relaid(v, op, v[Bitmap] \ Movable(v), Files, built.image)
  BY SfsBuilds
<1>3. LaidOut(built.image, op)
  BY <1>2 DEF Relaid, LaidOut
<1>4. Intact("sfs", v) => Good("sfs", built.image, op) /\ Contents(built.image) = Contents(v)
  BY <1>2, RelaidIsGood
<1>5. Sfs!ScanCatalogue(built.image)
  <2>1. \A f \in Files : CellsOf(built.image, f) \subseteq built.image[Bitmap]
    BY <1>2 DEF Relaid
  <2>2. Movable(built.image) \intersect FreeCells(built.image) = {}
    BY <2>1 DEF Movable, FreeCells
  <2>. QED BY <1>2, <2>2, SfsNames DEF Relaid
<1>. QED BY <1>3, <1>4, <1>5, SfsNames

-----------------------------------------------------------------------------
(* What a commit writes.                                                   *)

\* What is in one sequence after another.
LEMMA RangeOfConcat ==
  ASSUME NEW S, NEW a \in Seq(S), NEW b \in Seq(S)
  PROVE  a \o b \in Seq(S) /\ Range(a \o b) = Range(a) \union Range(b)
<1>1. a \o b \in Seq(S) /\ Len(a \o b) = Len(a) + Len(b)
  OBVIOUS
<1>2. \A i \in 1..(Len(a) + Len(b)) : (a \o b)[i] = IF i <= Len(a) THEN a[i] ELSE b[i - Len(a)]
  OBVIOUS
<1>3. DOMAIN a = 1..Len(a) /\ DOMAIN b = 1..Len(b) /\ DOMAIN (a \o b) = 1..(Len(a) + Len(b))
      /\ Len(a) \in Nat /\ Len(b) \in Nat
  BY <1>1
<1>. DEFINE c == a \o b
            m == Len(a)
            n == Len(b)
<1>. HIDE DEF c, m, n
<1>4. Range(c) \subseteq Range(a) \union Range(b)
  <2>. SUFFICES ASSUME NEW i \in 1..(m + n) PROVE c[i] \in Range(a) \union Range(b)
    BY <1>3 DEF Range, c, m, n
  <2>1. CASE i <= m
    <3>1. i \in 1..m /\ c[i] = a[i]
      BY <1>2, <1>3, <2>1 DEF c, m, n
    <3>. QED BY <1>3, <3>1 DEF Range, m
  <2>2. CASE ~ (i <= m)
    <3>1. i - m \in 1..n /\ c[i] = b[i - m]
      BY <1>2, <1>3, <2>2 DEF c, m, n
    <3>. QED BY <1>3, <3>1 DEF Range, n
  <2>. QED BY <2>1, <2>2
<1>5. Range(a) \subseteq Range(c)
  <2>1. \A i \in 1..m : i \in 1..(m + n) /\ c[i] = a[i]
    BY <1>2, <1>3 DEF c, m, n
  <2>. QED BY <1>3, <2>1 DEF Range, c, m, n
<1>6. Range(b) \subseteq Range(c)
  <2>1. \A i \in 1..n : m + i \in 1..(m + n) /\ c[m + i] = b[i]
    BY <1>2, <1>3 DEF c, m, n
  <2>. QED BY <1>3, <2>1 DEF Range, c, m, n
<1>. QED BY <1>1, <1>4, <1>5, <1>6 DEF c

\* A cell more at the end of a sequence.
LEMMA RangeOfAppend ==
  ASSUME NEW S, NEW s \in Seq(S), NEW x \in S
  PROVE  Append(s, x) \in Seq(S) /\ Range(Append(s, x)) = Range(s) \union {x}
<1>. DEFINE t == <<x>>
<1>1. Append(s, x) = s \o t /\ t \in Seq(S)
  OBVIOUS
<1>2. Range(t) = {x}
  BY DEF Range
<1>. HIDE DEF t
<1>3. s \o t \in Seq(S) /\ Range(s \o t) = Range(s) \union Range(t)
  BY <1>1, RangeOfConcat
<1>. QED BY <1>1, <1>2, <1>3

\* The cells of S in order are the cells of S.
Upto(S, n, upto) ==
    upto = [c \in 0..n |-> IF c = 0 THEN <<>>
                           ELSE IF c \in S THEN Append(upto[c - 1], c) ELSE upto[c - 1]]

\* The recursive function that Ascending chooses exists.
LEMMA UptoExists ==
  \A S : \A n \in Nat : \E upto : Upto(S, n, upto)
<1>. TAKE S
<1>. DEFINE T == {n \in Nat : \E upto : Upto(S, n, upto)}
<1>1. 0 \in T
  <2>1. Upto(S, 0, [c \in 0..0 |-> <<>>])
    <3>1. 0..0 = {0}
      OBVIOUS
    <3>. QED BY <3>1 DEF Upto
  <2>. QED BY <2>1
<1>2. ASSUME NEW n \in Nat, n \in T PROVE n + 1 \in T
  <2>1. PICK u : Upto(S, n, u)
    BY <1>2
  <2>. DEFINE w == [c \in 0..(n + 1) |-> IF c = n + 1 THEN (IF c \in S THEN Append(u[n], c) ELSE u[n]) ELSE u[c]]
  <2>2. /\ \A c \in 0..(n + 1) : c # n + 1 => c \in 0..n /\ c - 1 # n + 1 /\ (c # 0 => c - 1 \in 0..(n + 1) /\ c - 1 # n + 1)
        /\ n \in 0..(n + 1) /\ n # n + 1 /\ (n + 1) - 1 = n /\ n + 1 # 0
    OBVIOUS
  <2>3. \A c \in 0..n : u[c] = IF c = 0 THEN <<>> ELSE IF c \in S THEN Append(u[c - 1], c) ELSE u[c - 1]
    BY <2>1 DEF Upto
  <2>4. ASSUME NEW c \in 0..(n + 1)
        PROVE  w[c] = IF c = 0 THEN <<>> ELSE IF c \in S THEN Append(w[c - 1], c) ELSE w[c - 1]
    <3>1. CASE c = n + 1
      <4>1. w[n] = u[n] /\ c - 1 = n /\ c # 0
        BY <2>2, <3>1
      <4>. QED BY <3>1, <4>1
    <3>2. CASE c # n + 1
      <4>1. w[c] = u[c] /\ (c # 0 => w[c - 1] = u[c - 1])
        BY <2>2, <3>2
      <4>2. c \in 0..n
        BY <2>2, <3>2
      <4>. HIDE DEF w
      <4>. QED BY <2>3, <4>1, <4>2
    <3>. QED BY <3>1, <3>2
  <2>5. w = [c \in 0..(n + 1) |-> w[c]]
    OBVIOUS
  <2>. HIDE DEF w
  <2>6. Upto(S, n + 1, w)
    BY <2>4, <2>5 DEF Upto
  <2>. QED BY <2>6
<1>. HIDE DEF T
<1>3. Nat \subseteq T
  BY <1>1, <1>2, NatFacts!NatInduct
<1>. QED BY <1>3 DEF T

\* The ascending sequence of a set of cells holds the cells of the set.
LEMMA AscendingIs ==
  ASSUME NEW S, S \subseteq Cells
  PROVE  Ascending(S) \in Seq(Cells) /\ Range(Ascending(S)) = S
<1>. DEFINE u == CHOOSE upto : Upto(S, N, upto)
<1>1. Ascending(S) = u[N]
  BY DEF Ascending, Upto
<1>2. Upto(S, N, u)
  BY UptoExists, CellsAssumption
<1>. HIDE DEF u
<1>. DEFINE T == {n \in Nat : n <= N => u[n] \in Seq(Cells) /\ Range(u[n]) = S \intersect (1..n)}
<1>3. 0 \in T
  <2>1. 0 \in 0..N /\ 1..0 = {}
    BY CellsAssumption
  <2>2. u[0] = <<>>
    BY <1>2, <2>1 DEF Upto
  <2>3. Range(<<>>) = {} /\ <<>> \in Seq(Cells)
    BY DEF Range
  <2>. QED BY <2>1, <2>2, <2>3
<1>4. ASSUME NEW n \in Nat, n \in T PROVE n + 1 \in T
  <2>. SUFFICES ASSUME n + 1 <= N PROVE u[n + 1] \in Seq(Cells) /\ Range(u[n + 1]) = S \intersect (1..(n + 1))
    OBVIOUS
  <2>1. n <= N /\ n + 1 \in 0..N /\ n + 1 # 0 /\ (n + 1) - 1 = n /\ n + 1 \in Cells
    BY CellsAssumption DEF Cells
  <2>2. u[n] \in Seq(Cells) /\ Range(u[n]) = S \intersect (1..n)
    BY <1>4, <2>1
  <2>3. u[n + 1] = IF n + 1 \in S THEN Append(u[n], n + 1) ELSE u[n]
    BY <1>2, <2>1 DEF Upto
  <2>4. 1..(n + 1) = (1..n) \union {n + 1}
    OBVIOUS
  <2>5. CASE n + 1 \in S
    <3>1. u[n + 1] = Append(u[n], n + 1)
      BY <2>3, <2>5
    <3>2. Append(u[n], n + 1) \in Seq(Cells) /\ Range(Append(u[n], n + 1)) = Range(u[n]) \union {n + 1}
      BY <2>1, <2>2, RangeOfAppend
    <3>. QED BY <2>2, <2>4, <2>5, <3>1, <3>2
  <2>6. CASE n + 1 \notin S
    BY <2>2, <2>3, <2>4, <2>6
  <2>. QED BY <2>5, <2>6
<1>. HIDE DEF T
<1>5. N \in T
  BY <1>3, <1>4, NatFacts!NatInduct, CellsAssumption
<1>6. u[N] \in Seq(Cells) /\ Range(u[N]) = S \intersect (1..N)
  BY <1>5, CellsAssumption DEF T
<1>. QED BY <1>1, <1>6 DEF Cells

\* A commit that follows order writes all that image carries.
Covers(order, image) == order \in Seq(Blocks) /\ Carries(image) \subseteq Range(order)

MapOrder == [f \in DOMAIN FileOrder |-> MapOf(f)]

\* The header, the maps and the allocated cells are all that an image carries.
LEMMA OrderCovers ==
  ASSUME NEW image, NEW S, S \subseteq Cells, image[Bitmap] \subseteq S
  PROVE  Covers(<<Header>> \o MapOrder \o <<Bitmap>> \o CellOrder(S), image)
<1>1. <<Header>> \in Seq(Blocks) /\ Range(<<Header>>) = {Header}
  BY BlockSet DEF Range
<1>2. <<Bitmap>> \in Seq(Blocks) /\ Range(<<Bitmap>>) = {Bitmap}
  BY BlockSet DEF Range
<1>3. MapOrder \in Seq(Blocks) /\ Range(MapOrder) = {MapOf(f) : f \in Files}
  <2>1. DOMAIN FileOrder = Files /\ Cardinality(Files) \in Nat /\ Files = 1..Cardinality(Files)
    BY FileNumbers, FilesAssumption
  <2>2. \A f \in Files : MapOf(f) \in Blocks
    BY BlockSet
  <2>3. MapOrder = [f \in 1..Cardinality(Files) |-> MapOf(f)]
    BY <2>1 DEF MapOrder
  <2>4. MapOrder \in Seq(Blocks)
    BY <2>1, <2>2, <2>3
  <2>. QED BY <2>1, <2>3, <2>4 DEF Range
<1>4. CellOrder(S) \in Seq(Blocks) /\ Range(CellOrder(S)) = {Cell(c) : c \in S}
  <2>. DEFINE a == Ascending(S)
  <2>1. a \in Seq(Cells) /\ Range(a) = S
    BY AscendingIs
  <2>. HIDE DEF a
  <2>2. DOMAIN a = 1..Len(a) /\ Len(a) \in Nat /\ \A i \in DOMAIN a : a[i] \in Cells
    BY <2>1
  <2>3. CellOrder(S) = [i \in DOMAIN a |-> Cell(a[i])]
    BY DEF CellOrder, a
  <2>4. \A i \in DOMAIN a : Cell(a[i]) \in Blocks
    BY <2>2, BlockSet
  <2>5. CellOrder(S) \in Seq(Blocks)
    BY <2>2, <2>3, <2>4
  <2>. QED BY <2>1, <2>3, <2>5 DEF Range
<1>. DEFINE h == <<Header>>
            m == MapOrder
            b == <<Bitmap>>
            k == CellOrder(S)
<1>. HIDE DEF h, m, b, k
<1>. DEFINE hm == h \o m
            hmb == hm \o b
<1>5. hm \in Seq(Blocks) /\ Range(hm) = Range(h) \union Range(m)
  BY <1>1, <1>3, RangeOfConcat DEF h, m
<1>. HIDE DEF hm
<1>6. hmb \in Seq(Blocks) /\ Range(hmb) = Range(hm) \union Range(b)
  <2>1. b \in Seq(Blocks)
    BY <1>2 DEF b
  <2>. QED BY <1>5, <2>1, RangeOfConcat
<1>. HIDE DEF hmb
<1>7. hmb \o k \in Seq(Blocks) /\ Range(hmb \o k) = Range(hmb) \union Range(k)
  BY <1>4, <1>6, RangeOfConcat DEF k
<1>8. Carries(image) \subseteq Range(h) \union Range(m) \union Range(b) \union Range(k)
  BY <1>1, <1>2, <1>3, <1>4 DEF Carries, h, m, b, k
<1>9. Covers(hmb \o k, image)
  BY <1>5, <1>6, <1>7, <1>8 DEF Covers
<1>. QED BY <1>9 DEF hmb, hm, h, m, b, k

-----------------------------------------------------------------------------
(* The invariant of the workers that bind an image by its digest.          *)

DigestWorkers == {"hfsplus", "affs", "sfs"}

\* A step finds in the records what the last one put there.
DigestShape ==
    /\ proc.pc \in {"down", "build", "check", "staged", "commit", "verify", "cleanup", "retire"}
    /\ proc.pc # "down" => proc = [pc |-> proc.pc, op |-> proc.op, token |-> proc.token, todo |-> proc.todo]
    /\ journal.phase \in {"none", "staged", "committing", "committed"}
    /\ journal.phase # "none" => journal = [phase |-> journal.phase, op |-> journal.op, token |-> journal.token]
    /\ proc.pc \in {"build", "check"} => journal.phase = "none"
    /\ proc.pc = "staged" => journal.phase = "staged"
    /\ proc.pc \in {"commit", "verify"} => journal.phase = "committing"
    /\ proc.pc \in {"cleanup", "retire"} => journal.phase \in {"staged", "committed"}
    /\ stage.state \in {"none", "partial", "whole"}

\* The source holds what its owner saw, except while it is written; then the
\* image holds it.
DigestSource ==
    /\ IsVolume(disk) /\ IsVolume(cache)
    /\ journal.phase # "committing" => Current(worker, owner, cache)
    /\ journal.phase = "committed" => Good(worker, cache, journal.op)
    /\ journal.phase = "committing" => stage.state = "whole" /\ Contents(stage.image) = owner
    /\ proc.pc = "commit" => /\ proc.todo \in Seq(Blocks)
                             /\ Agree(cache, stage.image, Carries(stage.image) \ Range(proc.todo))
    /\ proc.pc = "verify" => Agree(cache, stage.image, Carries(stage.image))

\* An image is good, and as fresh as the token beside it.
DigestImage ==
    /\ stage.state = "whole" => IsVolume(stage.image)
    /\ proc.pc \in {"build", "check"} => Captured(worker, cache, proc.token)
    /\ proc.pc = "check" => /\ Good(worker, stage.image, proc.op)
                            /\ Fresh(worker, owner, cache, proc.token, stage.image)
    /\ proc.pc = "staged" => cache[Header] = HeaderIn(worker, journal.token)
    /\ journal.phase # "none" /\ stage.state = "whole" => Good(worker, stage.image, journal.op)
    /\ journal.phase = "staged" => Captured(worker, cache, journal.token)
    /\ journal.phase = "staged" /\ stage.state = "whole" =>
          Fresh(worker, owner, cache, journal.token, stage.image)

DigestInv == worker \in DigestWorkers /\ DigestShape /\ DigestSource /\ DigestImage

\* The kinds of steps, by what they do to the volume that Recover settles.
Quiet ==
    /\ UNCHANGED <<owner, edits>>
    /\ \/ journal.phase = "committing" /\ journal'.phase = "committing" /\ stage' = stage
       \/ journal.phase # "committing" /\ journal'.phase # "committing" /\ disk' = disk
Turns == /\ UNCHANGED <<owner, edits, stage, disk>>
         /\ journal.phase = "staged" /\ journal'.phase = "committing"
Ends == /\ UNCHANGED <<owner, edits, stage, disk>>
        /\ journal.phase = "committing" /\ journal'.phase = "committed"
        /\ disk = cache /\ Agree(cache, stage.image, Carries(stage.image))

\* What a step of worker w is, with what its layout, token, order and checks
\* are known to be.
SafeStep(w) ==
    \/ \E token : StartWith(token) /\ HeaderIn(w, token) = cache[Header]
    \/ At("build") /\ \E built, verified :
          /\ BuildWith(built, verified)
          /\ built.placed /\ verified => Good(w, built.image, proc.op) /\ Contents(built.image) = Contents(cache)
    \/ Bind(HeaderIn(w, proc.token) = cache[Header])
    \/ \E order : BeginWith(order) /\ Covers(order, stage.image)
    \/ CommitBlock \/ SyncCommit \/ StopSource
    \/ \E verified : CommittedIf(verified)
    \/ CleanupStage \/ CleanupJournal \/ Abandon \/ StopStaged
    \/ \E order :
          /\ ResumeWith(StageMatches /\ (journal.phase = "staged" => HeaderIn(w, journal.token) = cache[Header]), order)
          /\ Covers(order, stage.image)
    \/ \E accepted : RetireWith(accepted)

\* The block that a commit copies leaves its list.
LEMMA TodoShrinks ==
  ASSUME NEW S, NEW s \in Seq(S), s # <<>>
  PROVE  Head(s) \in S /\ Tail(s) \in Seq(S) /\ Range(s) \subseteq Range(Tail(s)) \union {Head(s)}
<1>1. Head(s) \in S /\ Tail(s) \in Seq(S)
  OBVIOUS
<1>2. ASSUME NEW j \in 1..Len(s) PROVE s[j] \in Range(Tail(s)) \union {Head(s)}
  <2>1. CASE j = 1
    BY <2>1
  <2>2. CASE j # 1
    <3>1. j - 1 \in 1..Len(Tail(s)) /\ Tail(s)[j - 1] = s[j]
      BY <2>2
    <3>2. DOMAIN Tail(s) = 1..Len(Tail(s))
      BY <1>1
    <3>. QED BY <3>1, <3>2 DEF Range
  <2>. QED BY <2>1, <2>2
<1>. QED BY <1>1, <1>2 DEF Range

\* Whatever the layout, the token, the order and the checks of a worker are,
\* as long as its steps are safe it keeps the invariant.
LEMMA SafeStepKeeps ==
  ASSUME DigestInv, CommitInv, SafeStep(worker)
  PROVE  DigestInv' /\ (Quiet \/ Turns \/ Ends)
<1>. USE DEF At, Goto, Exit, Idle, Aside, world, files
<1>a. /\ worker \in DigestWorkers
      /\ disk # cache => Writing
      /\ "pc" \in DOMAIN proc /\ "phase" \in DOMAIN journal
      /\ StepInv
  BY DEF DigestInv, CommitInv, Shape
<1>b. DigestShape /\ DigestSource /\ DigestImage
  BY DEF DigestInv
<1>1. ASSUME NEW token, StartWith(token), HeaderIn(worker, token) = cache[Header]
      PROVE DigestInv' /\ (Quiet \/ Turns \/ Ends)
  <2>1. /\ UNCHANGED <<worker, owner, disk, cache, edits, stage, journal>> /\ journal.phase = "none"
        /\ proc' = [pc |-> proc'.pc, op |-> proc'.op, token |-> proc'.token, todo |-> proc'.todo]
        /\ proc'.pc = "build" /\ proc'.token = token
    BY <1>1 DEF StartWith, NoJournal
  <2>2. Captured(worker, cache, token)
    BY <1>1, <1>b DEF Captured, DigestSource, IsVolume
  <2>3. DigestShape' /\ DigestSource' /\ DigestImage'
    BY <1>b, <2>1, <2>2 DEF DigestShape, DigestSource, DigestImage
  <2>. QED BY <1>a, <2>1, <2>3 DEF DigestInv, Quiet
<1>2. ASSUME At("build"), NEW built, NEW verified, BuildWith(built, verified),
             built.placed /\ verified => Good(worker, built.image, proc.op) /\ Contents(built.image) = Contents(cache)
      PROVE DigestInv' /\ (Quiet \/ Turns \/ Ends)
  <2>1. UNCHANGED <<worker, owner, disk, cache, edits, journal>> /\ journal.phase = "none"
    BY <1>2, <1>b DEF BuildWith, DigestShape
  <2>2. CASE built.placed /\ verified
    <3>1. /\ stage' = Whole(built.image)
          /\ proc' = [pc |-> "check", op |-> proc.op, token |-> proc.token, todo |-> proc.todo]
      BY <1>2, <1>b, <2>2 DEF BuildWith, DigestShape
    <3>2. Good(worker, built.image, proc.op) /\ IsVolume(built.image)
      BY <1>2, <2>2 DEF Good, Intact
    <3>3. Fresh(worker, owner, cache, proc.token, built.image)
      BY <1>2, <1>b, <2>1, <2>2 DEF Fresh, DigestSource, Current
    <3>4. DigestShape' /\ DigestSource' /\ DigestImage'
      BY <1>2, <1>b, <2>1, <3>1, <3>2, <3>3 DEF DigestShape, DigestSource, DigestImage, Whole
    <3>. QED BY <1>a, <2>1, <3>4 DEF DigestInv, Quiet
  <2>3. CASE ~ (built.placed /\ verified)
    <3>1. stage' = NoStage /\ proc' = Idle
      BY <1>2, <2>3 DEF BuildWith
    <3>2. DigestShape' /\ DigestSource' /\ DigestImage'
      BY <1>b, <2>1, <3>1 DEF DigestShape, DigestSource, DigestImage, NoStage
    <3>. QED BY <1>a, <2>1, <3>2 DEF DigestInv, Quiet
  <2>. QED BY <2>2, <2>3
<1>3. CASE Bind(HeaderIn(worker, proc.token) = cache[Header])
  <2>1. /\ UNCHANGED <<worker, owner, disk, cache, edits, stage>> /\ proc.pc = "check"
        /\ journal' = [phase |-> "staged", op |-> proc.op, token |-> proc.token]
        /\ HeaderIn(worker, proc.token) = cache[Header]
    BY <1>3 DEF Bind
  <2>2. /\ proc' = [pc |-> "staged", op |-> proc.op, token |-> proc.token, todo |-> proc.todo]
        /\ journal.phase = "none"
    BY <1>3, <1>b, <2>1 DEF Bind, DigestShape
  <2>3. DigestShape' /\ DigestSource' /\ DigestImage'
    BY <1>b, <2>1, <2>2 DEF DigestShape, DigestSource, DigestImage
  <2>. QED BY <1>a, <2>1, <2>2, <2>3 DEF DigestInv, Quiet
<1>4. ASSUME NEW order, BeginWith(order), Covers(order, stage.image)
      PROVE DigestInv' /\ (Quiet \/ Turns \/ Ends)
  <2>1. /\ UNCHANGED <<worker, owner, disk, cache, edits, stage>> /\ proc.pc = "staged"
        /\ stage.state = "whole" /\ journal.phase = "staged"
    BY <1>4, <1>a, <1>b DEF BeginWith, StepInv, DigestShape
  <2>2. /\ journal' = [phase |-> "committing", op |-> journal.op, token |-> journal.token]
        /\ proc' = [pc |-> "commit", op |-> proc.op, token |-> proc.token, todo |-> order]
    BY <1>4, <1>b, <2>1 DEF BeginWith, DigestShape
  <2>3. Contents(stage.image) = owner
    BY <1>b, <2>1 DEF DigestImage, Fresh
  <2>4. order \in Seq(Blocks) /\ Agree(cache, stage.image, Carries(stage.image) \ Range(order))
    BY <1>4 DEF Covers, Agree
  <2>5. DigestShape' /\ DigestSource' /\ DigestImage'
    BY <1>b, <2>1, <2>2, <2>3, <2>4 DEF DigestShape, DigestSource, DigestImage
  <2>. QED BY <1>a, <2>1, <2>2, <2>5 DEF DigestInv, Turns
<1>5. CASE CommitBlock
  <2>. DEFINE b0 == Head(proc.todo)
  <2>1. /\ UNCHANGED <<worker, owner, disk, edits, stage, journal>> /\ proc.pc = "commit"
        /\ proc.todo # <<>> /\ journal.phase = "committing" /\ stage.state = "whole"
        /\ cache' = [cache EXCEPT ![b0] = stage.image[b0]]
    BY <1>5, <1>b DEF CommitBlock, CopyNext, DigestShape, DigestSource
  <2>2. proc' = [pc |-> "commit", op |-> proc.op, token |-> proc.token, todo |-> Tail(proc.todo)]
    BY <1>5, <1>b, <2>1 DEF CommitBlock, CopyNext, DigestShape
  <2>3. proc.todo \in Seq(Blocks) /\ Agree(cache, stage.image, Carries(stage.image) \ Range(proc.todo))
    BY <1>b, <2>1 DEF DigestSource
  <2>4. b0 \in Blocks /\ Tail(proc.todo) \in Seq(Blocks) /\ Range(proc.todo) \subseteq Range(Tail(proc.todo)) \union {b0}
    BY <2>1, <2>3, TodoShrinks
  <2>5. IsVolume(stage.image) /\ IsVolume(cache)
    BY <1>b, <2>1 DEF DigestSource, DigestImage
  <2>. HIDE DEF b0
  <2>6. /\ cache' = [b \in Blocks |-> cache'[b]]
        /\ cache'[b0] = stage.image[b0]
        /\ \A b \in Blocks : b # b0 => cache'[b] = cache[b]
    BY <2>1, <2>4, <2>5 DEF IsVolume
  <2>7. IsVolume(cache')
    BY <2>5, <2>6, MixIsVolume
  <2>8. Carries(stage.image) \subseteq Blocks
    BY <2>5, BlockSet, CellsInside DEF Carries
  <2>9. Agree(cache', stage.image, Carries(stage.image) \ Range(Tail(proc.todo)))
    BY <2>3, <2>4, <2>6, <2>8 DEF Agree
  <2>10. DigestShape' /\ DigestSource' /\ DigestImage'
    BY <1>b, <2>1, <2>2, <2>4, <2>7, <2>9 DEF DigestShape, DigestSource, DigestImage
  <2>. QED BY <1>a, <2>1, <2>10 DEF DigestInv, Quiet
<1>6. CASE SyncCommit
  <2>1. /\ UNCHANGED <<worker, owner, cache, edits, stage, journal>> /\ proc.pc = "commit"
        /\ proc.todo = <<>> /\ journal.phase = "committing" /\ disk' = cache
    BY <1>6, <1>b DEF SyncCommit, Sync, DigestShape
  <2>2. proc' = [pc |-> "verify", op |-> proc.op, token |-> proc.token, todo |-> proc.todo]
    BY <1>6, <1>b, <2>1 DEF SyncCommit, DigestShape
  <2>3. Range(proc.todo) = {}
    BY <2>1 DEF Range
  <2>4. Agree(cache, stage.image, Carries(stage.image))
    BY <1>b, <2>1, <2>3 DEF DigestSource, Agree
  <2>5. DigestShape' /\ DigestSource' /\ DigestImage'
    BY <1>b, <2>1, <2>2, <2>4 DEF DigestShape, DigestSource, DigestImage
  <2>. QED BY <1>a, <2>1, <2>5 DEF DigestInv, Quiet
<1>7. CASE StopSource
  <2>1. /\ UNCHANGED <<worker, owner, cache, edits, stage, journal>> /\ proc.pc = "commit"
        /\ journal.phase = "committing" /\ disk' = cache /\ proc' = Idle
    BY <1>7, <1>b DEF StopSource, Sync, DigestShape
  <2>2. DigestShape' /\ DigestSource' /\ DigestImage'
    BY <1>b, <2>1 DEF DigestShape, DigestSource, DigestImage
  <2>. QED BY <1>a, <2>1, <2>2 DEF DigestInv, Quiet
<1>8. ASSUME NEW verified, CommittedIf(verified)
      PROVE DigestInv' /\ (Quiet \/ Turns \/ Ends)
  <2>1. /\ UNCHANGED <<worker, owner, disk, cache, edits, stage>> /\ proc.pc = "verify"
        /\ journal.phase = "committing" /\ disk = cache /\ stage.state = "whole"
    BY <1>8, <1>a, <1>b DEF CommittedIf, Record, DigestShape, DigestSource, StepInv
  <2>2. /\ journal' = [phase |-> "committed", op |-> journal.op, token |-> journal.token]
        /\ proc' = [pc |-> "cleanup", op |-> proc.op, token |-> proc.token, todo |-> proc.todo]
    BY <1>8, <1>b, <2>1 DEF CommittedIf, Record, DigestShape
  <2>3. Agree(cache, stage.image, Carries(stage.image))
    BY <1>b, <2>1 DEF DigestSource
  <2>4. Good(worker, cache, journal.op) /\ Contents(cache) = owner
    BY <1>b, <2>1, <2>3, AgreeIsGood DEF DigestSource, DigestImage
  <2>5. Current(worker, owner, cache)
    BY <2>4 DEF Current, Good
  <2>6. DigestShape' /\ DigestSource' /\ DigestImage'
    BY <1>b, <2>1, <2>2, <2>4, <2>5 DEF DigestShape, DigestSource, DigestImage
  <2>. QED BY <1>a, <2>1, <2>2, <2>3, <2>6 DEF DigestInv, Ends
<1>9. CASE CleanupStage
  <2>1. /\ UNCHANGED <<worker, owner, disk, cache, edits, journal>> /\ proc.pc = "cleanup"
        /\ journal.phase \in {"staged", "committed"} /\ stage' = NoStage
    BY <1>9, <1>b DEF CleanupStage, Unlink, DigestShape
  <2>2. proc' = [pc |-> "retire", op |-> proc.op, token |-> proc.token, todo |-> proc.todo]
    BY <1>9, <1>b, <2>1 DEF CleanupStage, Unlink, DigestShape
  <2>3. DigestShape' /\ DigestSource' /\ DigestImage'
    BY <1>b, <2>1, <2>2 DEF DigestShape, DigestSource, DigestImage, NoStage
  <2>. QED BY <1>a, <2>1, <2>3 DEF DigestInv, Quiet
<1>10. CASE CleanupJournal
  <2>1. /\ UNCHANGED <<worker, owner, disk, cache, edits, stage>> /\ proc.pc = "retire"
        /\ journal.phase \in {"staged", "committed"} /\ journal' = NoJournal /\ proc' = Idle
    BY <1>10, <1>b DEF CleanupJournal, Retire, DigestShape
  <2>2. DigestShape' /\ DigestSource' /\ DigestImage'
    BY <1>b, <2>1 DEF DigestShape, DigestSource, DigestImage, NoJournal
  <2>. QED BY <1>a, <2>1, <2>2 DEF DigestInv, Quiet, NoJournal
<1>11. CASE Abandon
  <2>1. /\ UNCHANGED <<worker, owner, disk, cache, edits, journal>> /\ proc.pc = "check"
        /\ journal.phase = "none" /\ stage' = NoStage /\ proc' = Idle
    BY <1>11, <1>b DEF Abandon, Discard, DigestShape
  <2>2. DigestShape' /\ DigestSource' /\ DigestImage'
    BY <1>b, <2>1 DEF DigestShape, DigestSource, DigestImage, NoStage
  <2>. QED BY <1>a, <2>1, <2>2 DEF DigestInv, Quiet
<1>12. CASE StopStaged
  <2>1. /\ UNCHANGED <<worker, owner, disk, cache, edits, stage, journal>> /\ proc.pc = "staged"
        /\ journal.phase = "staged"
    BY <1>12, <1>b DEF StopStaged, DigestShape
  <2>2. proc' = [pc |-> "cleanup", op |-> proc.op, token |-> proc.token, todo |-> proc.todo]
    BY <1>12, <1>b, <2>1 DEF StopStaged, DigestShape
  <2>3. DigestShape' /\ DigestSource' /\ DigestImage'
    BY <1>b, <2>1, <2>2 DEF DigestShape, DigestSource, DigestImage
  <2>. QED BY <1>a, <2>1, <2>3 DEF DigestInv, Quiet
<1>13. ASSUME NEW order, Covers(order, stage.image),
              ResumeWith(StageMatches /\ (journal.phase = "staged" => HeaderIn(worker, journal.token) = cache[Header]), order)
       PROVE DigestInv' /\ (Quiet \/ Turns \/ Ends)
  <2>1. /\ UNCHANGED <<worker, owner, disk, cache, edits, stage>>
        /\ stage.state = "whole" /\ journal.phase \in {"staged", "committing"}
        /\ journal.phase = "staged" => HeaderIn(worker, journal.token) = cache[Header]
        /\ proc' = [pc |-> "commit", op |-> journal.op, token |-> journal.token, todo |-> order]
    BY <1>13 DEF ResumeWith, Resume, Record, StageMatches
  <2>2. journal' = [phase |-> "committing", op |-> journal.op, token |-> journal.token]
    BY <1>13, <1>b, <2>1 DEF ResumeWith, Record, DigestShape
  <2>3. Contents(stage.image) = owner
    BY <1>b, <2>1 DEF DigestSource, DigestImage, Fresh
  <2>4. order \in Seq(Blocks) /\ Agree(cache, stage.image, Carries(stage.image) \ Range(order))
    BY <1>13 DEF Covers, Agree
  <2>5. DigestShape' /\ DigestSource' /\ DigestImage'
    BY <1>b, <2>1, <2>2, <2>3, <2>4 DEF DigestShape, DigestSource, DigestImage
  <2>6. Quiet \/ Turns
    BY <2>1, <2>2 DEF Quiet, Turns
  <2>. QED BY <1>a, <2>1, <2>5, <2>6 DEF DigestInv
<1>14. ASSUME NEW accepted, RetireWith(accepted)
       PROVE DigestInv' /\ (Quiet \/ Turns \/ Ends)
  <2>1. /\ UNCHANGED <<worker, owner, disk, cache, edits, stage, journal>> /\ journal.phase = "committed"
        /\ proc' = [pc |-> "cleanup", op |-> journal.op, token |-> journal.token, todo |-> <<>>]
    BY <1>14 DEF RetireWith, Resume
  <2>2. DigestShape' /\ DigestSource' /\ DigestImage'
    BY <1>b, <2>1 DEF DigestShape, DigestSource, DigestImage
  <2>. QED BY <1>a, <2>1, <2>2 DEF DigestInv, Quiet
<1>. QED BY <1>1, <1>2, <1>3, <1>4, <1>5, <1>6, <1>7, <1>8, <1>9, <1>10, <1>11, <1>12, <1>13, <1>14
         DEF SafeStep

-----------------------------------------------------------------------------
(* The steps of every worker are safe.                                     *)

\* A commit of HFS+ writes all that its image carries.
LEMMA HfsplusOrderCovers ==
  ASSUME NEW image, image[Bitmap] \subseteq Cells
  PROVE  Covers(Hfsplus!CommitOrder(image), image)
<1>1. Hfsplus!CommitOrder(image) = (<<Header>> \o MapOrder \o <<Bitmap>> \o CellOrder(image[Bitmap])) \o <<Header>>
  <2>1. Hfsplus!Header = Header /\ Hfsplus!Bitmap = Bitmap /\ \A c : Hfsplus!Cell(c) = Cell(c) /\ Hfsplus!MapOf(c) = MapOf(c)
    BY DEF Hfsplus!Header, Header, Hfsplus!Bitmap, Bitmap, Hfsplus!Cell, Cell, Hfsplus!MapOf, MapOf
  <2>2. Hfsplus!FileOrder = FileOrder
    BY DEF Hfsplus!FileOrder, FileOrder, Hfsplus!Run, Run, Hfsplus!Cardinality, Cardinality, Hfsplus!IsFiniteSet, IsFiniteSet
  <2>3. \A S : Hfsplus!CellOrder(S) = CellOrder(S)
    <3>1. \A S : Hfsplus!Ascending(S) = Ascending(S)
      BY DEF Hfsplus!Ascending, Ascending
    <3>. QED BY <2>1, <3>1 DEF Hfsplus!CellOrder, CellOrder
  <2>. QED BY <2>1, <2>2, <2>3 DEF Hfsplus!CommitOrder, MapOrder
<1>2. Covers(<<Header>> \o MapOrder \o <<Bitmap>> \o CellOrder(image[Bitmap]), image)
  BY OrderCovers
<1>. DEFINE o == <<Header>> \o MapOrder \o <<Bitmap>> \o CellOrder(image[Bitmap])
            h == <<Header>>
<1>3. h \in Seq(Blocks)
  BY BlockSet
<1>4. Hfsplus!CommitOrder(image) = o \o h
  BY <1>1
<1>. HIDE DEF o, h
<1>5. o \in Seq(Blocks) /\ Carries(image) \subseteq Range(o)
  BY <1>2 DEF Covers, o
<1>6. o \o h \in Seq(Blocks) /\ Range(o \o h) = Range(o) \union Range(h)
  BY <1>3, <1>5, RangeOfConcat
<1>. QED BY <1>4, <1>5, <1>6 DEF Covers

\* Every step of the HFS+ worker is one of the safe steps.
LEMMA HfsplusSafe ==
  ASSUME worker = "hfsplus", DigestInv, CommitInv, Hfsplus!Next
  PROVE  SafeStep(worker)
<1>. USE DEF Hfsplus!At, At, Hfsplus!Goto, Goto, Hfsplus!Exit, Exit, Hfsplus!Idle, Idle,
         Hfsplus!Aside, Aside, Hfsplus!world, world, Hfsplus!files, files, Hfsplus!NoJournal,
         NoJournal, Hfsplus!NoStage, NoStage, Hfsplus!Record, Record, Hfsplus!Sync, Sync,
         Hfsplus!Unlink, Unlink, Hfsplus!Discard, Discard, Hfsplus!Retire, Retire,
         Hfsplus!CopyNext, CopyNext, Hfsplus!Whole, Whole
<1>a. /\ \A token : HeaderIn(worker, token) = token
      /\ stage.state = "whole" => IsVolume(stage.image) /\ Covers(Hfsplus!CommitOrder(stage.image), stage.image)
      /\ proc.pc = "staged" => stage.state = "whole"
      /\ proc.pc = "build" => Intact(worker, cache) /\ IsVolume(cache)
  <2>1. stage.state = "whole" => IsVolume(stage.image)
    BY DEF DigestInv, DigestImage
  <2>2. stage.state = "whole" => Covers(Hfsplus!CommitOrder(stage.image), stage.image)
    BY <2>1, CellsInside, HfsplusOrderCovers
  <2>3. proc.pc = "staged" => stage.state = "whole"
    BY DEF CommitInv, StepInv
  <2>4. proc.pc = "build" => Intact(worker, cache) /\ IsVolume(cache)
    BY DEF DigestInv, DigestShape, DigestSource, Current, Intact
  <2>. QED BY <2>1, <2>2, <2>3, <2>4 DEF HeaderIn
<1>1. Hfsplus!CaptureTarget => \E token : StartWith(token) /\ HeaderIn(worker, token) = cache[Header]
  BY <1>a, HfsplusNames DEF Hfsplus!CaptureTarget, Hfsplus!StartWith, StartWith, Hfsplus!Operations, Operations
<1>2. Hfsplus!Build => At("build") /\ \E built, verified :
        /\ BuildWith(built, verified)
        /\ built.placed /\ verified => Good(worker, built.image, proc.op) /\ Contents(built.image) = Contents(cache)
  <2>. SUFFICES ASSUME Hfsplus!Build
                PROVE  \E built, verified :
        /\ BuildWith(built, verified)
        /\ built.placed /\ verified => Good(worker, built.image, proc.op) /\ Contents(built.image) = Contents(cache)
    BY DEF Hfsplus!Build
  <2>. DEFINE built == Hfsplus!BuildStage(cache, proc.op)
              verified == Hfsplus!ComparePayloads(cache, built.image) /\ Hfsplus!VerifyLayout(built.image, proc.op)
  <2>1. proc.pc = "build" /\ Hfsplus!BuildWith(built, verified)
    BY DEF Hfsplus!Build
  <2>2. built.placed /\ verified => Good(worker, built.image, proc.op) /\ Contents(built.image) = Contents(cache)
    BY <1>a, <2>1, HfsplusBuiltIsGood
  <2>. HIDE DEF built, verified
  <2>3. BuildWith(built, verified)
    BY <2>1 DEF Hfsplus!BuildWith, BuildWith
  <2>. QED BY <2>2, <2>3
<1>3. Hfsplus!CheckUnchangedTarget => Bind(HeaderIn(worker, proc.token) = cache[Header])
  BY <1>a, HfsplusNames DEF Hfsplus!CheckUnchangedTarget, Hfsplus!Bind, Bind
<1>4. Hfsplus!BeginCommit => \E order : BeginWith(order) /\ Covers(order, stage.image)
  <2>1. Hfsplus!BeginCommit => BeginWith(Hfsplus!CommitOrder(stage.image)) /\ proc.pc = "staged"
    BY DEF Hfsplus!BeginCommit, Hfsplus!BeginWith, BeginWith
  <2>. QED BY <1>a, <2>1
<1>5. Hfsplus!SafeCommitStage => (CommitBlock \/ SyncCommit)
  BY DEF Hfsplus!SafeCommitStage, Hfsplus!CommitBlock, CommitBlock, Hfsplus!SyncCommit, SyncCommit
<1>6. Hfsplus!Committed => \E verified : CommittedIf(verified)
  BY DEF Hfsplus!Committed, Hfsplus!CommittedIf, CommittedIf
<1>7. Hfsplus!TransactionCleanup => (CleanupStage \/ CleanupJournal)
  BY DEF Hfsplus!TransactionCleanup, Hfsplus!CleanupStage, CleanupStage, Hfsplus!CleanupJournal, CleanupJournal
<1>8. Hfsplus!RecoverCommit => \E order :
          /\ ResumeWith(StageMatches /\ (journal.phase = "staged" => HeaderIn(worker, journal.token) = cache[Header]), order)
          /\ Covers(order, stage.image)
  <2>1. Hfsplus!RecoverCommit =>
          /\ ResumeWith(StageMatches /\ (journal.phase = "staged" => HeaderIn(worker, journal.token) = cache[Header]),
                        Hfsplus!CommitOrder(stage.image))
          /\ stage.state = "whole"
    BY <1>a, HfsplusNames DEF Hfsplus!RecoverCommit, Hfsplus!RecoveryAccepts, Hfsplus!ResumeWith, ResumeWith,
       Hfsplus!Resume, Resume, Hfsplus!StageMatches, StageMatches
  <2>. QED BY <1>a, <2>1
<1>9. Hfsplus!RecoverCommitted => \E accepted : RetireWith(accepted)
  BY DEF Hfsplus!RecoverCommitted, Hfsplus!RetireWith, RetireWith, Hfsplus!Resume, Resume
<1>10. Hfsplus!Abandon => Abandon
  BY DEF Hfsplus!Abandon, Abandon
<1>11. Hfsplus!StopStaged => StopStaged
  BY DEF Hfsplus!StopStaged, StopStaged
<1>12. Hfsplus!StopCommit => StopSource
  BY DEF Hfsplus!StopCommit, Hfsplus!StopSource, StopSource
<1>. QED BY <1>1, <1>2, <1>3, <1>4, <1>5, <1>6, <1>7, <1>8, <1>9, <1>10, <1>11, <1>12
        DEF SafeStep, Hfsplus!Next, Hfsplus!Work, Hfsplus!Recover

\* A commit of AFFS writes all that its image carries.
LEMMA AffsOrderCovers ==
  ASSUME NEW image, image[Bitmap] \subseteq Cells
  PROVE  Covers(Affs!CommitOrder(image), image)
<1>1. Affs!CommitOrder(image) = <<Header>> \o MapOrder \o <<Bitmap>> \o CellOrder(image[Bitmap])
  <2>1. Affs!Header = Header /\ Affs!Bitmap = Bitmap /\ \A c : Affs!Cell(c) = Cell(c) /\ Affs!MapOf(c) = MapOf(c)
    BY DEF Affs!Header, Header, Affs!Bitmap, Bitmap, Affs!Cell, Cell, Affs!MapOf, MapOf
  <2>2. Affs!FileOrder = FileOrder
    BY DEF Affs!FileOrder, FileOrder, Affs!Run, Run, Affs!Cardinality, Cardinality, Affs!IsFiniteSet, IsFiniteSet
  <2>3. \A S : Affs!CellOrder(S) = CellOrder(S)
    <3>1. \A S : Affs!Ascending(S) = Ascending(S)
      BY DEF Affs!Ascending, Ascending
    <3>. QED BY <2>1, <3>1 DEF Affs!CellOrder, CellOrder
  <2>. QED BY <2>1, <2>2, <2>3 DEF Affs!CommitOrder, MapOrder
<1>. QED BY <1>1, OrderCovers

\* Every step of the AFFS worker is one of the safe steps.
LEMMA AffsSafe ==
  ASSUME worker = "affs", DigestInv, CommitInv, Affs!Next
  PROVE  SafeStep(worker)
<1>. USE DEF Affs!At, At, Affs!Goto, Goto, Affs!Exit, Exit, Affs!Idle, Idle,
         Affs!Aside, Aside, Affs!world, world, Affs!files, files, Affs!NoJournal,
         NoJournal, Affs!NoStage, NoStage, Affs!Record, Record, Affs!Sync, Sync,
         Affs!Unlink, Unlink, Affs!Discard, Discard, Affs!Retire, Retire,
         Affs!CopyNext, CopyNext, Affs!Whole, Whole
<1>a. /\ \A token : HeaderIn(worker, token) = token
      /\ stage.state = "whole" => IsVolume(stage.image) /\ Covers(Affs!CommitOrder(stage.image), stage.image)
      /\ proc.pc = "staged" => stage.state = "whole"
      /\ proc.pc = "build" => Intact(worker, cache) /\ IsVolume(cache)
  <2>1. stage.state = "whole" => IsVolume(stage.image)
    BY DEF DigestInv, DigestImage
  <2>2. stage.state = "whole" => Covers(Affs!CommitOrder(stage.image), stage.image)
    BY <2>1, CellsInside, AffsOrderCovers
  <2>3. proc.pc = "staged" => stage.state = "whole"
    BY DEF CommitInv, StepInv
  <2>4. proc.pc = "build" => Intact(worker, cache) /\ IsVolume(cache)
    BY DEF DigestInv, DigestShape, DigestSource, Current, Intact
  <2>. QED BY <2>1, <2>2, <2>3, <2>4 DEF HeaderIn
<1>1. Affs!CaptureTarget => \E token : StartWith(token) /\ HeaderIn(worker, token) = cache[Header]
  BY <1>a, AffsNames DEF Affs!CaptureTarget, Affs!StartWith, StartWith, Affs!Operations, Operations
<1>2. Affs!Build => At("build") /\ \E built, verified :
        /\ BuildWith(built, verified)
        /\ built.placed /\ verified => Good(worker, built.image, proc.op) /\ Contents(built.image) = Contents(cache)
  <2>. SUFFICES ASSUME Affs!Build
                PROVE  \E built, verified :
        /\ BuildWith(built, verified)
        /\ built.placed /\ verified => Good(worker, built.image, proc.op) /\ Contents(built.image) = Contents(cache)
    BY DEF Affs!Build
  <2>. DEFINE built == Affs!BuildStage(cache, proc.op)
              verified == Affs!VerifyLayout(built.image, proc.op)
  <2>1. proc.pc = "build" /\ Affs!BuildWith(built, verified)
    BY DEF Affs!Build
  <2>2. built.placed /\ verified => Good(worker, built.image, proc.op) /\ Contents(built.image) = Contents(cache)
    BY <1>a, <2>1, AffsBuiltIsGood
  <2>. HIDE DEF built, verified
  <2>3. BuildWith(built, verified)
    BY <2>1 DEF Affs!BuildWith, BuildWith
  <2>. QED BY <2>2, <2>3
<1>3. Affs!CheckUnchangedTarget => Bind(HeaderIn(worker, proc.token) = cache[Header])
  BY <1>a, AffsNames DEF Affs!CheckUnchangedTarget, Affs!Bind, Bind
<1>4. Affs!BeginCommit => \E order : BeginWith(order) /\ Covers(order, stage.image)
  <2>1. Affs!BeginCommit => BeginWith(Affs!CommitOrder(stage.image)) /\ proc.pc = "staged"
    BY DEF Affs!BeginCommit, Affs!BeginWith, BeginWith
  <2>. QED BY <1>a, <2>1
<1>5. Affs!SafeCommitStage => (CommitBlock \/ SyncCommit)
  BY DEF Affs!SafeCommitStage, Affs!CommitBlock, CommitBlock, Affs!SyncCommit, SyncCommit
<1>6. Affs!Committed => \E verified : CommittedIf(verified)
  BY DEF Affs!Committed, Affs!CommittedIf, CommittedIf
<1>7. Affs!TransactionCleanup => (CleanupStage \/ CleanupJournal)
  BY DEF Affs!TransactionCleanup, Affs!CleanupStage, CleanupStage, Affs!CleanupJournal, CleanupJournal
<1>8. Affs!RecoverCommit => \E order :
          /\ ResumeWith(StageMatches /\ (journal.phase = "staged" => HeaderIn(worker, journal.token) = cache[Header]), order)
          /\ Covers(order, stage.image)
  <2>1. Affs!RecoverCommit =>
          /\ ResumeWith(StageMatches /\ (journal.phase = "staged" => HeaderIn(worker, journal.token) = cache[Header]),
                        Affs!CommitOrder(stage.image))
          /\ stage.state = "whole"
    BY <1>a, AffsNames DEF Affs!RecoverCommit, Affs!RecoveryAccepts, Affs!ResumeWith, ResumeWith,
       Affs!Resume, Resume, Affs!StageMatches, StageMatches
  <2>. QED BY <1>a, <2>1
<1>9. Affs!RecoverCommitted => \E accepted : RetireWith(accepted)
  BY DEF Affs!RecoverCommitted, Affs!RetireWith, RetireWith, Affs!Resume, Resume
<1>10. Affs!Abandon => Abandon
  BY DEF Affs!Abandon, Abandon
<1>11. Affs!StopStaged => StopStaged
  BY DEF Affs!StopStaged, StopStaged
<1>12. Affs!StopCommit => StopSource
  BY DEF Affs!StopCommit, Affs!StopSource, StopSource
<1>. QED BY <1>1, <1>2, <1>3, <1>4, <1>5, <1>6, <1>7, <1>8, <1>9, <1>10, <1>11, <1>12
        DEF SafeStep, Affs!Next, Affs!Work, Affs!Recover

\* A commit of SFS writes all that its image carries.
LEMMA SfsOrderCovers ==
  ASSUME NEW image, image[Bitmap] \subseteq Cells
  PROVE  Covers(Sfs!CommitOrder(image), image)
<1>1. Sfs!CommitOrder(image) = <<Header>> \o MapOrder \o <<Bitmap>> \o CellOrder(Cells)
  <2>1. Sfs!Header = Header /\ Sfs!Bitmap = Bitmap /\ \A c : Sfs!Cell(c) = Cell(c) /\ Sfs!MapOf(c) = MapOf(c)
    BY DEF Sfs!Header, Header, Sfs!Bitmap, Bitmap, Sfs!Cell, Cell, Sfs!MapOf, MapOf
  <2>2. Sfs!FileOrder = FileOrder
    BY DEF Sfs!FileOrder, FileOrder, Sfs!Run, Run, Sfs!Cardinality, Cardinality, Sfs!IsFiniteSet, IsFiniteSet
  <2>3. \A S : Sfs!CellOrder(S) = CellOrder(S)
    <3>1. \A S : Sfs!Ascending(S) = Ascending(S)
      BY DEF Sfs!Ascending, Ascending
    <3>. QED BY <2>1, <3>1 DEF Sfs!CellOrder, CellOrder
  <2>4. Sfs!Cells = Cells
    BY DEF Sfs!Cells, Cells
  <2>. QED BY <2>1, <2>2, <2>3, <2>4 DEF Sfs!CommitOrder, MapOrder
<1>. QED BY <1>1, OrderCovers

\* Every step of the SFS worker is one of the safe steps.
LEMMA SfsSafe ==
  ASSUME worker = "sfs", DigestInv, CommitInv, Sfs!Next
  PROVE  SafeStep(worker)
<1>. USE DEF Sfs!At, At, Sfs!Goto, Goto, Sfs!Exit, Exit, Sfs!Idle, Idle,
         Sfs!Aside, Aside, Sfs!world, world, Sfs!files, files, Sfs!NoJournal,
         NoJournal, Sfs!NoStage, NoStage, Sfs!Record, Record, Sfs!Sync, Sync,
         Sfs!Unlink, Unlink, Sfs!Discard, Discard, Sfs!Retire, Retire,
         Sfs!CopyNext, CopyNext, Sfs!Whole, Whole
<1>a. /\ \A token : HeaderIn(worker, token) = token[Header]
      /\ stage.state = "whole" => IsVolume(stage.image) /\ Covers(Sfs!CommitOrder(stage.image), stage.image)
      /\ proc.pc = "staged" => stage.state = "whole"
      /\ proc.pc = "build" => Intact(worker, cache) /\ IsVolume(cache)
  <2>1. stage.state = "whole" => IsVolume(stage.image)
    BY DEF DigestInv, DigestImage
  <2>2. stage.state = "whole" => Covers(Sfs!CommitOrder(stage.image), stage.image)
    BY <2>1, CellsInside, SfsOrderCovers
  <2>3. proc.pc = "staged" => stage.state = "whole"
    BY DEF CommitInv, StepInv
  <2>4. proc.pc = "build" => Intact(worker, cache) /\ IsVolume(cache)
    BY DEF DigestInv, DigestShape, DigestSource, Current, Intact
  <2>. QED BY <2>1, <2>2, <2>3, <2>4 DEF HeaderIn
<1>1. Sfs!CaptureTarget => \E token : StartWith(token) /\ HeaderIn(worker, token) = cache[Header]
  BY <1>a, SfsNames DEF Sfs!CaptureTarget, Sfs!StartWith, StartWith, Sfs!Operations, Operations
<1>2. Sfs!Build => At("build") /\ \E built, verified :
        /\ BuildWith(built, verified)
        /\ built.placed /\ verified => Good(worker, built.image, proc.op) /\ Contents(built.image) = Contents(cache)
  <2>. SUFFICES ASSUME Sfs!Build
                PROVE  \E built, verified :
        /\ BuildWith(built, verified)
        /\ built.placed /\ verified => Good(worker, built.image, proc.op) /\ Contents(built.image) = Contents(cache)
    BY DEF Sfs!Build
  <2>. DEFINE built == Sfs!BuildStage(cache, proc.op)
              verified == Sfs!VerifyLayout(built.image, proc.op)
  <2>1. proc.pc = "build" /\ Sfs!BuildWith(built, verified)
    BY DEF Sfs!Build
  <2>2. built.placed /\ verified => Good(worker, built.image, proc.op) /\ Contents(built.image) = Contents(cache)
    BY <1>a, <2>1, SfsBuiltIsGood
  <2>. HIDE DEF built, verified
  <2>3. BuildWith(built, verified)
    BY <2>1 DEF Sfs!BuildWith, BuildWith
  <2>. QED BY <2>2, <2>3
<1>3. Sfs!CheckSourceUnchanged => Bind(HeaderIn(worker, proc.token) = cache[Header])
  BY <1>a, SfsNames DEF Sfs!CheckSourceUnchanged, Sfs!Bind, Bind
<1>4. Sfs!BeginCommit => \E order : BeginWith(order) /\ Covers(order, stage.image)
  <2>1. Sfs!BeginCommit => BeginWith(Sfs!CommitOrder(stage.image)) /\ proc.pc = "staged"
    BY DEF Sfs!BeginCommit, Sfs!BeginWith, BeginWith
  <2>. QED BY <1>a, <2>1
<1>5. Sfs!SafeCommitStage => (CommitBlock \/ SyncCommit)
  BY DEF Sfs!SafeCommitStage, Sfs!CommitBlock, CommitBlock, Sfs!SyncCommit, SyncCommit
<1>6. Sfs!Committed => \E verified : CommittedIf(verified)
  BY DEF Sfs!Committed, Sfs!CommittedIf, CommittedIf
<1>7. Sfs!TransactionCleanup => (CleanupStage \/ CleanupJournal)
  BY DEF Sfs!TransactionCleanup, Sfs!CleanupStage, CleanupStage, Sfs!CleanupJournal, CleanupJournal
<1>8. Sfs!RecoverCommit => \E order :
          /\ ResumeWith(StageMatches /\ (journal.phase = "staged" => HeaderIn(worker, journal.token) = cache[Header]), order)
          /\ Covers(order, stage.image)
  <2>1. Sfs!RecoverCommit =>
          /\ ResumeWith(StageMatches /\ (journal.phase = "staged" => HeaderIn(worker, journal.token) = cache[Header]),
                        Sfs!CommitOrder(stage.image))
          /\ stage.state = "whole"
    BY <1>a, SfsNames DEF Sfs!RecoverCommit, Sfs!RecoveryAccepts, Sfs!TargetAccepted, Sfs!ResumeWith, ResumeWith,
       Sfs!Resume, Resume, Sfs!StageMatches, StageMatches
  <2>. QED BY <1>a, <2>1
<1>9. Sfs!RecoverCommitted => \E accepted : RetireWith(accepted)
  BY DEF Sfs!RecoverCommitted, Sfs!RetireWith, RetireWith, Sfs!Resume, Resume
<1>10. Sfs!Abandon => Abandon
  BY DEF Sfs!Abandon, Abandon
<1>11. Sfs!StopStaged => StopStaged
  BY DEF Sfs!StopStaged, StopStaged
<1>12. Sfs!StopCommit => StopSource
  BY DEF Sfs!StopCommit, Sfs!StopSource, StopSource
<1>. QED BY <1>1, <1>2, <1>3, <1>4, <1>5, <1>6, <1>7, <1>8, <1>9, <1>10, <1>11, <1>12
        DEF SafeStep, Sfs!Next, Sfs!Work, Sfs!Recover

-----------------------------------------------------------------------------
(* The world.                                                              *)

\* The owner changed a file, and the driver synced it.
Edited == /\ edits' = edits + 1 /\ UNCHANGED <<worker, stage, journal>>
          /\ journal.phase # "committing"
          /\ disk = cache /\ disk' = cache' /\ EditOf(cache, cache')

\* Killed workers, power losses and the owner keep the invariant.
LEMMA DigestWorldKeeps ==
  ASSUME DigestInv, CommitInv, Killed \/ PowerLoss \/ Edit \/ RemoveOrphan
  PROVE  DigestInv' /\ (Quiet \/ Edited)
<1>a. /\ worker \in DigestWorkers
      /\ disk # cache => Writing
      /\ disk = [b \in Blocks |-> disk[b]]
  BY DEF DigestInv, CommitInv, Shape
<1>b. DigestShape /\ DigestSource /\ DigestImage
  BY DEF DigestInv
<1>c. journal.phase # "committing" => disk = cache
  BY <1>a, <1>b DEF Writing, DigestShape
<1>1. ASSUME Stopped
      PROVE  /\ UNCHANGED <<worker, owner, edits, journal>> /\ proc' = Idle
             /\ stage' = stage \/ (stage' = Partial /\ journal.phase = "none")
  BY <1>1, <1>b DEF Stopped, Exit, world, DigestShape
<1>2. CASE Killed
  <2>1. UNCHANGED <<disk, cache>> /\ Stopped
    BY <1>2 DEF Killed
  <2>2. DigestShape' /\ DigestSource' /\ DigestImage'
    BY <1>b, <1>1, <2>1 DEF DigestShape, DigestSource, DigestImage, Idle, Partial
  <2>3. Quiet
    BY <1>b, <1>1, <2>1 DEF Quiet
  <2>. QED BY <1>a, <1>1, <2>1, <2>2, <2>3 DEF DigestInv
<1>3. CASE PowerLoss
  <2>1. PICK kept \in SUBSET Differing(cache, disk) : disk' = Overlay(disk, cache, kept)
    BY <1>3 DEF PowerLoss
  <2>2. cache' = disk' /\ Stopped
    BY <1>3 DEF PowerLoss
  <2>3. /\ disk' = [b \in Blocks |-> disk'[b]]
        /\ \A b \in Blocks : disk'[b] = disk[b] \/ disk'[b] = cache[b]
    BY <2>1 DEF Overlay
  <2>4. journal.phase # "committing" => disk' = disk /\ cache' = cache
    <3>1. ASSUME disk = cache PROVE disk' = [b \in Blocks |-> disk[b]]
      BY <2>1, <3>1 DEF Overlay
    <3>. QED BY <1>a, <1>c, <2>2, <3>1
  <2>5. IsVolume(disk')
    BY <1>b, <2>3, MixIsVolume DEF DigestSource
  <2>6. DigestShape' /\ DigestImage'
    BY <1>b, <1>1, <2>2, <2>4 DEF DigestShape, DigestImage, Idle, Partial
  <2>7. DigestSource'
    BY <1>b, <1>1, <2>2, <2>4, <2>5 DEF DigestShape, DigestSource, Idle, Partial
  <2>8. Quiet
    BY <1>b, <1>1, <2>2, <2>4 DEF Quiet
  <2>. QED BY <1>a, <1>1, <2>2, <2>6, <2>7, <2>8 DEF DigestInv
<1>4. CASE Edit
  <2>1. /\ disk' = cache' /\ UNCHANGED <<worker, stage, journal, proc>>
        /\ edits' = edits + 1 /\ owner' = Contents(cache')
        /\ journal.phase # "committing" /\ proc.pc \notin {"staged", "commit", "verify"}
        /\ EditOf(cache, cache')
    BY <1>4 DEF Edit, EditOf
  <2>2. IsVolume(cache) /\ Intact(worker, cache)
    BY <1>b, <2>1 DEF DigestSource, Current
  <2>3. /\ IsVolume(cache') /\ cache'[Header] = cache[Header] + 1
        /\ Intact(worker, cache')
        /\ \A op : Good(worker, cache, op) => Good(worker, cache', op)
    BY <2>1, <2>2, EditKeepsVolume
  <2>4. cache[Header] \in Nat
    BY <2>2 DEF IsVolume
  <2>5. Current(worker', owner', cache')
    BY <2>1, <2>3 DEF Current
  <2>6. \A token : Captured(worker, cache, token) =>
           Captured(worker, cache', token) /\ \A image : Fresh(worker, owner', cache', token, image)
    BY <2>3, <2>4 DEF Captured, Fresh
  <2>7. DigestShape'
    BY <1>b, <2>1 DEF DigestShape
  <2>8. DigestSource'
    BY <1>b, <2>1, <2>3, <2>5 DEF DigestSource
  <2>9. DigestImage'
    BY <1>b, <2>1, <2>6 DEF DigestImage
  <2>10. Edited
    BY <1>c, <2>1 DEF Edited
  <2>. QED BY <1>a, <2>1, <2>7, <2>8, <2>9, <2>10 DEF DigestInv
<1>5. CASE RemoveOrphan
  <2>1. /\ UNCHANGED <<worker, owner, disk, cache, edits, journal, proc>> /\ proc.pc = "down"
        /\ journal.phase = "none" /\ stage' = NoStage
    BY <1>5 DEF RemoveOrphan, Aside, world, At, NoJournal
  <2>2. DigestShape' /\ DigestSource' /\ DigestImage'
    BY <1>b, <2>1 DEF DigestShape, DigestSource, DigestImage, NoStage
  <2>. QED BY <1>a, <2>1, <2>2 DEF DigestInv, Quiet
<1>. QED BY <1>2, <1>3, <1>4, <1>5

\* Every step of a digest worker or of its world.
LEMMA DigestNextKeeps ==
  ASSUME DigestInv, CommitInv, Move
  PROVE  DigestInv' /\ (Quiet \/ Turns \/ Ends \/ Edited)
<1>1. worker \in {"hfsplus", "affs", "sfs"}
  BY DEF DigestInv, DigestWorkers
<1>2. CASE worker = "hfsplus" /\ Hfsplus!Next
  BY <1>2, HfsplusSafe, SafeStepKeeps
<1>3. CASE worker = "affs" /\ Affs!Next
  BY <1>3, AffsSafe, SafeStepKeeps
<1>4. CASE worker = "sfs" /\ Sfs!Next
  BY <1>4, SfsSafe, SafeStepKeeps
<1>5. CASE Killed \/ PowerLoss \/ Edit \/ RemoveOrphan
  BY <1>5, DigestWorldKeeps
<1>. QED BY <1>1, <1>2, <1>3, <1>4, <1>5
        DEF Move, Command, Work, Recover, Stop, Hfsplus!Next, Affs!Next, Sfs!Next

\* Before the first command.
LEMMA DigestStarts ==
  ASSUME Start, worker \in DigestWorkers
  PROVE  DigestInv
<1>1. PICK s \in Starts : worker = s[1] /\ disk = s[2] /\ Init
  BY DEF Start
<1>2. /\ IsVolume(disk) /\ cache = disk /\ owner = Contents(cache)
      /\ stage = NoStage /\ journal = NoJournal /\ proc = Idle
  BY <1>1, VolumesAssumption DEF Init
<1>3. Intact(worker, cache)
  <2>1. KeepsPins(cache)
    BY <1>1, <1>2, PinnedAssumption DEF KeepsPins
  <2>2. worker = "hfsplus" => Apart(cache)
    BY <1>1, <1>2, ProtectedAssumption
  <2>. QED BY <1>2, <2>1, <2>2 DEF Intact, DigestWorkers
<1>. QED BY <1>2, <1>3 DEF DigestInv, DigestShape, DigestSource, DigestImage, Current, NoStage, NoJournal, Idle

\* No step changes the worker, and faults and edits are counted.
Counted == /\ worker' = worker
           /\ faults' = faults \/ (faults < MaxFaults /\ faults' = faults + 1)
           /\ edits' = edits \/ (edits < MaxEdits /\ edits' = edits + 1)

\* Every step counts as Counted says.
LEMMA NextCounts ==
  ASSUME [Next]_allvars
  PROVE  Counted
<1>. USE DEF world
<1>1. ASSUME DigestStep PROVE Counted
  BY <1>1 DEF DigestStep, Counted, StartWith, BuildWith, Bind, BeginWith, CommitBlock, CopyNext, SyncCommit, Sync,
     StopSource, CommittedIf, Record, CleanupStage, CleanupJournal, Unlink, Retire, Abandon, Discard,
     StopStaged, ResumeWith, RetireWith, Aside
<1>2. ASSUME Xfs!Next PROVE Counted
  BY <1>2 DEF Counted, Xfs!Next, Xfs!Work, Xfs!Recover, Xfs!Preflight, Xfs!CreateStage, Xfs!PlanLayout,
     Xfs!ArrangeStage, Xfs!CheckUnchangedTarget, Xfs!BeginCommit, Xfs!CommitStage, Xfs!CommitRanges,
     Xfs!CopyBlock, Xfs!CopyNext, Xfs!SyncRange, Xfs!Sync, Xfs!RecordOffset, Xfs!EnterVerifying,
     Xfs!EnterPhase, Xfs!Record, Xfs!VerifySource, Xfs!GiveUp, Xfs!TransactionCleanup, Xfs!CleanupFiles,
     Xfs!Unlink, Xfs!CleanupJournal, Xfs!Retire, Xfs!RecoverDiscard, Xfs!DiscardPending, Xfs!RecoverCommit,
     Xfs!StopStage, Xfs!Aside, Xfs!world
<1>3. ASSUME Killed \/ PowerLoss \/ Edit \/ RemoveOrphan PROVE Counted
  BY <1>3 DEF Counted, Killed, PowerLoss, Edit, RemoveOrphan, Stopped, Fault, Aside
<1>4. ASSUME UNCHANGED allvars PROVE Counted
  BY <1>4 DEF Counted, vars, allvars
<1>. QED BY <1>1, <1>2, <1>3, <1>4, HfsplusSteps, AffsSteps, SfsSteps
        DEF Next, Move, Command, Work, Recover, Stop, Hfsplus!Next, Affs!Next, Sfs!Next, Xfs!Next

\* The invariant of the three workers holds from the first command on.
LEMMA DigestInvHolds == Spec => [](worker \in DigestWorkers => DigestInv)
<1>. DEFINE I == worker \in DigestWorkers => DigestInv
<1>1. Start => I
  BY DigestStarts
<1>2. CommitInv /\ I /\ [Next]_allvars => I'
  <2>. SUFFICES ASSUME CommitInv, I, [Next]_allvars, worker' \in DigestWorkers PROVE DigestInv'
    OBVIOUS
  <2>1. worker' = worker
    BY NextCounts DEF Counted
  <2>2. DigestInv
    BY <2>1
  <2>3. CASE Next
    BY <2>2, <2>3, DigestNextKeeps DEF Next
  <2>4. CASE UNCHANGED allvars
    BY <2>2, <2>4 DEF vars, allvars, DigestInv, DigestShape, DigestSource, DigestImage
  <2>. QED BY <2>3, <2>4
<1>. QED BY <1>1, <1>2, CommitInvHolds, PTL DEF Spec

-----------------------------------------------------------------------------
(* What the invariant says.                                                *)

\* What Recover makes of the source.
DigestSettled ==
    /\ journal.phase = "committing" => Settled(disk) = stage.image /\ Settled(cache) = stage.image
    /\ journal.phase # "committing" => disk = cache /\ Settled(disk) = disk /\ Settled(cache) = disk
    /\ journal.phase = "committing" => Good(worker, stage.image, journal.op)
    /\ Contents(Settled(disk)) = owner /\ Contents(Settled(cache)) = owner

\* The source, or the bound image, holds what the owner saw.
LEMMA DigestSettles == DigestInv /\ CommitInv => DigestSettled
<1>. SUFFICES ASSUME DigestInv, CommitInv PROVE DigestSettled
  OBVIOUS
<1>1. journal.phase = "committing" => \A v : Settled(v) = stage.image
  BY DEF Settled
<1>2. journal.phase # "committing" => disk = cache /\ \A v : Settled(v) = v
  BY DEF DigestInv, DigestShape, Settled, CommitInv, Writing
<1>3. journal.phase = "committing" => Good(worker, stage.image, journal.op) /\ Contents(stage.image) = owner
  BY DEF DigestInv, DigestSource, DigestImage
<1>4. journal.phase # "committing" => Contents(cache) = owner
  BY DEF DigestInv, DigestSource, Current
<1>. QED BY <1>1, <1>2, <1>3, <1>4 DEF DigestSettled

\* The invariant implies what is asked of the three workers.
LEMMA DigestMeans ==
  ASSUME DigestInv, CommitInv
  PROVE  /\ IsVolume(disk) /\ IsVolume(cache)
         /\ stage.state \in {"none", "partial", "whole"}
         /\ stage.state = "whole" => IsVolume(stage.image)
         /\ ContentsKept /\ StageReady /\ PlacedIsVerified
<1>1. /\ IsVolume(disk) /\ IsVolume(cache)
      /\ stage.state \in {"none", "partial", "whole"}
      /\ stage.state = "whole" => IsVolume(stage.image)
  BY DEF DigestInv, DigestShape, DigestSource, DigestImage
<1>2. ContentsKept
  <2>1. journal.phase = "committing" => KeepsPins(stage.image)
    BY DigestSettles DEF DigestSettled, Good, Intact
  <2>2. journal.phase # "committing" => KeepsPins(cache)
    BY DEF DigestInv, DigestSource, Current, Intact
  <2>3. worker # "xfs"
    BY DEF DigestInv, DigestWorkers
  <2>. QED BY <2>1, <2>2, <2>3, DigestSettles DEF DigestSettled, ContentsKept, KeepsPins
<1>3. StageReady
  <2>1. journal.phase # "none" /\ stage.state = "whole" => Good(worker, stage.image, journal.op)
    BY DEF DigestInv, DigestImage
  <2>. QED BY <2>1 DEF StageReady, Arranged, Good, LaidOutBy
<1>4. PlacedIsVerified
  <2>1. proc.pc # "arrange" /\ worker \in {"hfsplus", "affs", "sfs"}
    BY DEF DigestInv, DigestShape, DigestWorkers
  <2>2. CASE ~ Sound(cache)
    BY <2>2 DEF PlacedIsVerified
  <2>3. CASE Sound(cache) /\ proc.pc = "build" /\ worker = "hfsplus"
    <3>1. Exclusive(cache)
      BY <2>3 DEF Sound
    <3>2. LET built == Hfsplus!BuildStage(cache, proc.op)
          IN built.placed => Hfsplus!ComparePayloads(cache, built.image) /\ Hfsplus!VerifyLayout(built.image, proc.op)
      BY <1>1, <3>1, HfsplusPlacedIsVerified
    <3>. QED BY <2>3, <3>2 DEF PlacedIsVerified, At
  <2>4. CASE Sound(cache) /\ proc.pc = "build" /\ worker = "affs"
    <3>1. LET built == Affs!BuildStage(cache, proc.op) IN built.placed => Affs!VerifyLayout(built.image, proc.op)
      BY <1>1, AffsBuiltIsGood
    <3>. QED BY <2>4, <3>1 DEF PlacedIsVerified, At
  <2>5. CASE Sound(cache) /\ proc.pc = "build" /\ worker = "sfs"
    <3>1. LET built == Sfs!BuildStage(cache, proc.op) IN built.placed => Sfs!VerifyLayout(built.image, proc.op)
      BY <1>1, SfsBuiltIsGood
    <3>. QED BY <2>5, <3>1 DEF PlacedIsVerified, At
  <2>6. CASE proc.pc # "build"
    BY <2>1, <2>6 DEF PlacedIsVerified, At
  <2>. QED BY <2>1, <2>2, <2>3, <2>4, <2>5, <2>6
<1>. QED BY <1>1, <1>2, <1>3, <1>4

\* A copy of the files, a step towards a new layout, one by the owner, or none.
Promised == \/ Volume0!Copy \/ Volume0!Relayout \/ Volume0!OwnerWrites
            \/ UNCHANGED <<Maps(Settled(disk)), Contents(Settled(disk)), Copied, edits>>

\* A volume with files of the same sizes, and with no cell twice, is a new layout.
LEMMA SameSizes ==
  ASSUME NEW v, NEW w, \A f \in Files : DOMAIN Contents(v)[f] = DOMAIN Contents(w)[f],
         IsVolume(v), IsVolume(w), Exclusive(w)
  PROVE  /\ \A f \in Files : IsInjective(Maps(w)[f]) /\ Len(Maps(w)[f]) = Len(Maps(v)[f])
         /\ \A f, g \in Files : f # g => Range(Maps(w)[f]) \intersect Range(Maps(w)[g]) = {}
<1>1. ASSUME NEW f \in Files PROVE Len(w[MapOf(f)]) = Len(v[MapOf(f)])
  <2>1. Contents(v)[f] = [j \in DOMAIN v[MapOf(f)] |-> v[Cell(v[MapOf(f)][j])]]
    BY DEF Contents
  <2>2. Contents(w)[f] = [j \in DOMAIN w[MapOf(f)] |-> w[Cell(w[MapOf(f)][j])]]
    BY DEF Contents
  <2>3. DOMAIN v[MapOf(f)] = DOMAIN w[MapOf(f)]
    BY <2>1, <2>2
  <2>4. v[MapOf(f)] \in Seq(Cells) /\ w[MapOf(f)] \in Seq(Cells)
    BY DEF IsVolume
  <2>. QED BY <2>3, <2>4
<1>2. \A f \in Files : IsInjective(w[MapOf(f)])
  BY DEF Exclusive
<1>3. \A f, g \in Files : f # g => Range(w[MapOf(f)]) \intersect Range(w[MapOf(g)]) = {}
  BY DEF Exclusive, CellsOf
<1>. QED BY <1>1, <1>2, <1>3 DEF Maps

\* Every step of the three workers maps to a step of AtomicRelayout or a stutter.
LEMMA DigestPromises ==
  ASSUME DigestInv, CommitInv, DigestInv', CommitInv', Quiet \/ Turns \/ Ends \/ Edited
  PROVE  Promised
<1>1. /\ journal.phase = "committing" => Settled(disk) = stage.image
      /\ journal.phase # "committing" => disk = cache /\ Settled(disk) = disk
      /\ journal.phase = "committing" => Good(worker, stage.image, journal.op)
      /\ Contents(Settled(disk)) = owner
  BY DigestSettles DEF DigestSettled
<1>2. /\ journal'.phase = "committing" => Settled(disk)' = stage'.image
      /\ journal'.phase # "committing" => disk' = cache' /\ Settled(disk)' = disk'
      /\ journal'.phase = "committing" => Good(worker', stage'.image, journal'.op)
      /\ Contents(Settled(disk)') = owner'
  <2>1. (DigestInv /\ CommitInv => DigestSettled)'
    BY DigestSettles, PTL
  <2>2. DigestSettled'
    BY <2>1
  <2>. QED BY <2>2 DEF DigestSettled
<1>. DEFINE now == Settled(disk)
<1>0. Copied = Contents(now) /\ Copied' = Contents(now')
  BY DEF Copied, DigestInv, DigestWorkers
<1>3. CASE Quiet
  <2>1. now' = now /\ edits' = edits
    BY <1>1, <1>2, <1>3 DEF Quiet
  <2>. QED BY <1>0, <2>1 DEF Promised
<1>4. CASE Turns
  <2>1. edits' = edits /\ now = disk /\ now' = stage'.image /\ Contents(now') = Contents(now)
    BY <1>1, <1>2, <1>4 DEF Turns
  <2>2. IsVolume(now) /\ IsVolume(now') /\ Exclusive(now')
    BY <1>2, <1>4, <2>1 DEF Turns, DigestInv, DigestSource, Good, Intact, Sound
  <2>. HIDE DEF now
  <2>3. /\ \A f \in Files : IsInjective(Maps(now')[f]) /\ Len(Maps(now')[f]) = Len(Maps(now)[f])
        /\ \A f, g \in Files : f # g => Range(Maps(now')[f]) \intersect Range(Maps(now')[g]) = {}
    BY <2>1, <2>2, SameSizes
  <2>. QED BY <1>0, <2>1, <2>3 DEF Promised, Volume0!Relayout, Volume0!IsInjective, IsInjective, Volume0!Range, Range, now
<1>5. CASE Ends
  <2>1. edits' = edits /\ now = stage.image /\ now' = cache
    BY <1>1, <1>2, <1>5 DEF Ends
  <2>2. Maps(cache) = Maps(stage.image) /\ Contents(cache) = Contents(stage.image)
    BY <1>1, <1>5, AgreeIsGood DEF Ends, DigestInv, DigestSource
  <2>. QED BY <1>0, <2>1, <2>2 DEF Promised
<1>6. CASE Edited
  <2>1. edits' = edits + 1 /\ now = cache /\ now' = cache' /\ EditOf(cache, cache')
    BY <1>1, <1>2, <1>6 DEF Edited
  <2>2. Maps(cache') = Maps(cache)
    BY <2>1, EditKeepsVolume DEF DigestInv, DigestSource
  <2>. QED BY <1>0, <2>1, <2>2 DEF Promised, Volume0!OwnerWrites
<1>. QED BY <1>3, <1>4, <1>5, <1>6

-----------------------------------------------------------------------------
(* The names of XfsTransaction.                                            *)

\* The names of blocks, runs and reserves are those of StagedImage.
LEMMA XfsBlocks ==
  /\ Xfs!Header = Header /\ Xfs!Bitmap = Bitmap /\ Xfs!Cells = Cells /\ Xfs!Blocks = Blocks
  /\ \A c : Xfs!Cell(c) = Cell(c) /\ Xfs!MapOf(c) = MapOf(c)
  /\ Xfs!FileOrder = FileOrder /\ Xfs!Junk = Junk
  /\ \A s, n : Xfs!Run(s, n) = Run(s, n)
  /\ \A S : Xfs!Cardinality(S) = Cardinality(S)
  /\ \A op, n : Xfs!Reserve(op, n) = Reserve(op, n)
  /\ \A m : Xfs!IsInjective(m) = IsInjective(m) /\ Xfs!Range(m) = Range(m) /\ Xfs!Last(m) = Last(m)
  /\ \A S : Xfs!Min(S) = Min(S) /\ Xfs!Max(S) = Max(S)
BY DEF Xfs!Header, Header, Xfs!Bitmap, Bitmap, Xfs!Cells, Cells, Xfs!Blocks, Blocks, Xfs!Cell, Cell,
       Xfs!MapOf, MapOf, Xfs!Mirror, Mirror, Xfs!FileOrder, FileOrder, Xfs!Run, Run, Xfs!Junk, Junk,
       Xfs!Cardinality, Cardinality, Xfs!IsFiniteSet, IsFiniteSet, Xfs!Reserve, Reserve,
       Xfs!IsInjective, IsInjective, Xfs!Range, Range, Xfs!Last, Last, Xfs!Min, Min, Xfs!Max, Max

\* So are those of volumes, and two inodes may not claim one cell.
LEMMA XfsVolumes ==
  /\ \A v : Xfs!FreeCells(v) = FreeCells(v) /\ Xfs!Movable(v) = Movable(v)
            /\ Xfs!Contents(v) = Contents(v) /\ Xfs!CopyUsed(v) = CopyUsed(v)
  /\ \A v, f : Xfs!CellsOf(v, f) = CellsOf(v, f)
  /\ \A v, f, op : Xfs!ReserveAfter(v, f, op) = ReserveAfter(v, f, op)
  /\ \A claimed, span : Xfs!FirstFit(claimed, span) = FirstFit(claimed, span)
  /\ \A v : Xfs!ScanCatalogue(v) <=>
        /\ \A f \in Files : IsInjective(v[MapOf(f)])
        /\ \A f, g \in Files : f # g => CellsOf(v, f) \intersect CellsOf(v, g) = {}
<1>1. \A v, f : Xfs!CellsOf(v, f) = CellsOf(v, f)
  BY XfsBlocks DEF Xfs!CellsOf, CellsOf
<1>2. \A v : Xfs!FreeCells(v) = FreeCells(v) /\ Xfs!Movable(v) = Movable(v)
  BY <1>1, XfsBlocks DEF Xfs!FreeCells, FreeCells, Xfs!Movable, Movable
<1>3. \A v : Xfs!Contents(v) = Contents(v)
  BY XfsBlocks DEF Xfs!Contents, Contents
<1>4. \A v : Xfs!CopyUsed(v) = CopyUsed(v)
  BY <1>2, XfsBlocks DEF Xfs!CopyUsed, CopyUsed
<1>5. \A v, f, op : Xfs!ReserveAfter(v, f, op) = ReserveAfter(v, f, op)
  BY XfsBlocks DEF Xfs!ReserveAfter, ReserveAfter
<1>6. \A claimed, span : Xfs!FirstFit(claimed, span) = FirstFit(claimed, span)
  BY XfsBlocks DEF Xfs!FirstFit, FirstFit
<1>7. \A v : Xfs!ScanCatalogue(v) <=>
        /\ \A f \in Files : IsInjective(v[MapOf(f)])
        /\ \A f, g \in Files : f # g => CellsOf(v, f) \intersect CellsOf(v, g) = {}
  BY <1>1, XfsBlocks DEF Xfs!ScanCatalogue, Xfs!Catalogued
<1>. QED BY <1>1, <1>2, <1>3, <1>4, <1>5, <1>6, <1>7

-----------------------------------------------------------------------------
(* The plan.                                                               *)

XfsBefore(v, op, f) == {g \in Files : Xfs!ObjectOrderCompare(v, op, g, f)}
XfsRank(v, op, f) == Cardinality(XfsBefore(v, op, f))

\* Every file has its place in the order of the planner.
LEMMA ObjectOrderHasAll ==
  ASSUME NEW v, NEW op, IsVolume(v), NEW f \in Files
  PROVE  \E i \in 1..Cardinality(Files) : Xfs!ObjectOrder(v, op)[i] = f
<1>. DEFINE n == Cardinality(Files)
            span(g) == Xfs!Span(v, g, op)
            before(g) == XfsBefore(v, op, g)
            rank(g) == XfsRank(v, op, g)
<1>1. IsFiniteSet(Files) /\ n \in Nat /\ \A g \in Files : g \in Nat
  BY FilesAssumption, FileNumbers
<1>2. \A g \in Files : span(g) \in Nat
  <2>1. \A g \in Files : Len(v[MapOf(g)]) \in Nat
    BY DEF IsVolume
  <2>2. \A g \in Files : Reserve(op, Len(v[MapOf(g)])) \in Nat
    BY <2>1, ReserveIsNat
  <2>. QED BY <2>1, <2>2, XfsBlocks DEF Xfs!Span, Xfs!BlockCount
<1>3. \A g, h : h \in before(g) <=> (h \in Files /\ (span(h) > span(g) \/ (span(h) = span(g) /\ h < g)))
  BY DEF Xfs!ObjectOrderCompare, XfsBefore
<1>. HIDE DEF span
<1>4. ASSUME NEW g \in Files
      PROVE  IsFiniteSet(before(g)) /\ rank(g) \in Nat /\ rank(g) < n /\ g \notin before(g)
  <2>1. before(g) \subseteq Files
    BY DEF XfsBefore
  <2>2. g \notin before(g)
    BY <1>1, <1>2, <1>3
  <2>. HIDE DEF before
  <2>3. IsFiniteSet(before(g)) /\ Cardinality(before(g)) <= n /\ (n = Cardinality(before(g)) => Files = before(g))
    BY <1>1, <2>1, FS_Subset
  <2>4. Cardinality(before(g)) \in Nat
    BY <2>3, FS_CardinalityType
  <2>5. Cardinality(before(g)) # n
    BY <2>2, <2>3
  <2>6. Cardinality(before(g)) < n
    BY <1>1, <2>3, <2>4, <2>5
  <2>. QED BY <2>2, <2>3, <2>4, <2>6 DEF before, XfsRank
<1>5. ASSUME NEW g \in Files, NEW h \in Files, h \in before(g) PROVE rank(h) < rank(g)
  <2>1. before(h) \subseteq before(g) /\ h \notin before(h)
    BY <1>1, <1>2, <1>3, <1>5
  <2>2. IsFiniteSet(before(g)) /\ rank(g) \in Nat /\ rank(h) \in Nat
    BY <1>4
  <2>. HIDE DEF before
  <2>3. Cardinality(before(h)) <= Cardinality(before(g)) /\ (Cardinality(before(g)) = Cardinality(before(h)) => before(g) = before(h))
    BY <2>1, <2>2, FS_Subset
  <2>4. Cardinality(before(g)) # Cardinality(before(h))
    BY <1>5, <2>1, <2>3
  <2>5. rank(g) = Cardinality(before(g)) /\ rank(h) = Cardinality(before(h))
    BY DEF XfsRank, before
  <2>. HIDE DEF rank
  <2>. QED BY <2>2, <2>3, <2>4, <2>5
<1>6. \A g, h \in Files : g # h => h \in before(g) \/ g \in before(h)
  <2>. TAKE g, h \in Files
  <2>1. span(g) \in Nat /\ span(h) \in Nat /\ g \in Nat /\ h \in Nat
    BY <1>1, <1>2
  <2>2. g # h => \/ span(h) > span(g) \/ (span(h) = span(g) /\ h < g)
                \/ span(g) > span(h) \/ (span(g) = span(h) /\ g < h)
    BY <2>1
  <2>. QED BY <1>3, <2>2
<1>. HIDE DEF before
<1>7. \A g, h \in Files : rank(g) = rank(h) => g = h
  <2>1. \A g, h \in Files : g # h => rank(g) < rank(h) \/ rank(h) < rank(g)
    BY <1>5, <1>6
  <2>2. \A g \in Files : rank(g) \in Nat
    BY <1>4
  <2>. HIDE DEF rank
  <2>. QED BY <2>1, <2>2
<1>8. rank(f) \in Nat /\ rank(f) < n
  BY <1>4
<1>9. Xfs!ObjectOrder(v, op) = [i \in 1..n |-> CHOOSE g \in Files : rank(g) = i - 1]
  <2>1. DOMAIN Xfs!FileOrder = 1..n
    BY XfsBlocks, FileNumbers
  <2>. QED BY <2>1 DEF Xfs!ObjectOrder, XfsRank, XfsBefore, Xfs!Cardinality, Cardinality, Xfs!IsFiniteSet, IsFiniteSet
<1>. HIDE DEF rank, n
<1>10. rank(f) + 1 \in 1..n /\ (rank(f) + 1) - 1 = rank(f)
  BY <1>1, <1>8
<1>11. Xfs!ObjectOrder(v, op)[rank(f) + 1] = CHOOSE g \in Files : rank(g) = rank(f)
  BY <1>9, <1>10
<1>12. (CHOOSE g \in Files : rank(g) = rank(f)) = f
  BY <1>7
<1>. QED BY <1>10, <1>11, <1>12 DEF n

\* The n cells from s on.
Spot(s, n) == s..(s + n - 1)
Fits(v, s, n) == s \in Cells /\ s + n - 1 <= N /\ Spot(s, n) \subseteq FreeCells(v) \union Movable(v)

XfsPlace(v, op, p, f) ==
    LET span == Xfs!Span(v, f, op)
        start == Xfs!FirstFit(Xfs!Cells \ p.remaining, span)
    IN IF Xfs!BlockCount(v, f) = 0 THEN p
       ELSE IF start = 0 THEN [p EXCEPT !.fits = FALSE]
       ELSE [p EXCEPT !.start[f] = start, !.remaining = @ \ (start..(start + span - 1))]
\* The files with cells among the first i.
Located(v, op, i) == {f \in Files : v[MapOf(f)] # <<>> /\ \E k \in 1..i : f = Xfs!ObjectOrder(v, op)[k]}
SpotOf(v, op, p, f) == Spot(p.start[f], Xfs!Span(v, f, op))
XfsPlaced(v, op, i, p) ==
    /\ p = [fits |-> p.fits, start |-> p.start, remaining |-> p.remaining]
    /\ p.start = [f \in Files |-> p.start[f]]
    /\ p.remaining \subseteq FreeCells(v) \union Movable(v)
    /\ p.fits => /\ \A f \in Located(v, op, i) : /\ Fits(v, p.start[f], Xfs!Span(v, f, op))
                                                 /\ SpotOf(v, op, p, f) \intersect p.remaining = {}
                 /\ \A f, g \in Located(v, op, i) :
                       f # g => SpotOf(v, op, p, f) \intersect SpotOf(v, op, p, g) = {}
PlaceFold == INSTANCE FoldInduction WITH Step <- XfsPlace, Inv <- XfsPlaced

\* The span of a file is its length and its reserve.
LEMMA SpanIs ==
  ASSUME NEW v, NEW op, IsVolume(v), NEW f \in Files
  PROVE  /\ Len(v[MapOf(f)]) \in Nat /\ Xfs!BlockCount(v, f) = Len(v[MapOf(f)])
         /\ Xfs!Span(v, f, op) = Len(v[MapOf(f)]) + Reserve(op, Len(v[MapOf(f)]))
         /\ Xfs!Span(v, f, op) \in Nat /\ Len(v[MapOf(f)]) <= Xfs!Span(v, f, op)
         /\ Len(v[MapOf(f)]) = 0 <=> v[MapOf(f)] = <<>>
<1>1. v[MapOf(f)] \in Seq(Cells)
  BY DEF IsVolume
<1>2. Xfs!BlockCount(v, f) = Len(v[MapOf(f)]) /\ Xfs!Span(v, f, op) = Len(v[MapOf(f)]) + Reserve(op, Len(v[MapOf(f)]))
  BY XfsBlocks DEF Xfs!BlockCount, Xfs!Span
<1>3. Len(v[MapOf(f)]) \in Nat /\ (Len(v[MapOf(f)]) = 0 <=> v[MapOf(f)] = <<>>)
  BY <1>1
<1>. DEFINE need == Len(v[MapOf(f)])
            reserve == Reserve(op, need)
<1>4. reserve \in Nat
  BY <1>3, ReserveIsNat
<1>. HIDE DEF need, reserve
<1>. QED BY <1>2, <1>3, <1>4 DEF need, reserve

\* One step of the planner keeps the places that fit.
LEMMA PlaceKeeps ==
  ASSUME NEW v, NEW op, IsVolume(v), NEW i \in 1..Cardinality(Files), NEW p, XfsPlaced(v, op, i - 1, p)
  PROVE  XfsPlaced(v, op, i, XfsPlace(v, op, p, Xfs!ObjectOrder(v, op)[i]))
<1>. DEFINE f == Xfs!ObjectOrder(v, op)[i]
            w == XfsPlace(v, op, p, f)
            span == Xfs!Span(v, f, op)
            start == FirstFit(Cells \ p.remaining, span)
<1>1. /\ p = [fits |-> p.fits, start |-> p.start, remaining |-> p.remaining]
      /\ p.start = [g \in Files |-> p.start[g]]
      /\ p.remaining \subseteq FreeCells(v) \union Movable(v)
      /\ p.fits => /\ \A g \in Located(v, op, i - 1) : /\ Fits(v, p.start[g], Xfs!Span(v, g, op))
                                                       /\ SpotOf(v, op, p, g) \intersect p.remaining = {}
                   /\ \A g, h \in Located(v, op, i - 1) :
                         g # h => SpotOf(v, op, p, g) \intersect SpotOf(v, op, p, h) = {}
  BY DEF XfsPlaced
<1>2. w = IF Xfs!BlockCount(v, f) = 0 THEN p
          ELSE IF start = 0 THEN [p EXCEPT !.fits = FALSE]
          ELSE [p EXCEPT !.start[f] = start, !.remaining = @ \ Spot(start, span)]
  BY XfsBlocks, XfsVolumes DEF XfsPlace, Spot
<1>3. /\ Located(v, op, i) \subseteq Files
      /\ \A g \in Located(v, op, i) : g # f => g \in Located(v, op, i - 1)
      /\ (f \in Files /\ v[MapOf(f)] # <<>>) \/ f \notin Located(v, op, i)
  <2>1. \A k \in 1..i : k \in 1..(i - 1) \/ k = i
    BY FileNumbers
  <2>. HIDE DEF w, span, start
  <2>. QED BY <2>1 DEF Located
<1>4. ASSUME f \in Files, start # 0 PROVE Fits(v, start, span) /\ Spot(start, span) \subseteq p.remaining
  <2>1. span \in Nat
    BY <1>4, SpanIs
  <2>2. start \in Cells /\ start + span - 1 <= N /\ (Cells \ p.remaining) \intersect (start..(start + span - 1)) = {}
    BY <1>4, <2>1, FirstFitFits
  <2>3. start..(start + span - 1) \subseteq Cells
    <3>. HIDE DEF start, span
    <3>. QED BY <2>1, <2>2, CellsAssumption DEF Cells
  <2>. HIDE DEF start, span
  <2>4. start..(start + span - 1) \subseteq p.remaining
    BY <2>2, <2>3
  <2>5. start..(start + span - 1) \subseteq FreeCells(v) \union Movable(v)
    BY <1>1, <2>4
  <2>. QED BY <2>2, <2>4, <2>5 DEF Fits, Spot
<1>5. f \in Files => (Xfs!BlockCount(v, f) = 0 <=> v[MapOf(f)] = <<>>)
  BY SpanIs
<1>6. CASE Xfs!BlockCount(v, f) = 0
  <2>1. w = p
    BY <1>2, <1>6
  <2>2. \A g \in Located(v, op, i) : g \in Located(v, op, i - 1)
    BY <1>3, <1>5, <1>6
  <2>. HIDE DEF w, span, start, f
  <2>. QED BY <1>1, <2>1, <2>2 DEF XfsPlaced, w, f
<1>7. CASE Xfs!BlockCount(v, f) # 0 /\ start = 0
  <2>1. w = [p EXCEPT !.fits = FALSE]
    BY <1>2, <1>7
  <2>2. w = [fits |-> FALSE, start |-> p.start, remaining |-> p.remaining]
    BY <1>1, <2>1
  <2>. HIDE DEF w, f
  <2>. QED BY <1>1, <2>2 DEF XfsPlaced, w, f
<1>8. CASE Xfs!BlockCount(v, f) # 0 /\ start # 0
  <2>1. w = [p EXCEPT !.start[f] = start, !.remaining = @ \ Spot(start, span)]
    BY <1>2, <1>8
  <2>2. /\ w = [fits |-> w.fits, start |-> w.start, remaining |-> w.remaining]
        /\ w.fits = p.fits /\ w.start = [p.start EXCEPT ![f] = start]
        /\ w.remaining = p.remaining \ Spot(start, span)
    <3>. HIDE DEF f, start, span, w
    <3>. QED BY <1>1, <2>1
  <2>3. /\ w.start = [g \in Files |-> w.start[g]]
        /\ \A g \in Files : w.start[g] = IF g = f THEN start ELSE p.start[g]
    <3>. HIDE DEF f, start, span, w
    <3>. QED BY <1>1, <2>2
  <2>. HIDE DEF w
  <2>4. w.remaining \subseteq FreeCells(v) \union Movable(v)
    BY <1>1, <2>2
  <2>5. \A g \in Files : g # f => SpotOf(v, op, w, g) = SpotOf(v, op, p, g)
    BY <2>3 DEF SpotOf
  <2>6. f \in Files => SpotOf(v, op, w, f) = Spot(start, span)
    BY <2>3 DEF SpotOf
  <2>7. ASSUME w.fits, NEW g \in Located(v, op, i)
        PROVE  /\ Fits(v, w.start[g], Xfs!Span(v, g, op))
               /\ SpotOf(v, op, w, g) \intersect w.remaining = {}
    <3>1. CASE g = f
      <4>. HIDE DEF start
      <4>. QED BY <1>3, <1>4, <1>8, <2>2, <2>3, <2>6, <2>7, <3>1
    <3>2. CASE g # f
      <4>. HIDE DEF start, span, f
      <4>. QED BY <1>1, <1>3, <2>2, <2>3, <2>5, <2>7, <3>2
    <3>. QED BY <3>1, <3>2
  <2>8. ASSUME w.fits, NEW g \in Located(v, op, i), g # f, f \in Files
        PROVE  SpotOf(v, op, w, g) \intersect SpotOf(v, op, w, f) = {}
    <3>1. SpotOf(v, op, p, g) \intersect p.remaining = {} /\ SpotOf(v, op, w, g) = SpotOf(v, op, p, g)
      BY <1>1, <1>3, <2>2, <2>5, <2>8
    <3>2. SpotOf(v, op, w, f) \subseteq p.remaining
      BY <1>4, <1>8, <2>6, <2>8
    <3>. QED BY <3>1, <3>2
  <2>9. ASSUME w.fits, NEW g \in Located(v, op, i), NEW h \in Located(v, op, i), g # h
        PROVE  SpotOf(v, op, w, g) \intersect SpotOf(v, op, w, h) = {}
    <3>. HIDE DEF start, span, f
    <3>1. CASE g # f /\ h # f
      BY <1>1, <1>3, <2>2, <2>5, <2>9, <3>1
    <3>2. CASE g = f
      BY <1>3, <2>8, <2>9, <3>2
    <3>3. CASE h = f
      BY <1>3, <2>8, <2>9, <3>3
    <3>. QED BY <3>1, <3>2, <3>3
  <2>. HIDE DEF start, span, f
  <2>10. XfsPlaced(v, op, i, w)
    BY <2>2, <2>3, <2>4, <2>7, <2>9 DEF XfsPlaced
  <2>. QED BY <2>10 DEF w, f
<1>. HIDE DEF w, span, f
<1>. QED BY <1>6, <1>7, <1>8 DEF w, f

\* Where the planner of XFS puts a file, free cells and cells of files are
\* enough for it, and no cell is promised twice.
LEMMA XfsPlanFits ==
  ASSUME NEW v, NEW op, IsVolume(v), Xfs!BuildPlan(v, op).fits
  PROVE  \A f \in Files : v[MapOf(f)] # <<>> =>
            /\ Fits(v, Xfs!BuildPlan(v, op).start[f], Xfs!Span(v, f, op))
            /\ \A g \in Files : g # f /\ v[MapOf(g)] # <<>> =>
                  Spot(Xfs!BuildPlan(v, op).start[f], Xfs!Span(v, f, op))
                  \intersect Spot(Xfs!BuildPlan(v, op).start[g], Xfs!Span(v, g, op)) = {}
<1>. DEFINE none == [fits |-> TRUE, start |-> [g \in Files |-> 0], remaining |-> FreeCells(v) \union Movable(v)]
            order == Xfs!ObjectOrder(v, op)
            n == Cardinality(Files)
            plan == PlaceFold!Folded(v, op, none, order)
<1>1. Xfs!BuildPlan(v, op) = plan
  <2>1. Xfs!BuildPlan(v, op) = Xfs!AssignTargets(v, op, order)
    BY DEF Xfs!BuildPlan
  <2>. HIDE DEF order
  <2>. DEFINE none0 == [fits |-> TRUE, start |-> [g \in Files |-> 0], remaining |-> Xfs!FreeCells(v) \union Xfs!Movable(v)]
  <2>2. none0 = none
    BY XfsVolumes
  <2>3. Xfs!AssignTargets(v, op, order) = PlaceFold!Folded(v, op, none0, order)
    BY DEF Xfs!AssignTargets, Xfs!Accumulate, Xfs!Once, PlaceFold!Folded, XfsPlace,
           Xfs!FoldLeft, PlaceFold!FoldLeft, Xfs!MapThenFoldSet, PlaceFold!MapThenFoldSet,
           Xfs!Max, PlaceFold!Max
  <2>. HIDE DEF none0, none
  <2>. QED BY <2>1, <2>2, <2>3
<1>2. n \in Nat /\ DOMAIN order = 1..n
  <2>1. DOMAIN Xfs!FileOrder = 1..n
    BY XfsBlocks, FileNumbers
  <2>. QED BY <2>1, FileNumbers DEF Xfs!ObjectOrder
<1>3. XfsPlaced(v, op, 0, none)
  BY DEF XfsPlaced, Located
<1>4. \A i \in 1..n : \A p : XfsPlaced(v, op, i - 1, p) => XfsPlaced(v, op, i, XfsPlace(v, op, p, order[i]))
  BY PlaceKeeps
<1>5. XfsPlaced(v, op, n, plan)
  <2>. HIDE DEF n, none, order
  <2>. QED BY <1>2, <1>3, <1>4, PlaceFold!FoldKeeps
<1>6. \A f \in Files : v[MapOf(f)] # <<>> => f \in Located(v, op, n)
  BY ObjectOrderHasAll DEF Located
<1>. HIDE DEF plan, n
<1>. QED BY <1>1, <1>5, <1>6 DEF XfsPlaced, SpotOf

-----------------------------------------------------------------------------
(* Where the cells of the files go.                                        *)

\* The plan database of v.
Plan(v, op) == Xfs!PopulatePlan(v, Xfs!BuildPlan(v, op))

\* The targets of a plan are free cells and cells of files, a run for each file.
LEMMA TargetsInside ==
  ASSUME NEW v, NEW op, IsVolume(v), Xfs!BuildPlan(v, op).fits, NEW db, db = Plan(v, op)
  PROVE  /\ Xfs!TargetRanges(db) \subseteq FreeCells(v) \union Movable(v)
         /\ \A f \in Files : /\ Xfs!FileTarget(db, f) \in Seq(Cells) /\ IsRun(Xfs!FileTarget(db, f))
                             /\ Range(Xfs!FileTarget(db, f)) \subseteq Xfs!TargetRanges(db)
                             /\ \A j \in DOMAIN v[MapOf(f)] : db.start[f] + j - 1 \in Range(Xfs!FileTarget(db, f))
<1>1. db.start = Xfs!BuildPlan(v, op).start /\ db.digest = Contents(v)
  BY XfsVolumes DEF Plan, Xfs!PopulatePlan
<1>2. \A f \in Files : Range(Xfs!FileTarget(db, f)) \subseteq Xfs!TargetRanges(db)
  BY XfsBlocks DEF Xfs!TargetRanges
<1>3. ASSUME NEW f \in Files
      PROVE  /\ Xfs!FileTarget(db, f) \in Seq(Cells) /\ IsRun(Xfs!FileTarget(db, f))
             /\ Range(Xfs!FileTarget(db, f)) \subseteq FreeCells(v) \union Movable(v)
             /\ \A j \in DOMAIN v[MapOf(f)] : db.start[f] + j - 1 \in Range(Xfs!FileTarget(db, f))
  <2>. DEFINE n == Len(v[MapOf(f)])
              s == db.start[f]
  <2>0. v[MapOf(f)] \in Seq(Cells) /\ n \in Nat /\ DOMAIN v[MapOf(f)] = 1..n
    BY DEF IsVolume
  <2>1. Len(db.digest[f]) = n
    <3>1. db.digest[f] = [j \in DOMAIN v[MapOf(f)] |-> v[Cell(v[MapOf(f)][j])]]
      BY <1>1 DEF Contents
    <3>2. DOMAIN v[MapOf(f)] = 1..n /\ n \in Nat
      BY <2>0
    <3>. HIDE DEF n
    <3>. QED BY <3>1, <3>2
  <2>2. Xfs!FileTarget(db, f) = Run(s, n)
    BY <2>1, XfsBlocks DEF Xfs!FileTarget
  <2>3. CASE v[MapOf(f)] = <<>>
    <3>1. Run(s, n) = <<>>
      BY <2>3 DEF Run
    <3>2. IsRun(<<>>) /\ <<>> \in Seq(Cells) /\ Range(<<>>) = {}
      BY DEF IsRun, Range
    <3>3. DOMAIN v[MapOf(f)] = {}
      BY <2>3
    <3>. HIDE DEF n, s
    <3>. QED BY <2>2, <3>1, <3>2, <3>3
  <2>4. CASE v[MapOf(f)] # <<>>
    <3>1. Fits(v, s, Xfs!Span(v, f, op)) /\ n <= Xfs!Span(v, f, op) /\ Xfs!Span(v, f, op) \in Nat
      BY <1>1, <2>4, XfsPlanFits, SpanIs
    <3>. DEFINE k == Xfs!Span(v, f, op)
    <3>. HIDE DEF n, s, k
    <3>2. s \in Nat /\ s \in Cells /\ s + k - 1 <= N /\ s..(s + k - 1) \subseteq FreeCells(v) \union Movable(v)
          /\ n <= k /\ k \in Nat /\ n \in Nat
      BY <2>0, <3>1 DEF Fits, Spot, Cells, k, n
    <3>3. s..(s + n - 1) \subseteq FreeCells(v) \union Movable(v)
      <4>1. s..(s + n - 1) \subseteq s..(s + k - 1)
        BY <3>2
      <4>. QED BY <3>2, <4>1
    <3>4. Run(s, n) = [j \in 1..n |-> s + j - 1] /\ Range(Run(s, n)) = s..(s + n - 1) /\ IsRun(Run(s, n))
      BY <3>2, RunIs, RunInOrder
    <3>5. \A j \in 1..n : s + j - 1 \in s..(s + n - 1) /\ s + j - 1 \in Cells
      BY <3>2, CellsAssumption DEF Cells
    <3>6. Run(s, n) \in Seq(Cells)
      <4>1. [j \in 1..n |-> s + j - 1] \in Seq(Cells)
        BY <3>2, <3>5
      <4>. QED BY <3>4, <4>1
    <3>7. \A j \in DOMAIN v[MapOf(f)] : s + j - 1 \in Range(Run(s, n))
      BY <2>0, <3>4, <3>5 DEF n
    <3>. QED BY <2>2, <3>3, <3>4, <3>6, <3>7 DEF s
  <2>. QED BY <2>3, <2>4
<1>4. Xfs!TargetRanges(db) \subseteq FreeCells(v) \union Movable(v)
  BY <1>3, XfsBlocks DEF Xfs!TargetRanges
<1>. QED BY <1>2, <1>3, <1>4

\* Every cell of a file moves to a target.
LEMMA MovesToTargets ==
  ASSUME NEW v, NEW op, IsVolume(v), Xfs!BuildPlan(v, op).fits, NEW db, db = Plan(v, op)
  PROVE  /\ Xfs!Moves(v, db) = [c \in Movable(v) |-> Xfs!Moves(v, db)[c]]
         /\ \A c \in Movable(v) : Xfs!Moves(v, db)[c] \in Xfs!TargetRanges(db)
<1>1. ASSUME NEW c \in Movable(v) PROVE Xfs!Moves(v, db)[c] \in Xfs!TargetRanges(db)
  <2>. DEFINE f == CHOOSE g \in Files : c \in Xfs!CellsOf(v, g)
              j == CHOOSE i \in DOMAIN v[Xfs!MapOf(f)] : v[Xfs!MapOf(f)][i] = c
  <2>1. c \in Xfs!Movable(v)
    BY XfsVolumes
  <2>2. Xfs!Moves(v, db)[c] = db.start[f] + j - 1
    BY <2>1 DEF Xfs!Moves
  <2>3. f \in Files /\ c \in CellsOf(v, f)
    <3>1. \E g \in Files : c \in Xfs!CellsOf(v, g)
      BY XfsVolumes DEF Movable
    <3>. QED BY <3>1, XfsVolumes
  <2>. HIDE DEF f
  <2>4. \E i \in DOMAIN v[MapOf(f)] : v[MapOf(f)][i] = c
    BY <2>3 DEF CellsOf, Range
  <2>5. j \in DOMAIN v[MapOf(f)]
    BY <2>4, XfsBlocks
  <2>. HIDE DEF j
  <2>. QED BY <2>2, <2>3, <2>5, TargetsInside
<1>2. Xfs!Moves(v, db) = [c \in Movable(v) |-> Xfs!Moves(v, db)[c]]
  <2>1. DOMAIN Xfs!Moves(v, db) = Xfs!Movable(v) /\ Xfs!Moves(v, db) = [c \in Xfs!Movable(v) |-> Xfs!Moves(v, db)[c]]
    BY DEF Xfs!Moves
  <2>. QED BY <2>1, XfsVolumes
<1>. QED BY <1>1, <1>2

-----------------------------------------------------------------------------
(* No two cells go to one target.                                          *)

\* The cells that the plan keeps free behind file f.
Held(v, db, op, f) ==
    (db.start[f] + Len(v[MapOf(f)]))..(db.start[f] + Len(v[MapOf(f)]) + Reserve(op, Len(v[MapOf(f)])) - 1)

\* A run and the reserve behind it share the span of the file.
LEMMA SpanParts ==
  \A s, n, r \in Nat :
     /\ s..(s + n - 1) \subseteq s..(s + (n + r) - 1)
     /\ (s + n)..(s + n + r - 1) \subseteq s..(s + (n + r) - 1)
     /\ s..(s + n - 1) \intersect ((s + n)..(s + n + r - 1)) = {}
OBVIOUS

\* Where the plan puts a file: at the start of its place, with its reserve behind it.
LEMMA TargetIs ==
  ASSUME NEW v, NEW op, IsVolume(v), Xfs!BuildPlan(v, op).fits, NEW db, db = Plan(v, op), NEW f \in Files
  PROVE  /\ Xfs!FileTarget(db, f) = Run(db.start[f], Len(v[MapOf(f)]))
         /\ Len(db.digest[f]) = Len(v[MapOf(f)])
         /\ Held(v, db, op, f) \subseteq Xfs!ReserveRanges(db, op)
         /\ v[MapOf(f)] = <<>> => Range(Xfs!FileTarget(db, f)) = {}
         /\ v[MapOf(f)] # <<>> =>
               /\ db.start[f] \in Nat /\ Len(v[MapOf(f)]) \in Nat \ {0}
               /\ Range(Xfs!FileTarget(db, f)) = Spot(db.start[f], Len(v[MapOf(f)]))
               /\ Range(Xfs!FileTarget(db, f)) \subseteq Spot(db.start[f], Xfs!Span(v, f, op))
               /\ Held(v, db, op, f) \subseteq Spot(db.start[f], Xfs!Span(v, f, op))
               /\ Held(v, db, op, f) \intersect Range(Xfs!FileTarget(db, f)) = {}
               /\ Spot(db.start[f], Xfs!Span(v, f, op)) \subseteq FreeCells(v) \union Movable(v)
<1>. DEFINE n == Len(v[MapOf(f)])
            s == db.start[f]
            r == Reserve(op, n)
            span == Xfs!Span(v, f, op)
<1>1. db.start = Xfs!BuildPlan(v, op).start /\ db.digest = Contents(v)
  BY XfsVolumes DEF Plan, Xfs!PopulatePlan
<1>2. n \in Nat /\ (n = 0 <=> v[MapOf(f)] = <<>>) /\ span = n + r /\ DOMAIN v[MapOf(f)] = 1..n
  <2>1. v[MapOf(f)] \in Seq(Cells)
    BY DEF IsVolume
  <2>. QED BY <2>1, SpanIs
<1>3. r \in Nat
  BY <1>2, ReserveIsNat
<1>4. Len(db.digest[f]) = n
  <2>1. db.digest[f] = [j \in DOMAIN v[MapOf(f)] |-> v[Cell(v[MapOf(f)][j])]]
    BY <1>1 DEF Contents
  <2>. HIDE DEF n
  <2>. QED BY <1>2, <2>1
<1>5. Xfs!FileTarget(db, f) = Run(s, n)
  BY <1>4, XfsBlocks DEF Xfs!FileTarget
<1>6. Held(v, db, op, f) = (s + n)..(s + n + r - 1)
  BY DEF Held
<1>7. Held(v, db, op, f) \subseteq Xfs!ReserveRanges(db, op)
  <2>1. Held(v, db, op, f) = (db.start[f] + Len(db.digest[f]))..((db.start[f] + Len(db.digest[f])) + Xfs!Reserve(op, Len(db.digest[f])) - 1)
    BY <1>4, XfsBlocks DEF Held
  <2>. QED BY <2>1 DEF Xfs!ReserveRanges
<1>8. v[MapOf(f)] = <<>> => Range(Xfs!FileTarget(db, f)) = {}
  <2>1. v[MapOf(f)] = <<>> => Run(s, n) = <<>>
    <3>. HIDE DEF n, s
    <3>. QED BY <1>2 DEF Run
  <2>. QED BY <1>5, <2>1 DEF Range
<1>9. ASSUME v[MapOf(f)] # <<>>
      PROVE  /\ s \in Nat /\ n \in Nat \ {0}
             /\ Range(Xfs!FileTarget(db, f)) = Spot(s, n)
             /\ Range(Xfs!FileTarget(db, f)) \subseteq Spot(s, span)
             /\ Held(v, db, op, f) \subseteq Spot(s, span)
             /\ Held(v, db, op, f) \intersect Range(Xfs!FileTarget(db, f)) = {}
             /\ Spot(s, span) \subseteq FreeCells(v) \union Movable(v)
  <2>1. Fits(v, s, span)
    BY <1>1, <1>9, XfsPlanFits
  <2>. HIDE DEF s, n, r, span
  <2>2. s \in Nat /\ n \in Nat \ {0}
    BY <1>2, <1>9, <2>1, CellsAssumption DEF Fits, Cells
  <2>3. Range(Run(s, n)) = s..(s + n - 1)
    BY <2>2, RunIs
  <2>4. /\ s..(s + n - 1) \subseteq s..(s + (n + r) - 1)
        /\ (s + n)..(s + n + r - 1) \subseteq s..(s + (n + r) - 1)
        /\ s..(s + n - 1) \intersect ((s + n)..(s + n + r - 1)) = {}
    BY <1>3, <2>2, SpanParts
  <2>. QED BY <1>2, <1>5, <1>6, <2>1, <2>2, <2>3, <2>4 DEF Fits, Spot
<1>. QED BY <1>4, <1>5, <1>7, <1>8, <1>9

\* No cell is the target of two files, and what is kept free is no target.
LEMMA TargetsApart ==
  ASSUME NEW v, NEW op, IsVolume(v), Xfs!BuildPlan(v, op).fits, NEW db, db = Plan(v, op)
  PROVE  /\ \A f, g \in Files : f # g => Range(Xfs!FileTarget(db, f)) \intersect Range(Xfs!FileTarget(db, g)) = {}
         /\ \A f \in Files : v[MapOf(f)] # <<>> =>
               /\ Held(v, db, op, f) \subseteq (FreeCells(v) \union Movable(v)) \ Xfs!TargetRanges(db)
               /\ Held(v, db, op, f) \subseteq Xfs!ReserveRanges(db, op)
<1>. DEFINE T(f) == Range(Xfs!FileTarget(db, f))
            S(f) == Spot(db.start[f], Xfs!Span(v, f, op))
            H(f) == Held(v, db, op, f)
<1>1. \A f \in Files : /\ v[MapOf(f)] = <<>> => T(f) = {}
                       /\ v[MapOf(f)] # <<>> => /\ T(f) \subseteq S(f) /\ H(f) \subseteq S(f)
                                                /\ H(f) \intersect T(f) = {}
                                                /\ S(f) \subseteq FreeCells(v) \union Movable(v)
                       /\ H(f) \subseteq Xfs!ReserveRanges(db, op)
  BY TargetIs
<1>2. \A f, g \in Files : f # g /\ v[MapOf(f)] # <<>> /\ v[MapOf(g)] # <<>> => S(f) \intersect S(g) = {}
  <2>1. db.start = Xfs!BuildPlan(v, op).start
    BY DEF Plan, Xfs!PopulatePlan
  <2>. QED BY <2>1, XfsPlanFits
<1>3. Xfs!TargetRanges(db) = UNION {T(f) : f \in Files}
  BY XfsBlocks DEF Xfs!TargetRanges
<1>. HIDE DEF T, S, H
<1>4. \A f, g \in Files : f # g => T(f) \intersect T(g) = {}
  <2>. TAKE f, g \in Files
  <2>1. CASE v[MapOf(f)] = <<>> \/ v[MapOf(g)] = <<>>
    BY <1>1, <2>1
  <2>2. CASE v[MapOf(f)] # <<>> /\ v[MapOf(g)] # <<>>
    BY <1>1, <1>2, <2>2
  <2>. QED BY <2>1, <2>2
<1>5. ASSUME NEW f \in Files, v[MapOf(f)] # <<>>, NEW g \in Files PROVE H(f) \intersect T(g) = {}
  <2>1. CASE f = g
    BY <1>1, <1>5, <2>1
  <2>2. CASE v[MapOf(g)] = <<>>
    BY <1>1, <2>2
  <2>3. CASE f # g /\ v[MapOf(g)] # <<>>
    BY <1>1, <1>2, <1>5, <2>3
  <2>. QED BY <2>1, <2>2, <2>3
<1>6. ASSUME NEW f \in Files, v[MapOf(f)] # <<>>
      PROVE  H(f) \subseteq (FreeCells(v) \union Movable(v)) \ Xfs!TargetRanges(db)
  BY <1>1, <1>3, <1>5, <1>6
<1>. QED BY <1>1, <1>4, <1>6 DEF T, H

\* Each cell of a file moves to its place in the run of the file, and no two
\* cells to the same.
LEMMA MovesApart ==
  ASSUME NEW v, NEW op, IsVolume(v), Exclusive(v), Xfs!BuildPlan(v, op).fits, NEW db, db = Plan(v, op)
  PROVE  /\ \A f \in Files : \A j \in DOMAIN v[MapOf(f)] :
               /\ v[MapOf(f)][j] \in Movable(v)
               /\ Xfs!Moves(v, db)[v[MapOf(f)][j]] = db.start[f] + j - 1
               /\ db.start[f] + j - 1 \in Range(Xfs!FileTarget(db, f))
         /\ \A c, d \in Movable(v) : Xfs!Moves(v, db)[c] = Xfs!Moves(v, db)[d] => c = d
<1>. DEFINE M == Xfs!Moves(v, db)
            T(f) == Range(Xfs!FileTarget(db, f))
<1>1. \A f \in Files : v[MapOf(f)] \in Seq(Cells) /\ DOMAIN v[MapOf(f)] = 1..Len(v[MapOf(f)]) /\ Len(v[MapOf(f)]) \in Nat
  <2>1. \A f \in Files : v[MapOf(f)] \in Seq(Cells)
    BY DEF IsVolume
  <2>2. \A m \in Seq(Cells) : DOMAIN m = 1..Len(m) /\ Len(m) \in Nat
    OBVIOUS
  <2>. QED BY <2>1, <2>2
<1>2. ASSUME NEW f \in Files, NEW j \in DOMAIN v[MapOf(f)]
      PROVE  /\ v[MapOf(f)][j] \in CellsOf(v, f) /\ v[MapOf(f)][j] \in Movable(v)
             /\ M[v[MapOf(f)][j]] = db.start[f] + j - 1
             /\ db.start[f] + j - 1 \in T(f)
  <2>. DEFINE c == v[MapOf(f)][j]
              file == CHOOSE g \in Files : c \in Xfs!CellsOf(v, g)
              i == CHOOSE k \in DOMAIN v[Xfs!MapOf(file)] : v[Xfs!MapOf(file)][k] = c
  <2>1. c \in CellsOf(v, f) /\ c \in Movable(v)
    BY <1>2 DEF CellsOf, Range, Movable
  <2>2. M[c] = db.start[file] + i - 1
    <3>1. c \in Xfs!Movable(v)
      BY <2>1, XfsVolumes
    <3>. HIDE DEF c
    <3>. QED BY <3>1 DEF Xfs!Moves
  <2>3. file = f
    <3>1. \A g \in Files : c \in CellsOf(v, g) => g = f
      BY <2>1 DEF Exclusive
    <3>. HIDE DEF c
    <3>. QED BY <2>1, <3>1, XfsVolumes
  <2>4. i = j
    <3>1. v[MapOf(f)][j] = c
      OBVIOUS
    <3>2. \A k \in DOMAIN v[MapOf(f)] : v[MapOf(f)][k] = c => k = j
      BY <3>1 DEF Exclusive, IsInjective
    <3>. HIDE DEF c, file
    <3>. QED BY <1>2, <2>3, <3>1, <3>2, XfsBlocks
  <2>5. db.start[f] + j - 1 \in T(f)
    BY <1>2, TargetsInside
  <2>. HIDE DEF c, file, i
  <2>. QED BY <2>1, <2>2, <2>3, <2>4, <2>5 DEF c
<1>3. \A f, g \in Files : f # g => T(f) \intersect T(g) = {}
  BY TargetsApart
<1>4. \A f \in Files : v[MapOf(f)] # <<>> => db.start[f] \in Nat
  BY TargetIs
<1>. HIDE DEF M, T
<1>5. ASSUME NEW c \in Movable(v), NEW d \in Movable(v), M[c] = M[d] PROVE c = d
  <2>1. PICK f \in Files : c \in CellsOf(v, f)
    BY DEF Movable
  <2>2. PICK g \in Files : d \in CellsOf(v, g)
    BY DEF Movable
  <2>3. PICK j \in DOMAIN v[MapOf(f)] : v[MapOf(f)][j] = c
    BY <2>1 DEF CellsOf, Range
  <2>4. PICK k \in DOMAIN v[MapOf(g)] : v[MapOf(g)][k] = d
    BY <2>2 DEF CellsOf, Range
  <2>5. M[c] \in T(f) /\ M[d] \in T(g) /\ M[c] = db.start[f] + j - 1 /\ M[d] = db.start[g] + k - 1
    BY <1>2, <2>3, <2>4
  <2>6. f = g
    BY <1>3, <1>5, <2>5
  <2>7. j \in Nat /\ k \in Nat /\ db.start[f] \in Nat
    <3>1. v[MapOf(f)] # <<>>
      BY <2>3
    <3>. QED BY <1>1, <1>4, <2>3, <2>4, <2>6, <3>1
  <2>8. db.start[f] + j - 1 = db.start[f] + k - 1
    BY <1>5, <2>5, <2>6
  <2>9. j = k
    BY <2>7, <2>8
  <2>. QED BY <2>3, <2>4, <2>6, <2>9
<1>. QED BY <1>2, <1>5 DEF M, T

-----------------------------------------------------------------------------
(* The free-space trees.                                                   *)

\* A set of cells has a last one.
LEMMA MaxInside == \A S \in SUBSET Cells : S # {} => Max(S) \in S /\ \A x \in S : x <= Max(S)
<1>1. ASSUME NEW S \in SUBSET Cells, S # {}
      PROVE  \E x \in S : \A y \in S : x >= y
  <2>. DEFINE T == {N + 1 - y : y \in S}
  <2>1. T \subseteq Nat /\ T # {}
    BY <1>1, CellsAssumption DEF Cells
  <2>2. Min(T) \in T /\ \A z \in T : Min(T) <= z
    <3>. HIDE DEF T
    <3>. QED BY <2>1, NatFacts!MinOfNat DEF NatFacts!Min, Min
  <2>3. PICK x \in S : Min(T) = N + 1 - x
    BY <2>2
  <2>4. \A y \in S : N + 1 - x <= N + 1 - y
    BY <2>2, <2>3
  <2>5. \A y \in S : x >= y
    BY <2>4, CellsAssumption DEF Cells
  <2>. QED BY <2>5
<1>. TAKE S \in SUBSET Cells
<1>. HAVE S # {}
<1>2. PICK y \in S : \A x \in S : y >= x
  BY <1>1
<1>3. Max(S) \in S /\ \A x \in S : Max(S) >= x
  BY <1>2 DEF Max
<1>. QED BY <1>3, CellsAssumption DEF Cells

\* given says what is free after the move, and what of it a reserve needs.
XfsBorrow(v, given, p, i) ==
    LET candidates == (Xfs!ScanFreeSpace(v) \intersect p.free) \ given.protected
    IN IF Xfs!TreeRequiredBlocks(p.free) <= Xfs!Cardinality(p.pool) \/ candidates = {} THEN p
       ELSE [free |-> p.free \ {Xfs!Max(candidates)}, pool |-> p.pool \union {Xfs!Max(candidates)}]
XfsBorrowed(v, given, i, p) ==
    /\ p = [free |-> p.free, pool |-> p.pool]
    /\ Xfs!TreeBlocks(v) \subseteq p.pool
    /\ p.pool \subseteq Xfs!TreeBlocks(v) \union ((FreeCells(v) \intersect given.free) \ given.protected)
    /\ p.free \subseteq given.free /\ given.free \ p.pool \subseteq p.free
    /\ p.free \intersect (p.pool \ Xfs!TreeBlocks(v)) = {}
BorrowFold == INSTANCE FoldInduction WITH Step <- XfsBorrow, Inv <- XfsBorrowed

\* The trees keep their blocks, and take only blocks that are free before and
\* after the move and that no reserve needs; these are free no more.
LEMMA PoolIsFree ==
  ASSUME NEW v, IsVolume(v), NEW free, NEW protected,
         NEW built, built = Xfs!EnsureAllocationTreePool(v, free, protected)
  PROVE  /\ Xfs!TreeBlocks(v) \subseteq built.pool
         /\ built.pool \subseteq Xfs!TreeBlocks(v) \union ((FreeCells(v) \intersect free) \ protected)
         /\ Xfs!TreeBlocks(v) \intersect free = {} => built.free = free \ built.pool
<1>. DEFINE given == [free |-> free, protected |-> protected]
            base == [free |-> free, pool |-> Xfs!TreeBlocks(v)]
            last == BorrowFold!Folded(v, given, base, Run(1, N))
<1>1. built = last
  <2>1. given.protected = protected
    OBVIOUS
  <2>. HIDE DEF given
  <2>2. Xfs!EnsureAllocationTreePool(v, free, given.protected) = BorrowFold!Folded(v, given, base, Xfs!Run(1, N))
    BY DEF Xfs!EnsureAllocationTreePool, Xfs!Accumulate, Xfs!Once, BorrowFold!Folded, XfsBorrow,
           Xfs!FoldLeft, BorrowFold!FoldLeft, Xfs!MapThenFoldSet, BorrowFold!MapThenFoldSet,
           Xfs!Max, BorrowFold!Max
  <2>. HIDE DEF base
  <2>. QED BY <2>1, <2>2, XfsBlocks
<1>2. XfsBorrowed(v, given, 0, base)
  BY DEF XfsBorrowed
<1>. HIDE DEF given
<1>3. ASSUME NEW i, NEW p, XfsBorrowed(v, given, i - 1, p)
      PROVE  XfsBorrowed(v, given, i, XfsBorrow(v, given, p, Run(1, N)[i]))
  <2>. DEFINE candidates == (FreeCells(v) \intersect p.free) \ given.protected
              w == XfsBorrow(v, given, p, Run(1, N)[i])
              block == Max(candidates)
  <2>1. \/ w = p
        \/ candidates # {} /\ w = [free |-> p.free \ {block}, pool |-> p.pool \union {block}]
    BY XfsBlocks, XfsVolumes DEF XfsBorrow, Xfs!ScanFreeSpace
  <2>2. candidates # {} => block \in candidates
    <3>1. candidates \in SUBSET Cells
      BY DEF FreeCells
    <3>. HIDE DEF candidates
    <3>. QED BY <3>1, MaxInside
  <2>3. candidates # {} => block \in FreeCells(v) /\ block \in p.free /\ block \notin given.protected
    <3>. HIDE DEF block
    <3>. QED BY <2>2
  <2>. HIDE DEF candidates, w, block
  <2>4. CASE w = p
    <3>1. XfsBorrowed(v, given, i, w)
      BY <1>3, <2>4 DEF XfsBorrowed
    <3>. QED BY <3>1 DEF w
  <2>5. CASE candidates # {} /\ w = [free |-> p.free \ {block}, pool |-> p.pool \union {block}]
    <3>1. w = [free |-> w.free, pool |-> w.pool] /\ w.free = p.free \ {block} /\ w.pool = p.pool \union {block}
      BY <2>5
    <3>2. /\ Xfs!TreeBlocks(v) \subseteq p.pool
          /\ p.pool \subseteq Xfs!TreeBlocks(v) \union ((FreeCells(v) \intersect given.free) \ given.protected)
          /\ p.free \subseteq given.free /\ given.free \ p.pool \subseteq p.free
          /\ p.free \intersect (p.pool \ Xfs!TreeBlocks(v)) = {}
      BY <1>3 DEF XfsBorrowed
    <3>3. block \in FreeCells(v) /\ block \in p.free /\ block \in given.free /\ block \notin given.protected
      BY <2>3, <2>5, <3>2
    <3>4. w.pool \subseteq Xfs!TreeBlocks(v) \union ((FreeCells(v) \intersect given.free) \ given.protected)
      BY <3>1, <3>2, <3>3
    <3>5. Xfs!TreeBlocks(v) \subseteq w.pool
      BY <3>1, <3>2
    <3>6. w.free \subseteq given.free /\ given.free \ w.pool \subseteq w.free
      BY <3>1, <3>2
    <3>7. w.free \intersect (w.pool \ Xfs!TreeBlocks(v)) = {}
      BY <3>1, <3>2
    <3>. QED BY <3>1, <3>4, <3>5, <3>6, <3>7 DEF XfsBorrowed, w
  <2>. QED BY <2>1, <2>4, <2>5
<1>4. N \in Nat /\ DOMAIN Run(1, N) = 1..N
  BY CellsAssumption DEF Run
<1>5. XfsBorrowed(v, given, N, last)
  <2>. HIDE DEF base
  <2>. QED BY <1>2, <1>3, <1>4, BorrowFold!FoldKeeps
<1>6. given.free = free /\ given.protected = protected
  BY DEF given
<1>. HIDE DEF last
<1>. QED BY <1>1, <1>5, <1>6 DEF XfsBorrowed

\* The image v with its free-space trees rebuilt.
RebuiltFrom(v, db, op) == Xfs!RebuildAllocationMetadata(v, db, op).image

\* An image whose trees were rebuilt has the files and the fixed metadata of
\* the image it is made of.
LEMMA RebuiltKeeps ==
  ASSUME NEW v, IsVolume(v), KeepsPins(v), NEW db, NEW op, NEW w,
         w = RebuiltFrom(v, db, op)
  PROVE  /\ IsVolume(w) /\ \A f \in Files : w[MapOf(f)] = v[MapOf(f)]
         /\ \A c \in Pinned : w[Cell(c)] = <<0, c>>
<1>. DEFINE built == Xfs!EnsureAllocationTreePool(v, Xfs!ExpectedFreeRanges(v, db), Xfs!ReserveRanges(db, op))
<1>1. w = [b \in Blocks |-> IF b = Bitmap THEN Cells \ built.free
                            ELSE IF b[1] = "cell" /\ b[2] \in built.pool \ TreePool THEN Xfs!Tree
                            ELSE v[b]]
  BY XfsBlocks DEF RebuiltFrom, Xfs!RebuildAllocationMetadata
<1>2. built.pool \subseteq Xfs!TreeBlocks(v) \union FreeCells(v)
  BY PoolIsFree
<1>. HIDE DEF built
<1>3. /\ w = [b \in Blocks |-> w[b]] /\ w[Header] = v[Header] /\ w[Bitmap] = Cells \ built.free
      /\ \A f \in Files : w[MapOf(f)] = v[MapOf(f)]
      /\ \A c \in Cells : w[Cell(c)] = IF c \in built.pool \ TreePool THEN Xfs!Tree ELSE v[Cell(c)]
  BY <1>1, BlockNames, BlockSet
<1>4. Xfs!Tree = <<0, N + 1>> /\ Xfs!Tree \in Payloads
  BY CellsAssumption DEF Xfs!Tree, Payloads
<1>5. IsVolume(w)
  <2>1. \A c \in Cells : w[Cell(c)] \in Payloads \/ w[Cell(c)][1] < 0
    BY <1>3, <1>4 DEF IsVolume
  <2>2. \A f \in Files : w[MapOf(f)] \in Seq(Cells)
    BY <1>3 DEF IsVolume
  <2>. QED BY <1>3, <2>1, <2>2 DEF IsVolume
<1>6. ASSUME NEW c \in Pinned PROVE w[Cell(c)] = <<0, c>>
  <2>1. c \in Cells /\ c \in v[Bitmap] /\ v[Cell(c)] = <<0, c>>
    BY CellsInside DEF KeepsPins
  <2>2. c # N + 1 /\ c \notin FreeCells(v)
    BY <2>1, CellsAssumption DEF Cells, FreeCells
  <2>3. v[Cell(c)] # Xfs!Tree
    BY <1>4, <2>1, <2>2
  <2>4. c \notin built.pool \ TreePool
    BY <1>2, <2>2, <2>3, XfsBlocks DEF Xfs!TreeBlocks
  <2>. QED BY <1>3, <2>1, <2>4
<1>. QED BY <1>3, <1>5, <1>6

-----------------------------------------------------------------------------
(* Arranging in place.                                                     *)

InCell(x) == x \in Payloads \/ x[1] < 0

XfsCopy(v, T, p, i) == Xfs!PermuteStep(p, i)
XfsCopied(v, T, i, p) ==
    /\ p = [image |-> p.image, todo |-> p.todo, olds |-> p.olds,
            free |-> p.free, start |-> p.start, saved |-> p.saved]
    /\ p.image = [b \in Blocks |-> p.image[b]]
    /\ \A b \in Blocks : p.image[b] = v[b] \/ \E c \in T : b = Cell(c)
    /\ \A c \in Cells : InCell(p.image[Cell(c)])
    /\ InCell(p.saved)
    /\ DOMAIN p.todo \subseteq Cells /\ \A c \in DOMAIN p.todo : p.todo[c] \in T
CopyFold == INSTANCE FoldInduction WITH Step <- XfsCopy, Inv <- XfsCopied

\* One copy of the permutation goes to a target and carries what was in a cell.
LEMMA CopyKeeps ==
  ASSUME NEW v, NEW T, T \subseteq Cells, NEW i, NEW j, NEW p, XfsCopied(v, T, j, p)
  PROVE  XfsCopied(v, T, j + 1, Xfs!PermuteStep(p, i))
<1>. DEFINE due == {old \in DOMAIN p.todo : p.todo[old] = p.free}
            terminals == Range(p.todo) \ p.olds
            old == CHOOSE c \in due : TRUE
            first == Min(DOMAIN p.todo)
            w == Xfs!PermuteStep(p, i)
            carried == Xfs!Carried(p, old)
            image == [p.image EXCEPT ![Cell(p.free)] = carried]
            todo == [c \in DOMAIN p.todo \ {old} |-> p.todo[c]]
<1>1. /\ p = [image |-> p.image, todo |-> p.todo, olds |-> p.olds,
              free |-> p.free, start |-> p.start, saved |-> p.saved]
      /\ p.image = [b \in Blocks |-> p.image[b]]
      /\ \A b \in Blocks : p.image[b] = v[b] \/ \E c \in T : b = Cell(c)
      /\ \A c \in Cells : InCell(p.image[Cell(c)])
      /\ InCell(p.saved)
      /\ DOMAIN p.todo \subseteq Cells /\ \A c \in DOMAIN p.todo : p.todo[c] \in T
  BY DEF XfsCopied
<1>2. w = IF DOMAIN p.todo = {} THEN p
          ELSE IF due # {} THEN [p EXCEPT !.image[Cell(p.free)] = carried, !.todo = todo, !.free = old]
          ELSE IF terminals # {} THEN [p EXCEPT !.free = Min(terminals)]
          ELSE [p EXCEPT !.free = first, !.start = first, !.saved = p.image[Cell(first)]]
  BY XfsBlocks DEF Xfs!PermuteStep, Xfs!Restrict
<1>3. DOMAIN p.todo # {} => first \in DOMAIN p.todo
  <2>1. DOMAIN p.todo \subseteq Nat
    BY <1>1, CellsAssumption DEF Cells
  <2>. QED BY <2>1, NatFacts!MinOfNat DEF NatFacts!Min, Min
<1>4. due # {} => /\ old \in DOMAIN p.todo /\ p.free \in T /\ InCell(carried)
  <2>1. due # {} => old \in due
    OBVIOUS
  <2>2. due # {} => old \in DOMAIN p.todo /\ p.todo[old] = p.free
    BY <2>1
  <2>. HIDE DEF due, old
  <2>3. carried = IF old = p.start THEN p.saved ELSE p.image[Cell(old)]
    BY XfsBlocks DEF Xfs!Carried
  <2>. QED BY <1>1, <2>2, <2>3
<1>. HIDE DEF due, old, terminals, carried, first
<1>5. CASE DOMAIN p.todo = {}
  <2>1. w = p
    BY <1>2, <1>5
  <2>. HIDE DEF w
  <2>. QED BY <1>1, <2>1 DEF XfsCopied, w
<1>6. CASE DOMAIN p.todo # {} /\ due # {}
  <2>1. w = [p EXCEPT !.image[Cell(p.free)] = carried, !.todo = todo, !.free = old]
    BY <1>2, <1>6
  <2>. HIDE DEF todo
  <2>2. w = [image |-> image, todo |-> todo, olds |-> p.olds, free |-> old, start |-> p.start, saved |-> p.saved]
    <3>. HIDE DEF w
    <3>1. w = [[[p EXCEPT !.image = image] EXCEPT !.todo = todo] EXCEPT !.free = old]
      BY <2>1
    <3>. HIDE DEF image
    <3>. QED BY <1>1, <3>1
  <2>3. /\ image = [b \in Blocks |-> image[b]]
        /\ \A b \in Blocks : b # Cell(p.free) => image[b] = p.image[b]
        /\ \A c \in Cells : image[Cell(c)] = IF c = p.free THEN carried ELSE p.image[Cell(c)]
    <3>1. Cell(p.free) \in Blocks
      BY <1>4, <1>6, BlockSet
    <3>. HIDE DEF w
    <3>. QED BY <1>1, <3>1, BlockSet, BlockNames
  <2>4. DOMAIN todo \subseteq Cells /\ \A c \in DOMAIN todo : todo[c] \in T
    BY <1>1 DEF todo
  <2>5. /\ \A b \in Blocks : image[b] = v[b] \/ \E c \in T : b = Cell(c)
        /\ \A c \in Cells : InCell(image[Cell(c)])
    <3>. HIDE DEF image, w
    <3>. QED BY <1>1, <1>4, <1>6, <2>3
  <2>. HIDE DEF image, w
  <2>6. XfsCopied(v, T, j + 1, w)
    BY <1>1, <2>2, <2>3, <2>4, <2>5 DEF XfsCopied
  <2>. QED BY <2>6 DEF w
<1>7. CASE DOMAIN p.todo # {} /\ due = {} /\ terminals # {}
  <2>1. w = [p EXCEPT !.free = Min(terminals)]
    BY <1>2, <1>7
  <2>2. w = [image |-> p.image, todo |-> p.todo, olds |-> p.olds, free |-> Min(terminals), start |-> p.start, saved |-> p.saved]
    BY <1>1, <2>1
  <2>. HIDE DEF w
  <2>3. XfsCopied(v, T, j + 1, w)
    BY <1>1, <2>2 DEF XfsCopied
  <2>. QED BY <2>3 DEF w
<1>8. CASE DOMAIN p.todo # {} /\ due = {} /\ terminals = {}
  <2>1. w = [p EXCEPT !.free = first, !.start = first, !.saved = p.image[Cell(first)]]
    BY <1>2, <1>8
  <2>2. w = [image |-> p.image, todo |-> p.todo, olds |-> p.olds, free |-> first, start |-> first, saved |-> p.image[Cell(first)]]
    BY <1>1, <2>1
  <2>3. InCell(p.image[Cell(first)])
    BY <1>1, <1>3, <1>8
  <2>. HIDE DEF w
  <2>4. XfsCopied(v, T, j + 1, w)
    BY <1>1, <2>2, <2>3 DEF XfsCopied
  <2>. QED BY <2>4 DEF w
<1>. QED BY <1>5, <1>6, <1>7, <1>8

\* The copies go to targets only, and only what is in a cell is copied.
LEMMA PermuteKeeps ==
  ASSUME NEW v, IsVolume(v), NEW T, T \subseteq Cells, NEW moves, DOMAIN moves \subseteq Cells,
         \A c \in DOMAIN moves : moves[c] \in T, NEW w, w = Xfs!Permute(v, moves)
  PROVE  /\ IsVolume(w)
         /\ \A b \in Blocks : w[b] = v[b] \/ \E c \in T : b = Cell(c)
<1>. DEFINE todo == [c \in {c \in DOMAIN moves : moves[c] # c} |-> moves[c]]
            base == [image |-> v, todo |-> todo, olds |-> DOMAIN todo, free |-> 0, start |-> 0, saved |-> Junk]
            items == Run(1, 2 * N)
            done == CopyFold!Folded(v, T, base, items)
<1>1. w = done.image
  <2>. DEFINE todo0 == Xfs!Restrict(moves, {c \in DOMAIN moves : moves[c] # c})
              base0 == [image |-> v, todo |-> todo0, olds |-> DOMAIN todo0, free |-> 0, start |-> 0, saved |-> Xfs!Junk]
  <2>1. base0 = base
    BY XfsBlocks DEF Xfs!Restrict
  <2>2. Xfs!Permute(v, moves) = CopyFold!Folded(v, T, base0, Xfs!Run(1, 2 * N)).image
    BY DEF Xfs!Permute, Xfs!Accumulate, Xfs!Once, CopyFold!Folded, XfsCopy,
           Xfs!FoldLeft, CopyFold!FoldLeft, Xfs!MapThenFoldSet, CopyFold!MapThenFoldSet,
           Xfs!Max, CopyFold!Max
  <2>. HIDE DEF base0, base
  <2>. QED BY <2>1, <2>2, XfsBlocks
<1>2. XfsCopied(v, T, 0, base)
  <2>1. InCell(Junk)
    BY DEF InCell, Junk, Payloads
  <2>2. DOMAIN todo \subseteq Cells /\ \A c \in DOMAIN todo : todo[c] \in T
    OBVIOUS
  <2>3. v = [b \in Blocks |-> v[b]] /\ \A c \in Cells : InCell(v[Cell(c)])
    BY DEF IsVolume, InCell
  <2>. HIDE DEF todo
  <2>. QED BY <2>1, <2>2, <2>3 DEF XfsCopied
<1>3. 2 * N \in Nat /\ DOMAIN items = 1..(2 * N)
  <2>1. 2 * N \in Nat
    BY CellsAssumption
  <2>. QED BY <2>1 DEF Run
<1>. HIDE DEF items, base
<1>4. \A k \in 1..(2 * N) : \A p : XfsCopied(v, T, k - 1, p) => XfsCopied(v, T, k, XfsCopy(v, T, p, items[k]))
  <2>1. ASSUME NEW k \in 1..(2 * N), NEW p, XfsCopied(v, T, k - 1, p)
        PROVE  XfsCopied(v, T, k, XfsCopy(v, T, p, items[k]))
    <3>1. XfsCopied(v, T, (k - 1) + 1, Xfs!PermuteStep(p, items[k]))
      BY <2>1, CopyKeeps
    <3>2. (k - 1) + 1 = k
      OBVIOUS
    <3>. QED BY <3>1, <3>2 DEF XfsCopy
  <2>. QED BY <2>1
<1>5. XfsCopied(v, T, 2 * N, done)
  BY <1>2, <1>3, <1>4, CopyFold!FoldKeeps
<1>. HIDE DEF done
<1>6. /\ w = [b \in Blocks |-> w[b]]
      /\ \A b \in Blocks : w[b] = v[b] \/ \E c \in T : b = Cell(c)
      /\ \A c \in Cells : InCell(w[Cell(c)])
  BY <1>1, <1>5 DEF XfsCopied
<1>7. w[Header] = v[Header] /\ w[Bitmap] = v[Bitmap] /\ \A f \in Files : w[MapOf(f)] = v[MapOf(f)]
  BY <1>6, BlockSet, BlockNames
<1>. QED BY <1>6, <1>7 DEF IsVolume, InCell

-----------------------------------------------------------------------------
(* Every copy reaches its target.                                          *)

\* The cells of T that go to the free one.
Due(M, T, free) == {c \in T : M[c] = free}

\* A cycle of the cells of T is open: its first cell was left.
Opened(M, T, start, free) ==
    /\ IsFiniteSet(T) /\ start \in T
    /\ \A c, d \in T : M[c] = M[d] => c = d
    /\ \A c \in T : M[c] \in (T \ {start}) \union {free}

\* While a cycle is open, some cell is due in the free one.
LEMMA AlwaysDue == \A M, T, start, free : Opened(M, T, start, free) => Due(M, T, free) # {}
<1>. SUFFICES ASSUME NEW M, NEW T, NEW start, NEW free, Opened(M, T, start, free),
                     \A c \in T : M[c] # free
              PROVE  FALSE
  BY DEF Due
<1>. USE DEF Opened
<1>. DEFINE R == T \ {start}
            m == [c \in T |-> M[c]]
<1>1. IsFiniteSet(R) /\ Cardinality(R) = Cardinality(T) - 1 /\ Cardinality(T) \in Nat
  BY FS_RemoveElement, FS_CardinalityType
<1>2. m \in [T -> R]
  OBVIOUS
<1>3. \A c, d \in T : m[c] = m[d] => c = d
  OBVIOUS
<1>. HIDE DEF R, m
<1>4. \E x, y \in T : x # y /\ m[x] = m[y]
  BY <1>1, <1>2, FS_PigeonHole
<1>. QED BY <1>3, <1>4

\* Steps that the permutation may still need: one copy for each cell, and one
\* step before it where none is due.
Budget(M, T, free) == 2 * Cardinality(T) - (IF Due(M, T, free) # {} THEN 1 ELSE 0)

XfsTurn(u, M, p, i) == Xfs!PermuteStep(p, i)
XfsTurned(u, M, i, p) ==
    /\ p = [image |-> p.image, todo |-> p.todo, olds |-> p.olds,
            free |-> p.free, start |-> p.start, saved |-> p.saved]
    /\ p.image = [b \in Blocks |-> p.image[b]]
    /\ \A b \in Blocks : (\A c \in DOMAIN M : b # Cell(M[c])) => p.image[b] = u[b]
    /\ DOMAIN p.todo \subseteq DOMAIN M /\ p.todo = [c \in DOMAIN p.todo |-> M[c]] /\ p.olds = DOMAIN M
    /\ \A c \in DOMAIN M \ DOMAIN p.todo : p.image[Cell(M[c])] = u[Cell(c)]
    /\ \A c \in DOMAIN p.todo : (IF c = p.start THEN p.saved ELSE p.image[Cell(c)]) = u[Cell(c)]
    /\ p.free \in DOMAIN p.todo => p.free = p.start
    /\ \A c \in DOMAIN M \ DOMAIN p.todo : c # p.free => \A d \in DOMAIN p.todo : M[d] # c
    /\ p.start \in DOMAIN p.todo =>
          \A c \in DOMAIN p.todo : M[c] \in (DOMAIN p.todo \ {p.start}) \union {p.free}
    /\ DOMAIN p.todo = {} \/ Budget(M, DOMAIN p.todo, p.free) + i <= 2 * N
TurnFold == INSTANCE FoldInduction WITH Step <- XfsTurn, Inv <- XfsTurned

\* Every step of the permutation comes nearer to its end, and undoes nothing.
LEMMA TurnKeeps ==
  ASSUME NEW u, NEW M, DOMAIN M \subseteq Cells, \A c \in DOMAIN M : M[c] \in Cells,
         \A c, d \in DOMAIN M : M[c] = M[d] => c = d,
         NEW i, NEW j \in Nat, NEW p, XfsTurned(u, M, j, p)
  PROVE  XfsTurned(u, M, j + 1, Xfs!PermuteStep(p, i))
<1>. DEFINE T == DOMAIN p.todo
            D == DOMAIN M
            due == Due(M, T, p.free)
            terminals == Range(p.todo) \ p.olds
            old == CHOOSE c \in due : TRUE
            first == Min(T)
            w == Xfs!PermuteStep(p, i)
            carried == Xfs!Carried(p, old)
            image == [p.image EXCEPT ![Cell(p.free)] = carried]
            todo == [c \in T \ {old} |-> p.todo[c]]
<1>1. /\ p = [image |-> p.image, todo |-> p.todo, olds |-> p.olds,
              free |-> p.free, start |-> p.start, saved |-> p.saved]
      /\ p.image = [b \in Blocks |-> p.image[b]]
      /\ \A b \in Blocks : (\A c \in D : b # Cell(M[c])) => p.image[b] = u[b]
      /\ T \subseteq D /\ p.todo = [c \in T |-> M[c]] /\ p.olds = D
      /\ \A c \in D \ T : p.image[Cell(M[c])] = u[Cell(c)]
      /\ \A c \in T : (IF c = p.start THEN p.saved ELSE p.image[Cell(c)]) = u[Cell(c)]
      /\ p.free \in T => p.free = p.start
      /\ \A c \in D \ T : c # p.free => \A d \in T : M[d] # c
      /\ p.start \in T => \A c \in T : M[c] \in (T \ {p.start}) \union {p.free}
      /\ T = {} \/ Budget(M, T, p.free) + j <= 2 * N
  BY DEF XfsTurned
<1>2. w = IF T = {} THEN p
          ELSE IF due # {} THEN [p EXCEPT !.image[Cell(p.free)] = carried, !.todo = todo, !.free = old]
          ELSE IF terminals # {} THEN [p EXCEPT !.free = Min(terminals)]
          ELSE [p EXCEPT !.free = first, !.start = first, !.saved = p.image[Cell(first)]]
  <2>1. due = {c \in DOMAIN p.todo : p.todo[c] = p.free}
    BY <1>1 DEF Due
  <2>. QED BY <2>1, XfsBlocks DEF Xfs!PermuteStep, Xfs!Restrict
<1>3. IsFiniteSet(T) /\ T \subseteq Nat /\ Cardinality(T) \in Nat /\ N \in Nat
  <2>1. IsFiniteSet(Cells) /\ T \subseteq Cells /\ N \in Nat
    BY <1>1, CellsAssumption, FS_Interval DEF Cells
  <2>2. IsFiniteSet(T)
    BY <2>1, FS_Subset
  <2>. QED BY <2>1, <2>2, FS_CardinalityType, CellsAssumption DEF Cells
<1>4. T # {} => first \in T
  BY <1>3, NatFacts!MinOfNat DEF NatFacts!Min, Min
<1>5. p.start \in T => due # {}
  <2>. SUFFICES ASSUME p.start \in T PROVE due # {}
    OBVIOUS
  <2>1. Opened(M, T, p.start, p.free)
    BY <1>1, <1>3 DEF Opened
  <2>. QED BY <2>1, AlwaysDue
<1>6. due # {} => old \in T /\ M[old] = p.free /\ p.free \in Cells /\ carried = u[Cell(old)]
  <2>1. due # {} => old \in due
    OBVIOUS
  <2>2. due # {} => old \in T /\ M[old] = p.free /\ p.free \in Cells
    BY <1>1, <2>1 DEF Due
  <2>3. carried = IF old = p.start THEN p.saved ELSE p.image[Cell(old)]
    BY XfsBlocks DEF Xfs!Carried
  <2>. QED BY <1>1, <2>2, <2>3
<1>7. due = {} => \A c \in T : M[c] # p.free
  BY DEF Due
<1>. HIDE DEF due, old, terminals, carried, first
<1>8. CASE T = {}
  <2>1. w = p
    BY <1>2, <1>8
  <2>. HIDE DEF w
  <2>. QED BY <1>1, <1>8, <2>1 DEF XfsTurned, w
<1>9. CASE T # {} /\ due # {}
  <2>. DEFINE S == T \ {old}
  <2>1. w = [p EXCEPT !.image[Cell(p.free)] = carried, !.todo = todo, !.free = old]
    BY <1>2, <1>9
  <2>2. todo = [c \in S |-> M[c]] /\ DOMAIN todo = S
    BY <1>1
  <2>. HIDE DEF todo
  <2>3. w = [image |-> image, todo |-> todo, olds |-> D, free |-> old, start |-> p.start, saved |-> p.saved]
    <3>. HIDE DEF w
    <3>1. w = [[[p EXCEPT !.image = image] EXCEPT !.todo = todo] EXCEPT !.free = old]
      BY <2>1
    <3>. HIDE DEF image
    <3>. QED BY <1>1, <3>1
  <2>4. /\ image = [b \in Blocks |-> image[b]]
        /\ \A b \in Blocks : b # Cell(p.free) => image[b] = p.image[b]
        /\ \A c \in Cells : image[Cell(c)] = IF c = p.free THEN carried ELSE p.image[Cell(c)]
    <3>1. Cell(p.free) \in Blocks
      BY <1>6, <1>9, BlockSet
    <3>. HIDE DEF w
    <3>. QED BY <1>1, <3>1, BlockSet, BlockNames
  <2>. HIDE DEF image, w
  <2>5. old \in T /\ M[old] = p.free /\ carried = u[Cell(old)]
    BY <1>6, <1>9
  <2>6. \A b \in Blocks : (\A c \in D : b # Cell(M[c])) => image[b] = u[b]
    BY <1>1, <2>4, <2>5
  <2>7. \A c \in D \ S : image[Cell(M[c])] = u[Cell(c)]
    <3>. TAKE c \in D \ S
    <3>1. M[c] \in Cells
      OBVIOUS
    <3>2. CASE c = old
      BY <2>4, <2>5, <3>1, <3>2
    <3>3. CASE c # old
      <4>1. M[c] # p.free /\ c \in D \ T
        BY <1>1, <2>5, <3>3
      <4>. QED BY <1>1, <2>4, <3>1, <4>1
    <3>. QED BY <3>2, <3>3
  <2>8. \A c \in S : (IF c = p.start THEN p.saved ELSE image[Cell(c)]) = u[Cell(c)]
    <3>. TAKE c \in S
    <3>1. CASE c = p.start
      BY <1>1, <3>1
    <3>2. CASE c # p.start
      <4>1. c # p.free /\ c \in Cells
        BY <1>1, <3>2
      <4>. QED BY <1>1, <2>4, <3>2, <4>1
    <3>. QED BY <3>1, <3>2
  <2>9. \A c \in D \ S : c # old => \A d \in S : M[d] # c
    BY <1>1, <2>5
  <2>10. p.start \in S => \A c \in S : M[c] \in (S \ {p.start}) \union {old}
    <3>. SUFFICES ASSUME p.start \in S, NEW c \in S PROVE M[c] \in T \ {p.start}
      BY <2>5
    <3>1. M[c] \in (T \ {p.start}) \union {p.free} /\ M[c] # p.free
      BY <1>1, <2>5
    <3>. QED BY <3>1
  <2>11. S = {} \/ Budget(M, S, old) + (j + 1) <= 2 * N
    <3>1. Cardinality(S) = Cardinality(T) - 1 /\ IsFiniteSet(S) /\ Cardinality(S) \in Nat
      BY <1>3, <2>5, FS_RemoveElement, FS_CardinalityType
    <3>2. 2 * Cardinality(T) - 1 + j <= 2 * N
      BY <1>1, <1>9 DEF Budget, due
    <3>3. Budget(M, S, old) <= 2 * Cardinality(S) /\ Budget(M, S, old) \in Int
      BY <3>1 DEF Budget
    <3>. HIDE DEF S
    <3>. QED BY <1>3, <3>1, <3>2, <3>3
  <2>. HIDE DEF S
  <2>12. old \notin S /\ S \subseteq D
    BY <1>1 DEF S
  <2>13. XfsTurned(u, M, j + 1, w)
    BY <2>2, <2>3, <2>4, <2>6, <2>7, <2>8, <2>9, <2>10, <2>11, <2>12 DEF XfsTurned
  <2>. QED BY <2>13 DEF w
<1>10. CASE T # {} /\ due = {} /\ terminals # {}
  <2>. DEFINE t == Min(terminals)
  <2>1. w = [p EXCEPT !.free = t]
    BY <1>2, <1>10
  <2>2. t \in terminals
    <3>1. terminals \subseteq Nat
      BY <1>1, CellsAssumption DEF terminals, Range, Cells
    <3>. QED BY <1>10, <3>1, NatFacts!MinOfNat DEF NatFacts!Min, Min
  <2>3. t \notin D /\ \E c \in T : M[c] = t
    <3>1. t \in Range(p.todo) /\ t \notin D
      BY <1>1, <2>2 DEF terminals
    <3>2. PICK c \in DOMAIN p.todo : p.todo[c] = t
      BY <3>1 DEF Range
    <3>. QED BY <1>1, <3>1, <3>2
  <2>. HIDE DEF t
  <2>4. w = [image |-> p.image, todo |-> p.todo, olds |-> D, free |-> t, start |-> p.start, saved |-> p.saved]
    BY <1>1, <2>1
  <2>. HIDE DEF w
  <2>5. p.start \notin T /\ t \notin T
    BY <1>1, <1>5, <1>10, <2>3
  <2>6. \A c \in D \ T : c # t => \A d \in T : M[d] # c
    BY <1>1, <1>7, <1>10
  <2>7. Budget(M, T, t) + (j + 1) <= 2 * N
    <3>1. 2 * Cardinality(T) + j <= 2 * N
      BY <1>1, <1>3, <1>10 DEF Budget, due
    <3>2. Budget(M, T, t) = 2 * Cardinality(T) - 1
      BY <2>3 DEF Budget, Due
    <3>. QED BY <1>3, <3>1, <3>2
  <2>8. XfsTurned(u, M, j + 1, w)
    BY <1>1, <2>4, <2>5, <2>6, <2>7 DEF XfsTurned
  <2>. QED BY <2>8 DEF w
<1>11. CASE T # {} /\ due = {} /\ terminals = {}
  <2>1. w = [p EXCEPT !.free = first, !.start = first, !.saved = p.image[Cell(first)]]
    BY <1>2, <1>11
  <2>2. w = [image |-> p.image, todo |-> p.todo, olds |-> D, free |-> first, start |-> first, saved |-> p.image[Cell(first)]]
    BY <1>1, <2>1
  <2>. HIDE DEF w
  <2>3. first \in T /\ p.start \notin T
    BY <1>4, <1>5, <1>11
  <2>4. \A c \in T : (IF c = first THEN p.image[Cell(first)] ELSE p.image[Cell(c)]) = u[Cell(c)]
    BY <1>1, <2>3
  <2>5. \A c \in D \ T : c # first => \A d \in T : M[d] # c
    BY <1>1, <1>7, <1>11
  <2>6. \A c \in T : M[c] \in T
    <3>. TAKE c \in T
    <3>1. M[c] \in D
      BY <1>1, <1>11 DEF terminals, Range
    <3>. QED BY <1>1, <1>7, <1>11, <3>1
  <2>7. \A c \in T : M[c] \in (T \ {first}) \union {first}
    BY <2>6
  <2>8. Budget(M, T, first) + (j + 1) <= 2 * N
    <3>1. 2 * Cardinality(T) + j <= 2 * N
      BY <1>1, <1>3, <1>11 DEF Budget, due
    <3>2. Opened(M, T, first, first)
      BY <1>1, <1>3, <2>3, <2>7 DEF Opened
    <3>3. Due(M, T, first) # {}
      BY <3>2, AlwaysDue
    <3>4. Budget(M, T, first) = 2 * Cardinality(T) - 1
      BY <3>3 DEF Budget
    <3>. QED BY <1>3, <3>1, <3>4
  <2>9. XfsTurned(u, M, j + 1, w)
    BY <1>1, <2>2, <2>3, <2>4, <2>5, <2>7, <2>8 DEF XfsTurned
  <2>. QED BY <2>9 DEF w
<1>. QED BY <1>8, <1>9, <1>10, <1>11

\* The permutation brings what is in every cell to its target, and changes
\* nothing but targets: whatever the cycles are, 2 N steps are enough.
THEOREM PermuteMoves ==
  ASSUME NEW v, v = [b \in Blocks |-> v[b]], NEW moves, DOMAIN moves \subseteq Cells,
         \A c \in DOMAIN moves : moves[c] \in Cells,
         \A c, d \in DOMAIN moves : moves[c] = moves[d] => c = d,
         NEW w, w = Xfs!Permute(v, moves)
  PROVE  /\ \A c \in DOMAIN moves : w[Cell(moves[c])] = v[Cell(c)]
         /\ \A b \in Blocks : (\A c \in DOMAIN moves : b # Cell(moves[c])) => w[b] = v[b]
<1>. DEFINE M == [c \in {c \in DOMAIN moves : moves[c] # c} |-> moves[c]]
            base == [image |-> v, todo |-> M, olds |-> DOMAIN M, free |-> 0, start |-> 0, saved |-> Junk]
            items == Run(1, 2 * N)
            done == TurnFold!Folded(v, M, base, items)
<1>1. w = done.image
  <2>. DEFINE todo0 == Xfs!Restrict(moves, {c \in DOMAIN moves : moves[c] # c})
              base0 == [image |-> v, todo |-> todo0, olds |-> DOMAIN todo0, free |-> 0, start |-> 0, saved |-> Xfs!Junk]
  <2>1. base0 = base
    BY XfsBlocks DEF Xfs!Restrict
  <2>2. Xfs!Permute(v, moves) = TurnFold!Folded(v, M, base0, Xfs!Run(1, 2 * N)).image
    BY DEF Xfs!Permute, Xfs!Accumulate, Xfs!Once, TurnFold!Folded, XfsTurn,
           Xfs!FoldLeft, TurnFold!FoldLeft, Xfs!MapThenFoldSet, TurnFold!MapThenFoldSet,
           Xfs!Max, TurnFold!Max
  <2>. HIDE DEF base0, base
  <2>. QED BY <2>1, <2>2, XfsBlocks
<1>2. /\ DOMAIN M \subseteq Cells /\ DOMAIN M \subseteq DOMAIN moves
      /\ \A c \in DOMAIN M : M[c] = moves[c] /\ M[c] \in Cells
      /\ \A c, d \in DOMAIN M : M[c] = M[d] => c = d
      /\ M = [c \in DOMAIN M |-> M[c]]
      /\ \A c \in DOMAIN moves : c \notin DOMAIN M => moves[c] = c
  OBVIOUS
<1>. HIDE DEF M
<1>3. 2 * N \in Nat /\ DOMAIN items = 1..(2 * N) /\ N \in Nat
  <2>1. 2 * N \in Nat
    BY CellsAssumption
  <2>. QED BY <2>1, CellsAssumption DEF Run
<1>4. Budget(M, DOMAIN M, 0) + 0 <= 2 * N
  <2>1. IsFiniteSet(Cells) /\ Cardinality(Cells) = N
    <3>1. 1 \in Int /\ N \in Int /\ (IF 1 > N THEN 0 ELSE N - 1 + 1) = N
      BY CellsAssumption
    <3>. QED BY <3>1, FS_Interval DEF Cells
  <2>2. IsFiniteSet(DOMAIN M) /\ Cardinality(DOMAIN M) <= N
    BY <1>2, <2>1, FS_Subset
  <2>3. Cardinality(DOMAIN M) \in Nat
    BY <2>2, FS_CardinalityType
  <2>. QED BY <1>3, <2>2, <2>3 DEF Budget
<1>5. XfsTurned(v, M, 0, base)
  <2>1. 0 \notin DOMAIN M
    BY <1>2, CellsAssumption DEF Cells
  <2>2. base = [image |-> base.image, todo |-> base.todo, olds |-> base.olds,
                free |-> base.free, start |-> base.start, saved |-> base.saved]
        /\ base.image = v /\ base.todo = M /\ base.olds = DOMAIN M /\ base.free = 0 /\ base.start = 0
    OBVIOUS
  <2>. HIDE DEF base
  <2>. QED BY <1>2, <1>4, <2>1, <2>2 DEF XfsTurned
<1>. HIDE DEF items, base
<1>6. \A k \in 1..(2 * N) : \A p : XfsTurned(v, M, k - 1, p) => XfsTurned(v, M, k, XfsTurn(v, M, p, items[k]))
  <2>1. ASSUME NEW k \in 1..(2 * N), NEW p, XfsTurned(v, M, k - 1, p)
        PROVE  XfsTurned(v, M, k, XfsTurn(v, M, p, items[k]))
    <3>1. (k - 1) + 1 = k /\ k - 1 \in Nat
      BY <1>3
    <3>2. XfsTurned(v, M, (k - 1) + 1, Xfs!PermuteStep(p, items[k]))
      BY <1>2, <2>1, <3>1, TurnKeeps
    <3>. QED BY <3>1, <3>2 DEF XfsTurn
  <2>. QED BY <2>1
<1>7. XfsTurned(v, M, 2 * N, done)
  BY <1>3, <1>5, <1>6, TurnFold!FoldKeeps
<1>. HIDE DEF done
<1>8. DOMAIN done.todo = {}
  <2>. DEFINE T == DOMAIN done.todo
  <2>1. T \subseteq DOMAIN M /\ (T = {} \/ Budget(M, T, done.free) + 2 * N <= 2 * N)
    BY <1>7 DEF XfsTurned
  <2>. HIDE DEF T
  <2>2. IsFiniteSet(T) /\ Cardinality(T) \in Nat
    <3>1. IsFiniteSet(Cells)
      BY CellsAssumption, FS_Interval DEF Cells
    <3>2. IsFiniteSet(T)
      BY <1>2, <2>1, <3>1, FS_Subset
    <3>. QED BY <3>2, FS_CardinalityType
  <2>3. T # {} => Cardinality(T) # 0
    BY <2>2, FS_EmptySet
  <2>4. T # {} => Budget(M, T, done.free) > 0 /\ Budget(M, T, done.free) \in Int
    BY <2>2, <2>3 DEF Budget
  <2>. QED BY <1>3, <2>1, <2>4 DEF T
<1>9. /\ \A b \in Blocks : (\A c \in DOMAIN M : b # Cell(M[c])) => w[b] = v[b]
      /\ \A c \in DOMAIN M : w[Cell(M[c])] = v[Cell(c)]
  BY <1>1, <1>7, <1>8 DEF XfsTurned
<1>10. ASSUME NEW c \in DOMAIN moves PROVE w[Cell(moves[c])] = v[Cell(c)]
  <2>1. CASE c \in DOMAIN M
    BY <1>2, <1>9, <2>1
  <2>2. CASE c \notin DOMAIN M
    <3>1. moves[c] = c /\ c \in Cells
      BY <1>2, <2>2
    <3>2. \A d \in DOMAIN M : Cell(c) # Cell(M[d])
      <4>. TAKE d \in DOMAIN M
      <4>1. M[d] = moves[d] /\ d # c /\ d \in DOMAIN moves
        BY <1>2, <2>2
      <4>2. M[d] # c
        BY <3>1, <4>1
      <4>. QED BY <4>2, BlockNames
    <3>. QED BY <1>9, <3>1, <3>2, BlockSet
  <2>. QED BY <2>1, <2>2
<1>11. ASSUME NEW b \in Blocks, \A c \in DOMAIN moves : b # Cell(moves[c]) PROVE w[b] = v[b]
  BY <1>2, <1>9, <1>11
<1>. QED BY <1>10, <1>11
=============================================================================
