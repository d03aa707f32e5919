------------------------ MODULE DirectRelayoutProofs ------------------------
(***************************************************************************)
(* What DirectRelayout asks of its workers, for the EXT worker: no byte of *)
(* a file is lost, in place or through the working image, and the layout   *)
(* changes in one step.  The invariant says what is known of the volume    *)
(* in each phase, and each step of the worker, each Stop, each failure and *)
(* each crash keeps it.                                                    *)
(***************************************************************************)
EXTENDS DirectRelayout, ExtLayoutProofs

-----------------------------------------------------------------------------
(* The invariant.                                                          *)

QuietPhases == {"none", "preflight", "cloning", "arranging", "verifying-stage", "direct-staging", "direct-staged"}
DonePhases == {"direct-verifying", "verifying-source"}
ExtPhases == QuietPhases \union RestoredPhases \union DonePhases \union {"commit"}

\* The phase in which the worker is at pc.
PhaseAt(pc) ==
    CASE pc \in {"plan", "clone", "prepared"} -> {"preflight"}
      [] pc = "plan-stage" -> {"cloning"}
      [] pc = "arrange" -> {"arranging"}
      [] pc = "check" -> {"verifying-stage"}
      [] pc \in {"commit", "record", "committed"} -> {"commit"}
      [] pc = "verify-source" -> {"verifying-source"}
      [] pc = "staging" -> {"direct-staging"}
      [] pc = "staged" -> {"direct-staged"}
      [] pc = "placing" -> {"direct-placing"}
      [] pc = "metadata" -> {"direct-metadata"}
      [] pc = "verifying" -> {"direct-verifying"}
      [] pc \in {"restore", "restoring"} -> RestoredPhases
      [] pc \in {"cleanup", "retire"} -> ExtPhases \ {"none", "commit"}
      [] OTHER -> {}

\* What a worker remembers, with or without the size of its script.
Remembers(p) == \/ p = [pc |-> p.pc, op |-> p.op, todo |-> p.todo]
                \/ p = [pc |-> p.pc, op |-> p.op, todo |-> p.todo, size |-> p.size]

IsJournal(j) == j = [phase |-> j.phase, op |-> j.op, offset |-> j.offset, plan |-> j.plan]
\* Where the worker has no script.
Idling == {"plan", "clone", "prepared", "plan-stage", "arrange", "check", "staged", "verifying", "verify-source"}

\* A step finds in the records what the last one put there.
ExtShape ==
    /\ proc = Idle \/ (Remembers(proc) /\ journal.phase \in PhaseAt(proc.pc) /\ proc.op = journal.op)
    /\ \/ journal = NoJournal
       \/ journal.phase \in ExtPhases \ {"none"} /\ IsJournal(journal)
    /\ proc.pc \in Idling => proc.todo = <<>>
    /\ stage.state \in {"none", "plan", "partial", "whole"}
    /\ IsVolume(disk) /\ IsVolume(cache) /\ (stage.state = "whole" => IsVolume(stage.image))

\* The kernel shows the volume its owner saw, and so does stable storage but
\* for free cells.
Quiet == Sound(cache) /\ Contents(cache) = owner /\ OnlyFree(disk, cache)

\* Planning, and the working image.
ExtPlanned ==
    /\ proc.pc = "clone" => AssignTargets(cache, proc.op, FileOrder).fits
    /\ proc.pc \in {"plan-stage", "arrange"} =>
          stage.state = "whole" /\ Sound(stage.image) /\ Contents(stage.image) = owner
    /\ proc.pc = "plan-stage" => AssignTargets(stage.image, proc.op, FileOrder).fits
    /\ proc.pc = "arrange" => AimsWell(stage.image, proc.op, journal.plan)
    /\ proc.pc = "check" => stage.state = "whole" /\ Verified(stage.image, journal.op, journal.plan)
    /\ proc.pc = "prepared" => PlanOf(cache, journal.op, journal.plan) /\ HasParts(journal.plan)

\* The copies of v are made.
Staging(v, p) ==
    /\ PlanOf(v, journal.op, p) /\ HasParts(p)
    /\ Nears(proc.todo, disk, cache, WithCopies(v, p.slots), Carries(v), SlotsOf(p.slots), SlotsOf(p.slots))

\* The copies of v are in their slots, and what they should be is known.
Copied(v, p) ==
    /\ PlanOf(v, journal.op, p) /\ Contents(v) = owner
    /\ Agree(disk, WithCopies(v, p.slots), SlotsOf(p.slots))
    /\ Agree(cache, WithCopies(v, p.slots), SlotsOf(p.slots))
    /\ p.kept = Kept(WithCopies(v, p.slots), p.slots)

Unmoved(v) == disk = cache /\ Agree(cache, v, Carries(v))
Placing(v, p) ==
    /\ Nears(proc.todo, disk, cache, NewLayout(v, p), SlotsOf(p.slots), TargetCells(p), UsedCells(v, p))
    /\ Agree(disk, v, Metadata) /\ Agree(cache, v, Metadata)
Remapping(v, p) ==
    Nears(proc.todo, disk, cache, NewLayout(v, p), SlotsOf(p.slots), Metadata, Carries(NewLayout(v, p)))
Restoring(v, p) ==
    Nears(proc.todo, disk, cache, WithCopies(v, p.slots), SlotsOf(p.slots), Carries(v), Carries(v))

\* Blocks of v move, or are put back.
Midway(v, p) ==
    /\ Copied(v, p)
    /\ proc.pc = "placing" => Placing(v, p)
    /\ proc.pc = "metadata" => Remapping(v, p)
    /\ proc.pc = "restoring" => Restoring(v, p)
    /\ proc.pc \in {"cleanup", "retire"} => Unmoved(v)

ExtDirect ==
    /\ journal.phase \in QuietPhases => Quiet
    /\ proc.pc = "staging" => \E v : Staging(v, journal.plan)
    /\ proc.pc = "staged" => \E v : Copied(v, journal.plan) /\ Unmoved(v)
    /\ journal.phase \in RestoredPhases => \E v : Midway(v, journal.plan)
    /\ journal.phase \in DonePhases => disk = cache /\ Verified(cache, journal.op, journal.plan)

\* The journal binds Recover to write the image.
Bound == journal.phase \in {"commit", "verifying-source"} /\ stage.state = "whole"
ExtCommit ==
    /\ journal.phase = "commit" => stage.state = "whole"
    /\ Bound => /\ Verified(stage.image, journal.op, journal.plan)
                /\ journal.offset \in 0..Len(AllocatedRanges(stage.image))
                /\ Written(disk, stage.image, journal.offset)
                /\ Written(cache, stage.image, journal.offset)
    /\ proc.pc \in {"commit", "record", "committed"} =>
          \E k \in 0..Len(AllocatedRanges(stage.image)) :
             /\ journal.offset <= k /\ proc.todo = Rest(stage.image, k) /\ Written(cache, stage.image, k)
             /\ proc.pc = "committed" => k = Len(AllocatedRanges(stage.image))
    /\ proc.pc \in {"record", "committed"} => disk = cache

ExtInv == worker = "ext" /\ ExtShape /\ ExtPlanned /\ ExtDirect /\ ExtCommit

-----------------------------------------------------------------------------
(* The records of the worker.                                              *)

\* What a worker remembers when its step or its script changes.
LEMMA RemembersOn ==
  ASSUME NEW p, Remembers(p)
  PROVE  /\ \A x : LET q == [p EXCEPT !.pc = x]
                   IN Remembers(q) /\ q.pc = x /\ q.op = p.op /\ q.todo = p.todo
         /\ \A y : LET q == [p EXCEPT !.todo = y]
                   IN Remembers(q) /\ q.pc = p.pc /\ q.op = p.op /\ q.todo = y
<1>1. CASE p = [pc |-> p.pc, op |-> p.op, todo |-> p.todo]
  <2>1. ASSUME NEW x PROVE [p EXCEPT !.pc = x] = [pc |-> x, op |-> p.op, todo |-> p.todo]
    BY <1>1
  <2>2. ASSUME NEW y PROVE [p EXCEPT !.todo = y] = [pc |-> p.pc, op |-> p.op, todo |-> y]
    BY <1>1
  <2>. QED BY <2>1, <2>2 DEF Remembers
<1>2. CASE p = [pc |-> p.pc, op |-> p.op, todo |-> p.todo, size |-> p.size]
  <2>1. ASSUME NEW x PROVE [p EXCEPT !.pc = x] = [pc |-> x, op |-> p.op, todo |-> p.todo, size |-> p.size]
    BY <1>2
  <2>2. ASSUME NEW y PROVE [p EXCEPT !.todo = y] = [pc |-> p.pc, op |-> p.op, todo |-> y, size |-> p.size]
    BY <1>2
  <2>. QED BY <2>1, <2>2 DEF Remembers
<1>. QED BY <1>1, <1>2 DEF Remembers

\* What a worker that begins a script remembers.
LEMMA Begins ==
  ASSUME NEW pc, NEW op, NEW todo, NEW q,
         q = Doer(pc, op, todo) \/ q = [pc |-> pc, op |-> op, todo |-> todo]
  PROVE  Remembers(q) /\ q.pc = pc /\ q.op = op /\ q.todo = todo
<1>1. CASE q = Doer(pc, op, todo)
  BY <1>1 DEF Doer, Remembers
<1>2. CASE q = [pc |-> pc, op |-> op, todo |-> todo]
  BY <1>2 DEF Remembers
<1>. QED BY <1>1, <1>2

\* A journal and its parts.
JournalOf(phase, op, offset, plan) == [phase |-> phase, op |-> op, offset |-> offset, plan |-> plan]

\* The parts of a journal are its parts.
LEMMA JournalOfIs ==
  \A phase, op, offset, plan : \A k : k = JournalOf(phase, op, offset, plan) =>
     IsJournal(k) /\ k.phase = phase /\ k.op = op /\ k.offset = offset /\ k.plan = plan
  BY DEF IsJournal, JournalOf

\* A journal whose phase changes.
LEMMA JournalPhase ==
  ASSUME NEW j, IsJournal(j), NEW x, NEW k, k = [j EXCEPT !.phase = x]
  PROVE  IsJournal(k) /\ k.phase = x /\ k.op = j.op /\ k.offset = j.offset /\ k.plan = j.plan
<1>1. j = JournalOf(j.phase, j.op, j.offset, j.plan)
  BY DEF IsJournal, JournalOf
<1>2. [j EXCEPT !.phase = x] = JournalOf(x, j.op, j.offset, j.plan)
  BY <1>1 DEF JournalOf
<1>. QED BY <1>2, JournalOfIs

\* A journal whose plan changes.
LEMMA JournalPlan ==
  ASSUME NEW j, IsJournal(j), NEW y, NEW k, k = [j EXCEPT !.plan = y]
  PROVE  IsJournal(k) /\ k.phase = j.phase /\ k.op = j.op /\ k.offset = j.offset /\ k.plan = y
<1>1. j = JournalOf(j.phase, j.op, j.offset, j.plan)
  BY DEF IsJournal, JournalOf
<1>2. [j EXCEPT !.plan = y] = JournalOf(j.phase, j.op, j.offset, y)
  BY <1>1 DEF JournalOf
<1>. QED BY <1>2, JournalOfIs

\* A journal whose offset changes.
LEMMA JournalOffset ==
  ASSUME NEW j, IsJournal(j), NEW y, NEW k, k = [j EXCEPT !.offset = y]
  PROVE  IsJournal(k) /\ k.phase = j.phase /\ k.op = j.op /\ k.offset = y /\ k.plan = j.plan
<1>1. j = JournalOf(j.phase, j.op, j.offset, j.plan)
  BY DEF IsJournal, JournalOf
<1>2. [j EXCEPT !.offset = y] = JournalOf(j.phase, j.op, y, j.plan)
  BY <1>1 DEF JournalOf
<1>. QED BY <1>2, JournalOfIs

\* The phases by the steps of the worker.
LEMMA PhasesAt ==
  /\ \A pc \in {"plan", "clone", "prepared"} : PhaseAt(pc) = {"preflight"}
  /\ PhaseAt("plan-stage") = {"cloning"} /\ PhaseAt("arrange") = {"arranging"} /\ PhaseAt("check") = {"verifying-stage"}
  /\ \A pc \in {"commit", "record", "committed"} : PhaseAt(pc) = {"commit"}
  /\ PhaseAt("verify-source") = {"verifying-source"}
  /\ PhaseAt("staging") = {"direct-staging"} /\ PhaseAt("staged") = {"direct-staged"}
  /\ PhaseAt("placing") = {"direct-placing"} /\ PhaseAt("metadata") = {"direct-metadata"}
  /\ PhaseAt("verifying") = {"direct-verifying"}
  /\ \A pc \in {"restore", "restoring"} : PhaseAt(pc) = RestoredPhases
  /\ \A pc \in {"cleanup", "retire"} : PhaseAt(pc) = ExtPhases \ {"none", "commit"}
  /\ \A pc : pc \notin Idling \union {"commit", "record", "committed", "staging", "placing", "metadata",
                                      "restore", "restoring", "cleanup", "retire"} => PhaseAt(pc) = {}
<1>1. /\ \A pc \in {"plan", "clone", "prepared"} : PhaseAt(pc) = {"preflight"}
      /\ PhaseAt("plan-stage") = {"cloning"} /\ PhaseAt("arrange") = {"arranging"} /\ PhaseAt("check") = {"verifying-stage"}
      /\ \A pc \in {"commit", "record", "committed"} : PhaseAt(pc) = {"commit"}
      /\ PhaseAt("verify-source") = {"verifying-source"}
  BY DEF PhaseAt
<1>2. /\ PhaseAt("staging") = {"direct-staging"} /\ PhaseAt("staged") = {"direct-staged"}
      /\ PhaseAt("placing") = {"direct-placing"} /\ PhaseAt("metadata") = {"direct-metadata"}
      /\ PhaseAt("verifying") = {"direct-verifying"}
  BY DEF PhaseAt
<1>3. /\ \A pc \in {"restore", "restoring"} : PhaseAt(pc) = RestoredPhases
      /\ \A pc \in {"cleanup", "retire"} : PhaseAt(pc) = ExtPhases \ {"none", "commit"}
  BY DEF PhaseAt
<1>4. \A pc : pc \notin Idling \union {"commit", "record", "committed", "staging", "placing", "metadata",
                                      "restore", "restoring", "cleanup", "retire"} => PhaseAt(pc) = {}
  BY DEF PhaseAt, Idling
<1>. QED BY <1>1, <1>2, <1>3, <1>4

\* A worker that runs has a journal, in the phase it says.
LEMMA Working ==
  ASSUME ExtShape, proc.pc # "down"
  PROVE  /\ Remembers(proc) /\ proc.op = journal.op /\ journal # NoJournal /\ IsJournal(journal)
         /\ journal.phase \in PhaseAt(proc.pc) /\ journal.phase \in ExtPhases \ {"none"}
         /\ proc.pc \in Idling \union {"commit", "record", "committed", "staging", "placing", "metadata",
                                      "restore", "restoring", "cleanup", "retire"}
<1>1. Remembers(proc) /\ journal.phase \in PhaseAt(proc.pc) /\ proc.op = journal.op
  BY DEF ExtShape, Idle
<1>2. proc.pc \in Idling \union {"commit", "record", "committed", "staging", "placing", "metadata",
                                      "restore", "restoring", "cleanup", "retire"}
  BY <1>1, PhasesAt
<1>3. "none" \notin PhaseAt(proc.pc)
  BY <1>2, PhasesAt DEF Idling, RestoredPhases
<1>4. journal # NoJournal
  BY <1>1, <1>3 DEF NoJournal
<1>. QED BY <1>1, <1>2, <1>4 DEF ExtShape

\* A worker that does not run.
LEMMA Resting ==
  ASSUME ExtShape, proc.pc = "down"
  PROVE  proc = Idle /\ (journal = NoJournal \/ (journal.phase \in ExtPhases \ {"none"} /\ IsJournal(journal)))
<1>1. "down" \notin Idling \union {"commit", "record", "committed", "staging", "placing", "metadata",
                                      "restore", "restoring", "cleanup", "retire"}
  BY DEF Idling
<1>2. PhaseAt("down") = {}
  BY <1>1, PhasesAt
<1>. QED BY <1>2 DEF ExtShape

-----------------------------------------------------------------------------
(* What a step leaves.                                                     *)

\* What the steps of the EXT worker do besides: what they write while the
\* command can be thrown away is free, an arranged image is never refused,
\* and a journal goes only at the end.
ExtKinds ==
    /\ UNCHANGED <<worker, owner, edits>>
    /\ journal.phase \in QuietPhases => OnlyFree(cache', cache)
    /\ proc.pc = "arrange" /\ journal'.phase = "verifying-stage" => proc'.pc = "check"
    /\ journal # NoJournal /\ journal' = NoJournal => proc.pc = "retire" /\ UNCHANGED <<disk, cache>>

\* A step that leaves the volume alone leaves what is known of it.
LEMMA AsideKeeps ==
  ASSUME UNCHANGED <<disk, cache, worker, owner>>
  PROVE  /\ Quiet => Quiet'
         /\ OnlyFree(cache', cache)
<1>1. OnlyFree(cache', cache)
  BY DEF OnlyFree
<1>. QED BY <1>1 DEF Quiet

-----------------------------------------------------------------------------
(* Steps that leave the volume alone.                                      *)

\* A worker that gives up before anything moved, or when all is done.
LEMMA ExtGivesUp ==
  ASSUME ExtInv, proc.pc # "down", journal.phase \in QuietPhases \union DonePhases, GiveUp
  PROVE  ExtInv' /\ ExtKinds
<1>a. worker = "ext" /\ ExtShape /\ ExtPlanned /\ ExtDirect /\ ExtCommit
  BY DEF ExtInv
<1>b. /\ Remembers(proc) /\ proc.op = journal.op /\ journal # NoJournal /\ IsJournal(journal)
      /\ journal.phase \in PhaseAt(proc.pc) /\ journal.phase \in ExtPhases \ {"none"}
  BY <1>a, Working
<1>1. UNCHANGED <<disk, cache, faults, worker, owner, edits, stage, journal>> /\ proc' = [proc EXCEPT !.pc = "cleanup"]
  BY DEF GiveUp, Goto, files, Aside, world
<1>2. Remembers(proc') /\ proc'.pc = "cleanup" /\ proc'.op = proc.op
  BY <1>b, <1>1, RemembersOn
<1>3. ExtShape'
  <2>1. journal'.phase \in PhaseAt(proc'.pc)
    BY <1>b, <1>1, <1>2, PhasesAt DEF QuietPhases, DonePhases
  <2>2. proc'.pc \notin Idling
    BY <1>2 DEF Idling
  <2>. QED BY <1>a, <1>b, <1>1, <1>2, <2>1, <2>2 DEF ExtShape
<1>4. ExtPlanned'
  BY <1>2 DEF ExtPlanned
<1>5. ExtDirect'
  <2>1. journal.phase \in QuietPhases => Quiet'
    BY <1>a, <1>1, AsideKeeps DEF ExtDirect
  <2>2. journal.phase \in DonePhases => (disk = cache /\ Verified(cache, journal.op, journal.plan))'
    BY <1>a, <1>1 DEF ExtDirect, Verified
  <2>3. journal.phase \notin RestoredPhases
    BY DEF QuietPhases, DonePhases, RestoredPhases
  <2>. QED BY <1>1, <1>2, <2>1, <2>2, <2>3 DEF ExtDirect
<1>6. ExtCommit'
  BY <1>a, <1>1, <1>2 DEF ExtCommit, Bound, Verified, Written
<1>7. ExtKinds
  BY <1>b, <1>1, <1>2, AsideKeeps, PhasesAt DEF ExtKinds
<1>. QED BY <1>a, <1>1, <1>3, <1>4, <1>5, <1>6, <1>7 DEF ExtInv

\* A command starts.
LEMMA ExtPreflight ==
  ASSUME ExtInv, Preflight
  PROVE  ExtInv' /\ ExtKinds
<1>a. worker = "ext" /\ ExtShape /\ ExtPlanned /\ ExtDirect /\ ExtCommit
  BY DEF ExtInv
<1>1. PICK op \in Operations :
         /\ journal' = [phase |-> "preflight", op |-> op, offset |-> 0, plan |-> <<>>]
         /\ proc' = Doer("plan", op, <<>>)
  BY DEF Preflight
<1>2. /\ UNCHANGED <<disk, cache, faults, worker, owner, edits, stage>>
      /\ proc.pc = "down" /\ journal = NoJournal
  BY DEF Preflight, At, Aside, world
<1>3. Remembers(proc') /\ proc'.pc = "plan" /\ proc'.op = op /\ proc'.todo = <<>>
  BY <1>1, Begins
<1>4. journal'.phase = "preflight" /\ journal'.op = op /\ IsJournal(journal')
  BY <1>1 DEF IsJournal
<1>5. "preflight" \in ExtPhases \ {"none"} /\ "preflight" \in QuietPhases /\ "preflight" \notin DonePhases
      /\ "preflight" \notin RestoredPhases
  BY DEF ExtPhases, QuietPhases, DonePhases, RestoredPhases
<1>6. ExtShape'
  <2>1. journal'.phase \in PhaseAt(proc'.pc)
    BY <1>3, <1>4, PhasesAt
  <2>. QED BY <1>a, <1>2, <1>3, <1>4, <1>5, <2>1 DEF ExtShape
<1>7. ExtPlanned'
  BY <1>3 DEF ExtPlanned
<1>8. ExtDirect'
  <2>1. Quiet
    BY <1>a, <1>2 DEF ExtDirect, NoJournal, QuietPhases
  <2>. QED BY <1>2, <1>3, <1>4, <1>5, <2>1, AsideKeeps DEF ExtDirect
<1>9. ExtCommit'
  BY <1>3, <1>4 DEF ExtCommit, Bound
<1>10. ExtKinds
  BY <1>2, <1>4, AsideKeeps DEF ExtKinds, NoJournal
<1>. QED BY <1>a, <1>2, <1>6, <1>7, <1>8, <1>9, <1>10 DEF ExtInv

\* A worker whose step and journal change while the command can be thrown away.
Goes(pc, phase) ==
    /\ proc.pc # "down" /\ UNCHANGED <<disk, cache, faults, worker, owner, edits>>
    /\ journal.phase \in QuietPhases /\ phase \in QuietPhases \ {"none"}
    /\ Remembers(proc') /\ proc'.pc = pc /\ proc'.op = proc.op
    /\ IsJournal(journal') /\ journal'.phase = phase /\ journal'.op = journal.op
    /\ phase \in PhaseAt(pc)

\* What such a step keeps.
LEMMA ExtGoes ==
  ASSUME ExtInv, NEW pc, NEW phase, Goes(pc, phase),
         pc \in Idling => proc'.todo = <<>>,
         stage'.state \in {"none", "plan", "partial", "whole"}, stage'.state = "whole" => IsVolume(stage'.image),
         proc.pc = "arrange" /\ phase = "verifying-stage" => pc = "check"
  PROVE  /\ ExtShape' /\ Quiet /\ Quiet' /\ ExtKinds /\ worker' = "ext"
         /\ ExtCommit'
         /\ pc \notin {"staging", "staged"} => ExtDirect'
<1>a. worker = "ext" /\ ExtShape /\ ExtPlanned /\ ExtDirect /\ ExtCommit
  BY DEF ExtInv
<1>b. /\ proc.pc # "down" /\ UNCHANGED <<disk, cache, faults, worker, owner, edits>>
      /\ journal.phase \in QuietPhases /\ phase \in QuietPhases \ {"none"}
      /\ Remembers(proc') /\ proc'.pc = pc /\ proc'.op = proc.op
      /\ IsJournal(journal') /\ journal'.phase = phase /\ journal'.op = journal.op
      /\ phase \in PhaseAt(pc)
  BY DEF Goes
<1>c. proc.op = journal.op
  BY <1>a, <1>b, Working
<1>1. phase \in ExtPhases \ {"none"} /\ phase \notin DonePhases /\ phase \notin RestoredPhases
      /\ phase \notin {"commit", "verifying-source"}
  BY <1>b DEF ExtPhases, QuietPhases, DonePhases, RestoredPhases
<1>2. ExtShape'
  BY <1>a, <1>b, <1>c, <1>1 DEF ExtShape
<1>3. Quiet /\ Quiet'
  BY <1>a, <1>b, AsideKeeps DEF ExtDirect
<1>4. pc \notin {"commit", "record", "committed"}
  BY <1>b, <1>1, PhasesAt
<1>5. ExtCommit'
  BY <1>b, <1>1, <1>4 DEF ExtCommit, Bound
<1>6. ExtKinds
  <2>1. journal' # NoJournal
    BY <1>b, <1>1 DEF NoJournal
  <2>. QED BY <1>b, <2>1, AsideKeeps DEF ExtKinds
<1>7. pc \notin {"staging", "staged"} => ExtDirect'
  BY <1>b, <1>1, <1>3 DEF ExtDirect
<1>. QED BY <1>a, <1>b, <1>2, <1>3, <1>5, <1>6, <1>7

\* The planner ends the command, chooses the working image, or prepares the workspace.
LEMMA ExtPlanDirect ==
  ASSUME ExtInv, PlanDirect
  PROVE  ExtInv' /\ ExtKinds
<1>a. worker = "ext" /\ ExtShape /\ ExtPlanned /\ ExtDirect /\ ExtCommit
  BY DEF ExtInv
<1>1. proc.pc = "plan" /\ Aside
  BY DEF PlanDirect, At
<1>2. /\ Remembers(proc) /\ proc.op = journal.op /\ IsJournal(journal) /\ journal.phase = "preflight"
      /\ proc.todo = <<>>
  BY <1>a, <1>1, Working, PhasesAt DEF ExtShape, Idling
<1>3. UNCHANGED <<disk, cache, faults, worker, owner, edits>>
  BY <1>1 DEF Aside, world
<1>4. "preflight" \in QuietPhases \ {"none"} /\ proc.pc # "down"
  BY <1>1 DEF QuietPhases
<1>5. PICK plan \in {ExtAssignTargets(cache, proc.op)} : \E db \in {PopulatePlan(cache, plan)} :
         LET moves == MoveCount(cache, db)
             start == FindHighWorkspace(cache, db, proc.op)
         IN \/ Goto("cleanup") /\ UNCHANGED files
            \/ CatalogPlan(cache) /\ plan.fits /\ Goto("clone") /\ UNCHANGED files
            \/ /\ CatalogPlan(cache) /\ plan.fits /\ moves # 0 /\ start # 0
               /\ stage' = PlanFile
               /\ journal' = [journal EXCEPT !.plan = PrepareWorkspace(cache, db, proc.op, start)]
               /\ Goto("prepared")
  BY DEF PlanDirect
<1>6. PICK db \in {PopulatePlan(cache, plan)} :
            \/ Goto("cleanup") /\ UNCHANGED files
            \/ CatalogPlan(cache) /\ plan.fits /\ Goto("clone") /\ UNCHANGED files
            \/ /\ plan.fits /\ FindHighWorkspace(cache, db, proc.op) # 0
               /\ stage' = PlanFile
               /\ journal' = [journal EXCEPT !.plan = PrepareWorkspace(cache, db, proc.op, FindHighWorkspace(cache, db, proc.op))]
               /\ Goto("prepared")
  BY <1>5
<1>7. plan = ExtAssignTargets(cache, proc.op) /\ db = PopulatePlan(cache, plan)
  BY <1>5, <1>6
<1>8. Quiet /\ IsVolume(cache)
  BY <1>a, <1>2, <1>4 DEF ExtDirect, ExtShape
<1>9. CASE Goto("cleanup") /\ UNCHANGED files
  BY <1>1, <1>2, <1>4, <1>9, ExtGivesUp DEF GiveUp
<1>10. CASE plan.fits /\ Goto("clone") /\ UNCHANGED files
  <2>1. proc' = [proc EXCEPT !.pc = "clone"] /\ stage' = stage /\ journal' = journal
    BY <1>10 DEF Goto, files
  <2>2. Remembers(proc') /\ proc'.pc = "clone" /\ proc'.op = proc.op /\ proc'.todo = <<>>
    BY <1>2, <2>1, RemembersOn
  <2>3. Goes("clone", "preflight")
    BY <1>2, <1>3, <1>4, <2>1, <2>2, PhasesAt DEF Goes
  <2>4. stage'.state \in {"none", "plan", "partial", "whole"} /\ (stage'.state = "whole" => IsVolume(stage'.image))
    BY <1>a, <2>1 DEF ExtShape
  <2>5. ExtShape' /\ ExtKinds /\ worker' = "ext" /\ ExtCommit' /\ ExtDirect'
    BY <1>1, <2>2, <2>3, <2>4, ExtGoes
  <2>6. ExtPlanned'
    <3>1. AssignTargets(cache', proc'.op, FileOrder).fits
      BY <1>3, <1>7, <1>10, <2>2 DEF ExtAssignTargets
    <3>. QED BY <2>2, <3>1 DEF ExtPlanned
  <2>. QED BY <2>5, <2>6 DEF ExtInv
<1>11. CASE /\ plan.fits /\ FindHighWorkspace(cache, db, proc.op) # 0
            /\ stage' = PlanFile
            /\ journal' = [journal EXCEPT !.plan = PrepareWorkspace(cache, db, proc.op, FindHighWorkspace(cache, db, proc.op))]
            /\ Goto("prepared")
  <2>. DEFINE start == FindHighWorkspace(cache, db, proc.op)
              p == PrepareWorkspace(cache, db, proc.op, start)
  <2>1. PlanOf(cache, proc.op, p) /\ HasParts(p)
    BY <1>7, <1>8, <1>11, PreparedIsPlan DEF Quiet
  <2>2. journal' = [journal EXCEPT !.plan = p] /\ proc' = [proc EXCEPT !.pc = "prepared"]
    BY <1>11 DEF Goto
  <2>. HIDE DEF p
  <2>3. Remembers(proc') /\ proc'.pc = "prepared" /\ proc'.op = proc.op /\ proc'.todo = <<>>
    BY <1>2, <2>2, RemembersOn
  <2>4. IsJournal(journal') /\ journal'.phase = "preflight" /\ journal'.op = journal.op /\ journal'.plan = p
    BY <1>2, <2>2, JournalPlan
  <2>5. Goes("prepared", "preflight")
    BY <1>2, <1>3, <1>4, <2>3, <2>4, PhasesAt DEF Goes
  <2>6. stage'.state = "plan"
    BY <1>11 DEF PlanFile
  <2>7. ExtShape' /\ ExtKinds /\ worker' = "ext" /\ ExtCommit' /\ ExtDirect'
    BY <1>1, <2>3, <2>5, <2>6, ExtGoes
  <2>8. ExtPlanned'
    <3>1. PlanOf(cache', journal'.op, journal'.plan) /\ HasParts(journal'.plan)
      BY <1>2, <1>3, <2>1, <2>4
    <3>. QED BY <2>3, <3>1 DEF ExtPlanned
  <2>. QED BY <2>7, <2>8 DEF ExtInv
<1>. QED BY <1>6, <1>9, <1>10, <1>11

\* The end of a script: what it writes is on the disk.
LEMMA NearsEnd ==
  ASSUME NEW d, NEW c, NEW goal, NEW keep, NEW reach, NEW area, Nears(<<>>, d, c, goal, keep, reach, area)
  PROVE  d = c /\ IsVolume(c) /\ Agree(c, goal, keep) /\ Agree(c, goal, area)
<1>1. Unwritten(<<>>) = {}
  BY DEF Unwritten
<1>. QED BY <1>1 DEF Nears, Agree

\* A plan that says what the copies should be is the same plan.
LEMMA KeptPlan ==
  ASSUME NEW v, NEW op, NEW p, PlanOf(v, op, p), HasParts(p), NEW y, NEW q, q = [p EXCEPT !.kept = y]
  PROVE  PlanOf(v, op, q) /\ q.slots = p.slots /\ q.kept = y
<1>1. /\ q.start = p.start /\ q.digest = p.digest /\ q.moves = p.moves /\ q.reserves = p.reserves
      /\ q.maps = p.maps /\ q.used = p.used /\ q.slots = p.slots /\ q.kept = y
  BY DEF HasParts
<1>2. /\ Moves(v, q) = Moves(v, p) /\ TargetRanges(q) = TargetRanges(p)
      /\ ReserveRanges(q, op) = ReserveRanges(p, op)
      /\ AimsWell(v, op, p) => AimsWell(v, op, q)
  BY <1>1, SamePlan
<1>. QED BY <1>1, <1>2 DEF PlanOf

\* A worker that goes on to the next phase with a script.
LEMMA Advances ==
  ASSUME ExtShape, NEW from, from # "down", NEW phase, NEW to, NEW todo, Advance(from, phase, to, todo)
  PROVE  /\ proc.pc = from /\ proc.todo = <<>>
         /\ UNCHANGED <<disk, cache, stage, faults, worker, owner, edits>>
         /\ Remembers(proc') /\ proc'.pc = to /\ proc'.op = proc.op /\ proc'.todo = todo
         /\ IsJournal(journal') /\ journal'.phase = phase /\ journal'.op = journal.op
         /\ journal'.offset = journal.offset /\ journal'.plan = journal.plan
<1>1. proc.pc = from /\ proc.todo = <<>> /\ UNCHANGED <<disk, cache, stage, faults, worker, owner, edits>>
  BY DEF Advance, Finished, At, Record, Aside, world
<1>2. proc' = Doer(to, proc.op, todo) /\ journal' = [journal EXCEPT !.phase = phase]
  BY DEF Advance, Begin, Record
<1>3. IsJournal(journal)
  BY <1>1, Working
<1>4. Remembers(proc') /\ proc'.pc = to /\ proc'.op = proc.op /\ proc'.todo = todo
  BY <1>2, Begins
<1>5. /\ IsJournal(journal') /\ journal'.phase = phase /\ journal'.op = journal.op
      /\ journal'.offset = journal.offset /\ journal'.plan = journal.plan
  BY <1>2, <1>3, JournalPhase
<1>. QED BY <1>1, <1>4, <1>5

\* The copies into the workspace begin.
LEMMA ExtEnterStaging ==
  ASSUME ExtInv, EnterStaging
  PROVE  ExtInv' /\ ExtKinds
<1>a. worker = "ext" /\ ExtShape /\ ExtPlanned /\ ExtDirect /\ ExtCommit
  BY DEF ExtInv
<1>. DEFINE todo == CopyWorkspaceRuns(WorkspaceRows(journal.plan))
<1>1. Advance("prepared", "direct-staging", "staging", todo)
  BY DEF EnterStaging
<1>. HIDE DEF todo
<1>2. /\ proc.pc = "prepared" /\ proc.todo = <<>>
      /\ UNCHANGED <<disk, cache, stage, faults, worker, owner, edits>>
      /\ Remembers(proc') /\ proc'.pc = "staging" /\ proc'.op = proc.op /\ proc'.todo = todo
      /\ IsJournal(journal') /\ journal'.phase = "direct-staging" /\ journal'.op = journal.op
      /\ journal'.plan = journal.plan
  BY <1>a, <1>1, Advances
<1>3. journal.phase = "preflight"
  BY <1>a, <1>2, Working, PhasesAt
<1>4. Goes("staging", "direct-staging")
  BY <1>2, <1>3, PhasesAt DEF Goes, QuietPhases
<1>5. stage'.state \in {"none", "plan", "partial", "whole"} /\ (stage'.state = "whole" => IsVolume(stage'.image))
  BY <1>a, <1>2 DEF ExtShape
<1>6. "staging" \notin Idling
  BY DEF Idling
<1>7. ExtShape' /\ Quiet /\ Quiet' /\ ExtKinds /\ worker' = "ext" /\ ExtCommit'
  BY <1>2, <1>4, <1>5, <1>6, ExtGoes
<1>8. ExtPlanned'
  BY <1>2 DEF ExtPlanned
<1>9. ExtDirect'
  <2>1. PlanOf(cache, journal.op, journal.plan) /\ HasParts(journal.plan)
    BY <1>a, <1>2 DEF ExtPlanned
  <2>2. IsVolume(disk) /\ OnlyFree(disk, cache)
    BY <1>a, <1>7 DEF ExtShape, Quiet
  <2>3. Nears(todo, disk, cache, WithCopies(cache, journal.plan.slots), Carries(cache),
              SlotsOf(journal.plan.slots), SlotsOf(journal.plan.slots))
    BY <2>1, <2>2, StagingNears DEF todo
  <2>4. \E v : Staging(v, journal.plan)'
    <3>. WITNESS cache
    <3>. QED BY <1>2, <2>1, <2>3 DEF Staging
  <2>5. journal'.phase \notin RestoredPhases \union DonePhases
    BY <1>2 DEF RestoredPhases, DonePhases
  <2>. QED BY <1>2, <1>7, <2>4, <2>5 DEF ExtDirect
<1>. QED BY <1>7, <1>8, <1>9 DEF ExtInv

\* The copies in the workspace are those of the originals, or the command ends.
LEMMA ExtFinishStaging ==
  ASSUME ExtInv, FinishStaging
  PROVE  ExtInv' /\ ExtKinds
<1>a. worker = "ext" /\ ExtShape /\ ExtPlanned /\ ExtDirect /\ ExtCommit
  BY DEF ExtInv
<1>1. proc.pc = "staging" /\ proc.todo = <<>> /\ stage' = stage /\ UNCHANGED <<disk, cache, faults, worker, owner, edits>>
  BY DEF FinishStaging, Finished, At, Aside, world
<1>2. /\ Remembers(proc) /\ proc.op = journal.op /\ IsJournal(journal) /\ journal.phase = "direct-staging"
  BY <1>a, <1>1, Working, PhasesAt
<1>3. journal.phase \in QuietPhases /\ proc.pc # "down"
  BY <1>1, <1>2 DEF QuietPhases
<1>. DEFINE p == journal.plan
            y == Kept(cache, p.slots)
<1>4. CASE Goto("cleanup") /\ UNCHANGED journal
  BY <1>1, <1>3, <1>4, ExtGivesUp DEF GiveUp, files, Aside, world
<1>5. CASE journal' = [journal EXCEPT !.phase = "direct-staged", !.plan.kept = y] /\ Goto("staged")
  <2>1. /\ IsJournal(journal') /\ journal'.phase = "direct-staged" /\ journal'.op = journal.op
        /\ journal'.plan = [p EXCEPT !.kept = y]
    <3>. DEFINE i == [journal EXCEPT !.phase = "direct-staged"]
                z == [i.plan EXCEPT !.kept = y]
    <3>. HIDE DEF y
    <3>1. journal' = [i EXCEPT !.plan = z]
      BY <1>5
    <3>. HIDE DEF i, z
    <3>2. IsJournal(i) /\ i.phase = "direct-staged" /\ i.op = journal.op /\ i.plan = p
      BY <1>2, JournalPhase DEF i
    <3>3. IsJournal(journal') /\ journal'.phase = i.phase /\ journal'.op = i.op /\ journal'.plan = z
      BY <3>1, <3>2, JournalPlan
    <3>. QED BY <3>2, <3>3 DEF z
  <2>2. Remembers(proc') /\ proc'.pc = "staged" /\ proc'.op = proc.op /\ proc'.todo = <<>>
    <3>1. proc' = [proc EXCEPT !.pc = "staged"]
      BY <1>5 DEF Goto
    <3>. QED BY <1>1, <1>2, <3>1, RemembersOn
  <2>3. Goes("staged", "direct-staged")
    BY <1>1, <1>2, <1>3, <2>1, <2>2, PhasesAt DEF Goes, QuietPhases
  <2>4. stage'.state \in {"none", "plan", "partial", "whole"} /\ (stage'.state = "whole" => IsVolume(stage'.image))
    BY <1>a, <1>1 DEF ExtShape
  <2>5. ExtShape' /\ Quiet /\ Quiet' /\ ExtKinds /\ worker' = "ext" /\ ExtCommit'
    BY <1>1, <2>2, <2>3, <2>4, ExtGoes
  <2>6. ExtPlanned'
    BY <2>2 DEF ExtPlanned
  <2>7. PICK v : Staging(v, p)
    BY <1>a, <1>1 DEF ExtDirect
  <2>8. /\ PlanOf(v, journal.op, p) /\ HasParts(p)
        /\ Nears(<<>>, disk, cache, WithCopies(v, p.slots), Carries(v), SlotsOf(p.slots), SlotsOf(p.slots))
    BY <1>1, <2>7 DEF Staging
  <2>. DEFINE q == journal'.plan
  <2>. HIDE DEF p
  <2>9. disk = cache /\ Agree(cache, WithCopies(v, p.slots), Carries(v)) /\ Agree(cache, WithCopies(v, p.slots), SlotsOf(p.slots))
    BY <2>8, NearsEnd
  <2>10. PlanOf(v, journal.op, q) /\ q.slots = p.slots /\ q.kept = y
    <3>1. q = [p EXCEPT !.kept = y]
      BY <2>1
    <3>. HIDE DEF q, y
    <3>. QED BY <2>8, <3>1, KeptPlan
  <2>11. Agree(WithCopies(v, p.slots), v, Carries(v)) /\ Exclusive(v)
    <3>1. IsVolume(v) /\ IsShelf(v, p.slots, TargetRanges(p) \union ReserveRanges(p, journal.op)) /\ Exclusive(v)
      BY <2>8 DEF PlanOf, Sound
    <3>. QED BY <3>1, CopiesAre
  <2>12. Agree(cache, v, Carries(v))
    BY <2>9, <2>11 DEF Agree
  <2>13. Contents(v) = owner
    BY <2>5, <2>11, <2>12, AgreeIsSame DEF Quiet
  <2>14. y = Kept(WithCopies(v, p.slots), p.slots)
    BY <2>9 DEF y, Kept, Agree, SlotsOf
  <2>. HIDE DEF q, y
  <2>15. ExtDirect'
    <3>1. \E w : (Copied(w, journal.plan) /\ Unmoved(w))'
      <4>. WITNESS v
      <4>. QED BY <1>1, <2>1, <2>9, <2>10, <2>12, <2>13, <2>14 DEF Copied, Unmoved, q
    <3>2. journal'.phase \notin RestoredPhases \union DonePhases
      BY <2>1 DEF RestoredPhases, DonePhases
    <3>. QED BY <2>2, <2>5, <3>1, <3>2 DEF ExtDirect
  <2>. QED BY <2>5, <2>6, <2>15 DEF ExtInv
<1>. QED BY <1>4, <1>5 DEF FinishStaging

-----------------------------------------------------------------------------
(* The working image is built.                                             *)

\* The working image is a copy of what the volume carries.
LEMMA ExtCreateStage ==
  ASSUME ExtInv, CreateStage
  PROVE  ExtInv' /\ ExtKinds
<1>a. worker = "ext" /\ ExtShape /\ ExtPlanned /\ ExtDirect /\ ExtCommit
  BY DEF ExtInv
<1>. DEFINE w == CopyUsed(cache)
<1>1. /\ proc.pc = "clone" /\ stage' = Whole(w) /\ journal' = [journal EXCEPT !.phase = "cloning"]
      /\ proc' = [proc EXCEPT !.pc = "plan-stage"] /\ UNCHANGED <<disk, cache, faults, worker, owner, edits>>
  BY DEF CreateStage, At, Goto, Aside, world
<1>. HIDE DEF w
<1>2. /\ Remembers(proc) /\ proc.op = journal.op /\ IsJournal(journal) /\ journal.phase = "preflight"
      /\ proc.todo = <<>>
  BY <1>a, <1>1, Working, PhasesAt DEF ExtShape, Idling
<1>3. Remembers(proc') /\ proc'.pc = "plan-stage" /\ proc'.op = proc.op /\ proc'.todo = <<>>
  BY <1>1, <1>2, RemembersOn
<1>4. IsJournal(journal') /\ journal'.phase = "cloning" /\ journal'.op = journal.op
  BY <1>1, <1>2, JournalPhase
<1>5. Goes("plan-stage", "cloning")
  BY <1>1, <1>2, <1>3, <1>4, PhasesAt DEF Goes, QuietPhases
<1>6. stage'.state = "whole" /\ stage'.image = w
  BY <1>1 DEF Whole
<1>7. Quiet /\ IsVolume(cache)
  BY <1>a, <1>2 DEF ExtDirect, ExtShape, QuietPhases
<1>8. IsVolume(w) /\ Agree(w, cache, Carries(cache)) /\ Sound(w) /\ Contents(w) = Contents(cache)
  BY <1>7, CopyUsedIs DEF w, Quiet
<1>9. ExtShape' /\ ExtKinds /\ worker' = "ext" /\ ExtCommit' /\ ExtDirect'
  BY <1>1, <1>3, <1>5, <1>6, <1>8, ExtGoes
<1>10. AssignTargets(w, proc.op, FileOrder).fits
  BY <1>a, <1>1, <1>7, <1>8, PlanSame DEF ExtPlanned, Quiet, Sound
<1>11. Contents(w) = owner
  BY <1>7, <1>8 DEF Quiet
<1>12. ExtPlanned'
  BY <1>1, <1>3, <1>6, <1>8, <1>10, <1>11 DEF ExtPlanned
<1>. QED BY <1>9, <1>12 DEF ExtInv

\* The scan order is an order in which every file has its turn.
LEMMA ScanIsComplete == Complete(FileOrder)
<1>1. \A f \in Files : f \in 1..Cardinality(Files)
  BY FilesAssumption
<1>. QED BY <1>1, FileNumbers DEF Complete

\* The targets in the working image are planned.
LEMMA ExtPlanStage ==
  ASSUME ExtInv, PlanStage
  PROVE  ExtInv' /\ ExtKinds
<1>a. worker = "ext" /\ ExtShape /\ ExtPlanned /\ ExtDirect /\ ExtCommit
  BY DEF ExtInv
<1>. DEFINE db == PopulatePlan(stage.image, ExtAssignTargets(stage.image, proc.op))
<1>1. /\ proc.pc = "plan-stage" /\ stage' = stage /\ journal' = [journal EXCEPT !.phase = "arranging", !.plan = db]
      /\ proc' = [proc EXCEPT !.pc = "arrange"] /\ UNCHANGED <<disk, cache, faults, worker, owner, edits>>
  BY DEF PlanStage, At, Goto, Aside, world
<1>2. /\ Remembers(proc) /\ proc.op = journal.op /\ IsJournal(journal) /\ journal.phase = "cloning"
      /\ proc.todo = <<>>
  BY <1>a, <1>1, Working, PhasesAt DEF ExtShape, Idling
<1>3. Remembers(proc') /\ proc'.pc = "arrange" /\ proc'.op = proc.op /\ proc'.todo = <<>>
  BY <1>1, <1>2, RemembersOn
<1>4. IsJournal(journal') /\ journal'.phase = "arranging" /\ journal'.op = journal.op /\ journal'.plan = db
  <2>. DEFINE i == [journal EXCEPT !.phase = "arranging"]
  <2>. HIDE DEF db
  <2>1. journal' = [i EXCEPT !.plan = db]
    BY <1>1
  <2>. HIDE DEF i
  <2>2. IsJournal(i) /\ i.phase = "arranging" /\ i.op = journal.op
    BY <1>2, JournalPhase DEF i
  <2>3. IsJournal(journal') /\ journal'.phase = i.phase /\ journal'.op = i.op /\ journal'.plan = db
    BY <2>1, <2>2, JournalPlan
  <2>. QED BY <2>2, <2>3
<1>5. Goes("arrange", "arranging")
  BY <1>1, <1>2, <1>3, <1>4, PhasesAt DEF Goes, QuietPhases
<1>6. /\ stage.state = "whole" /\ Sound(stage.image) /\ Contents(stage.image) = owner /\ IsVolume(stage.image)
      /\ AssignTargets(stage.image, proc.op, FileOrder).fits
  BY <1>a, <1>1 DEF ExtPlanned, ExtShape
<1>7. ExtShape' /\ ExtKinds /\ worker' = "ext" /\ ExtCommit' /\ ExtDirect'
  BY <1>1, <1>3, <1>5, <1>6, ExtGoes
<1>8. AimsWell(stage.image, proc.op, db)
  <2>1. db.start = AssignTargets(stage.image, proc.op, FileOrder).start /\ db.digest = Contents(stage.image)
    BY DEF PopulatePlan, ExtAssignTargets
  <2>. HIDE DEF db
  <2>. QED BY <1>6, <2>1, ScanIsComplete, AssignedAimsWell
<1>9. ExtPlanned'
  BY <1>1, <1>3, <1>4, <1>6, <1>8 DEF ExtPlanned
<1>. QED BY <1>7, <1>9 DEF ExtInv

\* The working image is arranged, and always verified.
LEMMA ExtArrangeStage ==
  ASSUME ExtInv, ArrangeStage
  PROVE  ExtInv' /\ ExtKinds
<1>a. worker = "ext" /\ ExtShape /\ ExtPlanned /\ ExtDirect /\ ExtCommit
  BY DEF ExtInv
<1>. DEFINE db == journal.plan
            w == ArrangedImage(stage.image, db, Moves(stage.image, db))
<1>1. /\ proc.pc = "arrange" /\ journal' = [journal EXCEPT !.phase = "verifying-stage"]
      /\ UNCHANGED <<disk, cache, faults, worker, owner, edits>>
  BY DEF ArrangeStage, At, Aside, world
<1>2. IF VerifyStage(w, db, proc.op) THEN stage' = Whole(w) /\ Goto("check") ELSE UNCHANGED stage /\ Goto("cleanup")
  BY DEF ArrangeStage
<1>3. /\ Remembers(proc) /\ proc.op = journal.op /\ IsJournal(journal) /\ journal.phase = "arranging"
      /\ proc.todo = <<>>
  BY <1>a, <1>1, Working, PhasesAt DEF ExtShape, Idling
<1>4. /\ stage.state = "whole" /\ Sound(stage.image) /\ Contents(stage.image) = owner /\ IsVolume(stage.image)
      /\ AimsWell(stage.image, proc.op, db)
  BY <1>a, <1>1 DEF ExtPlanned, ExtShape
<1>5. Verified(w, proc.op, db)
  <2>. DEFINE image == stage.image
  <2>1. /\ Sound(image) /\ Contents(image) = owner /\ IsVolume(image) /\ AimsWell(image, proc.op, db)
        /\ w = ArrangedImage(image, db, Moves(image, db))
    BY <1>4
  <2>. HIDE DEF image, db, w
  <2>. QED BY <2>1, ArrangedVerifies
<1>6. stage' = Whole(w) /\ proc' = [proc EXCEPT !.pc = "check"]
  BY <1>2, <1>5 DEF Verified, Goto
<1>. HIDE DEF w
<1>7. Remembers(proc') /\ proc'.pc = "check" /\ proc'.op = proc.op /\ proc'.todo = <<>>
  BY <1>3, <1>6, RemembersOn
<1>8. IsJournal(journal') /\ journal'.phase = "verifying-stage" /\ journal'.op = journal.op /\ journal'.plan = db
  BY <1>1, <1>3, JournalPhase
<1>9. Goes("check", "verifying-stage")
  BY <1>1, <1>3, <1>7, <1>8, PhasesAt DEF Goes, QuietPhases
<1>10. stage'.state = "whole" /\ stage'.image = w
  BY <1>6 DEF Whole
<1>11. IsVolume(w)
  BY <1>5 DEF Verified
<1>12. ExtShape' /\ ExtKinds /\ worker' = "ext" /\ ExtCommit' /\ ExtDirect'
  BY <1>1, <1>7, <1>9, <1>10, <1>11, ExtGoes
<1>13. ExtPlanned'
  BY <1>1, <1>3, <1>5, <1>7, <1>8, <1>10 DEF ExtPlanned, Verified
<1>. QED BY <1>12, <1>13 DEF ExtInv

\* The target is unchanged and the commit begins.
LEMMA ExtBeginCommit ==
  ASSUME ExtInv, CheckUnchangedTarget
  PROVE  ExtInv' /\ ExtKinds
<1>a. worker = "ext" /\ ExtShape /\ ExtPlanned /\ ExtDirect /\ ExtCommit
  BY DEF ExtInv
<1>. DEFINE image == stage.image
            todo == AllocatedRanges(image)
<1>1. /\ proc.pc = "check" /\ stage' = stage /\ journal' = [journal EXCEPT !.phase = "commit", !.offset = 0]
      /\ proc' = [proc EXCEPT !.pc = "commit", !.todo = todo] /\ UNCHANGED <<disk, cache, faults, worker, owner, edits>>
  BY DEF CheckUnchangedTarget, BeginCommit, At, Aside, world
<1>. HIDE DEF todo
<1>2. Remembers(proc) /\ proc.op = journal.op /\ IsJournal(journal) /\ journal.phase = "verifying-stage"
  BY <1>a, <1>1, Working, PhasesAt
<1>3. Remembers(proc') /\ proc'.pc = "commit" /\ proc'.op = proc.op /\ proc'.todo = todo
  <2>. DEFINE i == [proc EXCEPT !.pc = "commit"]
  <2>1. proc' = [i EXCEPT !.todo = todo]
    BY <1>1
  <2>. HIDE DEF i
  <2>2. Remembers(i) /\ i.pc = "commit" /\ i.op = proc.op
    BY <1>2, RemembersOn DEF i
  <2>3. Remembers(proc') /\ proc'.pc = i.pc /\ proc'.op = i.op /\ proc'.todo = todo
    BY <2>1, <2>2, RemembersOn
  <2>. QED BY <2>2, <2>3
<1>4. /\ IsJournal(journal') /\ journal'.phase = "commit" /\ journal'.op = journal.op /\ journal'.plan = journal.plan
      /\ journal'.offset = 0
  <2>. DEFINE i == [journal EXCEPT !.phase = "commit"]
  <2>1. journal' = [i EXCEPT !.offset = 0]
    BY <1>1
  <2>. HIDE DEF i
  <2>2. IsJournal(i) /\ i.phase = "commit" /\ i.op = journal.op /\ i.plan = journal.plan
    BY <1>2, JournalPhase DEF i
  <2>3. IsJournal(journal') /\ journal'.phase = i.phase /\ journal'.op = i.op /\ journal'.plan = i.plan /\ journal'.offset = 0
    BY <2>1, <2>2, JournalOffset
  <2>. QED BY <2>2, <2>3
<1>5. stage.state = "whole" /\ Verified(image, journal.op, journal.plan)
  BY <1>a, <1>1 DEF ExtPlanned
<1>6. "commit" \in ExtPhases \ {"none"} /\ "commit" \notin QuietPhases \union RestoredPhases \union DonePhases
  BY DEF ExtPhases, QuietPhases, RestoredPhases, DonePhases
<1>7. ExtShape'
  <2>1. "commit" \notin Idling
    BY DEF Idling
  <2>2. journal'.phase \in PhaseAt(proc'.pc)
    BY <1>3, <1>4, PhasesAt
  <2>. QED BY <1>a, <1>1, <1>2, <1>3, <1>4, <1>6, <2>1, <2>2 DEF ExtShape
<1>8. ExtPlanned'
  BY <1>3 DEF ExtPlanned
<1>9. ExtDirect'
  BY <1>3, <1>4, <1>6 DEF ExtDirect
<1>10. ExtCommit'
  <2>1. IsVolume(image)
    BY <1>5 DEF Verified
  <2>2. Len(todo) \in Nat /\ Rest(image, 0) = todo /\ 0 \in 0..Len(todo)
    <3>1. Len(todo) \in Nat
      BY <2>1, AddressOrderIs DEF todo, AllocatedRanges, IsVolume
    <3>2. 0 \in 0..Len(todo)
      BY <3>1
    <3>. QED BY <2>1, <3>1, <3>2, RestIs DEF todo
  <2>3. \A v : Written(v, image, 0)
    BY DEF Written
  <2>4. Verified(stage.image, journal.op, journal.plan)'
    BY <1>1, <1>2, <1>4, <1>5 DEF Verified
  <2>5. stage'.image = image /\ stage'.state = "whole"
    BY <1>1, <1>5
  <2>6. (\E k \in 0..Len(AllocatedRanges(stage.image)) :
           /\ journal.offset <= k /\ proc.todo = Rest(stage.image, k) /\ Written(cache, stage.image, k)
           /\ proc.pc = "committed" => k = Len(AllocatedRanges(stage.image)))'
    <3>. WITNESS 0 \in 0..Len(AllocatedRanges(stage'.image))
    <3>. QED BY <1>3, <1>4, <2>2, <2>3, <2>5
  <2>. QED BY <1>3, <1>4, <2>2, <2>3, <2>4, <2>5, <2>6 DEF ExtCommit, todo
<1>11. ExtKinds
  <2>1. journal' # NoJournal
    BY <1>4 DEF NoJournal
  <2>. QED BY <1>1, <2>1, AsideKeeps DEF ExtKinds
<1>. QED BY <1>a, <1>1, <1>7, <1>8, <1>9, <1>10, <1>11 DEF ExtInv

-----------------------------------------------------------------------------
(* The commit.                                                             *)

\* A worker that commits has an image that is verified, and came as far as k.
LEMMA ExtCommitting ==
  ASSUME ExtInv, proc.pc \in {"commit", "record", "committed"}
  PROVE  /\ Bound /\ Remembers(proc) /\ proc.op = journal.op /\ IsJournal(journal) /\ journal.phase = "commit"
         /\ stage.state = "whole" /\ Verified(stage.image, journal.op, journal.plan) /\ IsVolume(stage.image)
         /\ journal.offset \in 0..Len(AllocatedRanges(stage.image))
         /\ Written(disk, stage.image, journal.offset)
         /\ \E k \in 0..Len(AllocatedRanges(stage.image)) :
               /\ journal.offset <= k /\ proc.todo = Rest(stage.image, k) /\ Written(cache, stage.image, k)
               /\ proc.pc = "committed" => k = Len(AllocatedRanges(stage.image))
         /\ IsVolume(disk) /\ IsVolume(cache) /\ (proc.pc \in {"record", "committed"} => disk = cache)
<1>a. ExtShape /\ ExtCommit
  BY DEF ExtInv
<1>1. Remembers(proc) /\ proc.op = journal.op /\ IsJournal(journal) /\ journal.phase = "commit"
  BY <1>a, Working, PhasesAt
<1>2. stage.state = "whole" /\ Bound
  BY <1>a, <1>1 DEF ExtCommit, Bound
<1>. QED BY <1>a, <1>1, <1>2 DEF ExtShape, ExtCommit, Verified

\* The state in which k blocks of the image are written.
CommitAt(k) ==
    /\ Remembers(proc) /\ proc.pc \in {"commit", "record", "committed"} /\ proc.op = journal.op
    /\ IsJournal(journal) /\ journal.phase = "commit"
    /\ k \in 0..Len(AllocatedRanges(stage.image))
    /\ journal.offset \in 0..Len(AllocatedRanges(stage.image)) /\ journal.offset <= k
    /\ proc.todo = Rest(stage.image, k)
    /\ Written(cache, stage.image, k) /\ Written(disk, stage.image, journal.offset)
    /\ proc.pc = "committed" => k = Len(AllocatedRanges(stage.image))
    /\ proc.pc \in {"record", "committed"} => disk = cache
    /\ IsVolume(disk) /\ IsVolume(cache)

\* A step to such a state.
LEMMA ExtCommitGoes ==
  ASSUME ExtInv, Bound, NEW k, CommitAt(k)',
         UNCHANGED <<stage, worker, owner, edits>>, journal'.op = journal.op, journal'.plan = journal.plan
  PROVE  ExtInv' /\ ExtKinds
<1>a. worker = "ext" /\ ExtShape /\ ExtCommit
  BY DEF ExtInv
<1>b. /\ stage.state = "whole" /\ Verified(stage.image, journal.op, journal.plan)
      /\ journal.phase \in {"commit", "verifying-source"}
  BY <1>a DEF Bound, ExtCommit
<1>1. /\ Remembers(proc') /\ proc'.pc \in {"commit", "record", "committed"} /\ proc'.op = journal'.op
      /\ IsJournal(journal') /\ journal'.phase = "commit"
      /\ k \in 0..Len(AllocatedRanges(stage.image))
      /\ journal'.offset \in 0..Len(AllocatedRanges(stage.image)) /\ journal'.offset <= k
      /\ proc'.todo = Rest(stage.image, k)
      /\ Written(cache', stage.image, k) /\ Written(disk', stage.image, journal'.offset)
      /\ proc'.pc = "committed" => k = Len(AllocatedRanges(stage.image))
      /\ proc'.pc \in {"record", "committed"} => disk' = cache'
      /\ IsVolume(disk') /\ IsVolume(cache')
  BY DEF CommitAt
<1>2. "commit" \in ExtPhases \ {"none"} /\ "commit" \notin QuietPhases \union RestoredPhases \union DonePhases
      /\ "verifying-source" \notin QuietPhases
  BY DEF ExtPhases, QuietPhases, RestoredPhases, DonePhases
<1>3. ExtShape'
  <2>1. proc'.pc \notin Idling
    BY <1>1 DEF Idling
  <2>2. journal'.phase \in PhaseAt(proc'.pc)
    BY <1>1, PhasesAt
  <2>. QED BY <1>a, <1>1, <1>2, <2>1, <2>2 DEF ExtShape
<1>4. ExtPlanned'
  BY <1>1 DEF ExtPlanned
<1>5. ExtDirect'
  BY <1>1, <1>2 DEF ExtDirect
<1>6. ExtCommit'
  <2>1. Verified(stage.image, journal.op, journal.plan)'
    BY <1>b DEF Verified
  <2>2. k \in Nat /\ journal'.offset \in Nat /\ Written(cache', stage.image, journal'.offset)
    <3>1. IsVolume(stage.image)
      BY <1>b DEF Verified
    <3>2. Len(AllocatedRanges(stage.image)) \in Nat
      BY <3>1, AddressOrderIs DEF AllocatedRanges, IsVolume
    <3>3. k \in Nat /\ journal'.offset \in Nat /\ \A i \in 1..journal'.offset : i \in 1..k
      BY <1>1, <3>2
    <3>. QED BY <1>1, <3>3 DEF Written
  <2>3. (\E j \in 0..Len(AllocatedRanges(stage.image)) :
           /\ journal.offset <= j /\ proc.todo = Rest(stage.image, j) /\ Written(cache, stage.image, j)
           /\ proc.pc = "committed" => j = Len(AllocatedRanges(stage.image)))'
    BY <1>1
  <2>. QED BY <1>b, <1>1, <2>1, <2>2, <2>3 DEF ExtCommit
<1>7. ExtKinds
  <2>1. journal' # NoJournal
    BY <1>1 DEF NoJournal
  <2>2. proc.pc = "arrange" => journal.phase = "arranging"
    BY <1>a, Working, PhasesAt
  <2>. QED BY <1>b, <1>1, <1>2, <2>1, <2>2 DEF ExtKinds
<1>. QED BY <1>a, <1>3, <1>4, <1>5, <1>6, <1>7 DEF ExtInv

\* A block more of the image is in the volume.
LEMMA BlockWritten ==
  ASSUME NEW image, IsVolume(image), NEW v, IsVolume(v), NEW k, k \in 0..Len(AllocatedRanges(image)),
         Written(v, image, k), Rest(image, k) # <<>>,
         NEW b, b = Head(Rest(image, k)), NEW w, w = [v EXCEPT ![b] = image[b]]
  PROVE  /\ IsVolume(w) /\ Written(w, image, k + 1) /\ k + 1 \in 0..Len(AllocatedRanges(image))
         /\ Tail(Rest(image, k)) = Rest(image, k + 1) /\ k \in Nat /\ Len(AllocatedRanges(image)) \in Nat
<1>1. /\ b = AllocatedRanges(image)[k + 1] /\ b \in Blocks /\ Tail(Rest(image, k)) = Rest(image, k + 1)
      /\ k + 1 \in 0..Len(AllocatedRanges(image)) /\ k \in Nat /\ Len(AllocatedRanges(image)) \in Nat
  BY RestIs
<1>2. v = [a \in Blocks |-> v[a]] /\ image = [a \in Blocks |-> image[a]]
  BY DEF IsVolume
<1>3. w = [a \in Blocks |-> w[a]] /\ \A a \in Blocks : w[a] = IF a = b THEN image[a] ELSE v[a]
  BY <1>1, <1>2
<1>4. IsVolume(w)
  <2>1. \A a \in Blocks : w[a] = v[a] \/ w[a] = image[a]
    BY <1>3
  <2>2. w = [a \in Blocks |-> w[a]]
    BY <1>3
  <2>3. \A a \in Blocks : Typed(a, v[a]) /\ Typed(a, image[a])
    BY VolumeIsTyped
  <2>4. \A a \in Blocks : Typed(a, w[a])
    BY <2>1, <2>3
  <2>. QED BY <2>2, <2>4, VolumeIsTyped
<1>5. \A a : w[a] = IF a = b THEN image[a] ELSE v[a]
  BY <1>1, <1>2
<1>6. \A i \in 1..(k + 1) : i \in 1..k \/ i = k + 1
  BY <1>1
<1>7. Written(w, image, k + 1)
  BY <1>1, <1>5, <1>6 DEF Written
<1>. QED BY <1>1, <1>4, <1>7

\* A block of the image is copied.
LEMMA ExtCopyBlock ==
  ASSUME ExtInv, CopyBlock
  PROVE  ExtInv' /\ ExtKinds
<1>1. /\ proc.pc = "commit" /\ proc.todo # <<>>
      /\ cache' = [cache EXCEPT ![Head(proc.todo)] = stage.image[Head(proc.todo)]]
      /\ proc' = [proc EXCEPT !.todo = Tail(proc.todo)]
      /\ UNCHANGED <<disk, stage, journal, faults, worker, owner, edits>>
  BY DEF CopyBlock, CopyNext, At, world
<1>2. /\ Bound /\ Remembers(proc) /\ proc.op = journal.op /\ IsJournal(journal) /\ journal.phase = "commit"
      /\ IsVolume(stage.image)
      /\ journal.offset \in 0..Len(AllocatedRanges(stage.image)) /\ Written(disk, stage.image, journal.offset)
      /\ IsVolume(disk) /\ IsVolume(cache)
  BY <1>1, ExtCommitting
<1>3. PICK k \in 0..Len(AllocatedRanges(stage.image)) :
         journal.offset <= k /\ proc.todo = Rest(stage.image, k) /\ Written(cache, stage.image, k)
  BY <1>1, ExtCommitting
<1>. DEFINE todo == Tail(proc.todo)
<1>4. /\ IsVolume(cache') /\ Written(cache', stage.image, k + 1) /\ k + 1 \in 0..Len(AllocatedRanges(stage.image))
      /\ todo = Rest(stage.image, k + 1) /\ k \in Nat /\ Len(AllocatedRanges(stage.image)) \in Nat
  BY <1>1, <1>2, <1>3, BlockWritten
<1>. HIDE DEF todo
<1>5. Remembers(proc') /\ proc'.pc = "commit" /\ proc'.op = proc.op /\ proc'.todo = todo
  BY <1>1, <1>2, RemembersOn DEF todo
<1>6. journal.offset <= k + 1
  BY <1>2, <1>3, <1>4
<1>7. CommitAt(k + 1)'
  BY <1>1, <1>2, <1>4, <1>5, <1>6 DEF CommitAt
<1>. QED BY <1>1, <1>2, <1>7, ExtCommitGoes

\* What is copied is synced.
LEMMA ExtSyncRange ==
  ASSUME ExtInv, SyncRange
  PROVE  ExtInv' /\ ExtKinds
<1>1. /\ proc.pc = "commit" /\ disk' = cache /\ proc' = [proc EXCEPT !.pc = "record"]
      /\ UNCHANGED <<cache, stage, journal, faults, worker, owner, edits>>
  BY DEF SyncRange, Sync, Goto, files, At, world
<1>2. /\ Bound /\ Remembers(proc) /\ proc.op = journal.op /\ IsJournal(journal) /\ journal.phase = "commit"
      /\ IsVolume(stage.image)
      /\ journal.offset \in 0..Len(AllocatedRanges(stage.image)) /\ IsVolume(cache)
  BY <1>1, ExtCommitting
<1>3. PICK k \in 0..Len(AllocatedRanges(stage.image)) :
         journal.offset <= k /\ proc.todo = Rest(stage.image, k) /\ Written(cache, stage.image, k)
  BY <1>1, ExtCommitting
<1>4. Remembers(proc') /\ proc'.pc = "record" /\ proc'.op = proc.op /\ proc'.todo = proc.todo
  BY <1>1, <1>2, RemembersOn
<1>5. Written(cache, stage.image, journal.offset)
  <2>1. Len(AllocatedRanges(stage.image)) \in Nat
    BY <1>2, AddressOrderIs DEF AllocatedRanges, IsVolume
  <2>2. \A i \in 1..journal.offset : i \in 1..k
    BY <1>2, <1>3, <2>1
  <2>. QED BY <1>3, <2>2 DEF Written
<1>6. CommitAt(k)'
  BY <1>1, <1>2, <1>3, <1>4, <1>5 DEF CommitAt
<1>. QED BY <1>1, <1>2, <1>6, ExtCommitGoes

\* The offset that is recorded is what is synced.
LEMMA ExtRecordOffset ==
  ASSUME ExtInv, RecordOffset
  PROVE  ExtInv' /\ ExtKinds
<1>. DEFINE to == IF proc.todo = <<>> THEN "committed" ELSE "commit"
            done == Done
<1>1. /\ proc.pc = "record" /\ journal' = [journal EXCEPT !.offset = done] /\ proc' = [proc EXCEPT !.pc = to]
      /\ UNCHANGED <<disk, cache, stage, faults, worker, owner, edits>>
  BY DEF RecordOffset, Goto, Aside, At, world
<1>2. /\ Bound /\ Remembers(proc) /\ proc.op = journal.op /\ IsJournal(journal) /\ journal.phase = "commit"
      /\ IsVolume(stage.image) /\ IsVolume(cache) /\ disk = cache
  BY <1>1, ExtCommitting
<1>3. PICK k \in 0..Len(AllocatedRanges(stage.image)) :
         proc.todo = Rest(stage.image, k) /\ Written(cache, stage.image, k)
  BY <1>1, ExtCommitting
<1>4. /\ Len(AllocatedRanges(stage.image)) \in Nat /\ k \in Nat /\ k <= Len(AllocatedRanges(stage.image))
      /\ Len(proc.todo) = Len(AllocatedRanges(stage.image)) - k
      /\ proc.todo = <<>> <=> k = Len(AllocatedRanges(stage.image))
  BY <1>2, <1>3, RestIs
<1>5. done = k
  BY <1>4 DEF Done
<1>6. to = "committed" => k = Len(AllocatedRanges(stage.image))
  BY <1>4
<1>7. to \in {"commit", "record", "committed"}
  OBVIOUS
<1>. HIDE DEF to, done
<1>8. Remembers(proc') /\ proc'.pc = to /\ proc'.op = proc.op /\ proc'.todo = proc.todo
  BY <1>1, <1>2, RemembersOn
<1>9. /\ IsJournal(journal') /\ journal'.phase = "commit" /\ journal'.op = journal.op /\ journal'.plan = journal.plan
      /\ journal'.offset = k
  BY <1>1, <1>2, <1>5, JournalOffset
<1>10. k <= k
  BY <1>4
<1>11. CommitAt(k)'
  BY <1>1, <1>2, <1>3, <1>6, <1>7, <1>8, <1>9, <1>10 DEF CommitAt
<1>. QED BY <1>1, <1>2, <1>9, <1>11, ExtCommitGoes

\* Recover resumes where the last record says.
LEMMA ExtRecoverCommit ==
  ASSUME ExtInv, RecoverCommit
  PROVE  ExtInv' /\ ExtKinds
<1>a. ExtShape /\ ExtCommit
  BY DEF ExtInv
<1>1. /\ proc.pc = "down" /\ Bound /\ journal' = [journal EXCEPT !.phase = "commit"] /\ proc' = ResumeAt(journal.offset)
      /\ UNCHANGED <<disk, cache, stage, faults, worker, owner, edits>>
  BY DEF RecoverCommit, Record, Aside, At, world, Bound
<1>2. IsJournal(journal)
  BY <1>a, <1>1, Resting DEF Bound, NoJournal
<1>3. /\ IsVolume(stage.image) /\ journal.offset \in 0..Len(AllocatedRanges(stage.image))
      /\ Written(disk, stage.image, journal.offset) /\ Written(cache, stage.image, journal.offset)
      /\ IsVolume(disk) /\ IsVolume(cache)
  BY <1>a, <1>1 DEF ExtCommit, ExtShape, Verified
<1>. DEFINE k == journal.offset
            todo == Rest(stage.image, k)
<1>4. Remembers(proc') /\ proc'.pc = "commit" /\ proc'.op = journal.op /\ proc'.todo = todo
  <2>1. proc' = [pc |-> "commit", op |-> journal.op, todo |-> todo]
    BY <1>1 DEF ResumeAt, Rest
  <2>. HIDE DEF todo
  <2>. QED BY <2>1, Begins
<1>5. /\ IsJournal(journal') /\ journal'.phase = "commit" /\ journal'.op = journal.op /\ journal'.plan = journal.plan
      /\ journal'.offset = k
  BY <1>1, <1>2, JournalPhase
<1>6. k <= k
  BY <1>3, RestIs
<1>7. CommitAt(k)'
  BY <1>1, <1>3, <1>4, <1>5, <1>6 DEF CommitAt
<1>. QED BY <1>1, <1>5, <1>7, ExtCommitGoes

\* All of the image is synced, and the worker goes on to verify the volume.
LEMMA ExtEnterVerifyingSource ==
  ASSUME ExtInv, EnterVerifyingSource
  PROVE  ExtInv' /\ ExtKinds
<1>a. worker = "ext" /\ ExtShape /\ ExtPlanned /\ ExtDirect /\ ExtCommit
  BY DEF ExtInv
<1>1. /\ proc.pc = "committed" /\ journal' = [journal EXCEPT !.phase = "verifying-source"]
      /\ proc' = [proc EXCEPT !.pc = "verify-source"]
      /\ UNCHANGED <<disk, cache, stage, faults, worker, owner, edits>>
  BY DEF EnterVerifyingSource, EnterPhase, Record, Goto, Aside, At, world
<1>2. /\ Bound /\ Remembers(proc) /\ proc.op = journal.op /\ IsJournal(journal) /\ journal.phase = "commit"
      /\ stage.state = "whole" /\ Verified(stage.image, journal.op, journal.plan) /\ IsVolume(stage.image)
      /\ IsVolume(disk) /\ IsVolume(cache) /\ disk = cache
      /\ journal.offset \in 0..Len(AllocatedRanges(stage.image)) /\ Written(disk, stage.image, journal.offset)
  BY <1>1, ExtCommitting
<1>3. PICK k \in 0..Len(AllocatedRanges(stage.image)) :
         /\ proc.todo = Rest(stage.image, k) /\ Written(cache, stage.image, k)
         /\ k = Len(AllocatedRanges(stage.image))
  BY <1>1, ExtCommitting
<1>4. proc.todo = <<>>
  BY <1>2, <1>3, RestIs
<1>5. Verified(cache, journal.op, journal.plan)
  <2>1. Range(Rest(stage.image, k)) = {}
    BY <1>3, <1>4 DEF Range
  <2>2. cache = Overlay(cache, stage.image, Range(Rest(stage.image, k)))
    BY <1>2, <2>1 DEF Overlay, IsVolume
  <2>. DEFINE u == Overlay(cache, stage.image, Range(Rest(stage.image, k)))
  <2>3. u = Overlay(cache, stage.image, Range(Rest(stage.image, k)))
    OBVIOUS
  <2>. HIDE DEF u
  <2>4. Verified(u, journal.op, journal.plan)
    BY <1>2, <1>3, <2>3, RestSettles
  <2>. QED BY <2>2, <2>3, <2>4
<1>6. Remembers(proc') /\ proc'.pc = "verify-source" /\ proc'.op = proc.op /\ proc'.todo = <<>>
  BY <1>1, <1>2, <1>4, RemembersOn
<1>7. /\ IsJournal(journal') /\ journal'.phase = "verifying-source" /\ journal'.op = journal.op
      /\ journal'.plan = journal.plan /\ journal'.offset = journal.offset
  BY <1>1, <1>2, JournalPhase
<1>8. "verifying-source" \in ExtPhases \ {"none"} /\ "verifying-source" \notin QuietPhases \union RestoredPhases
      /\ "commit" \notin QuietPhases
  BY DEF ExtPhases, QuietPhases, RestoredPhases, DonePhases
<1>9. ExtShape'
  <2>1. journal'.phase \in PhaseAt(proc'.pc)
    BY <1>6, <1>7, PhasesAt
  <2>. QED BY <1>a, <1>1, <1>2, <1>6, <1>7, <1>8, <2>1 DEF ExtShape
<1>10. ExtPlanned'
  BY <1>6 DEF ExtPlanned
<1>11. ExtDirect'
  <2>1. (disk = cache /\ Verified(cache, journal.op, journal.plan))'
    BY <1>1, <1>2, <1>5, <1>7 DEF Verified
  <2>. QED BY <1>6, <1>7, <1>8, <2>1 DEF ExtDirect
<1>12. ExtCommit'
  <2>1. Verified(stage.image, journal.op, journal.plan)'
    BY <1>1, <1>2, <1>7 DEF Verified
  <2>. QED BY <1>1, <1>2, <1>6, <1>7, <2>1 DEF ExtCommit
<1>13. ExtKinds
  <2>1. journal' # NoJournal
    BY <1>7 DEF NoJournal
  <2>. QED BY <1>1, <1>2, <1>8, <2>1 DEF ExtKinds
<1>. QED BY <1>a, <1>1, <1>9, <1>10, <1>11, <1>12, <1>13 DEF ExtInv

\* What the layout in place or the source is verified for always holds.
LEMMA ExtVerifies ==
  ASSUME ExtInv, proc.pc \in {"verifying", "verify-source"}
  PROVE  /\ journal.phase \in DonePhases /\ VerifyStage(cache, journal.plan, proc.op)
         /\ proc.op = journal.op
<1>1. journal.phase \in DonePhases /\ proc.op = journal.op
  BY Working, PhasesAt DEF ExtInv, DonePhases
<1>. QED BY <1>1 DEF ExtInv, ExtDirect, Verified

\* The layout in place is verified.
LEMMA ExtVerifyDirect ==
  ASSUME ExtInv, VerifyDirect \/ VerifySource
  PROVE  ExtInv' /\ ExtKinds
<1>1. proc.pc \in {"verifying", "verify-source"}
  BY DEF VerifyDirect, VerifySource, At
<1>2. journal.phase \in DonePhases /\ VerifyStage(cache, journal.plan, proc.op)
  BY <1>1, ExtVerifies
<1>3. GiveUp
  BY <1>2 DEF VerifyDirect, VerifySource, GiveUp
<1>. QED BY <1>1, <1>2, <1>3, ExtGivesUp

\* A Stop before anything moved.
LEMMA ExtStopEarly ==
  ASSUME ExtInv, StopDirect \/ StopStage
  PROVE  ExtInv' /\ ExtKinds
<1>1. proc.pc \in {"plan", "staged", "staging", "plan-stage", "arrange", "check"} /\ GiveUp
  BY DEF StopDirect, StopStage, At
<1>2. journal.phase \in QuietPhases
  BY <1>1, Working, PhasesAt DEF ExtInv, QuietPhases
<1>. QED BY <1>1, <1>2, ExtGivesUp

-----------------------------------------------------------------------------
(* Recover, and the end of a command.                                      *)

\* Recover, as it resumes at pc.
LEMMA Resumes ==
  ASSUME NEW pc, NEW q, q = Resume(pc)
  PROVE  Remembers(q) /\ q.pc = pc /\ q.op = journal.op /\ q.todo = <<>>
<1>1. q = [pc |-> pc, op |-> journal.op, todo |-> <<>>]
  BY DEF Resume
<1>. QED BY <1>1, Begins

\* A worker that cleans up where nothing moved, or all is done.
LEMMA ExtCleans ==
  ASSUME ExtInv, journal.phase \in (QuietPhases \union DonePhases) \ {"none"},
         proc.pc # "arrange",
         Remembers(proc'), proc'.pc = "cleanup", proc'.op = journal.op,
         UNCHANGED <<disk, cache, stage, journal, worker, owner, edits>>
  PROVE  ExtInv' /\ ExtKinds
<1>a. worker = "ext" /\ ExtShape /\ ExtPlanned /\ ExtDirect /\ ExtCommit
  BY DEF ExtInv
<1>1. ExtShape'
  <2>1. journal'.phase \in PhaseAt(proc'.pc)
    BY PhasesAt DEF QuietPhases, DonePhases, ExtPhases
  <2>2. proc'.pc \notin Idling
    BY DEF Idling
  <2>. QED BY <1>a, <2>1, <2>2 DEF ExtShape
<1>2. ExtPlanned'
  BY DEF ExtPlanned
<1>3. ExtDirect'
  <2>1. journal.phase \in QuietPhases => Quiet'
    BY <1>a, AsideKeeps DEF ExtDirect
  <2>2. journal.phase \in DonePhases => (disk = cache /\ Verified(cache, journal.op, journal.plan))'
    BY <1>a DEF ExtDirect, Verified
  <2>3. journal.phase \notin RestoredPhases
    BY DEF QuietPhases, DonePhases, RestoredPhases
  <2>. QED BY <2>1, <2>2, <2>3 DEF ExtDirect
<1>4. ExtCommit'
  BY <1>a DEF ExtCommit, Bound, Verified, Written
<1>5. ExtKinds
  <2>1. journal' = journal
    OBVIOUS
  <2>. QED BY <2>1, AsideKeeps DEF ExtKinds
<1>. QED BY <1>a, <1>1, <1>2, <1>3, <1>4, <1>5 DEF ExtInv

\* A worker that is to put back what moved.
LEMMA ExtRestores ==
  ASSUME ExtInv, journal.phase \in RestoredPhases,
         Remembers(proc'), proc'.pc = "restore", proc'.op = journal.op,
         UNCHANGED <<disk, cache, stage, journal, worker, owner, edits>>
  PROVE  ExtInv' /\ ExtKinds
<1>a. worker = "ext" /\ ExtShape /\ ExtPlanned /\ ExtDirect /\ ExtCommit
  BY DEF ExtInv
<1>b. journal.phase \notin QuietPhases \union DonePhases /\ journal # NoJournal
      /\ journal.phase \notin {"commit", "verifying-source"}
  BY DEF QuietPhases, DonePhases, RestoredPhases, NoJournal
<1>1. ExtShape'
  <2>1. journal'.phase \in PhaseAt(proc'.pc)
    BY PhasesAt
  <2>2. proc'.pc \notin Idling
    BY DEF Idling
  <2>. QED BY <1>a, <2>1, <2>2 DEF ExtShape
<1>2. ExtPlanned'
  BY DEF ExtPlanned
<1>3. ExtDirect'
  <2>1. PICK v : Copied(v, journal.plan)
    BY <1>a DEF ExtDirect, Midway
  <2>2. Copied(v, journal.plan)'
    BY <2>1 DEF Copied
  <2>3. (\E w : Midway(w, journal.plan))'
    <3>. WITNESS v
    <3>. QED BY <2>2 DEF Midway
  <2>. QED BY <1>b, <2>3 DEF ExtDirect
<1>4. ExtCommit'
  BY <1>b DEF ExtCommit, Bound
<1>5. ExtKinds
  BY <1>b DEF ExtKinds, RestoredPhases
<1>. QED BY <1>a, <1>1, <1>2, <1>3, <1>4, <1>5 DEF ExtInv

\* Recover discards the command, verifies the layout, or puts back what moved.
LEMMA ExtRecovers ==
  ASSUME ExtInv, RecoverDiscard \/ RecoverStaged \/ RecoverDirect
  PROVE  ExtInv' /\ ExtKinds
<1>1. proc.pc = "down" /\ UNCHANGED <<disk, cache, stage, journal, worker, owner, edits>>
  BY DEF RecoverDiscard, RecoverStaged, RecoverDirect, DiscardPending, At, files, Aside, world
<1>2. CASE proc' = Resume("cleanup") /\ journal.phase \in (QuietPhases \union DonePhases) \ {"none"}
  <2>1. Remembers(proc') /\ proc'.pc = "cleanup" /\ proc'.op = journal.op
    BY <1>2, Resumes
  <2>. QED BY <1>1, <1>2, <2>1, ExtCleans
<1>3. CASE proc' = Resume("restore") /\ journal.phase \in RestoredPhases
  <2>1. Remembers(proc') /\ proc'.pc = "restore" /\ proc'.op = journal.op
    BY <1>3, Resumes
  <2>. QED BY <1>1, <1>3, <2>1, ExtRestores
<1>4. CASE RecoverDiscard \/ RecoverStaged
  <2>1. proc' = Resume("cleanup") /\ journal.phase \in QuietPhases \ {"none"}
    BY <1>4 DEF RecoverDiscard, RecoverStaged, DiscardPending, QuietPhases
  <2>. QED BY <1>2, <2>1
<1>5. CASE RecoverDirect
  <2>1. CASE journal.phase \in {"direct-placing", "direct-metadata"} /\ proc' = Resume("restore")
    BY <1>3, <2>1 DEF RestoredPhases
  <2>2. CASE /\ journal.phase = "direct-verifying"
             /\ proc' = Resume(IF VerifyStage(cache, journal.plan, journal.op) THEN "cleanup" ELSE "restore")
    <3>1. journal.phase \in DonePhases \ {"none"}
      BY <2>2 DEF DonePhases
    <3>2. VerifyStage(cache, journal.plan, journal.op)
      BY <3>1 DEF ExtInv, ExtDirect, Verified
    <3>. QED BY <1>2, <2>2, <3>1, <3>2
  <2>. QED BY <1>5, <2>1, <2>2 DEF RecoverDirect
<1>. QED BY <1>4, <1>5

\* A Stop or a failed write while blocks move.
LEMMA ExtStopsLate ==
  ASSUME ExtInv, StopPlacing \/ FailDirect
  PROVE  ExtInv' /\ ExtKinds
<1>1. /\ proc.pc \in {"placing", "metadata"} /\ proc' = [proc EXCEPT !.pc = "restore"]
      /\ UNCHANGED <<disk, cache, stage, journal, worker, owner, edits>>
  BY DEF StopPlacing, FailDirect, At, Goto, files, Aside, world
<1>2. Remembers(proc) /\ proc.op = journal.op /\ journal.phase \in RestoredPhases
  BY <1>1, Working, PhasesAt DEF ExtInv, RestoredPhases
<1>3. Remembers(proc') /\ proc'.pc = "restore" /\ proc'.op = journal.op
  BY <1>1, <1>2, RemembersOn
<1>. QED BY <1>1, <1>2, <1>3, ExtRestores

\* The working file goes first.
LEMMA ExtCleanupFiles ==
  ASSUME ExtInv, CleanupFiles
  PROVE  ExtInv' /\ ExtKinds
<1>a. worker = "ext" /\ ExtShape /\ ExtPlanned /\ ExtDirect /\ ExtCommit
  BY DEF ExtInv
<1>1. /\ proc.pc = "cleanup" /\ stage' = NoStage /\ proc' = [proc EXCEPT !.pc = "retire"]
      /\ UNCHANGED <<disk, cache, journal, worker, owner, edits>>
  BY DEF CleanupFiles, Unlink, At, Goto, Aside, world
<1>2. /\ Remembers(proc) /\ proc.op = journal.op /\ journal # NoJournal
      /\ journal.phase \in ExtPhases \ {"none", "commit"}
  BY <1>a, <1>1, Working, PhasesAt
<1>3. Remembers(proc') /\ proc'.pc = "retire" /\ proc'.op = proc.op
  BY <1>1, <1>2, RemembersOn
<1>4. stage'.state = "none"
  BY <1>1 DEF NoStage
<1>5. ExtShape'
  <2>1. journal'.phase \in PhaseAt(proc'.pc)
    BY <1>1, <1>2, <1>3, PhasesAt
  <2>2. proc'.pc \notin Idling
    BY <1>3 DEF Idling
  <2>. QED BY <1>a, <1>1, <1>2, <1>3, <1>4, <2>1, <2>2 DEF ExtShape
<1>6. ExtPlanned'
  BY <1>3 DEF ExtPlanned
<1>7. ExtDirect'
  <2>1. journal.phase \in QuietPhases => Quiet'
    BY <1>a, <1>1, AsideKeeps DEF ExtDirect
  <2>2. journal.phase \in DonePhases => (disk = cache /\ Verified(cache, journal.op, journal.plan))'
    BY <1>a, <1>1 DEF ExtDirect, Verified
  <2>3. journal.phase \in RestoredPhases => (\E w : Midway(w, journal.plan))'
    <3>. SUFFICES ASSUME journal.phase \in RestoredPhases PROVE (\E w : Midway(w, journal.plan))'
      OBVIOUS
    <3>1. PICK v : Midway(v, journal.plan)
      BY <1>a DEF ExtDirect
    <3>2. Copied(v, journal.plan)' /\ Unmoved(v)'
      BY <1>1, <3>1 DEF Midway, Copied, Unmoved
    <3>. WITNESS v
    <3>. QED BY <1>3, <3>2 DEF Midway
  <2>. QED BY <1>1, <1>3, <2>1, <2>2, <2>3 DEF ExtDirect
<1>8. ExtCommit'
  BY <1>1, <1>2, <1>3, <1>4 DEF ExtCommit, Bound
<1>9. ExtKinds
  BY <1>1, <1>2, AsideKeeps DEF ExtKinds
<1>. QED BY <1>a, <1>1, <1>5, <1>6, <1>7, <1>8, <1>9 DEF ExtInv

\* The journal goes last: the volume is in order, on the disk too.
LEMMA ExtCleanupJournal ==
  ASSUME ExtInv, CleanupJournal
  PROVE  ExtInv' /\ ExtKinds
<1>a. worker = "ext" /\ ExtShape /\ ExtPlanned /\ ExtDirect /\ ExtCommit
  BY DEF ExtInv
<1>1. /\ proc.pc = "retire" /\ journal' = NoJournal /\ proc' = Idle
      /\ UNCHANGED <<disk, cache, stage, worker, owner, edits>>
  BY DEF CleanupJournal, Retire, Exit, At, Aside, world
<1>2. journal.phase \in ExtPhases \ {"none", "commit"}
  BY <1>a, <1>1, Working, PhasesAt
<1>3. proc'.pc = "down" /\ journal'.phase = "none"
  BY <1>1 DEF Idle, NoJournal
<1>4. "down" \notin Idling \union {"staging", "staged"}
  BY DEF Idling
<1>5. ExtShape'
  BY <1>a, <1>1, <1>3, <1>4 DEF ExtShape
<1>6. ExtPlanned'
  BY <1>3 DEF ExtPlanned
<1>7. Quiet
  <2>1. CASE journal.phase \in QuietPhases
    BY <1>a, <2>1 DEF ExtDirect
  <2>2. CASE journal.phase \in DonePhases
    <3>1. disk = cache /\ Sound(cache) /\ Contents(cache) = owner
      BY <1>a, <2>2 DEF ExtDirect, Verified
    <3>. QED BY <3>1 DEF Quiet, OnlyFree
  <2>3. CASE journal.phase \in RestoredPhases
    <3>1. PICK v : Midway(v, journal.plan)
      BY <1>a, <2>3 DEF ExtDirect
    <3>2. /\ disk = cache /\ Agree(cache, v, Carries(v)) /\ Sound(v) /\ Exclusive(v) /\ Contents(v) = owner
      BY <1>1, <3>1 DEF Midway, Copied, Unmoved, PlanOf, Sound
    <3>3. Sound(cache) /\ Contents(cache) = owner
      BY <3>2, AgreeIsSame
    <3>. QED BY <3>2, <3>3 DEF Quiet, OnlyFree
  <2>. QED BY <1>2, <2>1, <2>2, <2>3 DEF ExtPhases
<1>8. ExtDirect'
  <2>1. "none" \notin RestoredPhases \union DonePhases
    BY DEF RestoredPhases, DonePhases
  <2>2. Quiet'
    BY <1>1, <1>7, AsideKeeps
  <2>. QED BY <1>3, <1>4, <2>1, <2>2 DEF ExtDirect
<1>9. ExtCommit'
  BY <1>3 DEF ExtCommit, Bound
<1>10. ExtKinds
  BY <1>1, AsideKeeps DEF ExtKinds
<1>. QED BY <1>a, <1>1, <1>5, <1>6, <1>8, <1>9, <1>10 DEF ExtInv

-----------------------------------------------------------------------------
(* Crashes.                                                                *)

\* The worker is gone; what is on the disk and in the cache was in one of them.
Crashed ==
    /\ proc' = Idle /\ UNCHANGED <<journal, worker, owner, edits>>
    /\ stage' = stage \/ (proc.pc = "arrange" /\ stage' = Partial)
    /\ disk' = [b \in Blocks |-> disk'[b]] /\ cache' = [b \in Blocks |-> cache'[b]]
    /\ UNCHANGED <<disk, cache>> \/ disk' = cache'
    /\ \A b \in Blocks : disk'[b] = disk[b] \/ disk'[b] = cache[b]
    /\ \A b \in Blocks : cache'[b] = disk[b] \/ cache'[b] = cache[b]

\* A worker that is killed, and a power loss, are crashes.
LEMMA ExtCrashes ==
  ASSUME ExtInv, Killed \/ PowerLoss
  PROVE  Crashed
<1>1. Stopped /\ IsVolume(disk) /\ IsVolume(cache) /\ ExtShape
  BY DEF Killed, PowerLoss, ExtInv, ExtShape
<1>2. proc' = Idle /\ UNCHANGED <<journal, worker, owner, edits>>
  BY <1>1 DEF Stopped, Exit, world
<1>3. stage' = stage \/ (proc.pc = "arrange" /\ stage' = Partial)
  <2>1. proc.pc # "build"
    <3>1. PhaseAt("build") = {}
      BY PhasesAt DEF Idling
    <3>. QED BY <1>1, <3>1, Working
  <2>. QED BY <1>1, <2>1 DEF Stopped
<1>4. disk = [b \in Blocks |-> disk[b]] /\ cache = [b \in Blocks |-> cache[b]]
  BY <1>1 DEF IsVolume
<1>5. CASE UNCHANGED <<disk, cache>>
  BY <1>2, <1>3, <1>4, <1>5 DEF Crashed
<1>6. CASE \E kept \in SUBSET Differing(cache, disk) : disk' = Overlay(disk, cache, kept) /\ cache' = disk'
  <2>1. PICK kept \in SUBSET Differing(cache, disk) : disk' = Overlay(disk, cache, kept) /\ cache' = disk'
    BY <1>6
  <2>2. disk' = [b \in Blocks |-> disk'[b]] /\ \A b \in Blocks : disk'[b] = disk[b] \/ disk'[b] = cache[b]
    BY <2>1 DEF Overlay
  <2>. QED BY <1>2, <1>3, <2>1, <2>2 DEF Crashed
<1>. QED BY <1>5, <1>6 DEF Killed, PowerLoss

\* Whatever crashes, the journal says what to make of what is left.
LEMMA ExtSurvives ==
  ASSUME ExtInv, Crashed
  PROVE  ExtInv' /\ ExtKinds
<1>a. worker = "ext" /\ ExtShape /\ ExtPlanned /\ ExtDirect /\ ExtCommit
  BY DEF ExtInv
<1>1. /\ proc' = Idle /\ UNCHANGED <<journal, worker, owner, edits>>
      /\ stage' = stage \/ (proc.pc = "arrange" /\ stage' = Partial)
      /\ disk' = [b \in Blocks |-> disk'[b]] /\ cache' = [b \in Blocks |-> cache'[b]]
      /\ UNCHANGED <<disk, cache>> \/ disk' = cache'
      /\ \A b \in Blocks : disk'[b] = disk[b] \/ disk'[b] = cache[b]
      /\ \A b \in Blocks : cache'[b] = disk[b] \/ cache'[b] = cache[b]
  BY DEF Crashed
<1>2. proc'.pc = "down"
  BY <1>1 DEF Idle
<1>3. proc.pc = "arrange" => journal.phase = "arranging" /\ stage.state = "whole"
  BY <1>a, Working, PhasesAt DEF ExtPlanned
<1>4. IsVolume(disk) /\ IsVolume(cache) /\ IsVolume(disk') /\ IsVolume(cache')
  <2>1. IsVolume(disk) /\ IsVolume(cache)
    BY <1>a DEF ExtShape
  <2>2. \A b \in Blocks : Typed(b, disk[b]) /\ Typed(b, cache[b])
    BY <2>1, VolumeIsTyped
  <2>3. \A b \in Blocks : Typed(b, disk'[b])
    BY <1>1, <2>2
  <2>4. \A b \in Blocks : Typed(b, cache'[b])
    BY <1>1, <2>2
  <2>5. disk' = [b \in Blocks |-> disk'[b]]
    BY <1>1
  <2>6. cache' = [b \in Blocks |-> cache'[b]]
    BY <1>1
  <2>7. IsVolume(disk')
    BY <2>3, <2>5, VolumeIsTyped
  <2>8. IsVolume(cache')
    BY <2>4, <2>6, VolumeIsTyped
  <2>. QED BY <2>1, <2>7, <2>8
<1>5. ExtShape'
  <2>1. "down" \notin Idling
    BY DEF Idling
  <2>2. stage'.state \in {"none", "plan", "partial", "whole"} /\ (stage'.state = "whole" => IsVolume(stage'.image))
    BY <1>a, <1>1 DEF ExtShape, Partial
  <2>. QED BY <1>a, <1>1, <1>2, <1>4, <2>1, <2>2 DEF ExtShape
<1>6. ExtPlanned'
  BY <1>2 DEF ExtPlanned
<1>7. Quiet => Quiet' /\ OnlyFree(cache', cache)
  <2>. SUFFICES ASSUME Quiet PROVE Quiet' /\ OnlyFree(cache', cache)
    OBVIOUS
  <2>1. OnlyFree(cache', cache)
    BY <1>1 DEF Quiet, OnlyFree
  <2>2. Agree(cache', cache, Carries(cache))
    <3>1. \A c \in FreeCells(cache) : Cell(c) \notin Carries(cache)
      BY <1>4, CarriesAre
    <3>2. Carries(cache) \subseteq Blocks
      BY <1>4, CarriesAre
    <3>. QED BY <2>1, <3>1, <3>2 DEF OnlyFree, Agree
  <2>3. Sound(cache') /\ Contents(cache') = owner /\ FreeCells(cache') = FreeCells(cache)
    BY <2>2, AgreeIsSame DEF Quiet, Sound
  <2>4. OnlyFree(disk', cache')
    BY <1>1, <2>3 DEF Quiet, OnlyFree
  <2>. QED BY <1>1, <2>1, <2>3, <2>4 DEF Quiet
<1>8. ExtDirect'
  <2>1. journal.phase \in QuietPhases => Quiet'
    BY <1>a, <1>7 DEF ExtDirect
  <2>2. journal.phase \in DonePhases => (disk = cache /\ Verified(cache, journal.op, journal.plan))'
    <3>. SUFFICES ASSUME journal.phase \in DonePhases PROVE (disk = cache /\ Verified(cache, journal.op, journal.plan))'
      OBVIOUS
    <3>1. disk = cache /\ Verified(cache, journal.op, journal.plan)
      BY <1>a DEF ExtDirect
    <3>2. \A b \in Blocks : disk'[b] = cache[b] /\ cache'[b] = cache[b]
      BY <1>1, <3>1
    <3>3. cache' = cache
      BY <1>1, <1>4, <3>2 DEF IsVolume
    <3>4. disk' = cache'
      BY <1>1, <3>1
    <3>. QED BY <1>1, <3>1, <3>3, <3>4 DEF Verified
  <2>3. journal.phase \in RestoredPhases => (\E w : Midway(w, journal.plan))'
    <3>. SUFFICES ASSUME journal.phase \in RestoredPhases PROVE (\E w : Midway(w, journal.plan))'
      OBVIOUS
    <3>1. PICK v : Copied(v, journal.plan)
      BY <1>a DEF ExtDirect, Midway
    <3>. DEFINE slots == journal.plan.slots
    <3>2. SlotsOf(slots) \subseteq Blocks
      BY <3>1, PlanFacts DEF Copied, SlotsOf
    <3>3. /\ Agree(disk, WithCopies(v, slots), SlotsOf(slots))
          /\ Agree(cache, WithCopies(v, slots), SlotsOf(slots))
      BY <3>1 DEF Copied
    <3>4. /\ Agree(disk', WithCopies(v, slots), SlotsOf(slots))
          /\ Agree(cache', WithCopies(v, slots), SlotsOf(slots))
      <4>. HIDE DEF slots
      <4>. QED BY <1>1, <3>2, <3>3 DEF Agree
    <3>5. Copied(v, journal.plan)'
      BY <1>1, <3>1, <3>4 DEF Copied
    <3>. WITNESS v
    <3>. QED BY <1>2, <3>5 DEF Midway
  <2>. QED BY <1>1, <1>2, <2>1, <2>2, <2>3 DEF ExtDirect
<1>9. ExtCommit'
  <2>1. journal.phase = "commit" => stage'.state = "whole"
    BY <1>a, <1>1, <1>3 DEF ExtCommit
  <2>2. Bound' => Bound /\ stage' = stage
    BY <1>1 DEF Bound, Partial
  <2>3. Bound => /\ Written(disk', stage.image, journal.offset)
                 /\ Written(cache', stage.image, journal.offset)
                 /\ Verified(stage.image, journal.op, journal.plan)
                 /\ journal.offset \in 0..Len(AllocatedRanges(stage.image))
    <3>. SUFFICES ASSUME Bound
         PROVE  /\ Written(disk', stage.image, journal.offset)
                /\ Written(cache', stage.image, journal.offset)
                /\ Verified(stage.image, journal.op, journal.plan)
                /\ journal.offset \in 0..Len(AllocatedRanges(stage.image))
      OBVIOUS
    <3>1. /\ Verified(stage.image, journal.op, journal.plan)
          /\ journal.offset \in 0..Len(AllocatedRanges(stage.image))
          /\ Written(disk, stage.image, journal.offset) /\ Written(cache, stage.image, journal.offset)
      BY <1>a DEF ExtCommit
    <3>2. AllocatedRanges(stage.image) \in Seq(Blocks)
      BY <3>1, AddressOrderIs DEF AllocatedRanges, Verified, IsVolume
    <3>3. \A i \in 1..journal.offset : AllocatedRanges(stage.image)[i] \in Blocks
      BY <3>1, <3>2
    <3>. QED BY <1>1, <3>1, <3>3 DEF Written
  <2>4. Bound' => Verified(stage.image, journal.op, journal.plan)'
    BY <1>1, <2>2, <2>3 DEF Verified
  <2>. QED BY <1>1, <1>2, <2>1, <2>2, <2>3, <2>4 DEF ExtCommit
<1>10. ExtKinds
  <2>1. journal.phase \in QuietPhases => OnlyFree(cache', cache)
    BY <1>a, <1>7 DEF ExtDirect
  <2>. QED BY <1>1, <1>3, <2>1 DEF ExtKinds
<1>. QED BY <1>a, <1>1, <1>5, <1>6, <1>8, <1>9, <1>10 DEF ExtInv

-----------------------------------------------------------------------------
(* Blocks move, and are put back.                                          *)

\* A plan and its copies stay what they are while neither they nor the journal change.
LEMMA CopiedStays ==
  ASSUME NEW v, NEW p, Copied(v, p), journal'.op = journal.op, UNCHANGED owner,
         \A b \in SlotsOf(p.slots) : disk'[b] \in {disk[b], cache[b]} /\ cache'[b] = cache[b]
  PROVE  Copied(v, p)'
<1>1. /\ Agree(disk, WithCopies(v, p.slots), SlotsOf(p.slots))
      /\ Agree(cache, WithCopies(v, p.slots), SlotsOf(p.slots))
      /\ PlanOf(v, journal.op, p) /\ Contents(v) = owner /\ p.kept = Kept(WithCopies(v, p.slots), p.slots)
  BY DEF Copied
<1>2. /\ Agree(disk', WithCopies(v, p.slots), SlotsOf(p.slots))
      /\ Agree(cache', WithCopies(v, p.slots), SlotsOf(p.slots))
  BY <1>1 DEF Agree
<1>. QED BY <1>1, <1>2 DEF Copied

\* A step to a state in which blocks of v move or are put back.
LEMMA ExtMoves ==
  ASSUME ExtInv, proc.pc # "down", UNCHANGED <<stage, worker, owner, edits>>,
         IsVolume(disk'), IsVolume(cache'),
         journal.phase \in QuietPhases => OnlyFree(cache', cache),
         Remembers(proc'), proc'.pc \notin Idling \union {"down", "staging"}, proc'.op = journal'.op,
         IsJournal(journal'), journal'.phase \in RestoredPhases, journal'.phase \in PhaseAt(proc'.pc),
         (\E v : Midway(v, journal.plan))'
  PROVE  ExtInv' /\ ExtKinds
<1>a. worker = "ext" /\ ExtShape
  BY DEF ExtInv
<1>b. /\ journal'.phase \notin QuietPhases \union DonePhases \union {"none", "commit", "verifying-source"}
      /\ journal' # NoJournal /\ journal'.phase \in ExtPhases \ {"none"} /\ journal'.phase # "verifying-stage"
  BY DEF QuietPhases, DonePhases, RestoredPhases, NoJournal, ExtPhases
<1>1. ExtShape'
  BY <1>a, <1>b DEF ExtShape
<1>2. ExtPlanned' /\ proc'.pc # "staged"
  BY DEF ExtPlanned, Idling
<1>3. ExtDirect'
  BY <1>b, <1>2 DEF ExtDirect
<1>4. proc'.pc \notin {"commit", "record", "committed"}
  BY <1>b, PhasesAt
<1>5. ExtCommit'
  BY <1>b, <1>4 DEF ExtCommit, Bound
<1>6. ExtKinds
  BY <1>b DEF ExtKinds
<1>. QED BY <1>a, <1>1, <1>2, <1>3, <1>5, <1>6 DEF ExtInv

\* The first copies to their targets are due.
LEMMA ExtBeginPlacing ==
  ASSUME ExtInv, BeginPlacing
  PROVE  ExtInv' /\ ExtKinds
<1>a. worker = "ext" /\ ExtShape /\ ExtPlanned /\ ExtDirect /\ ExtCommit
  BY DEF ExtInv
<1>. DEFINE p == journal.plan
            todo == PlaceScript(p)
<1>1. Advance("staged", "direct-placing", "placing", todo)
  BY DEF BeginPlacing
<1>. HIDE DEF todo
<1>2. /\ proc.pc = "staged"
      /\ UNCHANGED <<disk, cache, stage, faults, worker, owner, edits>>
      /\ Remembers(proc') /\ proc'.pc = "placing" /\ proc'.op = proc.op /\ proc'.todo = todo
      /\ IsJournal(journal') /\ journal'.phase = "direct-placing" /\ journal'.op = journal.op
      /\ journal'.plan = p
  BY <1>a, <1>1, Advances
<1>3. PICK v : Copied(v, p) /\ Unmoved(v)
  BY <1>a, <1>2 DEF ExtDirect
<1>4. Copied(v, p)'
  BY <1>2, <1>3 DEF Copied
<1>5. Placing(v, p)'
  <2>1. /\ PlanOf(v, journal.op, p) /\ Agree(disk, WithCopies(v, p.slots), SlotsOf(p.slots))
        /\ disk = cache /\ Agree(disk, v, Carries(v)) /\ IsVolume(disk)
    BY <1>a, <1>3 DEF Copied, Unmoved, ExtShape
  <2>2. Nears(todo, disk, disk, NewLayout(v, p), SlotsOf(p.slots), TargetCells(p), UsedCells(v, p))
    BY <2>1, PlacingNears DEF todo
  <2>3. Agree(disk, v, Metadata)
    BY <2>1 DEF Agree, Metadata, Carries
  <2>. QED BY <1>2, <2>1, <2>2, <2>3 DEF Placing
<1>6. (\E w : Midway(w, journal.plan))'
  <2>. WITNESS v
  <2>. QED BY <1>2, <1>4, <1>5 DEF Midway
<1>7. /\ journal'.phase \in RestoredPhases /\ journal'.phase \in PhaseAt(proc'.pc)
      /\ proc'.pc \notin Idling \union {"down", "staging"}
  BY <1>2, PhasesAt DEF RestoredPhases, Idling
<1>8. proc'.op = journal'.op /\ IsVolume(disk') /\ IsVolume(cache') /\ OnlyFree(cache', cache)
  BY <1>a, <1>2, Working, AsideKeeps DEF ExtShape
<1>. QED BY <1>2, <1>6, <1>7, <1>8, ExtMoves

\* All copies are at their targets.
LEMMA ExtEnterMetadata ==
  ASSUME ExtInv, EnterMetadata
  PROVE  ExtInv' /\ ExtKinds
<1>a. worker = "ext" /\ ExtShape /\ ExtPlanned /\ ExtDirect /\ ExtCommit
  BY DEF ExtInv
<1>. DEFINE p == journal.plan
            todo == ApplyMappings(p)
<1>1. Advance("placing", "direct-metadata", "metadata", todo)
  BY DEF EnterMetadata
<1>. HIDE DEF todo
<1>2. /\ proc.pc = "placing" /\ proc.todo = <<>>
      /\ UNCHANGED <<disk, cache, stage, faults, worker, owner, edits>>
      /\ Remembers(proc') /\ proc'.pc = "metadata" /\ proc'.op = proc.op /\ proc'.todo = todo
      /\ IsJournal(journal') /\ journal'.phase = "direct-metadata" /\ journal'.op = journal.op
      /\ journal'.plan = p
  BY <1>a, <1>1, Advances
<1>3. journal.phase = "direct-placing"
  BY <1>a, <1>2, Working, PhasesAt
<1>4. PICK v : Copied(v, p) /\ Placing(v, p)
  BY <1>a, <1>2, <1>3 DEF ExtDirect, Midway, RestoredPhases
<1>5. Copied(v, p)'
  BY <1>2, <1>4 DEF Copied
<1>6. Remapping(v, p)'
  <2>1. PlanOf(v, journal.op, p) /\ Agree(disk, v, Metadata)
    BY <1>4 DEF Copied, Placing
  <2>2. Nears(<<>>, disk, cache, NewLayout(v, p), SlotsOf(p.slots), TargetCells(p), UsedCells(v, p))
    BY <1>2, <1>4 DEF Placing
  <2>3. disk = cache /\ IsVolume(disk) /\ Agree(disk, NewLayout(v, p), SlotsOf(p.slots)) /\ Agree(disk, NewLayout(v, p), UsedCells(v, p))
    BY <2>2, NearsEnd
  <2>4. Nears(todo, disk, disk, NewLayout(v, p), SlotsOf(p.slots), Metadata, Carries(NewLayout(v, p)))
    BY <2>1, <2>3, MetadataNears DEF todo
  <2>. QED BY <1>2, <2>3, <2>4 DEF Remapping
<1>7. (\E w : Midway(w, journal.plan))'
  <2>. WITNESS v
  <2>. QED BY <1>2, <1>5, <1>6 DEF Midway
<1>8. /\ journal'.phase \in RestoredPhases /\ journal'.phase \in PhaseAt(proc'.pc)
      /\ proc'.pc \notin Idling \union {"down", "staging"}
  BY <1>2, PhasesAt DEF RestoredPhases, Idling
<1>9. proc'.op = journal'.op /\ IsVolume(disk') /\ IsVolume(cache') /\ OnlyFree(cache', cache)
  BY <1>a, <1>2, Working, AsideKeeps DEF ExtShape
<1>. QED BY <1>2, <1>7, <1>8, <1>9, ExtMoves

\* The new layout is whole, on the disk.
LEMMA ExtEnterVerifying ==
  ASSUME ExtInv, EnterVerifying
  PROVE  ExtInv' /\ ExtKinds
<1>a. worker = "ext" /\ ExtShape /\ ExtPlanned /\ ExtDirect /\ ExtCommit
  BY DEF ExtInv
<1>. DEFINE p == journal.plan
<1>1. Advance("metadata", "direct-verifying", "verifying", <<>>)
  BY DEF EnterVerifying
<1>2. /\ proc.pc = "metadata" /\ proc.todo = <<>>
      /\ UNCHANGED <<disk, cache, stage, faults, worker, owner, edits>>
      /\ Remembers(proc') /\ proc'.pc = "verifying" /\ proc'.op = proc.op /\ proc'.todo = <<>>
      /\ IsJournal(journal') /\ journal'.phase = "direct-verifying" /\ journal'.op = journal.op
      /\ journal'.plan = p
  BY <1>a, <1>1, Advances
<1>3. journal.phase = "direct-metadata" /\ proc.op = journal.op
  BY <1>a, <1>2, Working, PhasesAt
<1>4. PICK v : Copied(v, p) /\ Remapping(v, p)
  BY <1>a, <1>2, <1>3 DEF ExtDirect, Midway, RestoredPhases
<1>5. disk = cache /\ Verified(cache, journal.op, p)
  <2>1. PlanOf(v, journal.op, p) /\ Contents(v) = owner
    BY <1>4 DEF Copied
  <2>2. Nears(<<>>, disk, cache, NewLayout(v, p), SlotsOf(p.slots), Metadata, Carries(NewLayout(v, p)))
    BY <1>2, <1>4 DEF Remapping
  <2>3. disk = cache /\ IsVolume(cache) /\ Agree(cache, NewLayout(v, p), Carries(NewLayout(v, p)))
    BY <2>2, NearsEnd
  <2>. HIDE DEF p
  <2>. QED BY <2>1, <2>3, NewLayoutVerifies
<1>6. /\ journal'.phase \in DonePhases /\ journal'.phase \in ExtPhases \ {"none"}
      /\ journal'.phase \notin QuietPhases \union RestoredPhases \union {"commit", "verifying-source"}
      /\ journal.phase \notin QuietPhases
  BY <1>2, <1>3 DEF DonePhases, ExtPhases, QuietPhases, RestoredPhases
<1>7. ExtShape'
  <2>1. journal'.phase \in PhaseAt(proc'.pc)
    BY <1>2, PhasesAt
  <2>. QED BY <1>a, <1>2, <1>3, <1>6, <2>1 DEF ExtShape
<1>8. ExtPlanned'
  BY <1>2 DEF ExtPlanned
<1>9. ExtDirect'
  <2>1. (disk = cache /\ Verified(cache, journal.op, journal.plan))'
    BY <1>2, <1>5 DEF Verified
  <2>. QED BY <1>2, <1>6, <2>1 DEF ExtDirect
<1>10. ExtCommit'
  BY <1>2, <1>6 DEF ExtCommit, Bound
<1>11. ExtKinds
  <2>1. journal' # NoJournal
    BY <1>2 DEF NoJournal
  <2>. QED BY <1>2, <1>6, <2>1 DEF ExtKinds
<1>. QED BY <1>a, <1>2, <1>7, <1>8, <1>9, <1>10, <1>11 DEF ExtInv

\* The copies are to be put back.
LEMMA ExtBeginRestore ==
  ASSUME ExtInv, BeginRestore
  PROVE  ExtInv' /\ ExtKinds
<1>a. worker = "ext" /\ ExtShape /\ ExtPlanned /\ ExtDirect /\ ExtCommit
  BY DEF ExtInv
<1>. DEFINE p == journal.plan
            todo == CopyWorkspaceRuns(Reversed(WorkspaceRows(p)))
<1>1. /\ proc.pc = "restore" /\ UNCHANGED <<disk, cache, stage, journal, worker, owner, edits>>
      /\ proc' = Doer("restoring", proc.op, todo)
  BY DEF BeginRestore, Begin, At, files, Aside, world
<1>. HIDE DEF todo
<1>2. proc.op = journal.op /\ journal.phase \in RestoredPhases /\ IsJournal(journal)
  BY <1>a, <1>1, Working, PhasesAt
<1>3. Remembers(proc') /\ proc'.pc = "restoring" /\ proc'.op = proc.op /\ proc'.todo = todo
  BY <1>1, Begins
<1>4. PICK v : Copied(v, p)
  BY <1>a, <1>2 DEF ExtDirect, Midway
<1>5. Copied(v, p)'
  BY <1>1, <1>4 DEF Copied
<1>6. Restoring(v, p)'
  <2>1. /\ PlanOf(v, journal.op, p) /\ IsVolume(disk) /\ IsVolume(cache)
        /\ Agree(disk, WithCopies(v, p.slots), SlotsOf(p.slots))
        /\ Agree(cache, WithCopies(v, p.slots), SlotsOf(p.slots))
    BY <1>a, <1>4 DEF Copied, ExtShape
  <2>2. Nears(todo, disk, cache, WithCopies(v, p.slots), SlotsOf(p.slots), Carries(v), Carries(v))
    BY <2>1, RestoringNears DEF todo
  <2>. QED BY <1>1, <1>3, <2>2 DEF Restoring
<1>7. (\E w : Midway(w, journal.plan))'
  <2>. WITNESS v
  <2>. QED BY <1>1, <1>3, <1>5, <1>6 DEF Midway
<1>8. /\ journal'.phase \in RestoredPhases /\ journal'.phase \in PhaseAt(proc'.pc)
      /\ proc'.pc \notin Idling \union {"down", "staging"}
  BY <1>1, <1>2, <1>3, PhasesAt DEF Idling
<1>9. proc'.op = journal'.op /\ IsVolume(disk') /\ IsVolume(cache') /\ OnlyFree(cache', cache) /\ IsJournal(journal')
  BY <1>a, <1>1, <1>2, <1>3, AsideKeeps DEF ExtShape
<1>. QED BY <1>1, <1>3, <1>7, <1>8, <1>9, ExtMoves

\* The copies are back in their place.
LEMMA ExtValidateRestored ==
  ASSUME ExtInv, ValidateRestored
  PROVE  ExtInv' /\ ExtKinds
<1>a. worker = "ext" /\ ExtShape /\ ExtPlanned /\ ExtDirect /\ ExtCommit
  BY DEF ExtInv
<1>. DEFINE p == journal.plan
<1>1. /\ proc.pc = "restoring" /\ proc.todo = <<>> /\ proc' = [proc EXCEPT !.pc = "cleanup"]
      /\ UNCHANGED <<disk, cache, stage, journal, worker, owner, edits>>
  BY DEF ValidateRestored, Finished, GiveUp, Goto, At, files, Aside, world
<1>2. Remembers(proc) /\ proc.op = journal.op /\ journal.phase \in RestoredPhases /\ IsJournal(journal)
  BY <1>a, <1>1, Working, PhasesAt
<1>3. Remembers(proc') /\ proc'.pc = "cleanup" /\ proc'.op = proc.op
  BY <1>1, <1>2, RemembersOn
<1>4. PICK v : Copied(v, p) /\ Restoring(v, p)
  BY <1>a, <1>1, <1>2 DEF ExtDirect, Midway
<1>5. Copied(v, p)'
  BY <1>1, <1>4 DEF Copied
<1>6. Unmoved(v)'
  <2>1. Nears(<<>>, disk, cache, WithCopies(v, p.slots), SlotsOf(p.slots), Carries(v), Carries(v))
    BY <1>1, <1>4 DEF Restoring
  <2>2. disk = cache /\ Agree(cache, WithCopies(v, p.slots), Carries(v))
    BY <2>1, NearsEnd
  <2>3. Agree(WithCopies(v, p.slots), v, Carries(v))
    <3>1. IsVolume(v) /\ IsShelf(v, p.slots, TargetRanges(p) \union ReserveRanges(p, journal.op))
      BY <1>4 DEF Copied, PlanOf
    <3>. QED BY <3>1, CopiesAre
  <2>. QED BY <1>1, <2>2, <2>3 DEF Unmoved, Agree
<1>7. (\E w : Midway(w, journal.plan))'
  <2>. WITNESS v
  <2>. QED BY <1>1, <1>3, <1>5, <1>6 DEF Midway
<1>8. /\ journal'.phase \in RestoredPhases /\ journal'.phase \in PhaseAt(proc'.pc)
      /\ proc'.pc \notin Idling \union {"down", "staging"}
  BY <1>1, <1>2, <1>3, PhasesAt DEF Idling, RestoredPhases, ExtPhases
<1>9. proc'.op = journal'.op /\ IsVolume(disk') /\ IsVolume(cache') /\ OnlyFree(cache', cache) /\ IsJournal(journal')
  BY <1>a, <1>1, <1>2, <1>3, AsideKeeps DEF ExtShape
<1>. QED BY <1>1, <1>3, <1>7, <1>8, <1>9, ExtMoves

-----------------------------------------------------------------------------
(* One copy, write or sync of a script.                                    *)

\* Only a worker that has a script performs a step of it.
LEMMA ExtPerforming ==
  ASSUME ExtInv, Perform
  PROVE  /\ proc.pc \in {"staging", "placing", "metadata", "restoring"} /\ proc.todo # <<>>
         /\ proc' = [proc EXCEPT !.todo = Tail(proc.todo)]
         /\ UNCHANGED <<stage, journal, worker, owner, edits>>
         /\ cache' = Performed(cache, Head(proc.todo))
         /\ disk' = IF Head(proc.todo)[1] = "flush" THEN cache ELSE disk
<1>1. /\ proc.pc \notin {"restore", "cleanup", "retire"} /\ "todo" \in DOMAIN proc /\ proc.todo # <<>>
      /\ proc' = [proc EXCEPT !.todo = Tail(proc.todo)]
      /\ UNCHANGED <<stage, journal, worker, owner, edits>>
      /\ Head(proc.todo)[1] \in {"copy", "write", "flush"}
  BY DEF Perform, Doing, world
<1>2. /\ cache' = Performed(cache, Head(proc.todo))
      /\ disk' = IF Head(proc.todo)[1] = "flush" THEN cache ELSE disk
  <2>1. CASE Doing("copy") /\ cache' = CopyRows(cache, Head(proc.todo)[2]) /\ UNCHANGED disk
    BY <2>1 DEF Doing, Performed
  <2>2. CASE Doing("write") /\ cache' = [cache EXCEPT ![Head(proc.todo)[2]] = Head(proc.todo)[3]] /\ UNCHANGED disk
    BY <2>2 DEF Doing, Performed
  <2>3. CASE Doing("flush") /\ disk' = cache /\ UNCHANGED cache
    BY <2>3 DEF Doing, Performed
  <2>. QED BY <2>1, <2>2, <2>3 DEF Perform
<1>3. proc.pc # "down"
  <2>1. proc # Idle
    BY <1>1 DEF Idle
  <2>. QED BY <2>1, Resting DEF ExtInv
<1>4. proc.pc \notin Idling
  BY <1>1 DEF ExtInv, ExtShape
<1>5. proc.pc \notin {"commit", "record", "committed"}
  <2>. SUFFICES ASSUME proc.pc \in {"commit", "record", "committed"} PROVE FALSE
    OBVIOUS
  <2>1. PICK k \in 0..Len(AllocatedRanges(stage.image)) : proc.todo = Rest(stage.image, k)
    BY ExtCommitting
  <2>2. Head(proc.todo) \in Blocks
    BY <1>1, <2>1, ExtCommitting, RestIs
  <2>3. \A b \in Blocks : b[1] \notin {"copy", "write", "flush"}
    BY DEF Blocks, Header, Bitmap, Mirror, MapOf, Cell
  <2>. QED BY <1>1, <2>2, <2>3
<1>6. proc.pc \in {"staging", "placing", "metadata", "restoring"}
  BY <1>1, <1>3, <1>4, <1>5, Working DEF ExtInv
<1>. QED BY <1>1, <1>2, <1>6

\* A copy into the workspace.
LEMMA ExtStages ==
  ASSUME ExtInv, Perform, proc.pc = "staging"
  PROVE  ExtInv' /\ ExtKinds
<1>a. worker = "ext" /\ ExtShape /\ ExtPlanned /\ ExtDirect /\ ExtCommit
  BY DEF ExtInv
<1>1. /\ proc.todo # <<>> /\ proc' = [proc EXCEPT !.todo = Tail(proc.todo)]
      /\ UNCHANGED <<stage, journal, worker, owner, edits>>
      /\ cache' = Performed(cache, Head(proc.todo))
      /\ disk' = IF Head(proc.todo)[1] = "flush" THEN cache ELSE disk
  BY ExtPerforming
<1>. DEFINE p == journal.plan
<1>2. Remembers(proc) /\ proc.op = journal.op /\ IsJournal(journal) /\ journal.phase = "direct-staging"
  BY <1>a, Working, PhasesAt
<1>. DEFINE todo == Tail(proc.todo)
<1>3. Remembers(proc') /\ proc'.pc = "staging" /\ proc'.op = proc.op /\ proc'.todo = todo
  <2>1. proc' = [proc EXCEPT !.todo = todo]
    BY <1>1
  <2>. HIDE DEF todo
  <2>. QED BY <1>2, <2>1, RemembersOn
<1>4. PICK v : Staging(v, p)
  BY <1>a DEF ExtDirect
<1>. DEFINE slots == p.slots
            goal == WithCopies(v, slots)
            reach == SlotsOf(slots)
<1>5. /\ PlanOf(v, journal.op, p) /\ HasParts(p)
      /\ Nears(proc.todo, disk, cache, goal, Carries(v), reach, reach)
  BY <1>4 DEF Staging
<1>6. /\ IsVolume(v) /\ IsVolume(goal) /\ reach \subseteq Blocks /\ Exclusive(v) /\ Agree(goal, v, Carries(v))
      /\ \A b \in reach : \E c \in FreeCells(v) : b = Cell(c)
  <2>1. IsVolume(v) /\ IsShelf(v, slots, TargetRanges(p) \union ReserveRanges(p, journal.op)) /\ Exclusive(v)
    BY <1>5 DEF PlanOf, Sound
  <2>2. IsVolume(goal) /\ Agree(goal, v, Carries(v)) /\ \A b \in DOMAIN slots : slots[b] \in Blocks
    BY <2>1, CopiesAre
  <2>3. \A b \in DOMAIN slots : \E c \in FreeCells(v) : slots[b] = Cell(c)
    BY <2>1 DEF IsShelf
  <2>. QED BY <2>1, <2>2, <2>3 DEF SlotsOf
<1>7. /\ Nears(todo, disk', cache', goal, Carries(v), reach, reach)
      /\ \A b \in Blocks : b \notin reach => cache'[b] = cache[b] /\ (disk'[b] = disk[b] \/ disk'[b] = cache[b])
  <2>. DEFINE d1 == disk'
              c1 == cache'
              script == proc.todo
  <2>1. Steps(script, disk, cache, goal, Carries(v), reach, reach, d1, c1)
    BY <1>1, <1>5, <1>6 DEF Taken, Steps
  <2>. HIDE DEF goal, reach, d1, c1, script
  <2>2. /\ Nears(Tail(script), d1, c1, goal, Carries(v), reach, reach)
        /\ \A b \in Blocks : b \notin reach => c1[b] = cache[b] /\ (d1[b] = disk[b] \/ d1[b] = cache[b])
    BY <2>1, StepNears DEF Stepped
  <2>. QED BY <2>2 DEF d1, c1, script
<1>. HIDE DEF todo, goal, reach, slots
<1>8. /\ Agree(cache, v, Carries(v)) /\ Agree(cache', v, Carries(v)) /\ IsVolume(disk') /\ IsVolume(cache')
  BY <1>5, <1>6, <1>7 DEF Nears, Agree
<1>9. /\ Quiet /\ Sound(v)
  BY <1>a, <1>2, <1>5 DEF ExtDirect, QuietPhases, PlanOf
<1>10. /\ Contents(cache) = Contents(v) /\ FreeCells(cache) = FreeCells(v)
       /\ Contents(cache') = Contents(v) /\ FreeCells(cache') = FreeCells(v) /\ Sound(cache')
  <2>1. Contents(cache) = Contents(v) /\ FreeCells(cache) = FreeCells(v)
    BY <1>6, <1>8, AgreeIsSame
  <2>2. Contents(cache') = Contents(v) /\ FreeCells(cache') = FreeCells(v) /\ Sound(cache')
    BY <1>6, <1>8, <1>9, AgreeIsSame
  <2>. QED BY <2>1, <2>2
<1>11. OnlyFree(cache', cache)
  BY <1>6, <1>7, <1>10 DEF OnlyFree
<1>12. Quiet'
  <2>1. Contents(cache') = owner
    BY <1>9, <1>10 DEF Quiet
  <2>2. OnlyFree(disk', cache')
    BY <1>6, <1>7, <1>9, <1>10 DEF OnlyFree, Quiet
  <2>. QED BY <1>1, <1>10, <2>1, <2>2 DEF Quiet
<1>13. ExtShape'
  <2>1. "staging" \notin Idling
    BY DEF Idling
  <2>. QED BY <1>a, <1>1, <1>2, <1>3, <1>8, <2>1, PhasesAt DEF ExtShape
<1>14. ExtPlanned'
  BY <1>3 DEF ExtPlanned
<1>15. ExtDirect'
  <2>1. (\E w : Staging(w, journal.plan))'
    <3>. WITNESS v
    <3>. QED BY <1>1, <1>3, <1>5, <1>7 DEF Staging, goal, reach, slots
  <2>2. journal.phase \notin RestoredPhases \union DonePhases
    BY <1>2 DEF RestoredPhases, DonePhases
  <2>. QED BY <1>1, <1>3, <1>12, <2>1, <2>2 DEF ExtDirect
<1>16. ExtCommit'
  BY <1>1, <1>2, <1>3 DEF ExtCommit, Bound
<1>17. ExtKinds
  BY <1>1, <1>2, <1>11 DEF ExtKinds
<1>. QED BY <1>a, <1>1, <1>13, <1>14, <1>15, <1>16, <1>17 DEF ExtInv

\* A step of a script that keeps the copies.
LEMMA KeptStep ==
  ASSUME NEW v, NEW p, Copied(v, p), proc.todo # <<>>,
         NEW goal, IsVolume(goal), NEW reach, NEW area, area \subseteq Blocks,
         Nears(proc.todo, disk, cache, goal, SlotsOf(p.slots), reach, area),
         cache' = Performed(cache, Head(proc.todo)),
         disk' = IF Head(proc.todo)[1] = "flush" THEN cache ELSE disk,
         UNCHANGED <<owner, journal>>
  PROVE  /\ Nears(Tail(proc.todo), disk', cache', goal, SlotsOf(p.slots), reach, area)
         /\ \A b \in Blocks : b \notin reach => cache'[b] = cache[b] /\ (disk'[b] = disk[b] \/ disk'[b] = cache[b])
         /\ Copied(v, p)' /\ IsVolume(disk') /\ IsVolume(cache')
<1>. DEFINE d1 == disk'
            c1 == cache'
            script == proc.todo
            keep == SlotsOf(p.slots)
<1>1. Steps(script, disk, cache, goal, keep, reach, area, d1, c1)
  BY DEF Taken, Steps
<1>. HIDE DEF d1, c1, script, keep
<1>2. /\ Nears(Tail(script), d1, c1, goal, keep, reach, area)
      /\ \A b \in Blocks : b \notin reach => c1[b] = cache[b] /\ (d1[b] = disk[b] \/ d1[b] = cache[b])
  BY <1>1, StepNears DEF Stepped
<1>3. keep \subseteq Blocks /\ keep \intersect reach = {}
  BY <1>1 DEF Steps, Nears, Leads
<1>4. \A b \in keep : d1[b] \in {disk[b], cache[b]} /\ c1[b] = cache[b]
  BY <1>2, <1>3
<1>5. Copied(v, p)'
  BY <1>4, CopiedStays DEF d1, c1, keep
<1>6. IsVolume(d1) /\ IsVolume(c1)
  BY <1>2 DEF Nears
<1>. QED BY <1>2, <1>5, <1>6 DEF d1, c1, script, keep

\* A step while blocks move or are put back.
LEMMA ExtMovesOn ==
  ASSUME ExtInv, Perform, proc.pc \in {"placing", "metadata", "restoring"}
  PROVE  ExtInv' /\ ExtKinds
<1>a. worker = "ext" /\ ExtShape /\ ExtPlanned /\ ExtDirect /\ ExtCommit
  BY DEF ExtInv
<1>1. /\ proc.todo # <<>> /\ proc' = [proc EXCEPT !.todo = Tail(proc.todo)]
      /\ UNCHANGED <<stage, journal, worker, owner, edits>>
      /\ cache' = Performed(cache, Head(proc.todo))
      /\ disk' = IF Head(proc.todo)[1] = "flush" THEN cache ELSE disk
  BY ExtPerforming
<1>. DEFINE p == journal.plan
            todo == Tail(proc.todo)
<1>2. /\ Remembers(proc) /\ proc.op = journal.op /\ IsJournal(journal) /\ journal.phase \in RestoredPhases
      /\ journal.phase \in PhaseAt(proc.pc)
  BY <1>a, Working, PhasesAt DEF RestoredPhases
<1>3. Remembers(proc') /\ proc'.pc = proc.pc /\ proc'.op = proc.op /\ proc'.todo = todo
  <2>1. proc' = [proc EXCEPT !.todo = todo]
    BY <1>1
  <2>. HIDE DEF todo
  <2>. QED BY <1>2, <2>1, RemembersOn
<1>4. PICK v : Midway(v, p)
  BY <1>a, <1>2 DEF ExtDirect
<1>5. Copied(v, p) /\ PlanOf(v, journal.op, p)
  BY <1>4 DEF Midway, Copied
<1>6. IsVolume(NewLayout(v, p)) /\ IsVolume(WithCopies(v, p.slots)) /\ IsVolume(v)
  <2>1. IsVolume(v) /\ IsShelf(v, p.slots, TargetRanges(p) \union ReserveRanges(p, journal.op))
    BY <1>5 DEF PlanOf
  <2>2. IsVolume(NewLayout(v, p))
    BY <1>5, NewLayoutIs
  <2>3. IsVolume(WithCopies(v, p.slots))
    BY <2>1, CopiesAre
  <2>. QED BY <2>1, <2>2, <2>3
<1>7. Carries(v) \subseteq Blocks /\ Carries(NewLayout(v, p)) \subseteq Blocks /\ UsedCells(v, p) \subseteq Blocks
  <2>1. Carries(v) \subseteq Blocks /\ Carries(NewLayout(v, p)) \subseteq Blocks
    BY <1>6, CarriesAre
  <2>2. NewUsed(v, p) \subseteq Cells
    BY <1>5, PlanFacts DEF NewUsed
  <2>. QED BY <2>1, <2>2, BlockSet DEF UsedCells
<1>8. CASE proc.pc = "placing"
  <2>. DEFINE goal == NewLayout(v, p)
              reach == TargetCells(p)
              area == UsedCells(v, p)
  <2>1. /\ Nears(proc.todo, disk, cache, goal, SlotsOf(p.slots), reach, area)
        /\ Agree(disk, v, Metadata) /\ Agree(cache, v, Metadata)
    BY <1>4, <1>8 DEF Midway, Placing
  <2>. HIDE DEF goal, reach, area
  <2>2. /\ Nears(todo, disk', cache', goal, SlotsOf(p.slots), reach, area)
        /\ \A b \in Blocks : b \notin reach => cache'[b] = cache[b] /\ (disk'[b] = disk[b] \/ disk'[b] = cache[b])
        /\ Copied(v, p)' /\ IsVolume(disk') /\ IsVolume(cache')
    <3>1. IsVolume(goal) /\ area \subseteq Blocks
      BY <1>6, <1>7 DEF goal, area
    <3>. QED BY <1>1, <1>5, <2>1, <3>1, KeptStep
  <2>3. Agree(disk', v, Metadata) /\ Agree(cache', v, Metadata)
    <3>1. \A b \in Metadata : b \in Blocks /\ b \notin reach
      BY BlockNames, BlockSet DEF Metadata, reach, TargetCells
    <3>. QED BY <2>1, <2>2, <3>1 DEF Agree
  <2>4. Placing(v, p)'
    BY <1>1, <1>3, <2>2, <2>3 DEF Placing, goal, reach, area
  <2>5. (\E w : Midway(w, journal.plan))'
    <3>. WITNESS v
    <3>. QED BY <1>1, <1>3, <1>8, <2>2, <2>4 DEF Midway
  <2>6. proc'.pc \notin Idling \union {"down", "staging"}
    BY <1>3, <1>8 DEF Idling
  <2>7. journal.phase \notin QuietPhases
    BY <1>2 DEF RestoredPhases, QuietPhases
  <2>. QED BY <1>1, <1>2, <1>3, <1>8, <2>2, <2>5, <2>6, <2>7, ExtMoves
<1>9. CASE proc.pc = "metadata"
  <2>. DEFINE goal == NewLayout(v, p)
              area == Carries(goal)
  <2>1. Nears(proc.todo, disk, cache, goal, SlotsOf(p.slots), Metadata, area)
    BY <1>4, <1>9 DEF Midway, Remapping
  <2>. HIDE DEF goal, area
  <2>2. /\ Nears(todo, disk', cache', goal, SlotsOf(p.slots), Metadata, area)
        /\ Copied(v, p)' /\ IsVolume(disk') /\ IsVolume(cache')
    <3>1. IsVolume(goal) /\ area \subseteq Blocks
      BY <1>6, <1>7 DEF goal, area
    <3>. QED BY <1>1, <1>5, <2>1, <3>1, KeptStep
  <2>4. Remapping(v, p)'
    BY <1>1, <1>3, <2>2 DEF Remapping, goal, area
  <2>5. (\E w : Midway(w, journal.plan))'
    <3>. WITNESS v
    <3>. QED BY <1>1, <1>3, <1>9, <2>2, <2>4 DEF Midway
  <2>6. proc'.pc \notin Idling \union {"down", "staging"}
    BY <1>3, <1>9 DEF Idling
  <2>7. journal.phase \notin QuietPhases
    BY <1>2 DEF RestoredPhases, QuietPhases
  <2>. QED BY <1>1, <1>2, <1>3, <1>9, <2>2, <2>5, <2>6, <2>7, ExtMoves
<1>10. CASE proc.pc = "restoring"
  <2>. DEFINE goal == WithCopies(v, p.slots)
              reach == Carries(v)
  <2>1. Nears(proc.todo, disk, cache, goal, SlotsOf(p.slots), reach, reach)
    BY <1>4, <1>10 DEF Midway, Restoring
  <2>. HIDE DEF goal, reach
  <2>2. /\ Nears(todo, disk', cache', goal, SlotsOf(p.slots), reach, reach)
        /\ Copied(v, p)' /\ IsVolume(disk') /\ IsVolume(cache')
    <3>1. IsVolume(goal) /\ reach \subseteq Blocks
      BY <1>6, <1>7 DEF goal, reach
    <3>. QED BY <1>1, <1>5, <2>1, <3>1, KeptStep
  <2>4. Restoring(v, p)'
    BY <1>1, <1>3, <2>2 DEF Restoring, goal, reach
  <2>5. (\E w : Midway(w, journal.plan))'
    <3>. WITNESS v
    <3>. QED BY <1>1, <1>3, <1>10, <2>2, <2>4 DEF Midway
  <2>6. proc'.pc \notin Idling \union {"down", "staging"}
    BY <1>3, <1>10 DEF Idling
  <2>7. journal.phase \notin QuietPhases
    BY <1>2 DEF RestoredPhases, QuietPhases
  <2>. QED BY <1>1, <1>2, <1>3, <1>10, <2>2, <2>5, <2>6, <2>7, ExtMoves
<1>. QED BY <1>8, <1>9, <1>10

\* A step that changes nothing.
LEMMA ExtStutters ==
  ASSUME ExtInv, UNCHANGED vars
  PROVE  ExtInv' /\ ExtKinds
<1>a. worker = "ext" /\ ExtShape /\ ExtPlanned /\ ExtDirect /\ ExtCommit
  BY DEF ExtInv
<1>1. UNCHANGED <<worker, disk, cache, stage, journal, proc, owner, faults, edits>>
  BY DEF vars
<1>2. ExtShape'
  BY <1>a, <1>1 DEF ExtShape
<1>3. ExtPlanned'
  BY <1>a, <1>1 DEF ExtPlanned, Verified
<1>4. ExtDirect'
  <2>1. journal.phase \in QuietPhases => Quiet'
    BY <1>a, <1>1 DEF ExtDirect, Quiet
  <2>2. proc.pc = "staging" => (\E v : Staging(v, journal.plan))'
    <3>. SUFFICES ASSUME proc.pc = "staging" PROVE (\E v : Staging(v, journal.plan))'
      OBVIOUS
    <3>1. PICK v : Staging(v, journal.plan)
      BY <1>a DEF ExtDirect
    <3>. WITNESS v
    <3>. QED BY <1>1, <3>1 DEF Staging
  <2>3. \A v : \A p : Copied(v, p) => Copied(v, p)'
    BY <1>1 DEF Copied
  <2>4. proc.pc = "staged" => (\E v : Copied(v, journal.plan) /\ Unmoved(v))'
    <3>. SUFFICES ASSUME proc.pc = "staged" PROVE (\E v : Copied(v, journal.plan) /\ Unmoved(v))'
      OBVIOUS
    <3>1. PICK v : Copied(v, journal.plan) /\ Unmoved(v)
      BY <1>a DEF ExtDirect
    <3>. WITNESS v
    <3>. QED BY <1>1, <3>1 DEF Copied, Unmoved
  <2>5. journal.phase \in RestoredPhases => (\E v : Midway(v, journal.plan))'
    <3>. SUFFICES ASSUME journal.phase \in RestoredPhases PROVE (\E v : Midway(v, journal.plan))'
      OBVIOUS
    <3>1. PICK v : Midway(v, journal.plan)
      BY <1>a DEF ExtDirect
    <3>. WITNESS v
    <3>. QED BY <1>1, <3>1 DEF Midway, Copied, Unmoved, Placing, Remapping, Restoring
  <2>6. journal.phase \in DonePhases => (disk = cache /\ Verified(cache, journal.op, journal.plan))'
    BY <1>a, <1>1 DEF ExtDirect, Verified
  <2>. QED BY <1>1, <2>1, <2>2, <2>4, <2>5, <2>6 DEF ExtDirect
<1>5. ExtCommit'
  BY <1>a, <1>1 DEF ExtCommit, Bound, Verified, Written
<1>6. proc.pc = "arrange" => journal.phase = "arranging"
  <2>1. proc.pc # "down" => journal.phase \in PhaseAt(proc.pc)
    BY <1>a, Working
  <2>. QED BY <2>1, PhasesAt
<1>7. OnlyFree(cache', cache)
  BY <1>1 DEF OnlyFree
<1>8. ExtKinds
  BY <1>1, <1>6, <1>7 DEF ExtKinds
<1>. QED BY <1>a, <1>1, <1>2, <1>3, <1>4, <1>5, <1>8 DEF ExtInv

-----------------------------------------------------------------------------
(* Every step.                                                             *)

\* Whatever the worker of EXT does.
LEMMA ExtNextKeeps ==
  ASSUME ExtInv, [Next]_vars
  PROVE  ExtInv' /\ ExtKinds
<1>1. worker = "ext"
  BY DEF ExtInv
<1>2. CASE Preflight
  BY <1>2, ExtPreflight
<1>3. CASE Perform
  <2>1. proc.pc \in {"staging", "placing", "metadata", "restoring"}
    BY <1>3, ExtPerforming
  <2>. QED BY <1>3, <2>1, ExtStages, ExtMovesOn
<1>4. CASE Direct
  BY <1>3, <1>4, ExtPlanDirect, ExtEnterStaging, ExtFinishStaging, ExtBeginPlacing, ExtEnterMetadata,
     ExtEnterVerifying, ExtVerifyDirect, ExtBeginRestore, ExtValidateRestored DEF Direct
<1>5. CASE ExtWork
  BY <1>4, <1>5, ExtCreateStage, ExtPlanStage, ExtArrangeStage, ExtBeginCommit, ExtCopyBlock, ExtSyncRange,
     ExtRecordOffset, ExtEnterVerifyingSource, ExtVerifyDirect, ExtCleanupFiles, ExtCleanupJournal
     DEF ExtWork, CommitStage, CommitRanges, TransactionCleanup
<1>6. CASE ExtRecover
  BY <1>6, ExtRecovers, ExtRecoverCommit DEF ExtRecover
<1>7. CASE ExtStop \/ FailDirect
  BY <1>7, ExtStopEarly, ExtStopsLate DEF ExtStop
<1>8. CASE Killed \/ PowerLoss
  BY <1>8, ExtCrashes, ExtSurvives
<1>9. CASE UNCHANGED vars
  BY <1>9, ExtStutters
<1>10. Next => Preflight \/ ExtWork \/ ExtRecover \/ ExtStop \/ FailDirect \/ Killed \/ PowerLoss
  BY <1>1 DEF Next, Command, Work, Recover, Stop, Failure
<1>. QED BY <1>2, <1>5, <1>6, <1>7, <1>8, <1>9, <1>10

\* The volumes that the worker of EXT starts from.
LEMMA ExtStarts == Start /\ worker = "ext" => ExtInv
<1>. SUFFICES ASSUME Start, worker = "ext" PROVE ExtInv
  OBVIOUS
<1>1. IsVolume(disk) /\ Sound(disk)
  <2>1. PICK s \in Starts : worker = s[1] /\ disk = s[2]
    BY DEF Start
  <2>. QED BY <2>1, StartsAssumption, SoundAssumption, VolumesAssumption
<1>2. /\ cache = disk /\ stage = NoStage /\ journal = NoJournal /\ proc = Idle /\ owner = Contents(disk)
  BY DEF Start, Init
<1>3. proc.pc = "down" /\ stage.state = "none" /\ journal.phase = "none"
  BY <1>2 DEF NoStage, NoJournal, Idle
<1>4. ExtShape
  BY <1>1, <1>2, <1>3 DEF ExtShape, Idling
<1>5. ExtPlanned
  BY <1>3 DEF ExtPlanned
<1>6. ExtDirect
  <2>1. Quiet
    BY <1>1, <1>2 DEF Quiet, OnlyFree
  <2>. QED BY <1>3, <2>1 DEF ExtDirect, RestoredPhases, DonePhases
<1>7. ExtCommit
  BY <1>3 DEF ExtCommit, Bound
<1>. QED BY <1>4, <1>5, <1>6, <1>7 DEF ExtInv

\* The invariant of the worker of EXT.
LEMMA ExtInvHolds == Spec /\ worker = "ext" => []ExtInv
<1>1. ExtInv /\ [Next]_vars => ExtInv'
  BY ExtNextKeeps
<1>. QED BY <1>1, ExtStarts, PTL DEF Spec

-----------------------------------------------------------------------------
(* What Recover makes of the volume.                                       *)

\* What is settled, by the phase of the journal.
LEMMA SettledByPhase ==
  ASSUME worker = "ext", journal.phase \in ExtPhases, NEW x
  PROVE  /\ journal.phase \in RestoredPhases => Settled(x) = Restored(x, journal.plan.slots)
         /\ Bound => Settled(x) = Overlay(x, stage.image, Range(Rest(stage.image, journal.offset)))
         /\ journal.phase \notin RestoredPhases /\ ~ Bound => Settled(x) = x
<1>1. journal.phase # "workspace-placing" /\ journal.phase # "workspace-metadata" /\ worker # "exfat"
  BY DEF ExtPhases, QuietPhases, DonePhases, RestoredPhases
<1>2. Bound => journal.phase \notin RestoredPhases
  BY DEF Bound, RestoredPhases
<1>3. Committed(x) = Overlay(x, stage.image, Range(Rest(stage.image, journal.offset)))
  <2>1. ResumeAt(journal.offset).todo = Rest(stage.image, journal.offset)
    BY DEF ResumeAt, Rest
  <2>. QED BY <2>1 DEF Committed, Once
<1>4. journal.phase \in RestoredPhases => Settled(x) = Restored(x, journal.plan.slots)
  BY <1>1, <1>2 DEF Settled, RestoredPhases, Bound
<1>5. Bound => Settled(x) = Committed(x)
  BY <1>1, <1>2 DEF Settled, RestoredPhases, Bound
<1>6. journal.phase \notin RestoredPhases /\ ~ Bound => Settled(x) = x
  BY <1>1 DEF Settled, RestoredPhases, Bound
<1>. QED BY <1>3, <1>4, <1>5, <1>6

\* A volume in order that holds what its owner saw.
Good(v) == IsVolume(v) /\ Sound(v) /\ Contents(v) = owner

\* What was on the disk or in the cache, settled, is such a volume.
LEMMA ExtSettles ==
  ASSUME ExtInv, NEW x \in {disk, cache}
  PROVE  Good(Settled(x))
<1>a. worker = "ext" /\ ExtShape /\ ExtDirect /\ ExtCommit
  BY DEF ExtInv
<1>1. journal.phase \in ExtPhases
  BY <1>a DEF ExtShape, NoJournal, ExtPhases, QuietPhases
<1>2. IsVolume(x)
  BY <1>a DEF ExtShape
<1>. DEFINE u == Settled(x)
            slots == journal.plan.slots
            rest == Range(Rest(stage.image, journal.offset))
<1>3. /\ journal.phase \in RestoredPhases => u = Restored(x, slots)
      /\ Bound => u = Overlay(x, stage.image, rest)
      /\ journal.phase \notin RestoredPhases /\ ~ Bound => u = x
  BY <1>a, <1>1, SettledByPhase
<1>. HIDE DEF u, slots, rest
<1>4. CASE journal.phase \in RestoredPhases
  <2>1. PICK v : Midway(v, journal.plan)
    BY <1>a, <1>4 DEF ExtDirect
  <2>2. /\ PlanOf(v, journal.op, journal.plan) /\ Contents(v) = owner
        /\ Agree(x, WithCopies(v, slots), SlotsOf(slots))
    BY <2>1 DEF Midway, Copied, slots
  <2>. DEFINE avoid == TargetRanges(journal.plan) \union ReserveRanges(journal.plan, journal.op)
              w == WithCopies(v, slots)
  <2>3. IsVolume(v) /\ Sound(v) /\ Exclusive(v) /\ IsShelf(v, slots, avoid) /\ DOMAIN slots = Carries(v)
    BY <2>2 DEF PlanOf, Sound, slots
  <2>. HIDE DEF avoid, w
  <2>4. \A b \in DOMAIN slots : w[slots[b]] = Carry(v, b, slots[b])
    BY <2>3, CopiesAre DEF w
  <2>5. \A b \in DOMAIN slots : x[slots[b]] = Carry(v, b, slots[b])
    BY <2>2, <2>4 DEF Agree, SlotsOf, w
  <2>6. u = Restored(x, slots)
    BY <1>3, <1>4
  <2>7. IsVolume(u) /\ Agree(u, v, Carries(v))
    BY <1>2, <2>3, <2>5, <2>6, RestoredIs
  <2>8. Contents(u) = Contents(v) /\ Sound(u)
    BY <2>3, <2>7, AgreeIsSame
  <2>. QED BY <2>2, <2>7, <2>8 DEF Good, u
<1>5. CASE Bound
  <2>1. /\ Verified(stage.image, journal.op, journal.plan)
        /\ journal.offset \in 0..Len(AllocatedRanges(stage.image))
        /\ Written(x, stage.image, journal.offset)
    BY <1>a, <1>5 DEF ExtCommit
  <2>2. Verified(u, journal.op, journal.plan)
    BY <1>2, <1>3, <1>5, <2>1, RestSettles DEF rest
  <2>. QED BY <2>2 DEF Verified, Good, u
<1>6. CASE journal.phase \in QuietPhases
  <2>1. journal.phase \notin RestoredPhases /\ ~ Bound /\ Quiet
    BY <1>a, <1>6 DEF ExtDirect, Bound, QuietPhases, RestoredPhases
  <2>2. Agree(x, cache, Carries(cache))
    <3>1. \A b \in Carries(cache) : \A c \in FreeCells(cache) : b # Cell(c)
      BY <1>a, CarriesAre DEF ExtShape
    <3>2. Carries(cache) \subseteq Blocks
      BY <1>a, CarriesAre DEF ExtShape
    <3>. QED BY <2>1, <3>1, <3>2 DEF Agree, Quiet, OnlyFree
  <2>3. Sound(cache) /\ Exclusive(cache) /\ Contents(cache) = owner
    BY <2>1 DEF Quiet, Sound
  <2>4. Contents(x) = owner /\ Sound(x)
    BY <2>2, <2>3, AgreeIsSame
  <2>. QED BY <1>2, <1>3, <2>1, <2>4 DEF Good, u
<1>7. CASE journal.phase \in DonePhases /\ ~ Bound
  <2>1. journal.phase \notin RestoredPhases /\ x = cache /\ Verified(cache, journal.op, journal.plan)
    BY <1>a, <1>7 DEF ExtDirect, DonePhases, RestoredPhases
  <2>. QED BY <1>3, <1>7, <2>1 DEF Good, Verified, u
<1>8. journal.phase = "commit" => Bound
  BY <1>a DEF ExtCommit, Bound
<1>. QED BY <1>1, <1>4, <1>5, <1>6, <1>7, <1>8 DEF ExtPhases

\* So was what is on the disk in the next state.
LEMMA ExtDiskSettles == ExtInv => Good(Settled(disk))
BY ExtSettles

\* Two volumes with the same contents have files of the same length.
LEMMA SameLengths ==
  ASSUME NEW v, NEW w, IsVolume(v), IsVolume(w), Contents(v) = Contents(w), NEW f \in Files
  PROVE  Len(Maps(v)[f]) = Len(Maps(w)[f])
<1>1. v[MapOf(f)] \in Seq(Cells) /\ w[MapOf(f)] \in Seq(Cells)
  BY DEF IsVolume
<1>2. DOMAIN Contents(v)[f] = DOMAIN v[MapOf(f)] /\ DOMAIN Contents(w)[f] = DOMAIN w[MapOf(f)]
  BY DEF Contents
<1>3. DOMAIN v[MapOf(f)] = DOMAIN w[MapOf(f)]
  BY <1>2
<1>4. Len(v[MapOf(f)]) = Len(w[MapOf(f)])
  <2>. DEFINE a == v[MapOf(f)]
              b == w[MapOf(f)]
  <2>1. a \in Seq(Cells) /\ b \in Seq(Cells) /\ DOMAIN a = DOMAIN b
    BY <1>1, <1>3
  <2>. HIDE DEF a, b
  <2>2. DOMAIN a = 1..Len(a) /\ DOMAIN b = 1..Len(b) /\ Len(a) \in Nat /\ Len(b) \in Nat
    BY <2>1
  <2>. DEFINE m == Len(a)
              n == Len(b)
  <2>3. m \in Nat /\ n \in Nat /\ 1..m = 1..n
    BY <2>1, <2>2
  <2>. HIDE DEF m, n
  <2>4. (m > 0 => m \in 1..n) /\ (n > 0 => n \in 1..m)
    BY <2>3
  <2>5. m = n
    BY <2>3, <2>4
  <2>. QED BY <2>5 DEF a, b, m, n
<1>. QED BY <1>4 DEF Maps

-----------------------------------------------------------------------------
(* The theorems.                                                           *)

\* The volumes, the journal and the image of the EXT worker keep the shapes that
\* it relies on, and the recorded offset stays inside the order it resumes.
THEOREM ExtTypeOK == Spec /\ worker = "ext" => []TypeOK
<1>1. Start => faults \in 0..MaxFaults
  BY Bounds DEF Start, Init
<1>2. ExtInv /\ faults \in 0..MaxFaults /\ [Next]_vars => (faults \in 0..MaxFaults)'
  <2>. SUFFICES ASSUME ExtInv, faults \in 0..MaxFaults, [Next]_vars PROVE faults' \in 0..MaxFaults
    OBVIOUS
  <2>1. faults' = faults \/ Fault
    BY DEF ExtInv, Next, Command, Work, Recover, Stop, Failure, Preflight, ExtWork, ExtRecover, ExtStop, Direct,
       PlanDirect, EnterStaging, FinishStaging, BeginPlacing, EnterMetadata, EnterVerifying, VerifyDirect,
       BeginRestore, ValidateRestored, Perform, Doing, CreateStage, PlanStage, ArrangeStage,
       CheckUnchangedTarget, BeginCommit, CommitStage, CommitRanges, CopyBlock, CopyNext, SyncRange, Sync,
       RecordOffset, EnterVerifyingSource, EnterPhase, VerifySource, TransactionCleanup, CleanupFiles, Unlink,
       CleanupJournal, Retire, RecoverDiscard, DiscardPending, RecoverStaged, RecoverDirect, RecoverCommit,
       StopDirect, StopPlacing, StopStage, FailDirect, GiveUp, Advance, Record, Aside, Killed, PowerLoss, vars
  <2>. QED BY <2>1, Bounds DEF Fault
<1>3. ExtInv /\ faults \in 0..MaxFaults => TypeOK
  BY DEF ExtInv, ExtShape, ExtCommit, Bound, TypeOK
<1>. QED BY <1>1, <1>2, <1>3, ExtInvHolds, PTL DEF Spec

\* No byte of a file is lost, in place or through a working image: the copies in
\* the workspace, the blocks still in place and those already moved make up every
\* file at every moment, on stable storage and in what the kernel shows, and no
\* cell belongs twice; for every volume in order, every workspace and any number
\* of Stops, failed writes, kills and power losses.
THEOREM ExtContentsKept == Spec /\ worker = "ext" => []ContentsKept
<1>1. ExtInv => ContentsKept
  <2>. SUFFICES ASSUME ExtInv PROVE ContentsKept
    OBVIOUS
  <2>1. worker # "exfat" /\ \A v \in {Settled(disk), Settled(cache)} : Good(v)
    BY ExtSettles DEF ExtInv
  <2>. QED BY <2>1 DEF ContentsKept, Good
<1>. QED BY <1>1, ExtInvHolds, PTL

\* While Recover would throw the command away, the EXT worker has written nothing
\* but free cells.
THEOREM ExtWriteAhead == Spec /\ worker = "ext" => WriteAhead
<1>1. ExtInv /\ [Next]_vars =>
        (journal.phase \in DiscardedPhases =>
          \A b \in Differing(cache, cache') :
             \/ b[1] = "cell" /\ b[2] \in FreeCells(IF worker = "exfat" THEN Exfat!Scanned(cache) ELSE cache)
             \/ worker = "ntfs" /\ b = Header)
  <2>. SUFFICES ASSUME ExtInv, [Next]_vars, journal.phase \in DiscardedPhases, NEW b \in Differing(cache, cache')
                PROVE  b[1] = "cell" /\ b[2] \in FreeCells(IF worker = "exfat" THEN Exfat!Scanned(cache) ELSE cache)
    OBVIOUS
  <2>1. worker # "exfat" /\ journal.phase \in ExtPhases
    BY DEF ExtInv, ExtShape, NoJournal, ExtPhases, QuietPhases
  <2>2. journal.phase \in QuietPhases
    BY <2>1 DEF ExtPhases, QuietPhases, DonePhases, RestoredPhases, DiscardedPhases
  <2>3. OnlyFree(cache', cache)
    BY <2>2, ExtNextKeeps DEF ExtKinds
  <2>4. b \in Blocks /\ cache'[b] # cache[b]
    BY DEF Differing
  <2>5. PICK c \in FreeCells(cache) : b = Cell(c)
    BY <2>3, <2>4 DEF OnlyFree
  <2>. QED BY <2>1, <2>5, BlockNames
<1>. QED BY <1>1, ExtInvHolds, PTL DEF Spec, WriteAhead

\* What the EXT worker undoes, after a Stop, a failed write or a crash, is undone
\* on stable storage before the journal goes: every block that moved is back.
THEOREM ExtUndone == Spec /\ worker = "ext" => Undone
<1>1. ExtInv /\ [Next]_vars =>
       /\ journal.phase \in RestoredPhases \union {"workspace-placing"} /\ journal' = NoJournal
          => Originals(disk, journal.plan.slots) = journal.plan.kept
       /\ worker = "exfat" /\ At("rollback") /\ journal' = NoJournal
          => Exfat!Opens(disk) /\ Exfat!Objects(Exfat!Scanned(disk)) = proc.old
  <2>. SUFFICES ASSUME ExtInv, [Next]_vars,
                       journal.phase \in RestoredPhases \union {"workspace-placing"}, journal' = NoJournal
                PROVE  Originals(disk, journal.plan.slots) = journal.plan.kept
    BY DEF ExtInv
  <2>1. ExtShape /\ ExtDirect /\ journal.phase \in RestoredPhases /\ journal # NoJournal
    BY DEF ExtInv, ExtShape, NoJournal, ExtPhases, QuietPhases, DonePhases, RestoredPhases
  <2>2. proc.pc = "retire"
    BY <2>1, ExtNextKeeps DEF ExtKinds
  <2>3. PICK v : Midway(v, journal.plan)
    BY <2>1 DEF ExtDirect
  <2>. DEFINE slots == journal.plan.slots
              avoid == TargetRanges(journal.plan) \union ReserveRanges(journal.plan, journal.op)
              w == WithCopies(v, slots)
  <2>4. /\ journal.plan.kept = Kept(w, slots) /\ disk = cache /\ Agree(cache, v, Carries(v))
        /\ IsVolume(v) /\ IsShelf(v, slots, avoid) /\ DOMAIN slots = Carries(v)
    BY <2>2, <2>3 DEF Midway, Copied, Unmoved, PlanOf
  <2>. HIDE DEF slots, avoid, w
  <2>5. \A b \in DOMAIN slots : w[slots[b]] = Carry(v, b, slots[b])
    BY <2>4, CopiesAre DEF w
  <2>6. \A b \in DOMAIN slots : Carry(disk, b, slots[b]) = Carry(v, b, slots[b])
    BY <2>4, CarrySame DEF Agree
  <2>7. Originals(disk, slots) = Kept(w, slots)
    BY <2>5, <2>6 DEF Originals, Kept
  <2>. QED BY <2>4, <2>7 DEF slots
<1>. QED BY <1>1, ExtInvHolds, PTL DEF Spec, Undone

\* When a finished EXT command gives up its journal, the whole new layout is on
\* stable storage, with the room it was asked for behind each file.
THEOREM ExtCompletedDurable == Spec /\ worker = "ext" => CompletedDurable
<1>1. ExtInv =>
       /\ journal.phase \in {"direct-verifying", "verifying-source", "workspace-verifying-source"}
          /\ journal' = NoJournal
          => Sound(disk) /\ Arranged(disk, journal.op)
       /\ At("verified") /\ journal' = NoJournal
          => \A s \in {Exfat!Scanned(disk)} : Exclusive(s) /\ Arranged(s, journal.op)
  <2>. SUFFICES ASSUME ExtInv, journal' = NoJournal
                PROVE  /\ journal.phase \in {"direct-verifying", "verifying-source", "workspace-verifying-source"}
                          => Sound(disk) /\ Arranged(disk, journal.op)
                       /\ ~ At("verified")
    OBVIOUS
  <2>1. ExtShape /\ ExtDirect
    BY DEF ExtInv
  <2>2. journal.phase # "workspace-verifying-source"
    BY <2>1 DEF ExtShape, NoJournal, ExtPhases, QuietPhases, DonePhases, RestoredPhases
  <2>3. journal.phase \in DonePhases => Sound(disk) /\ Arranged(disk, journal.op)
    BY <2>1 DEF ExtDirect, Verified, LaidOut, Arranged
  <2>4. proc.pc # "verified"
    BY <2>1, Working DEF Idling
  <2>. QED BY <2>2, <2>3, <2>4 DEF DonePhases, At
<1>. QED BY <1>1, ExtInvHolds, PTL DEF Spec, CompletedDurable

\* Plan, mover and verifier of EXT agree: neither an arranged image nor a layout
\* in place is ever refused by the worker's own verification.
THEOREM ExtPlacedVerifies == Spec /\ worker = "ext" => PlacedVerifies
<1>1. ExtInv /\ [Next]_vars =>
       /\ At("arrange") /\ journal'.phase = "verifying-stage" => proc'.pc = "check"
       /\ worker = "ext" /\ At("verifying") => VerifyStage(cache, journal.plan, proc.op)
       /\ worker = "ntfs" /\ At("verifying") => Ntfs!VerifyStage(cache, journal.plan, proc.op)
       /\ worker = "exfat" /\ proc.pc = "committing" /\ proc.todo = <<>>
          => Exfat!VerifiesFinal(cache, proc.op)
  <2>. SUFFICES ASSUME ExtInv, [Next]_vars
                PROVE  /\ At("arrange") /\ journal'.phase = "verifying-stage" => proc'.pc = "check"
                       /\ At("verifying") => VerifyStage(cache, journal.plan, proc.op)
    BY DEF ExtInv
  <2>1. ExtKinds
    BY ExtNextKeeps
  <2>2. At("verifying") => VerifyStage(cache, journal.plan, proc.op)
    BY ExtVerifies DEF At
  <2>. QED BY <2>1, <2>2 DEF ExtKinds, At
<1>. QED BY <1>1, ExtInvHolds, PTL DEF Spec, PlacedVerifies

\* With what Recover still has to write counted in, the EXT worker changes the
\* layout in one step, and loses nothing: it implements AtomicRelayout.
THEOREM ExtImplements == Spec /\ worker = "ext" => Implements
<1>0. SettledLayout = Maps(Settled(disk)) /\ SettledContents = Contents(Settled(disk))
  BY DEF SettledLayout, SettledContents, Once
<1>1. Start /\ worker = "ext" => Volume0!Begin
  <2>. SUFFICES ASSUME Start, worker = "ext" PROVE Volume0!Begin
    OBVIOUS
  <2>1. disk \in InitialVolumes /\ edits = 0 /\ journal.phase = "none"
    BY DEF Start, Init, NoJournal
  <2>2. Settled(disk) = disk
    BY <2>1, SettledByPhase DEF ExtPhases, QuietPhases, RestoredPhases, Bound
  <2>. QED BY <1>0, <2>1, <2>2 DEF Volume0!Begin
<1>2. ExtInv /\ ExtInv' /\ [Next]_vars =>
        [Volume0!Copy \/ Volume0!Relayout \/ Volume0!OwnerWrites]_<<SettledLayout, SettledContents, SettledContents, edits>>
  <2>. SUFFICES ASSUME ExtInv, ExtInv', [Next]_vars
                PROVE  [Volume0!Copy \/ Volume0!Relayout \/ Volume0!OwnerWrites]_<<SettledLayout, SettledContents, SettledContents, edits>>
    OBVIOUS
  <2>. DEFINE now == Settled(disk)
  <2>1. owner' = owner /\ edits' = edits
    BY ExtNextKeeps DEF ExtKinds
  <2>2. Good(now)
    BY ExtDiskSettles
  <2>3. Good(now)'
    <3>1. (ExtInv => Good(Settled(disk)))'
      BY ExtDiskSettles, PTL
    <3>. QED BY <3>1
  <2>4. SettledLayout' = Maps(now') /\ SettledContents' = Contents(now')
    <3>1. (SettledLayout = Maps(now) /\ SettledContents = Contents(now))'
      BY <1>0, PTL
    <3>. QED BY <3>1
  <2>5. /\ IsVolume(now) /\ IsVolume(now') /\ Contents(now') = Contents(now) /\ Exclusive(now')
    BY <2>1, <2>2, <2>3 DEF Good, Sound
  <2>. HIDE DEF now
  <2>6. \A f \in Files : Len(Maps(now')[f]) = Len(Maps(now)[f])
    <3>1. \A f \in Files : Len(Maps(now)[f]) = Len(Maps(now')[f])
      BY <2>5, SameLengths
    <3>. QED BY <3>1
  <2>7. /\ \A f \in Files : IsInjective(Maps(now')[f]) /\ Len(Maps(now')[f]) = Len(Maps(now)[f])
        /\ \A f, g \in Files : f # g => Range(Maps(now')[f]) \intersect Range(Maps(now')[g]) = {}
    BY <2>5, <2>6 DEF Exclusive, Maps, CellsOf
  <2>8. SettledContents' = SettledContents
    BY <1>0, <2>4, <2>5 DEF now
  <2>9. /\ \A f \in Files : IsInjective(SettledLayout'[f]) /\ Len(SettledLayout'[f]) = Len(SettledLayout[f])
        /\ \A f, g \in Files : f # g => Range(SettledLayout'[f]) \intersect Range(SettledLayout'[g]) = {}
    BY <1>0, <2>4, <2>7 DEF now
  <2>. QED BY <2>1, <2>8, <2>9
       DEF Volume0!Relayout, Volume0!IsInjective, IsInjective, Volume0!Range, Range
<1>. QED BY <1>1, <1>2, ExtInvHolds, PTL DEF Spec, Implements, Volume0!Atomic
=============================================================================
