----------------------------- MODULE OffsetCommit -----------------------------
(***************************************************************************)
(* The steps that the XFS, EXT, NTFS and exFAT workers take alike to copy  *)
(* a verified working image to the source: the allocated blocks in         *)
(* ascending order, with the source synced and the offset recorded after   *)
(* every Interval blocks, so that Recover resumes where the last record    *)
(* says; and the permutation that arranges an image in place.              *)
(***************************************************************************)
EXTENDS StagedImage

CONSTANT Interval  \* blocks between two recorded offsets

Operations == {"defrag", "growth-defrag"}

\* The allocated blocks of an image in the order of their addresses.
AddressOrder(used) ==
    <<Header>> \o [f \in DOMAIN FileOrder |-> MapOf(f)] \o <<Bitmap>> \o CellOrder(used)
AllocatedRanges(image) == AddressOrder(image[Bitmap])
Done == Len(AllocatedRanges(stage.image)) - Len(proc.todo)

\* A mistaken variant: the block at the recorded offset is left out.
ResumeAfter(offset) == [pc |-> "commit", op |-> journal.op,
                        todo |-> LET order == AllocatedRanges(stage.image)
                                 IN SubSeq(order, offset + 2, Len(order))]
\* From block offset on.
ResumeAt(offset) == [pc |-> "commit", op |-> journal.op,
                     todo |-> LET order == AllocatedRanges(stage.image)
                              IN SubSeq(order, offset + 1, Len(order))]

CopyBlock == At("commit") /\ Done - journal.offset < Interval /\ CopyNext

\* The source is synced before the offset that vouches for it is recorded.
SyncRange == /\ At("commit")
             /\ proc.todo = <<>> \/ Done - journal.offset = Interval
             /\ Sync /\ Goto("record") /\ UNCHANGED files
\* A mistaken variant: the block after the last one copied.
RecordOffsetAhead == /\ At("record")
                     /\ journal' = [journal EXCEPT !.offset = Done + 1]
                     /\ Goto(IF proc.todo = <<>> THEN "committed" ELSE "commit")
                     /\ UNCHANGED stage /\ Aside
RecordOffset == /\ At("record")
                /\ journal' = [journal EXCEPT !.offset = Done]
                /\ Goto(IF proc.todo = <<>> THEN "committed" ELSE "commit")
                /\ UNCHANGED stage /\ Aside

CommitRanges == CopyBlock \/ SyncRange \/ RecordOffset

EnterPhase(from, phase, to) == At(from) /\ Record(phase) /\ Goto(to)

\* The commit starts from the first block, of an image that is verified.
BeginCommit == /\ journal' = [journal EXCEPT !.phase = "commit", !.offset = 0]
               /\ proc' = [proc EXCEPT !.pc = "commit", !.todo = AllocatedRanges(stage.image)]
               /\ UNCHANGED stage /\ Aside

\* Working files first, the journal last.
CleanupFiles == At("cleanup") /\ Unlink("retire")
CleanupJournal == At("retire") /\ Retire
GiveUp == Goto("cleanup") /\ UNCHANGED files /\ Aside

Resume(pc) == [pc |-> pc, op |-> journal.op, todo |-> <<>>]

\* Recover removes the files of a command that had not touched the source.
DiscardPending(phases) == /\ At("down") /\ journal.phase \in phases
                          /\ proc' = Resume("cleanup") /\ UNCHANGED files /\ Aside

-----------------------------------------------------------------------------
(* Targets for every cell of every file.                                   *)

BlockCount(v, f) == Len(v[MapOf(f)])
Span(v, f, operation) == BlockCount(v, f) + Reserve(operation, BlockCount(v, f))

\* No cell twice, whatever the allocation map says.
Catalogued(v) == /\ \A f \in Files : IsInjective(v[MapOf(f)])
                 /\ \A f, g \in Files : f # g => CellsOf(v, f) \intersect CellsOf(v, g) = {}

\* The files in the given order, each in the first run of the free and
\* movable cells that holds it and its reserve.
AssignTargets(v, operation, order) ==
    LET place(p, f) ==
            LET span == Span(v, f, operation)
                start == FirstFit(Cells \ p.remaining, span)
            IN IF BlockCount(v, f) = 0 THEN p
               ELSE IF start = 0 THEN [p EXCEPT !.fits = FALSE]
               ELSE [p EXCEPT !.start[f] = start, !.remaining = @ \ (start..(start + span - 1))]
        none == [fits |-> TRUE, start |-> [f \in Files |-> 0],
                 remaining |-> FreeCells(v) \union Movable(v)]
    IN Accumulate(place, none, order)

\* The plan database: where every file goes, and the digest of every file.
PopulatePlan(v, plan) == [start |-> plan.start, digest |-> Contents(v)]

FileTarget(db, f) == Run(db.start[f], Len(db.digest[f]))
TargetRanges(db) == UNION {Range(FileTarget(db, f)) : f \in Files}
ReserveRanges(db, operation) ==
    UNION {LET end == db.start[f] + Len(db.digest[f])
           IN end..(end + Reserve(operation, Len(db.digest[f])) - 1) : f \in Files}
Moves(v, db) ==
    [old \in Movable(v) |->
        LET f == CHOOSE g \in Files : old \in CellsOf(v, g)
            j == CHOOSE i \in DOMAIN v[MapOf(f)] : v[MapOf(f)][i] = old
        IN db.start[f] + j - 1]

-----------------------------------------------------------------------------
(* Arranging an image in place: every cell is copied once, over a cell     *)
(* that is free or already copied.                                         *)

\* The payload that goes to the free cell: that of its old cell, unless the
\* first copy of a cycle overwrote it and it was saved.
\* A mistaken variant: nothing was saved.
CarriedUnsaved(p, old) == p.image[Cell(old)]
Carried(p, old) == IF old = p.start THEN p.saved ELSE p.image[Cell(old)]

\* One copy into the free cell, which frees the cell it came from; or where
\* nothing is due there, the next target that nobody leaves; or when there
\* is none, the next cycle, opened by saving its first cell.
PermuteStep(p, i) ==
    LET due == {old \in DOMAIN p.todo : p.todo[old] = p.free}
        terminals == Range(p.todo) \ p.olds
        old == CHOOSE c \in due : TRUE
        first == Min(DOMAIN p.todo)
    IN IF DOMAIN p.todo = {} THEN p
       ELSE IF due # {} THEN [p EXCEPT !.image[Cell(p.free)] = Carried(p, old),
                                       !.todo = Restrict(@, DOMAIN @ \ {old}),
                                       !.free = old]
       ELSE IF terminals # {} THEN [p EXCEPT !.free = Min(terminals)]
       ELSE [p EXCEPT !.free = first, !.start = first, !.saved = p.image[Cell(first)]]

\* targets maps old cells to new ones, no two to the same.
Permute(image, targets) ==
    LET moves == Restrict(targets, {c \in DOMAIN targets : targets[c] # c})
        begin == [image |-> image, todo |-> moves, olds |-> DOMAIN moves,
                  free |-> 0, start |-> 0, saved |-> Junk]
    IN Accumulate(PermuteStep, begin, Run(1, 2 * N)).image
=============================================================================
