------------------------ MODULE StagedContentsProofs ------------------------
(***************************************************************************)
(* What XFS arranges in place keeps every byte, and what it leaves is a    *)
(* volume in order: no verification of the worker refuses it.              *)
(* XFS records how far its commit came; with it, all four staged workers   *)
(* keep every byte of every file and of the fixed metadata, and implement  *)
(* the atomic change of layout.                                            *)
(***************************************************************************)
EXTENDS StagedCommitProofs

-----------------------------------------------------------------------------
(* The images of the transaction.                                          *)

\* Nothing is in the free cells.
Blank(v) == \A c \in FreeCells(v) : v[Cell(c)] = Junk

\* The clone of a volume in order is as good a volume with the same contents,
\* and nothing else.
LEMMA CloneIsIntact ==
  ASSUME NEW v, Intact("xfs", v), NEW w, w = CopyUsed(v)
  PROVE  Intact("xfs", w) /\ Contents(w) = Contents(v) /\ Blank(w)
<1>0. IsVolume(v) /\ KeepsPins(v) /\ Sound(v)
  BY DEF Intact
<1>1. /\ w = [b \in Blocks |-> w[b]]
      /\ \A b \in Blocks : w[b] = v[b] \/ w[b] = Junk
      /\ w[Header] = v[Header] /\ w[Bitmap] = v[Bitmap]
      /\ \A f \in Files : w[MapOf(f)] = v[MapOf(f)]
      /\ \A c \in Cells : w[Cell(c)] = IF c \in FreeCells(v) THEN Junk ELSE v[Cell(c)]
  BY BlockSet, BlockNames DEF CopyUsed
<1>2. \A c \in v[Bitmap] : w[Cell(c)] = v[Cell(c)]
  BY <1>0, <1>1, CellsInside DEF FreeCells
<1>3. IsVolume(w)
  <2>1. Junk \in Payloads
    BY DEF Junk, Payloads
  <2>2. \A c \in Cells : w[Cell(c)] \in Payloads \/ w[Cell(c)][1] < 0
    BY <1>0, <1>1, <2>1 DEF IsVolume
  <2>3. w[Header] \in Nat /\ w[Bitmap] \in SUBSET Cells /\ \A f \in Files : w[MapOf(f)] \in Seq(Cells)
    BY <1>0, <1>1 DEF IsVolume
  <2>. QED BY <1>1, <2>2, <2>3 DEF IsVolume
<1>4. \A f \in Files : CellsOf(w, f) = CellsOf(v, f)
  BY <1>1 DEF CellsOf
<1>5. Movable(w) = Movable(v)
  BY <1>4 DEF Movable
<1>6. Sound(w)
  BY <1>0, <1>1, <1>4, <1>5 DEF Sound, Exclusive
<1>7. KeepsPins(w)
  BY <1>0, <1>1, <1>2, <1>5 DEF KeepsPins
<1>8. Contents(w) = Contents(v)
  <2>1. ASSUME NEW f \in Files
        PROVE  [j \in DOMAIN w[MapOf(f)] |-> w[Cell(w[MapOf(f)][j])]]
               = [j \in DOMAIN v[MapOf(f)] |-> v[Cell(v[MapOf(f)][j])]]
    <3>1. \A j \in DOMAIN v[MapOf(f)] : v[MapOf(f)][j] \in CellsOf(v, f)
      BY DEF CellsOf, Range
    <3>2. CellsOf(v, f) \subseteq v[Bitmap]
      BY <1>0 DEF Sound, Exclusive
    <3>. QED BY <1>1, <1>2, <3>1, <3>2
  <2>. QED BY <2>1 DEF Contents
<1>9. Blank(w)
  BY <1>1 DEF Blank, FreeCells
<1>. QED BY <1>3, <1>6, <1>7, <1>8, <1>9 DEF Intact

\* What ArrangeStage makes of the image v.
ArrangedFrom(v, db, op) ==
    Xfs!ApplyInodeMappings(Xfs!PermutePayloads(Xfs!RebuildAllocationMetadata(v, db, op).image, Xfs!Moves(v, db)), db)

\* An image that passes the verification of the worker may be committed, and
\* has the contents of the volume.
LEMMA ArrangedIsGood ==
  ASSUME NEW v, NEW op, Intact("xfs", v), Xfs!BuildPlan(v, op).fits,
         NEW db, db = Plan(v, op), NEW image, image = ArrangedFrom(v, db, op),
         Xfs!VerifyStage(image, v, db, op)
  PROVE  Good("xfs", image, op) /\ Contents(image) = Contents(v)
<1>. DEFINE rebuilt == Xfs!RebuildAllocationMetadata(v, db, op).image
            moves == Xfs!Moves(v, db)
            copied == Xfs!Permute(rebuilt, moves)
            T == Xfs!TargetRanges(db)
            target(f) == Xfs!FileTarget(db, f)
<1>1. IsVolume(v) /\ KeepsPins(v) /\ Sound(v)
  BY DEF Intact
<1>2. /\ T \subseteq FreeCells(v) \union Movable(v)
      /\ \A f \in Files : target(f) \in Seq(Cells) /\ IsRun(target(f)) /\ Range(target(f)) \subseteq T
  BY <1>1, TargetsInside
<1>3. FreeCells(v) \union Movable(v) \subseteq Cells
  <2>1. Movable(v) \subseteq Cells
    BY <1>1, CellsInside DEF Movable
  <2>. QED BY <2>1 DEF FreeCells
<1>4. DOMAIN moves \subseteq Cells /\ \A c \in DOMAIN moves : moves[c] \in T
  <2>1. moves = [c \in Movable(v) |-> moves[c]] /\ \A c \in Movable(v) : moves[c] \in T
    BY <1>1, MovesToTargets
  <2>. HIDE DEF moves
  <2>. QED BY <1>3, <2>1
<1>5. IsVolume(rebuilt) /\ \A c \in Pinned : rebuilt[Cell(c)] = <<0, c>>
  <2>1. rebuilt = RebuiltFrom(v, db, op)
    BY DEF RebuiltFrom
  <2>. HIDE DEF rebuilt
  <2>. QED BY <1>1, <2>1, RebuiltKeeps
<1>6. image = [b \in Blocks |-> IF b[1] = "map" THEN target(b[2]) ELSE copied[b]]
  BY XfsBlocks DEF ArrangedFrom, Xfs!ApplyInodeMappings, Xfs!PermutePayloads
<1>7. /\ db.digest = Contents(v)
      /\ FreeCells(image) = ((FreeCells(v) \union Movable(v)) \ T) \ Xfs!TreeBlocks(image)
      /\ \A f \in Files : IsInjective(image[MapOf(f)])
      /\ \A f, g \in Files : f # g => CellsOf(image, f) \intersect CellsOf(image, g) = {}
      /\ \A f \in Files : /\ Contents(image)[f] = db.digest[f]
                          /\ ReserveAfter(image, f, op) \subseteq FreeCells(image)
  <2>1. db.digest = Contents(v)
    BY XfsVolumes DEF Plan, Xfs!PopulatePlan
  <2>2. FreeCells(image) = ((FreeCells(v) \union Movable(v)) \ T) \ Xfs!TreeBlocks(image)
    BY XfsVolumes DEF Xfs!VerifyStage, Xfs!VerifyAllocationMetadata, Xfs!ExpectedFreeRanges, Xfs!ScanFreeSpace
  <2>3. /\ \A f \in Files : IsInjective(image[MapOf(f)])
        /\ \A f, g \in Files : f # g => CellsOf(image, f) \intersect CellsOf(image, g) = {}
    BY XfsVolumes DEF Xfs!VerifyStage
  <2>4. \A f \in Files : /\ Contents(image)[f] = db.digest[f]
                         /\ ReserveAfter(image, f, op) \subseteq FreeCells(image)
    BY XfsVolumes DEF Xfs!VerifyStage, Xfs!ScanFreeSpace
  <2>. QED BY <2>1, <2>2, <2>3, <2>4
<1>. HIDE DEF rebuilt, moves, T, target
<1>8. IsVolume(copied) /\ \A b \in Blocks : copied[b] = rebuilt[b] \/ \E c \in T : b = Cell(c)
  <2>1. copied = Xfs!Permute(rebuilt, moves) /\ T \subseteq Cells
    BY <1>2, <1>3
  <2>. HIDE DEF copied
  <2>. QED BY <1>4, <1>5, <2>1, PermuteKeeps
<1>. HIDE DEF copied
<1>9. /\ image = [b \in Blocks |-> image[b]]
      /\ image[Header] = copied[Header] /\ image[Bitmap] = copied[Bitmap]
      /\ \A f \in Files : image[MapOf(f)] = target(f)
      /\ \A c \in Cells : image[Cell(c)] = copied[Cell(c)]
  BY <1>6, BlockSet, BlockNames
<1>10. IsVolume(image)
  BY <1>2, <1>8, <1>9 DEF IsVolume
<1>11. \A f \in Files : CellsOf(image, f) \subseteq T
  BY <1>2, <1>9 DEF CellsOf
<1>12. Movable(image) \subseteq T
  BY <1>11 DEF Movable
<1>13. T \subseteq image[Bitmap]
  BY <1>2, <1>3, <1>7 DEF FreeCells
<1>14. \A c \in Pinned : c \in Cells /\ c \in image[Bitmap] /\ c \notin T
  <2>1. \A c \in Pinned : c \in Cells /\ c \in v[Bitmap] /\ c \notin Movable(v)
    BY <1>1, CellsInside DEF KeepsPins
  <2>2. \A c \in Pinned : c \notin FreeCells(v) /\ c \notin T /\ c \notin FreeCells(image)
    BY <1>2, <1>7, <2>1 DEF FreeCells
  <2>. QED BY <2>1, <2>2 DEF FreeCells
<1>15. \A c \in Pinned : image[Cell(c)] = <<0, c>>
  <2>1. \A c \in Pinned : copied[Cell(c)] = rebuilt[Cell(c)]
    BY <1>8, <1>14, BlockSet, BlockNames
  <2>. QED BY <1>5, <1>9, <1>14, <2>1
<1>16. KeepsPins(image)
  BY <1>12, <1>14, <1>15 DEF KeepsPins
<1>17. Sound(image)
  BY <1>7, <1>11, <1>12, <1>13, <1>14 DEF Sound, Exclusive
<1>18. LaidOutBy("xfs", image, op)
  <2>1. \A f \in Files : IsRun(image[MapOf(f)])
    BY <1>2, <1>9
  <2>2. \A f \in Files : ReserveAfter(image, f, op) \subseteq FreeCells(image)
    BY <1>7
  <2>. QED BY <2>1, <2>2 DEF LaidOutBy
<1>19. Contents(image) = Contents(v)
  <2>1. \A f \in Files : Contents(image)[f] = Contents(v)[f]
    BY <1>7
  <2>. QED BY <2>1 DEF Contents
<1>. QED BY <1>10, <1>16, <1>17, <1>18, <1>19 DEF Good, Intact

-----------------------------------------------------------------------------
(* What the worker arranges, it verifies.                                  *)

\* No block outside the trees reads as one of theirs.
NoTreeElsewhere(v) == \A c \in FreeCells(v) \union Movable(v) : v[Cell(c)] # Xfs!Tree

\* What is in the image that the worker arranges.
ArrangedAs(v, db, op, image, pool) ==
    /\ Xfs!TreeBlocks(v) \subseteq pool /\ pool \subseteq Cells
    /\ pool \intersect Movable(v) = {} /\ pool \intersect Xfs!TargetRanges(db) = {}
    /\ pool \intersect Xfs!ReserveRanges(db, op) \subseteq Xfs!TreeBlocks(v)
    /\ FreeCells(image) = ((FreeCells(v) \union Movable(v)) \ Xfs!TargetRanges(db)) \ pool
    /\ \A f \in Files : image[MapOf(f)] = Xfs!FileTarget(db, f)
    /\ \A c \in Movable(v) : image[Cell(Xfs!Moves(v, db)[c])] = v[Cell(c)]
    /\ \A c \in Cells : (\A d \in Movable(v) : c # Xfs!Moves(v, db)[d]) =>
          image[Cell(c)] = IF c \in pool \ TreePool THEN Xfs!Tree ELSE v[Cell(c)]

\* The trees stand in used cells of no file.
LEMMA TreesApart ==
  ASSUME NEW v, Intact("xfs", v), NoTreeElsewhere(v)
  PROVE  /\ Xfs!TreeBlocks(v) \intersect (FreeCells(v) \union Movable(v)) = {} /\ Xfs!TreeBlocks(v) \subseteq Cells
         /\ TreePool \subseteq Xfs!TreeBlocks(v)
         /\ \A c \in Cells : v[Cell(c)] = Xfs!Tree => c \in Xfs!TreeBlocks(v)
<1>1. Xfs!TreeBlocks(v) = TreePool \union {c \in Cells : v[Cell(c)] = Xfs!Tree}
  BY XfsBlocks DEF Xfs!TreeBlocks
<1>2. \A c \in TreePool : c \in Cells /\ c \in v[Bitmap] /\ c \notin Movable(v)
  BY TreeAssumption, CellsInside DEF Intact, KeepsPins
<1>. QED BY <1>1, <1>2 DEF NoTreeElsewhere, FreeCells

\* The trees of the arranged image stand in the pool; the files are at their
\* targets, and every cell came with its file.
LEMMA ArrangedIs ==
  ASSUME NEW v, NEW op, Intact("xfs", v), NoTreeElsewhere(v), Xfs!BuildPlan(v, op).fits,
         NEW db, db = Plan(v, op), NEW image, image = ArrangedFrom(v, db, op)
  PROVE  \E pool : ArrangedAs(v, db, op, image, pool)
<1>. DEFINE T == Xfs!TargetRanges(db)
            free == (FreeCells(v) \union Movable(v)) \ T
            protected == Xfs!ReserveRanges(db, op)
            built == Xfs!EnsureAllocationTreePool(v, free, protected)
            pool == built.pool
            trees == Xfs!TreeBlocks(v)
            rebuilt == RebuiltFrom(v, db, op)
            moves == Xfs!Moves(v, db)
            copied == Xfs!Permute(rebuilt, moves)
            target(f) == Xfs!FileTarget(db, f)
<1>1. IsVolume(v) /\ KeepsPins(v) /\ Sound(v) /\ Exclusive(v)
  BY DEF Intact, Sound
<1>2. T \subseteq FreeCells(v) \union Movable(v) /\ \A f \in Files : target(f) \in Seq(Cells)
  BY <1>1, TargetsInside
<1>3. FreeCells(v) \union Movable(v) \subseteq Cells /\ FreeCells(v) \intersect Movable(v) = {}
  <2>1. Movable(v) \subseteq Cells /\ Movable(v) \subseteq v[Bitmap]
    BY <1>1, CellsInside DEF Movable, Exclusive
  <2>. QED BY <2>1 DEF FreeCells
<1>4. /\ trees \intersect (FreeCells(v) \union Movable(v)) = {} /\ trees \subseteq Cells
      /\ TreePool \subseteq trees
  BY TreesApart
<1>5. /\ trees \subseteq pool
      /\ pool \subseteq trees \union ((FreeCells(v) \intersect free) \ protected)
      /\ built.free = free \ pool
  <2>1. trees \intersect free = {}
    BY <1>4
  <2>. HIDE DEF free, protected
  <2>. QED BY <1>1, <2>1, PoolIsFree
<1>6. rebuilt = [b \in Blocks |-> IF b = Bitmap THEN Cells \ built.free
                                  ELSE IF b[1] = "cell" /\ b[2] \in pool \ TreePool THEN Xfs!Tree
                                  ELSE v[b]]
  BY XfsBlocks, XfsVolumes DEF RebuiltFrom, Xfs!RebuildAllocationMetadata, Xfs!ExpectedFreeRanges, Xfs!ScanFreeSpace
<1>. HIDE DEF built, pool, trees, rebuilt
<1>7. /\ rebuilt = [b \in Blocks |-> rebuilt[b]] /\ rebuilt[Bitmap] = Cells \ built.free
      /\ \A c \in Cells : rebuilt[Cell(c)] = IF c \in pool \ TreePool THEN Xfs!Tree ELSE v[Cell(c)]
  BY <1>6, BlockNames, BlockSet
<1>8. /\ moves = [c \in Movable(v) |-> moves[c]] /\ \A c \in Movable(v) : moves[c] \in T
      /\ \A c, d \in Movable(v) : moves[c] = moves[d] => c = d
  BY <1>1, MovesToTargets, MovesApart
<1>. HIDE DEF T, moves, target
<1>9. /\ \A c \in Movable(v) : copied[Cell(moves[c])] = rebuilt[Cell(c)]
      /\ \A b \in Blocks : (\A c \in Movable(v) : b # Cell(moves[c])) => copied[b] = rebuilt[b]
  <2>. DEFINE D == DOMAIN moves
  <2>1. D = Movable(v)
    BY <1>8
  <2>2. D \subseteq Cells /\ \A c \in D : moves[c] \in Cells
    <3>. HIDE DEF D
    <3>. QED BY <1>2, <1>3, <1>8, <2>1
  <2>3. \A c, d \in D : moves[c] = moves[d] => c = d
    <3>. HIDE DEF D
    <3>. QED BY <1>8, <2>1
  <2>. HIDE DEF copied
  <2>4. copied = Xfs!Permute(rebuilt, moves)
    BY DEF copied
  <2>5. /\ \A c \in D : copied[Cell(moves[c])] = rebuilt[Cell(c)]
        /\ \A b \in Blocks : (\A c \in D : b # Cell(moves[c])) => copied[b] = rebuilt[b]
    BY <1>7, <2>2, <2>3, <2>4, PermuteMoves
  <2>. HIDE DEF D
  <2>. QED BY <2>1, <2>5
<1>10. image = [b \in Blocks |-> IF b[1] = "map" THEN target(b[2]) ELSE copied[b]]
  BY XfsBlocks DEF ArrangedFrom, Xfs!ApplyInodeMappings, Xfs!PermutePayloads, copied, rebuilt, moves, target, RebuiltFrom
<1>. HIDE DEF copied
<1>11. /\ image[Bitmap] = copied[Bitmap]
       /\ \A f \in Files : image[MapOf(f)] = target(f)
       /\ \A c \in Cells : image[Cell(c)] = copied[Cell(c)]
  BY <1>10, BlockSet, BlockNames
<1>12. copied[Bitmap] = Cells \ built.free
  BY <1>7, <1>9, BlockSet, BlockNames
<1>13. FreeCells(image) = free \ pool
  <2>1. free \ pool \subseteq Cells
    BY <1>3
  <2>. HIDE DEF free
  <2>. QED BY <1>5, <1>11, <1>12, <2>1 DEF FreeCells
<1>14. /\ pool \subseteq Cells /\ pool \intersect Movable(v) = {} /\ pool \intersect T = {}
       /\ pool \intersect protected \subseteq trees
  <2>. HIDE DEF protected
  <2>. QED BY <1>2, <1>3, <1>4, <1>5
<1>15. \A c \in Movable(v) : image[Cell(moves[c])] = v[Cell(c)]
  <2>. TAKE c \in Movable(v)
  <2>1. c \in Cells /\ moves[c] \in Cells /\ c \notin pool
    BY <1>2, <1>3, <1>8, <1>14
  <2>. QED BY <1>7, <1>9, <1>11, <2>1
<1>16. \A c \in Cells : (\A d \in Movable(v) : c # moves[d]) =>
          image[Cell(c)] = IF c \in pool \ TreePool THEN Xfs!Tree ELSE v[Cell(c)]
  <2>. TAKE c \in Cells
  <2>. HAVE \A d \in Movable(v) : c # moves[d]
  <2>1. \A d \in Movable(v) : Cell(c) # Cell(moves[d])
    BY BlockNames
  <2>2. copied[Cell(c)] = rebuilt[Cell(c)]
    BY <1>9, <2>1, BlockSet
  <2>. QED BY <1>7, <1>11, <2>2
<1>17. ArrangedAs(v, db, op, image, pool)
  <2>. HIDE DEF protected
  <2>. QED BY <1>5, <1>11, <1>13, <1>14, <1>15, <1>16 DEF ArrangedAs, T, moves, target, trees, protected
<1>. QED BY <1>17

\* The planner, the trees and the permutation leave nothing that the worker's
\* own verification could refuse.
LEMMA ArrangedVerifies ==
  ASSUME NEW v, NEW op, Intact("xfs", v), NoTreeElsewhere(v), Xfs!BuildPlan(v, op).fits,
         NEW db, db = Plan(v, op), NEW image, image = ArrangedFrom(v, db, op)
  PROVE  Xfs!VerifyStage(image, v, db, op)
<1>. DEFINE T == Xfs!TargetRanges(db)
            trees == Xfs!TreeBlocks(v)
            moves == Xfs!Moves(v, db)
            target(f) == Xfs!FileTarget(db, f)
            held(f) == Held(v, db, op, f)
            protected == Xfs!ReserveRanges(db, op)
<1>1. IsVolume(v) /\ Sound(v) /\ Exclusive(v)
  BY DEF Intact, Sound
<1>2. PICK pool : ArrangedAs(v, db, op, image, pool)
  BY ArrangedIs
<1>3. /\ trees \subseteq pool /\ pool \subseteq Cells
      /\ pool \intersect Movable(v) = {} /\ pool \intersect T = {}
      /\ pool \intersect protected \subseteq trees
      /\ FreeCells(image) = ((FreeCells(v) \union Movable(v)) \ T) \ pool
      /\ \A f \in Files : image[MapOf(f)] = target(f)
      /\ \A c \in Movable(v) : image[Cell(moves[c])] = v[Cell(c)]
      /\ \A c \in Cells : (\A d \in Movable(v) : c # moves[d]) =>
            image[Cell(c)] = IF c \in pool \ TreePool THEN Xfs!Tree ELSE v[Cell(c)]
  BY <1>2 DEF ArrangedAs
<1>4. /\ trees \intersect (FreeCells(v) \union Movable(v)) = {} /\ TreePool \subseteq trees
      /\ \A c \in Cells : v[Cell(c)] = Xfs!Tree => c \in trees
  BY TreesApart
<1>5. /\ \A f \in Files : \A j \in DOMAIN v[MapOf(f)] :
            /\ v[MapOf(f)][j] \in Movable(v) /\ moves[v[MapOf(f)][j]] = db.start[f] + j - 1
      /\ \A c \in Movable(v) : moves[c] \in T
  BY <1>1, MovesApart, MovesToTargets
<1>6. \A f, g \in Files : f # g => Range(target(f)) \intersect Range(target(g)) = {}
  BY <1>1, TargetsApart
<1>7. \A f \in Files : /\ target(f) = Run(db.start[f], Len(v[MapOf(f)]))
                       /\ DOMAIN v[MapOf(f)] = 1..Len(v[MapOf(f)]) /\ Len(v[MapOf(f)]) \in Nat
                       /\ v[MapOf(f)] = <<>> <=> Len(v[MapOf(f)]) = 0
                       /\ v[MapOf(f)] # <<>> => db.start[f] \in Nat
  <2>1. \A f \in Files : v[MapOf(f)] \in Seq(Cells)
    BY <1>1 DEF IsVolume
  <2>2. \A m \in Seq(Cells) : DOMAIN m = 1..Len(m) /\ Len(m) \in Nat /\ (m = <<>> <=> Len(m) = 0)
    OBVIOUS
  <2>. QED BY <1>1, <2>1, <2>2, TargetIs
<1>8. db.digest = Contents(v)
  BY XfsVolumes DEF Plan, Xfs!PopulatePlan
<1>9. \A f \in Files : v[MapOf(f)] # <<>> =>
         held(f) \subseteq (FreeCells(v) \union Movable(v)) \ T /\ held(f) \subseteq protected
  BY <1>1, TargetsApart
<1>. HIDE DEF T, trees, moves, target, protected
<1>10. Xfs!TreeBlocks(image) = pool
  <2>1. Xfs!TreeBlocks(image) = TreePool \union {c \in Cells : image[Cell(c)] = Xfs!Tree}
    BY XfsBlocks DEF Xfs!TreeBlocks
  <2>2. ASSUME NEW c \in Cells PROVE image[Cell(c)] = Xfs!Tree <=> c \in pool /\ (c \in TreePool => v[Cell(c)] = Xfs!Tree)
    <3>1. CASE \E d \in Movable(v) : c = moves[d]
      <4>1. PICK d \in Movable(v) : c = moves[d]
        BY <3>1
      <4>2. image[Cell(c)] = v[Cell(d)] /\ v[Cell(d)] # Xfs!Tree
        BY <1>3, <4>1 DEF NoTreeElsewhere
      <4>3. c \in T
        BY <1>5, <4>1
      <4>. QED BY <1>3, <4>2, <4>3
    <3>2. CASE \A d \in Movable(v) : c # moves[d]
      <4>1. image[Cell(c)] = IF c \in pool \ TreePool THEN Xfs!Tree ELSE v[Cell(c)]
        BY <1>3, <3>2
      <4>. QED BY <1>3, <1>4, <4>1
    <3>. QED BY <3>1, <3>2
  <2>. QED BY <1>3, <1>4, <2>1, <2>2
<1>11. Xfs!VerifyAllocationMetadata(image, v, db)
  BY <1>3, <1>10, XfsVolumes DEF Xfs!VerifyAllocationMetadata, Xfs!ExpectedFreeRanges, Xfs!ScanFreeSpace, T
<1>12. ASSUME NEW f \in Files PROVE IsInjective(target(f))
  <2>1. CASE v[MapOf(f)] = <<>>
    <3>1. target(f) = <<>>
      BY <1>7, <2>1 DEF Run
    <3>. QED BY <3>1 DEF IsInjective
  <2>2. CASE v[MapOf(f)] # <<>>
    BY <1>7, <2>2, RunInOrder
  <2>. QED BY <2>1, <2>2
<1>13. Xfs!ScanCatalogue(image)
  BY <1>3, <1>6, <1>12, XfsVolumes DEF CellsOf
<1>14. ASSUME NEW f \in Files PROVE Contents(image)[f] = db.digest[f]
  <2>. DEFINE n == Len(v[MapOf(f)])
              s == db.start[f]
  <2>1. Contents(image)[f] = [j \in DOMAIN target(f) |-> image[Cell(target(f)[j])]]
    BY <1>3 DEF Contents
  <2>2. db.digest[f] = [j \in 1..n |-> v[Cell(v[MapOf(f)][j])]]
    BY <1>7, <1>8 DEF Contents
  <2>3. target(f) = [j \in 1..n |-> s + j - 1]
    BY <1>7 DEF Run
  <2>4. \A j \in 1..n : image[Cell(s + j - 1)] = v[Cell(v[MapOf(f)][j])]
    <3>. TAKE j \in 1..n
    <3>1. j \in DOMAIN v[MapOf(f)]
      BY <1>7
    <3>. QED BY <1>3, <1>5, <3>1
  <2>. HIDE DEF n, s
  <2>. QED BY <2>1, <2>2, <2>3, <2>4
<1>15. ASSUME NEW f \in Files PROVE ReserveAfter(image, f, op) \subseteq FreeCells(image)
  <2>. DEFINE n == Len(v[MapOf(f)])
              s == db.start[f]
  <2>1. CASE v[MapOf(f)] = <<>>
    <3>1. target(f) = <<>>
      BY <1>7, <2>1 DEF Run
    <3>. QED BY <1>3, <3>1 DEF ReserveAfter
  <2>2. CASE v[MapOf(f)] # <<>>
    <3>1. image[MapOf(f)] = Run(s, n) /\ s \in Nat /\ n \in Nat \ {0}
      BY <1>3, <1>7, <2>2
    <3>. HIDE DEF s, n
    <3>2. Run(s, n) # <<>> /\ Len(Run(s, n)) = n /\ Last(Run(s, n)) = s + n - 1
      <4>1. Run(s, n) = [j \in 1..n |-> s + j - 1] /\ Len(Run(s, n)) = n /\ Run(s, n) \in Seq(Int)
        BY <3>1, RunIs
      <4>2. n \in 1..n
        BY <3>1
      <4>3. Last(Run(s, n)) = Run(s, n)[n]
        BY <4>1 DEF Last
      <4>. QED BY <3>1, <4>1, <4>2, <4>3
    <3>3. ReserveAfter(image, f, op) = (s + n - 1 + 1)..(s + n - 1 + Reserve(op, n))
      BY <3>1, <3>2 DEF ReserveAfter
    <3>4. Reserve(op, n) \in Nat
      BY <3>1, ReserveIsNat
    <3>. DEFINE r == Reserve(op, n)
    <3>. HIDE DEF r
    <3>5. s + n - 1 + 1 = s + n /\ s + n - 1 + r = s + n + r - 1
      BY <3>1, <3>4 DEF r
    <3>6. ReserveAfter(image, f, op) = held(f)
      BY <3>3, <3>5 DEF Held, r, s, n
    <3>. HIDE DEF held
    <3>. QED BY <1>3, <1>4, <1>9, <2>2, <3>6
  <2>. QED BY <2>1, <2>2
<1>. QED BY <1>3, <1>11, <1>13, <1>14, <1>15, XfsBlocks, XfsVolumes
        DEF Xfs!VerifyStage, Xfs!InodeFork, Xfs!ScanFreeSpace, target

-----------------------------------------------------------------------------
(* How far a commit came.                                                  *)

XfsOrder(image) == Xfs!AllocatedRanges(image)
Rest(image, k) == SubSeq(XfsOrder(image), k + 1, Len(XfsOrder(image)))

\* The first k blocks of the commit are in v.
Written(v, image, k) == \A i \in 1..k : v[XfsOrder(image)[i]] = image[XfsOrder(image)[i]]

\* A commit of XFS writes all that its image carries.
LEMMA XfsOrderCovers ==
  ASSUME NEW image, IsVolume(image)
  PROVE  Covers(XfsOrder(image), image)
<1>1. Xfs!CellOrder(image[Bitmap]) = CellOrder(image[Bitmap])
  BY DEF Xfs!CellOrder, CellOrder, Xfs!Ascending, Ascending, Xfs!Cell, Cell
<1>2. XfsOrder(image) = <<Header>> \o MapOrder \o <<Bitmap>> \o CellOrder(image[Bitmap])
  <2>1. [f \in DOMAIN Xfs!FileOrder |-> Xfs!MapOf(f)] = MapOrder
    BY XfsBlocks DEF MapOrder
  <2>2. Xfs!AllocatedRanges(image) = <<Xfs!Header>> \o [f \in DOMAIN Xfs!FileOrder |-> Xfs!MapOf(f)] \o <<Xfs!Bitmap>> \o Xfs!CellOrder(image[Xfs!Bitmap])
    BY DEF Xfs!AllocatedRanges, Xfs!AddressOrder
  <2>. QED BY <1>1, <2>1, <2>2, XfsBlocks DEF XfsOrder
<1>3. image[Bitmap] \subseteq Cells
  BY CellsInside
<1>. QED BY <1>2, <1>3, OrderCovers

\* What is left to write after k blocks.
LEMMA RestIs ==
  ASSUME NEW image, IsVolume(image), NEW k, k \in 0..Len(XfsOrder(image))
  PROVE  /\ k \in Nat /\ Len(XfsOrder(image)) \in Nat /\ k <= Len(XfsOrder(image))
         /\ Rest(image, k) \in Seq(Blocks) /\ Len(Rest(image, k)) = Len(XfsOrder(image)) - k
         /\ Rest(image, k) = <<>> <=> k = Len(XfsOrder(image))
         /\ Rest(image, 0) = XfsOrder(image)
         /\ \A b \in Carries(image) : b \in Range(Rest(image, k)) \/ \E i \in 1..k : b = XfsOrder(image)[i]
         /\ Rest(image, k) # <<>> => /\ Head(Rest(image, k)) = XfsOrder(image)[k + 1]
                                     /\ Tail(Rest(image, k)) = Rest(image, k + 1)
                                     /\ k + 1 \in 0..Len(XfsOrder(image))
                                     /\ XfsOrder(image)[k + 1] \in Blocks
<1>. DEFINE order == XfsOrder(image)
            n == Len(order)
            rest == Rest(image, k)
<1>1. order \in Seq(Blocks) /\ Carries(image) \subseteq Range(order)
  BY XfsOrderCovers DEF Covers
<1>. HIDE DEF order
<1>2. n \in Nat /\ DOMAIN order = 1..n /\ \A i \in 1..n : order[i] \in Blocks
  BY <1>1
<1>3. k \in Nat /\ k <= n
  BY <1>2 DEF order
<1>4. rest = SubSeq(order, k + 1, n)
  BY DEF Rest, order
<1>5. rest = [i \in 1..(n - k) |-> order[i + k]] /\ rest \in Seq(Blocks) /\ Len(rest) = n - k
  <2>1. SubSeq(order, k + 1, n) = [i \in 1..(n - k) |-> order[i + k]]
    BY <1>1, <1>2, <1>3
  <2>2. \A i \in 1..(n - k) : i + k \in 1..n
    BY <1>2, <1>3
  <2>3. [i \in 1..(n - k) |-> order[i + k]] \in Seq(Blocks)
    BY <1>2, <1>3, <2>2
  <2>4. rest = [i \in 1..(n - k) |-> order[i + k]]
    BY <1>4, <2>1
  <2>. HIDE DEF rest, n
  <2>. QED BY <1>2, <1>3, <2>3, <2>4
<1>6. Rest(image, 0) = order
  <2>1. Rest(image, 0) = SubSeq(order, 1, n)
    BY DEF Rest, order
  <2>. QED BY <1>1, <2>1
<1>7. ASSUME NEW b \in Carries(image) PROVE b \in Range(rest) \/ \E i \in 1..k : b = order[i]
  <2>1. PICK i \in 1..n : b = order[i]
    BY <1>1, <1>2 DEF Range
  <2>2. CASE i <= k
    BY <1>3, <2>1, <2>2
  <2>3. CASE i > k
    <3>1. i - k \in 1..(n - k) /\ (i - k) + k = i
      BY <1>2, <1>3, <2>3
    <3>. HIDE DEF rest, n
    <3>2. rest[i - k] = b /\ i - k \in DOMAIN rest
      BY <1>5, <2>1, <3>1
    <3>. QED BY <3>2 DEF Range
  <2>. QED BY <1>2, <1>3, <2>2, <2>3
<1>8. rest = <<>> <=> k = n
  <2>. HIDE DEF rest, n
  <2>. QED BY <1>2, <1>3, <1>5
<1>9. ASSUME rest # <<>>
      PROVE  Head(rest) = order[k + 1] /\ Tail(rest) = Rest(image, k + 1) /\ k + 1 \in 0..n /\ order[k + 1] \in Blocks
  <2>1. k < n
    <3>1. k # n
      BY <1>8, <1>9
    <3>. HIDE DEF n
    <3>. QED BY <1>2, <1>3, <3>1
  <2>2. k + 1 \in 0..n /\ k + 1 \in 1..n /\ 1 \in 1..(n - k)
    BY <1>2, <1>3, <2>1
  <2>3. Rest(image, k + 1) = SubSeq(order, (k + 1) + 1, n)
    BY DEF Rest, order
  <2>4. SubSeq(order, (k + 1) + 1, n) = [i \in 1..(n - (k + 1)) |-> order[i + (k + 1)]]
    BY <1>1, <1>2, <2>2
  <2>. HIDE DEF rest, n
  <2>5. Head(rest) = order[k + 1]
    BY <1>3, <1>5, <2>2
  <2>6. Tail(rest) = [i \in 1..((n - k) - 1) |-> rest[i + 1]]
    BY <1>2, <1>3, <1>5, <2>1
  <2>7. \A i \in 1..((n - k) - 1) : rest[i + 1] = order[i + (k + 1)]
    <3>1. \A i \in 1..((n - k) - 1) : i + 1 \in 1..(n - k) /\ (i + 1) + k = i + (k + 1)
      BY <1>2, <1>3
    <3>. QED BY <1>5, <3>1
  <2>8. (n - k) - 1 = n - (k + 1)
    BY <1>2, <1>3
  <2>9. Tail(rest) = [i \in 1..(n - (k + 1)) |-> order[i + (k + 1)]]
    BY <2>6, <2>7, <2>8
  <2>10. Tail(rest) = Rest(image, k + 1)
    BY <2>3, <2>4, <2>9 DEF n
  <2>. QED BY <1>2, <2>2, <2>5, <2>10
<1>. QED BY <1>2, <1>3, <1>5, <1>6, <1>7, <1>8, <1>9 DEF order

\* What a volume becomes when the rest of a commit is written to it.
LEMMA RestSettles ==
  ASSUME NEW image, NEW op, Good("xfs", image, op), NEW v, IsVolume(v),
         NEW k, k \in 0..Len(XfsOrder(image)), Written(v, image, k),
         NEW u, u = Overlay(v, image, Range(Rest(image, k)))
  PROVE  /\ Good("xfs", u, op) /\ Contents(u) = Contents(image) /\ Maps(u) = Maps(image)
         /\ Agree(u, image, Carries(image))
<1>1. IsVolume(image)
  BY DEF Good, Intact
<1>2. u = [b \in Blocks |-> u[b]] /\ \A b \in Blocks : u[b] = IF b \in Range(Rest(image, k)) THEN image[b] ELSE v[b]
  BY DEF Overlay
<1>3. IsVolume(u)
  BY <1>1, <1>2, MixIsVolume
<1>4. Carries(image) \subseteq Blocks
  BY <1>1, BlockSet, CellsInside DEF Carries
<1>5. \A b \in Carries(image) : b \in Range(Rest(image, k)) \/ v[b] = image[b]
  <2>1. \A b \in Carries(image) : b \in Range(Rest(image, k)) \/ \E i \in 1..k : b = XfsOrder(image)[i]
    BY <1>1, RestIs
  <2>. QED BY <2>1 DEF Written
<1>6. Agree(u, image, Carries(image))
  BY <1>2, <1>4, <1>5 DEF Agree
<1>. QED BY <1>3, <1>6, AgreeIsGood

-----------------------------------------------------------------------------
(* The invariant of XFS.                                                   *)

\* The journal binds Recover to write the image.
Bound == journal.phase \in {"commit", "verifying-source"} /\ stage.state = "whole"

\* Nothing of a file reads as a block of the trees.
TreeFree(contents) == \A f \in Files : \A j \in DOMAIN contents[f] : contents[f][j] # Xfs!Tree

XfsPhases == {"preflight", "cloning", "arranging", "verifying-stage", "commit", "verifying-source"}

\* A step finds in the records what the last one put there.
XfsShape ==
    /\ proc.pc \in {"down", "build", "plan", "arrange", "check", "commit", "record", "committed",
                    "verify-source", "cleanup", "retire"}
    /\ proc.pc # "down" => proc = [pc |-> proc.pc, op |-> proc.op, todo |-> proc.todo] /\ proc.op = journal.op
    /\ journal = NoJournal \/ journal.phase \in XfsPhases
    /\ journal.phase # "none" => journal = [phase |-> journal.phase, op |-> journal.op,
                                            offset |-> journal.offset, plan |-> journal.plan]
    /\ proc.pc = "build" => journal.phase = "preflight"
    /\ proc.pc = "plan" => journal.phase = "cloning"
    /\ proc.pc = "arrange" => journal.phase = "arranging"
    /\ proc.pc = "check" => journal.phase = "verifying-stage"
    /\ proc.pc \in {"commit", "record", "committed"} => journal.phase = "commit"
    /\ proc.pc = "verify-source" => journal.phase = "verifying-source"
    /\ proc.pc \in {"cleanup", "retire"} => journal.phase \in XfsPhases \ {"commit"}
    /\ stage.state \in {"none", "partial", "whole"}

\* The source holds what was promised, or as much of the image as is recorded.
XfsSource ==
    /\ IsVolume(disk) /\ IsVolume(cache)
    /\ TreeFree(promised) /\ TreeFree(cloned)
    /\ \A f \in Files : DOMAIN cloned[f] = DOMAIN promised[f]
    /\ journal.phase \notin {"commit", "verifying-source"} => Current("xfs", promised, cache)
    /\ journal.phase = "verifying-source" =>
          /\ Good("xfs", cache, journal.op) /\ Contents(cache) = promised
          /\ stage.state = "whole" => Agree(cache, stage.image, Carries(stage.image))
    /\ Bound => /\ journal.offset \in 0..Len(XfsOrder(stage.image))
                /\ Written(disk, stage.image, journal.offset)
                /\ Written(cache, stage.image, journal.offset)
    /\ proc.pc \in {"commit", "record", "committed"} =>
          \E k \in 0..Len(XfsOrder(stage.image)) :
             /\ journal.offset <= k /\ proc.todo = Rest(stage.image, k) /\ Written(cache, stage.image, k)
             /\ proc.pc = "committed" => k = Len(XfsOrder(stage.image))

\* The image holds what was cloned, and is good from its verification on.
XfsImage ==
    /\ stage.state = "whole" => IsVolume(stage.image)
    /\ journal.phase \in XfsPhases \ {"commit", "verifying-source"} => journal.offset = 0
    /\ proc.pc \in {"plan", "arrange"} =>
          /\ stage.state = "whole" /\ Intact("xfs", stage.image) /\ Blank(stage.image)
          /\ Contents(stage.image) = cloned
    /\ proc.pc = "arrange" => /\ Xfs!BuildPlan(stage.image, proc.op).fits
                              /\ journal.plan = Plan(stage.image, proc.op)
    /\ proc.pc = "check" => /\ stage.state = "whole" /\ Good("xfs", stage.image, proc.op)
                            /\ Contents(stage.image) = cloned
    /\ journal.phase = "commit" => stage.state = "whole"
    /\ Bound => Good("xfs", stage.image, journal.op) /\ Contents(stage.image) = promised

XfsInv == worker = "xfs" /\ XfsShape /\ XfsSource /\ XfsImage

\* The kinds of steps, by what they do to the volume that Recover settles.
XfsQuiet == /\ UNCHANGED <<promised, edits>> /\ cloned' \in {cloned, promised}
            /\ \/ Bound /\ Bound' /\ stage' = stage
               \/ ~ Bound /\ ~ Bound' /\ disk' = disk
XfsTurns == UNCHANGED <<cloned, edits, disk>> /\ promised' = cloned /\ ~ Bound /\ Bound'
XfsEnds == UNCHANGED <<promised, cloned, edits, disk>> /\ Bound /\ ~ Bound' /\ journal.phase = "verifying-source"
XfsEdited == Edited /\ cloned' = cloned /\ promised' = Contents(cache') /\ ~ Bound /\ ~ Bound'
XfsKinds == XfsQuiet \/ XfsTurns \/ XfsEnds \/ XfsEdited

\* Steps before the commit, which only change the files and the worker.
LEMMA XfsPrepares ==
  ASSUME XfsInv, CommitInv, Remember,
         \/ Xfs!Preflight \/ Xfs!CreateStage \/ Xfs!PlanLayout \/ Xfs!ArrangeStage
  PROVE  XfsInv' /\ XfsKinds
<1>. USE DEF Xfs!At, Xfs!Goto, Xfs!Exit, Xfs!Idle, Xfs!Aside, Xfs!world, Xfs!files, Xfs!Whole, Xfs!NoJournal
<1>a. worker = "xfs" /\ XfsShape /\ XfsSource /\ XfsImage
  BY DEF XfsInv
<1>1. CASE Xfs!Preflight
  <2>1. PICK operation \in Xfs!Operations :
           /\ journal' = [phase |-> "preflight", op |-> operation, offset |-> 0, plan |-> <<>>]
           /\ proc' = [pc |-> "build", op |-> operation, todo |-> <<>>]
    BY <1>1 DEF Xfs!Preflight
  <2>2. UNCHANGED <<disk, cache, worker, owner, edits, stage>> /\ journal.phase = "none"
    BY <1>1 DEF Xfs!Preflight
  <2>h. UNCHANGED <<promised, cloned>>
    BY <2>1, <2>2 DEF Remember, Clones, BeginsCommit
  <2>3. XfsShape'
    BY <1>a, <2>1, <2>2 DEF XfsShape, XfsPhases
  <2>4. XfsSource'
    BY <1>a, <2>1, <2>h, <2>2 DEF XfsSource, Bound
  <2>5. XfsImage'
    BY <1>a, <2>1, <2>h, <2>2 DEF XfsImage, Bound
  <2>6. XfsQuiet
    BY <2>1, <2>h, <2>2 DEF XfsQuiet, Bound
  <2>. QED BY <1>a, <2>2, <2>3, <2>4, <2>5, <2>6 DEF XfsInv, XfsKinds
<1>2. CASE Xfs!CreateStage
  <2>1. /\ UNCHANGED <<disk, cache, worker, owner, edits>>
        /\ proc.pc = "build" /\ journal.phase = "preflight"
        /\ proc' = [pc |-> "plan", op |-> proc.op, todo |-> proc.todo]
        /\ journal' = [phase |-> "cloning", op |-> journal.op, offset |-> journal.offset, plan |-> journal.plan]
    BY <1>a, <1>2 DEF XfsShape, Xfs!CreateStage
  <2>h. promised' = promised /\ cloned' = promised
    BY <2>1 DEF Remember, Clones, BeginsCommit
  <2>2. stage' = [state |-> "whole", image |-> CopyUsed(cache)]
    BY <1>2, XfsVolumes DEF Xfs!CreateStage, Xfs!CloneAllocated
  <2>3. Intact("xfs", cache) /\ Contents(cache) = promised
    BY <1>a, <2>1 DEF XfsSource, Current
  <2>4. Intact("xfs", stage'.image) /\ Contents(stage'.image) = promised /\ Blank(stage'.image)
    <3>. DEFINE clone == CopyUsed(cache)
    <3>1. Intact("xfs", clone) /\ Contents(clone) = Contents(cache) /\ Blank(clone)
      BY <2>3, CloneIsIntact
    <3>. HIDE DEF clone
    <3>2. stage' = [state |-> "whole", image |-> clone]
      BY <2>2 DEF clone
    <3>. QED BY <2>3, <3>1, <3>2
  <2>5. XfsShape'
    BY <1>a, <2>1, <2>2 DEF XfsShape, XfsPhases
  <2>6. XfsSource'
    BY <1>a, <2>1, <2>h DEF XfsSource, Bound
  <2>7. XfsImage'
    <3>1. IsVolume(stage'.image)
      BY <2>4 DEF Intact
    <3>. QED BY <1>a, <2>1, <2>h, <2>2, <2>4, <3>1 DEF XfsImage, Bound, XfsPhases
  <2>8. XfsQuiet
    BY <2>1, <2>h DEF XfsQuiet, Bound
  <2>. QED BY <1>a, <2>1, <2>5, <2>6, <2>7, <2>8 DEF XfsInv, XfsKinds
<1>3. CASE Xfs!PlanLayout
  <2>. DEFINE plan == Xfs!BuildPlan(stage.image, proc.op)
  <2>1. /\ UNCHANGED <<disk, cache, worker, owner, edits, stage>>
        /\ proc.pc = "plan" /\ journal.phase = "cloning"
        /\ \/ /\ proc' = [pc |-> "arrange", op |-> proc.op, todo |-> proc.todo]
              /\ plan.fits
              /\ journal' = [phase |-> "arranging", op |-> journal.op, offset |-> journal.offset,
                             plan |-> Plan(stage.image, proc.op)]
           \/ /\ proc' = [pc |-> "cleanup", op |-> proc.op, todo |-> proc.todo]
              /\ journal' = journal
    BY <1>a, <1>3 DEF XfsShape, Xfs!PlanLayout, Xfs!PlanAccepted, Plan
  <2>h. UNCHANGED <<promised, cloned>>
    BY <2>1 DEF Remember, Clones, BeginsCommit
  <2>. HIDE DEF plan
  <2>2. XfsShape'
    BY <1>a, <2>1 DEF XfsShape, XfsPhases
  <2>3. XfsSource'
    BY <1>a, <2>1, <2>h DEF XfsSource, Bound
  <2>4. XfsImage'
    BY <1>a, <2>1, <2>h DEF XfsImage, Bound, XfsPhases, plan
  <2>5. XfsQuiet
    BY <2>1, <2>h DEF XfsQuiet, Bound
  <2>. QED BY <1>a, <2>1, <2>2, <2>3, <2>4, <2>5 DEF XfsInv, XfsKinds
<1>4. CASE Xfs!ArrangeStage
  <2>. DEFINE image == ArrangedFrom(stage.image, journal.plan, proc.op)
  <2>1. /\ UNCHANGED <<disk, cache, worker, owner, edits>>
        /\ proc.pc = "arrange" /\ journal.phase = "arranging"
        /\ journal' = [phase |-> "verifying-stage", op |-> journal.op, offset |-> journal.offset, plan |-> journal.plan]
        /\ \/ /\ Xfs!VerifyStage(image, stage.image, journal.plan, proc.op)
              /\ stage' = [state |-> "whole", image |-> image]
              /\ proc' = [pc |-> "check", op |-> proc.op, todo |-> proc.todo]
           \/ /\ stage' = stage
              /\ proc' = [pc |-> "cleanup", op |-> proc.op, todo |-> proc.todo]
    BY <1>a, <1>4 DEF XfsShape, Xfs!ArrangeStage, Xfs!Rebuilt, Xfs!Targets, Xfs!ArrangedImage, Xfs!Verifies, ArrangedFrom
  <2>h. UNCHANGED <<promised, cloned>>
    BY <2>1 DEF Remember, Clones, BeginsCommit
  <2>2. /\ Intact("xfs", stage.image) /\ Contents(stage.image) = cloned
        /\ Xfs!BuildPlan(stage.image, proc.op).fits /\ journal.plan = Plan(stage.image, proc.op)
    BY <1>a, <2>1 DEF XfsImage
  <2>3. Xfs!VerifyStage(image, stage.image, journal.plan, proc.op)
        => Good("xfs", image, proc.op) /\ Contents(image) = cloned
    BY <2>2, ArrangedIsGood
  <2>. HIDE DEF image
  <2>4. Good("xfs", image, proc.op) => IsVolume(image)
    BY DEF Good, Intact
  <2>5. XfsShape'
    BY <1>a, <2>1 DEF XfsShape, XfsPhases
  <2>6. XfsSource'
    BY <1>a, <2>1, <2>h DEF XfsSource, Bound
  <2>7. XfsImage'
    BY <1>a, <2>1, <2>h, <2>3, <2>4 DEF XfsImage, Bound, XfsPhases
  <2>8. XfsQuiet
    BY <2>1, <2>h DEF XfsQuiet, Bound
  <2>. QED BY <1>a, <2>1, <2>5, <2>6, <2>7, <2>8 DEF XfsInv, XfsKinds
<1>. QED BY <1>1, <1>2, <1>3, <1>4

\* What Commit, its records and its end do.
LEMMA XfsCommits ==
  ASSUME XfsInv, CommitInv, Remember,
         \/ Xfs!CheckUnchangedTarget \/ Xfs!CopyBlock \/ Xfs!SyncRange \/ Xfs!RecordOffset \/ Xfs!EnterVerifying
  PROVE  XfsInv' /\ XfsKinds
<1>. USE DEF Xfs!At, Xfs!Goto, Xfs!Exit, Xfs!Idle, Xfs!Aside, Xfs!world, Xfs!files
<1>a. worker = "xfs" /\ XfsShape /\ XfsSource /\ XfsImage
  BY DEF XfsInv
<1>b. /\ proc.pc \in {"check", "commit", "record", "committed"} => stage.state = "whole"
      /\ proc.pc \in {"record", "committed"} => disk = cache
      /\ disk # cache => Writing
  BY DEF CommitInv, StepInv, Writing
<1>c. stage.state = "whole" =>
         /\ IsVolume(stage.image) /\ Len(XfsOrder(stage.image)) \in Nat
         /\ Rest(stage.image, 0) = XfsOrder(stage.image)
  <2>1. stage.state = "whole" => IsVolume(stage.image)
    BY <1>a DEF XfsImage
  <2>2. ASSUME stage.state = "whole" PROVE Len(XfsOrder(stage.image)) \in Nat
    BY <2>1, <2>2, XfsOrderCovers DEF Covers
  <2>3. ASSUME stage.state = "whole" PROVE Rest(stage.image, 0) = XfsOrder(stage.image)
    <3>1. 0 \in 0..Len(XfsOrder(stage.image))
      BY <2>2, <2>3
    <3>. QED BY <2>1, <2>3, <3>1, RestIs
  <2>. QED BY <2>1, <2>2, <2>3
<1>1. CASE Xfs!CheckUnchangedTarget
  <2>1. /\ UNCHANGED <<disk, cache, worker, owner, edits, stage>>
        /\ proc.pc = "check" /\ journal.phase = "verifying-stage"
        /\ journal' = [phase |-> "commit", op |-> journal.op, offset |-> 0, plan |-> journal.plan]
        /\ proc' = [pc |-> "commit", op |-> proc.op, todo |-> XfsOrder(stage.image)]
    BY <1>a, <1>1 DEF XfsShape, Xfs!CheckUnchangedTarget, Xfs!BeginCommit, XfsOrder
  <2>h. promised' = cloned /\ cloned' = cloned
    BY <2>1 DEF Remember, Clones, BeginsCommit
  <2>2. stage.state = "whole" /\ proc.op = journal.op
    BY <1>a, <1>b, <2>1 DEF XfsShape
  <2>3. XfsShape'
    BY <1>a, <2>1, <2>2 DEF XfsShape, XfsPhases
  <2>4. XfsSource'
    <3>1. \A v : Written(v, stage.image, 0)
      BY DEF Written
    <3>2. 0 \in 0..Len(XfsOrder(stage.image)) /\ 0 <= 0
      BY <1>c, <2>2
    <3>. QED BY <1>a, <1>c, <2>1, <2>h, <2>2, <3>1, <3>2 DEF XfsSource, Bound
  <2>5. XfsImage'
    BY <1>a, <2>1, <2>h, <2>2 DEF XfsImage, Bound, XfsPhases
  <2>6. XfsTurns
    BY <2>1, <2>h, <2>2 DEF XfsTurns, Bound
  <2>. QED BY <1>a, <2>1, <2>3, <2>4, <2>5, <2>6 DEF XfsInv, XfsKinds
<1>2. CASE Xfs!CopyBlock
  <2>1. /\ UNCHANGED <<disk, worker, owner, edits, stage, journal>> /\ proc.todo # <<>>
        /\ proc.pc = "commit" /\ journal.phase = "commit"
        /\ proc' = [pc |-> "commit", op |-> proc.op, todo |-> Tail(proc.todo)]
        /\ cache' = [cache EXCEPT ![Head(proc.todo)] = stage.image[Head(proc.todo)]]
    BY <1>a, <1>2 DEF XfsShape, Xfs!CopyBlock, Xfs!CopyNext
  <2>h. UNCHANGED <<promised, cloned>>
    BY <2>1 DEF Remember, Clones, BeginsCommit
  <2>. DEFINE order == XfsOrder(stage.image)
              n == Len(order)
  <2>2. stage.state = "whole" /\ IsVolume(stage.image) /\ n \in Nat
    BY <1>b, <1>c, <2>1
  <2>3. PICK k \in 0..n : journal.offset <= k /\ proc.todo = Rest(stage.image, k) /\ Written(cache, stage.image, k)
    BY <1>a, <2>1 DEF XfsSource
  <2>4. /\ k \in Nat /\ Head(proc.todo) = order[k + 1] /\ Tail(proc.todo) = Rest(stage.image, k + 1)
        /\ k + 1 \in 0..n /\ order[k + 1] \in Blocks
    <3>1. IsVolume(stage.image) /\ k \in 0..Len(XfsOrder(stage.image)) /\ Rest(stage.image, k) # <<>>
      BY <2>1, <2>2, <2>3
    <3>2. /\ k \in Nat /\ Head(Rest(stage.image, k)) = XfsOrder(stage.image)[k + 1]
          /\ Tail(Rest(stage.image, k)) = Rest(stage.image, k + 1)
          /\ k + 1 \in 0..Len(XfsOrder(stage.image)) /\ XfsOrder(stage.image)[k + 1] \in Blocks
      BY <3>1, RestIs
    <3>. QED BY <2>3, <3>2
  <2>5. /\ cache' = [b \in Blocks |-> cache'[b]]
        /\ \A b \in Blocks : cache'[b] = IF b = order[k + 1] THEN stage.image[b] ELSE cache[b]
        /\ cache'[order[k + 1]] = stage.image[order[k + 1]]
        /\ \A b : b # order[k + 1] => cache'[b] = cache[b]
    <3>1. cache = [b \in Blocks |-> cache[b]]
      BY <1>a DEF XfsSource, IsVolume
    <3>. HIDE DEF order, n
    <3>. QED BY <2>1, <2>4, <3>1
  <2>6. IsVolume(cache')
    BY <1>a, <2>2, <2>5, MixIsVolume DEF XfsSource
  <2>7. \A j : Written(cache, stage.image, j) => Written(cache', stage.image, j)
    BY <2>5 DEF Written
  <2>8. Written(cache', stage.image, k + 1)
    <3>1. \A i \in 1..(k + 1) : i \in 1..k \/ i = k + 1
      BY <2>4
    <3>2. Written(cache', stage.image, k)
      BY <2>3, <2>7
    <3>. QED BY <2>5, <3>1, <3>2 DEF Written
  <2>9. journal.offset \in 0..n
    BY <1>a, <2>1, <2>2 DEF XfsSource, Bound
  <2>10. journal.offset <= k + 1
    <3>. HIDE DEF n
    <3>. QED BY <2>2, <2>3, <2>4, <2>9
  <2>11. XfsShape'
    BY <1>a, <2>1 DEF XfsShape
  <2>12. XfsSource'
    <3>1. \E i \in 0..n : /\ journal.offset <= i /\ Tail(proc.todo) = Rest(stage.image, i)
                          /\ Written(cache', stage.image, i)
      BY <2>4, <2>8, <2>10
    <3>. QED BY <1>a, <2>1, <2>h, <2>6, <2>7, <3>1 DEF XfsSource, Bound
  <2>13. XfsImage'
    BY <1>a, <2>1, <2>h DEF XfsImage, Bound
  <2>14. XfsQuiet
    BY <2>1, <2>h, <2>2 DEF XfsQuiet, Bound
  <2>. QED BY <1>a, <2>1, <2>11, <2>12, <2>13, <2>14 DEF XfsInv, XfsKinds
<1>3. CASE Xfs!SyncRange
  <2>1. /\ UNCHANGED <<cache, worker, owner, edits, stage, journal>> /\ disk' = cache
        /\ proc.pc = "commit" /\ journal.phase = "commit"
        /\ proc' = [pc |-> "record", op |-> proc.op, todo |-> proc.todo]
    BY <1>a, <1>3 DEF XfsShape, Xfs!SyncRange, Xfs!Sync
  <2>h. UNCHANGED <<promised, cloned>>
    BY <2>1 DEF Remember, Clones, BeginsCommit
  <2>2. stage.state = "whole"
    BY <1>b, <2>1
  <2>3. XfsShape'
    BY <1>a, <2>1 DEF XfsShape
  <2>4. XfsSource'
    BY <1>a, <2>1, <2>h, <2>2 DEF XfsSource, Bound
  <2>5. XfsImage'
    BY <1>a, <2>1, <2>h DEF XfsImage, Bound
  <2>6. XfsQuiet
    BY <2>1, <2>h, <2>2 DEF XfsQuiet, Bound
  <2>. QED BY <1>a, <2>1, <2>3, <2>4, <2>5, <2>6 DEF XfsInv, XfsKinds
<1>4. CASE Xfs!RecordOffset
  <2>. DEFINE n == Len(XfsOrder(stage.image))
              done == n - Len(proc.todo)
  <2>1. /\ UNCHANGED <<disk, cache, worker, owner, edits, stage>>
        /\ proc.pc = "record" /\ journal.phase = "commit"
        /\ journal' = [phase |-> "commit", op |-> journal.op, offset |-> done, plan |-> journal.plan]
        /\ proc' = [pc |-> IF proc.todo = <<>> THEN "committed" ELSE "commit", op |-> proc.op, todo |-> proc.todo]
    BY <1>a, <1>4 DEF XfsShape, Xfs!RecordOffset, Xfs!Done, XfsOrder
  <2>h. UNCHANGED <<promised, cloned>>
    BY <2>1 DEF Remember, Clones, BeginsCommit
  <2>2. stage.state = "whole" /\ IsVolume(stage.image) /\ n \in Nat /\ disk = cache
    BY <1>b, <1>c, <2>1
  <2>3. PICK k \in 0..n : journal.offset <= k /\ proc.todo = Rest(stage.image, k) /\ Written(cache, stage.image, k)
    BY <1>a, <2>1 DEF XfsSource
  <2>4. Len(proc.todo) = n - k /\ k \in Nat /\ (proc.todo = <<>> => k = n)
    BY <2>2, <2>3, RestIs
  <2>5. done = k /\ k <= k
    <3>. HIDE DEF n
    <3>. QED BY <2>2, <2>4
  <2>. HIDE DEF n, done
  <2>6. XfsShape'
    BY <1>a, <2>1 DEF XfsShape, XfsPhases
  <2>7. XfsSource'
    <3>1. proc'.pc = "committed" => k = n
      BY <2>1, <2>4
    <3>2. \E i \in 0..n : /\ k <= i /\ proc.todo = Rest(stage.image, i) /\ Written(cache, stage.image, i)
                          /\ proc'.pc = "committed" => i = n
      BY <2>3, <2>5, <3>1
    <3>3. Written(disk, stage.image, k)
      BY <2>2, <2>3
    <3>. QED BY <1>a, <2>1, <2>h, <2>3, <2>5, <3>2, <3>3 DEF XfsSource, Bound, n
  <2>8. XfsImage'
    BY <1>a, <2>1, <2>h DEF XfsImage, Bound, XfsPhases
  <2>9. XfsQuiet
    BY <2>1, <2>h, <2>2 DEF XfsQuiet, Bound
  <2>. QED BY <1>a, <2>1, <2>6, <2>7, <2>8, <2>9 DEF XfsInv, XfsKinds
<1>5. CASE Xfs!EnterVerifying
  <2>. DEFINE n == Len(XfsOrder(stage.image))
  <2>1. /\ UNCHANGED <<disk, cache, worker, owner, edits, stage>>
        /\ proc.pc = "committed" /\ journal.phase = "commit"
        /\ journal' = [phase |-> "verifying-source", op |-> journal.op, offset |-> journal.offset, plan |-> journal.plan]
        /\ proc' = [pc |-> "verify-source", op |-> proc.op, todo |-> proc.todo]
    BY <1>a, <1>5 DEF XfsShape, Xfs!EnterVerifying, Xfs!EnterPhase, Xfs!Record
  <2>h. UNCHANGED <<promised, cloned>>
    BY <2>1 DEF Remember, Clones, BeginsCommit
  <2>2. stage.state = "whole" /\ IsVolume(stage.image) /\ n \in Nat
    BY <1>b, <1>c, <2>1
  <2>3. Written(cache, stage.image, n)
    BY <1>a, <2>1 DEF XfsSource
  <2>4. Good("xfs", stage.image, journal.op) /\ Contents(stage.image) = promised
    BY <1>a, <2>1, <2>2 DEF XfsImage, Bound
  <2>5. Agree(cache, stage.image, Carries(stage.image))
    <3>1. n \in 0..n
      BY <2>2
    <3>2. Rest(stage.image, n) = <<>>
      BY <2>2, <3>1, RestIs
    <3>3. Range(<<>>) = {}
      BY DEF Range
    <3>4. \A b \in Carries(stage.image) : b \in Range(Rest(stage.image, n)) \/ \E i \in 1..n : b = XfsOrder(stage.image)[i]
      BY <2>2, <3>1, RestIs
    <3>. HIDE DEF n
    <3>. QED BY <2>3, <3>2, <3>3, <3>4 DEF Agree, Written
  <2>6. Good("xfs", cache, journal.op) /\ Contents(cache) = promised
    BY <1>a, <2>4, <2>5, AgreeIsGood DEF XfsSource
  <2>7. XfsShape'
    BY <1>a, <2>1 DEF XfsShape, XfsPhases
  <2>8. XfsSource'
    BY <1>a, <2>1, <2>h, <2>2, <2>5, <2>6 DEF XfsSource, Bound
  <2>9. XfsImage'
    BY <1>a, <2>1, <2>h DEF XfsImage, Bound, XfsPhases
  <2>10. XfsQuiet
    BY <2>1, <2>h, <2>2 DEF XfsQuiet, Bound
  <2>. QED BY <1>a, <2>1, <2>7, <2>8, <2>9, <2>10 DEF XfsInv, XfsKinds
<1>. QED BY <1>1, <1>2, <1>3, <1>4, <1>5

\* Steps that end a transaction or take one up again.
LEMMA XfsEndsOrResumes ==
  ASSUME XfsInv, CommitInv, Remember,
         \/ Xfs!VerifySource \/ Xfs!StopStage \/ Xfs!CleanupFiles \/ Xfs!CleanupJournal
         \/ Xfs!RecoverDiscard \/ Xfs!RecoverCommit
  PROVE  XfsInv' /\ XfsKinds
<1>. USE DEF Xfs!At, Xfs!Goto, Xfs!Exit, Xfs!Idle, Xfs!Aside, Xfs!world, Xfs!files, Xfs!NoJournal, Xfs!NoStage
<1>a. worker = "xfs" /\ XfsShape /\ XfsSource /\ XfsImage
  BY DEF XfsInv
<1>b. disk # cache => journal.phase \in {"committing", "commit"}
  BY DEF CommitInv, Writing
<1>1. CASE Xfs!VerifySource \/ Xfs!StopStage
  <2>1. /\ UNCHANGED <<disk, cache, worker, owner, edits, stage, journal>>
        /\ proc.pc \in {"verify-source", "build", "plan", "arrange", "check"}
        /\ proc' = [pc |-> "cleanup", op |-> proc.op, todo |-> proc.todo]
    BY <1>a, <1>1 DEF XfsShape, Xfs!VerifySource, Xfs!StopStage, Xfs!GiveUp
  <2>h. UNCHANGED <<promised, cloned>>
    BY <2>1 DEF Remember, Clones, BeginsCommit
  <2>2. XfsShape'
    BY <1>a, <2>1 DEF XfsShape, XfsPhases
  <2>3. XfsSource'
    BY <1>a, <2>1, <2>h DEF XfsSource, Bound
  <2>4. XfsImage'
    BY <1>a, <2>1, <2>h DEF XfsImage, Bound
  <2>5. XfsQuiet
    BY <2>1, <2>h DEF XfsQuiet, Bound
  <2>. QED BY <1>a, <2>1, <2>2, <2>3, <2>4, <2>5 DEF XfsInv, XfsKinds
<1>2. CASE Xfs!CleanupFiles
  <2>1. /\ UNCHANGED <<disk, cache, worker, owner, edits, journal>>
        /\ proc.pc = "cleanup" /\ journal.phase \in XfsPhases \ {"commit"}
        /\ stage' = [state |-> "none"]
        /\ proc' = [pc |-> "retire", op |-> proc.op, todo |-> proc.todo]
    BY <1>a, <1>2 DEF XfsShape, Xfs!CleanupFiles, Xfs!Unlink
  <2>h. UNCHANGED <<promised, cloned>>
    BY <2>1 DEF Remember, Clones, BeginsCommit, XfsPhases
  <2>2. XfsShape'
    BY <1>a, <2>1 DEF XfsShape
  <2>3. XfsSource'
    BY <1>a, <2>1, <2>h DEF XfsSource, Bound
  <2>4. XfsImage'
    BY <1>a, <2>1, <2>h DEF XfsImage, Bound
  <2>5. XfsQuiet \/ XfsEnds
    BY <2>1, <2>h DEF XfsQuiet, XfsEnds, Bound
  <2>. QED BY <1>a, <2>1, <2>2, <2>3, <2>4, <2>5 DEF XfsInv, XfsKinds
<1>3. CASE Xfs!CleanupJournal
  <2>1. /\ UNCHANGED <<disk, cache, worker, owner, edits, stage>>
        /\ proc.pc = "retire" /\ journal.phase \in XfsPhases \ {"commit"}
        /\ journal' = [phase |-> "none"]
        /\ proc' = [pc |-> "down"]
    BY <1>a, <1>3 DEF XfsShape, Xfs!CleanupJournal, Xfs!Retire
  <2>h. UNCHANGED <<promised, cloned>>
    BY <2>1 DEF Remember, Clones, BeginsCommit, XfsPhases
  <2>2. XfsShape'
    BY <1>a, <2>1 DEF XfsShape, NoJournal
  <2>3. XfsSource'
    <3>1. journal.phase = "verifying-source" => Current("xfs", promised, cache)
      BY <1>a DEF XfsSource, Current, Good
    <3>2. Current("xfs", promised, cache)
      BY <1>a, <2>1, <3>1 DEF XfsSource
    <3>. QED BY <1>a, <2>1, <2>h, <3>2 DEF XfsSource, Bound
  <2>4. XfsImage'
    BY <1>a, <2>1, <2>h DEF XfsImage, Bound, XfsPhases
  <2>5. XfsQuiet \/ XfsEnds
    BY <2>1, <2>h DEF XfsQuiet, XfsEnds, Bound, XfsPhases
  <2>. QED BY <1>a, <2>1, <2>2, <2>3, <2>4, <2>5 DEF XfsInv, XfsKinds
<1>4. CASE Xfs!RecoverDiscard
  <2>1. /\ UNCHANGED <<disk, cache, worker, owner, edits, stage, journal>>
        /\ proc.pc = "down" /\ journal.phase \in {"preflight", "cloning", "arranging", "verifying-stage"}
        /\ proc' = [pc |-> "cleanup", op |-> journal.op, todo |-> <<>>]
    BY <1>4 DEF Xfs!RecoverDiscard, Xfs!DiscardPending, Xfs!Resume
  <2>h. UNCHANGED <<promised, cloned>>
    BY <2>1 DEF Remember, Clones, BeginsCommit
  <2>2. XfsShape'
    BY <1>a, <2>1 DEF XfsShape, XfsPhases
  <2>3. XfsSource'
    BY <1>a, <2>1, <2>h DEF XfsSource, Bound
  <2>4. XfsImage'
    BY <1>a, <2>1, <2>h DEF XfsImage, Bound
  <2>5. XfsQuiet
    BY <2>1, <2>h DEF XfsQuiet, Bound
  <2>. QED BY <1>a, <2>1, <2>2, <2>3, <2>4, <2>5 DEF XfsInv, XfsKinds
<1>5. CASE Xfs!RecoverCommit
  <2>1. /\ UNCHANGED <<disk, cache, worker, owner, edits, stage>>
        /\ proc.pc = "down" /\ journal.phase \in {"commit", "verifying-source"} /\ stage.state = "whole"
        /\ journal' = [phase |-> "commit", op |-> journal.op, offset |-> journal.offset, plan |-> journal.plan]
        /\ proc' = [pc |-> "commit", op |-> journal.op, todo |-> Rest(stage.image, journal.offset)]
    BY <1>a, <1>5 DEF XfsShape, Xfs!RecoverCommit, Xfs!Record, Xfs!ResumeAt, Rest, XfsOrder
  <2>h. UNCHANGED <<promised, cloned>>
    BY <2>1 DEF Remember, Clones, BeginsCommit
  <2>2. XfsShape'
    BY <1>a, <2>1 DEF XfsShape, XfsPhases
  <2>3. XfsSource'
    <3>1. /\ journal.offset \in 0..Len(XfsOrder(stage.image))
          /\ Written(disk, stage.image, journal.offset) /\ Written(cache, stage.image, journal.offset)
      BY <1>a, <2>1 DEF XfsSource, Bound
    <3>2. journal.offset <= journal.offset
      <4>1. journal.offset \in Int
        BY <3>1
      <4>. QED BY <4>1
    <3>. QED BY <1>a, <2>1, <2>h, <3>1, <3>2 DEF XfsSource, Bound
  <2>4. XfsImage'
    BY <1>a, <2>1, <2>h DEF XfsImage, Bound, XfsPhases
  <2>5. XfsQuiet
    BY <2>1, <2>h DEF XfsQuiet, Bound
  <2>. QED BY <1>a, <2>1, <2>2, <2>3, <2>4, <2>5 DEF XfsInv, XfsKinds
<1>. QED BY <1>1, <1>2, <1>3, <1>4, <1>5

\* The owner writes no block of the trees.
LEMMA EditKeepsTreeFree ==
  ASSUME NEW v, NEW w, IsVolume(v), EditOf(v, w), TreeFree(Contents(v))
  PROVE  TreeFree(Contents(w))
<1>0. PICK f \in Files : \E c \in CellsOf(v, f) : w = [v EXCEPT ![Header] = @ + 1, ![Cell(c)] = <<f, 9>>]
  BY DEF EditOf
<1>1. PICK c \in CellsOf(v, f) : w = [v EXCEPT ![Header] = @ + 1, ![Cell(c)] = <<f, 9>>]
  BY <1>0
<1>2. c \in Cells /\ v = [b \in Blocks |-> v[b]]
  BY CellsInside DEF IsVolume
<1>3. /\ \A g \in Files : w[MapOf(g)] = v[MapOf(g)]
      /\ \A d \in Cells : w[Cell(d)] = IF d = c THEN <<f, 9>> ELSE v[Cell(d)]
  BY <1>1, <1>2, BlockSet, BlockNames
<1>4. <<f, 9>> # Xfs!Tree
  BY FileNumbers DEF Xfs!Tree
<1>5. ASSUME NEW g \in Files, NEW j \in DOMAIN v[MapOf(g)]
      PROVE  w[Cell(v[MapOf(g)][j])] # Xfs!Tree
  <2>1. v[MapOf(g)][j] \in Cells
    BY CellsInside DEF CellsOf, Range
  <2>2. v[Cell(v[MapOf(g)][j])] # Xfs!Tree
    BY DEF TreeFree, Contents
  <2>. QED BY <1>3, <1>4, <2>1, <2>2
<1>. QED BY <1>3, <1>5 DEF TreeFree, Contents

\* Killed workers, power losses and the owner keep the invariant.
LEMMA XfsWorldKeeps ==
  ASSUME XfsInv, CommitInv, Remember, Killed \/ PowerLoss \/ Edit \/ RemoveOrphan
  PROVE  XfsInv' /\ XfsKinds
<1>a. worker = "xfs" /\ XfsShape /\ XfsSource /\ XfsImage
  BY DEF XfsInv
<1>b. /\ disk # cache => journal.phase \in {"committing", "commit"}
      /\ disk = [b \in Blocks |-> disk[b]]
  BY DEF CommitInv, Shape, Writing
<1>1. ASSUME Stopped
      PROVE  /\ UNCHANGED <<worker, edits, journal, promised, cloned>> /\ proc' = [pc |-> "down"]
             /\ stage' = stage \/ (stage' = [state |-> "partial"] /\ journal.phase \in {"preflight", "arranging"})
  <2>1. UNCHANGED <<worker, edits, journal>> /\ proc' = [pc |-> "down"]
    BY <1>1 DEF Stopped, Exit, Idle, world
  <2>2. stage' = stage \/ (stage' = [state |-> "partial"] /\ journal.phase \in {"preflight", "arranging"})
    BY <1>1, <1>a DEF Stopped, Partial, XfsShape
  <2>. QED BY <2>1, <2>2 DEF Remember, Clones, BeginsCommit
<1>2. ASSUME Stopped PROVE XfsShape' /\ XfsImage'
  <2>1. XfsShape'
    BY <1>a, <1>1, <1>2 DEF XfsShape
  <2>2. XfsImage'
    BY <1>a, <1>1, <1>2 DEF XfsImage, Bound
  <2>. QED BY <2>1, <2>2
<1>3. CASE Killed
  <2>1. UNCHANGED <<disk, cache>> /\ Stopped
    BY <1>3 DEF Killed
  <2>2. XfsSource'
    BY <1>a, <1>1, <2>1 DEF XfsSource, Bound
  <2>3. XfsQuiet
    BY <1>1, <2>1 DEF XfsQuiet, Bound
  <2>. QED BY <1>a, <1>1, <1>2, <2>1, <2>2, <2>3 DEF XfsInv, XfsKinds
<1>4. CASE PowerLoss
  <2>1. PICK kept \in SUBSET Differing(cache, disk) : disk' = Overlay(disk, cache, kept)
    BY <1>4 DEF PowerLoss
  <2>2. cache' = disk' /\ Stopped
    BY <1>4 DEF PowerLoss
  <2>3. /\ disk' = [b \in Blocks |-> disk'[b]]
        /\ \A b \in Blocks : disk'[b] = disk[b] \/ disk'[b] = cache[b]
    BY <2>1 DEF Overlay
  <2>4. disk = cache => disk' = disk /\ cache' = cache
    <3>1. ASSUME disk = cache PROVE disk' = [b \in Blocks |-> disk[b]]
      BY <2>1, <3>1 DEF Overlay
    <3>. QED BY <1>b, <2>2, <3>1
  <2>5. IsVolume(disk')
    BY <1>a, <2>3, MixIsVolume DEF XfsSource
  <2>6. ASSUME Bound PROVE Written(disk', stage.image, journal.offset)
    <3>1. /\ journal.offset \in 0..Len(XfsOrder(stage.image)) /\ IsVolume(stage.image)
          /\ Written(disk, stage.image, journal.offset) /\ Written(cache, stage.image, journal.offset)
      BY <1>a, <2>6 DEF XfsSource, XfsImage, Bound
    <3>. DEFINE order == XfsOrder(stage.image)
    <3>2. order \in Seq(Blocks)
      BY <3>1, XfsOrderCovers DEF Covers
    <3>3. \A i \in 1..journal.offset : order[i] \in Blocks
      <4>. HIDE DEF order
      <4>1. Len(order) \in Nat /\ \A i \in 1..Len(order) : order[i] \in Blocks
        BY <3>2
      <4>2. \A i \in 1..journal.offset : i \in 1..Len(order)
        BY <3>1, <4>1 DEF order
      <4>. QED BY <4>1, <4>2
    <3>. QED BY <2>3, <3>1, <3>3 DEF Written
  <2>7. XfsSource'
    <3>1. CASE disk = cache
      BY <1>a, <1>1, <2>2, <2>4, <3>1 DEF XfsSource, Bound
    <3>2. CASE disk # cache
      <4>1. journal.phase = "commit"
        BY <1>a, <1>b, <3>2 DEF XfsShape, XfsPhases, NoJournal
      <4>. QED BY <1>a, <1>1, <2>2, <2>5, <2>6, <4>1 DEF XfsSource, Bound
    <3>. QED BY <3>1, <3>2
  <2>8. XfsQuiet
    <3>1. Bound => Bound' /\ stage' = stage
      BY <1>1, <2>2 DEF Bound
    <3>2. ~ Bound => ~ Bound' /\ disk = cache
      BY <1>a, <1>b, <1>1, <2>2 DEF Bound, XfsImage, XfsShape, XfsPhases, NoJournal
    <3>. QED BY <1>1, <2>2, <2>4, <3>1, <3>2 DEF XfsQuiet
  <2>. QED BY <1>a, <1>1, <1>2, <2>2, <2>7, <2>8 DEF XfsInv, XfsKinds
<1>5. CASE Edit
  <2>1. /\ disk' = cache' /\ UNCHANGED <<worker, stage, journal, proc>>
        /\ edits' = edits + 1 /\ owner' = Contents(cache')
        /\ proc.pc \in {"down", "build", "plan", "arrange", "check"}
        /\ journal.phase \notin {"committing", "commit", "verifying-source"}
        /\ EditOf(cache, cache')
    BY <1>5 DEF Edit, EditOf
  <2>2. promised' = Contents(cache') /\ cloned' = cloned
    <3>1. edits \in Nat
      BY DEF CommitInv, Shape
    <3>. QED BY <2>1, <3>1 DEF Remember, Clones
  <2>3. IsVolume(cache) /\ Intact("xfs", cache) /\ Contents(cache) = promised
    BY <1>a, <2>1 DEF XfsSource, Current
  <2>4. IsVolume(cache') /\ Intact("xfs", cache') /\ Maps(cache') = Maps(cache)
    BY <2>1, <2>3, EditKeepsVolume
  <2>5. Current("xfs", promised', cache') /\ TreeFree(promised')
    <3>1. TreeFree(Contents(cache))
      BY <1>a, <2>3 DEF XfsSource
    <3>. QED BY <2>1, <2>2, <2>3, <2>4, <3>1, EditKeepsTreeFree DEF Current
  <2>6. \A f \in Files : DOMAIN cloned[f] = DOMAIN promised'[f]
    <3>1. ASSUME NEW f \in Files PROVE DOMAIN Contents(cache')[f] = DOMAIN Contents(cache)[f]
      <4>1. cache'[MapOf(f)] = cache[MapOf(f)]
        BY <2>4 DEF Maps
      <4>. QED BY <4>1 DEF Contents
    <3>2. \A f \in Files : DOMAIN cloned[f] = DOMAIN promised[f]
      BY <1>a DEF XfsSource
    <3>. QED BY <2>2, <2>3, <3>1, <3>2
  <2>7. XfsShape'
    BY <1>a, <2>1 DEF XfsShape
  <2>8. XfsSource'
    BY <1>a, <2>1, <2>2, <2>4, <2>5, <2>6 DEF XfsSource, Bound
  <2>9. XfsImage'
    BY <1>a, <2>1, <2>2 DEF XfsImage, Bound
  <2>10. XfsEdited
    BY <1>b, <2>1, <2>2 DEF XfsEdited, Edited, Bound
  <2>. QED BY <1>a, <2>1, <2>7, <2>8, <2>9, <2>10 DEF XfsInv, XfsKinds
<1>6. CASE RemoveOrphan
  <2>1. /\ UNCHANGED <<worker, owner, disk, cache, edits, journal, proc>> /\ proc.pc = "down"
        /\ journal.phase = "none" /\ stage' = [state |-> "none"]
    BY <1>6 DEF RemoveOrphan, Aside, world, At, NoJournal, NoStage
  <2>h. UNCHANGED <<promised, cloned>>
    BY <2>1 DEF Remember, Clones, BeginsCommit
  <2>2. XfsShape'
    BY <1>a, <2>1 DEF XfsShape
  <2>3. XfsSource'
    BY <1>a, <2>1, <2>h DEF XfsSource, Bound
  <2>4. XfsImage'
    BY <1>a, <2>1, <2>h DEF XfsImage, Bound
  <2>5. XfsQuiet
    BY <2>1, <2>h DEF XfsQuiet, Bound
  <2>. QED BY <1>a, <2>1, <2>2, <2>3, <2>4, <2>5 DEF XfsInv, XfsKinds
<1>. QED BY <1>3, <1>4, <1>5, <1>6

\* Every step of XFS or of its world keeps the invariant and is of a known kind.
LEMMA XfsNextKeeps ==
  ASSUME XfsInv, CommitInv, Next
  PROVE  XfsInv' /\ XfsKinds
<1>1. worker = "xfs"
  BY DEF XfsInv
<1>2. Xfs!Next \/ Killed \/ PowerLoss \/ Edit \/ RemoveOrphan
  BY <1>1 DEF Next, Move, Command, Work, Recover, Stop, Xfs!Next
<1>3. Remember
  BY DEF Next
<1>. QED BY <1>2, <1>3, XfsPrepares, XfsCommits, XfsEndsOrResumes, XfsWorldKeeps
        DEF Xfs!Next, Xfs!Work, Xfs!Recover, Xfs!CommitStage, Xfs!CommitRanges, Xfs!TransactionCleanup

\* The invariant holds before the first command.
LEMMA XfsStarts ==
  ASSUME Start, worker = "xfs"
  PROVE  XfsInv
<1>1. PICK s \in Starts : worker = s[1] /\ disk = s[2] /\ Init
  BY DEF Start
<1>2. /\ IsVolume(disk) /\ cache = disk /\ promised = Contents(cache) /\ cloned = promised
      /\ stage = NoStage /\ journal = NoJournal /\ proc = Idle
  BY <1>1, VolumesAssumption DEF Start, Init
<1>3. Intact(worker, cache)
  <2>1. KeepsPins(cache)
    BY <1>1, <1>2, PinnedAssumption DEF KeepsPins
  <2>2. Sound(cache)
    BY <1>1, <1>2, StartsAssumption
  <2>. QED BY <1>2, <2>1, <2>2 DEF Intact
<1>4. TreeFree(promised)
  <2>1. \A c \in Movable(disk) : disk[Cell(c)] # Xfs!Tree
    BY <1>1, TreesAssumption
  <2>2. \A f \in Files : \A j \in DOMAIN disk[MapOf(f)] : disk[MapOf(f)][j] \in Movable(disk)
    BY DEF Movable, CellsOf, Range
  <2>. QED BY <1>2, <2>1, <2>2 DEF TreeFree, Contents
<1>. QED BY <1>2, <1>3, <1>4 DEF XfsInv, XfsShape, XfsSource, XfsImage, XfsPhases, Bound, Current, NoStage, NoJournal, Idle

\* The invariant of XFS holds from the first command on.
LEMMA XfsInvHolds == Spec => [](worker = "xfs" => XfsInv)
<1>. DEFINE I == worker = "xfs" => XfsInv
<1>1. Start => I
  BY XfsStarts
<1>2. CommitInv /\ I /\ [Next]_allvars => I'
  <2>. SUFFICES ASSUME CommitInv, I, [Next]_allvars, worker' = "xfs" PROVE XfsInv'
    OBVIOUS
  <2>1. worker' = worker
    BY NextCounts DEF Counted
  <2>2. XfsInv
    BY <2>1
  <2>3. CASE Next
    BY <2>2, <2>3, XfsNextKeeps
  <2>4. CASE UNCHANGED allvars
    BY <2>2, <2>4 DEF vars, allvars, XfsInv, XfsShape, XfsSource, XfsImage, Bound
  <2>. QED BY <2>3, <2>4
<1>. QED BY <1>1, <1>2, CommitInvHolds, PTL DEF Spec

-----------------------------------------------------------------------------
(* What the invariant of XFS says.                                         *)

XfsSettled ==
    /\ Bound => \A v \in {disk, cache} :
          /\ Good("xfs", Settled(v), journal.op) /\ Contents(Settled(v)) = promised
          /\ Maps(Settled(v)) = Maps(stage.image)
    /\ ~ Bound => /\ disk = cache /\ Settled(disk) = disk /\ Settled(cache) = disk
                  /\ Intact("xfs", disk) /\ Contents(disk) = promised

\* What Recover settles is good and holds what was promised.
LEMMA XfsSettles == XfsInv /\ CommitInv => XfsSettled
<1>. SUFFICES ASSUME XfsInv, CommitInv PROVE XfsSettled
  OBVIOUS
<1>a. worker = "xfs" /\ XfsShape /\ XfsSource /\ XfsImage
  BY DEF XfsInv
<1>1. journal.phase # "committing"
  BY <1>a DEF XfsShape, XfsPhases, NoJournal
<1>2. ASSUME Bound, NEW v \in {disk, cache}
      PROVE  /\ Good("xfs", Settled(v), journal.op) /\ Contents(Settled(v)) = promised
             /\ Maps(Settled(v)) = Maps(stage.image)
  <2>1. Settled(v) = Overlay(v, stage.image, Range(Xfs!ResumeAt(journal.offset).todo))
    BY <1>1, <1>2 DEF Settled, Bound
  <2>2. Xfs!ResumeAt(journal.offset).todo = Rest(stage.image, journal.offset)
    BY DEF Xfs!ResumeAt, Rest, XfsOrder
  <2>3. Settled(v) = Overlay(v, stage.image, Range(Rest(stage.image, journal.offset)))
    BY <2>1, <2>2
  <2>4. /\ Good("xfs", stage.image, journal.op) /\ Contents(stage.image) = promised
        /\ IsVolume(v) /\ journal.offset \in 0..Len(XfsOrder(stage.image))
        /\ Written(v, stage.image, journal.offset)
    BY <1>a, <1>2 DEF XfsSource, XfsImage
  <2>. DEFINE u == Settled(v)
  <2>. HIDE DEF u
  <2>5. u = Overlay(v, stage.image, Range(Rest(stage.image, journal.offset)))
    BY <2>3 DEF u
  <2>6. Good("xfs", u, journal.op) /\ Contents(u) = Contents(stage.image) /\ Maps(u) = Maps(stage.image)
    BY <2>4, <2>5, RestSettles
  <2>. QED BY <2>4, <2>6 DEF u
<1>3. ASSUME ~ Bound
      PROVE  /\ disk = cache /\ Settled(disk) = disk /\ Settled(cache) = disk
             /\ Intact("xfs", disk) /\ Contents(disk) = promised
  <2>1. journal.phase # "commit"
    BY <1>a, <1>3 DEF XfsImage, Bound
  <2>2. disk = cache
    BY <1>1, <2>1 DEF CommitInv, Writing
  <2>3. \A v : Settled(v) = v
    BY <1>1, <1>3 DEF Settled, Bound
  <2>4. Intact("xfs", cache) /\ Contents(cache) = promised
    BY <1>a, <2>1 DEF XfsSource, Current, Good
  <2>. QED BY <2>2, <2>3, <2>4
<1>. QED BY <1>2, <1>3 DEF XfsSettled

\* The invariant implies what is asked of XFS.
LEMMA XfsMeans ==
  ASSUME XfsInv, CommitInv
  PROVE  /\ IsVolume(disk) /\ IsVolume(cache)
         /\ stage.state \in {"none", "partial", "whole"}
         /\ stage.state = "whole" => IsVolume(stage.image)
         /\ journal # NoJournal /\ stage.state = "whole" => journal.offset \in 0..Len(Xfs!AllocatedRanges(stage.image))
         /\ ContentsKept /\ StageReady /\ PlacedIsVerified
<1>a. worker = "xfs" /\ XfsShape /\ XfsSource /\ XfsImage
  BY DEF XfsInv
<1>1. /\ IsVolume(disk) /\ IsVolume(cache)
      /\ stage.state \in {"none", "partial", "whole"}
      /\ stage.state = "whole" => IsVolume(stage.image)
  BY <1>a DEF XfsShape, XfsSource, XfsImage
<1>2. ASSUME journal # NoJournal, stage.state = "whole"
      PROVE  journal.offset \in 0..Len(XfsOrder(stage.image))
  <2>1. Len(XfsOrder(stage.image)) \in Nat
    BY <1>1, <1>2, XfsOrderCovers DEF Covers
  <2>2. Bound => journal.offset \in 0..Len(XfsOrder(stage.image))
    BY <1>a DEF XfsSource
  <2>3. ~ Bound => journal.offset = 0
    BY <1>a, <1>2 DEF XfsShape, XfsImage, Bound
  <2>. QED BY <2>1, <2>2, <2>3
<1>3. ContentsKept
  <2>1. \A v \in {disk, cache} : KeepsPins(Settled(v)) /\ Contents(Settled(v)) = promised
    BY XfsSettles DEF XfsSettled, Good, Intact
  <2>. QED BY <1>a, <2>1 DEF ContentsKept, KeepsPins
<1>4. StageReady
  <2>1. journal.phase \in {"staged", "committing", "committed", "commit", "verifying-source"} /\ stage.state = "whole"
        => Good(worker, stage.image, journal.op)
    BY <1>a DEF XfsShape, XfsImage, Bound, XfsPhases, NoJournal
  <2>. QED BY <2>1 DEF StageReady, Arranged, Good, LaidOutBy
<1>5. PlacedIsVerified
  <2>1. worker = "xfs"
    BY <1>a
  <2>2. CASE proc.pc = "arrange"
    <3>1. /\ Intact("xfs", stage.image) /\ Blank(stage.image) /\ Contents(stage.image) = cloned
          /\ Xfs!BuildPlan(stage.image, proc.op).fits
          /\ journal.plan = Plan(stage.image, proc.op) /\ TreeFree(cloned)
      BY <1>a, <2>2 DEF XfsImage, XfsSource
    <3>2. NoTreeElsewhere(stage.image)
      <4>1. Junk # Xfs!Tree
        BY CellsAssumption DEF Junk, Xfs!Tree
      <4>2. \A f \in Files : \A j \in DOMAIN stage.image[MapOf(f)] :
               stage.image[Cell(stage.image[MapOf(f)][j])] # Xfs!Tree
        BY <3>1 DEF TreeFree, Contents
      <4>3. \A c \in Movable(stage.image) : \E f \in Files : \E j \in DOMAIN stage.image[MapOf(f)] : c = stage.image[MapOf(f)][j]
        BY DEF Movable, CellsOf, Range
      <4>. QED BY <3>1, <4>1, <4>2, <4>3 DEF NoTreeElsewhere, Blank
    <3>3. Xfs!VerifyStage(ArrangedFrom(stage.image, journal.plan, proc.op), stage.image, journal.plan, proc.op)
      BY <3>1, <3>2, ArrangedVerifies
    <3>4. Xfs!Verifies(Xfs!ArrangedImage(Xfs!Rebuilt, Xfs!Targets))
      BY <3>3 DEF Xfs!Verifies, Xfs!ArrangedImage, Xfs!Rebuilt, Xfs!Targets, ArrangedFrom
    <3>. QED BY <2>1, <2>2, <3>4 DEF PlacedIsVerified, At
  <2>3. CASE proc.pc # "arrange"
    BY <2>1, <2>3 DEF PlacedIsVerified, At
  <2>. QED BY <2>2, <2>3
<1>. QED BY <1>1, <1>2, <1>3, <1>4, <1>5 DEF XfsOrder

\* Every step of XFS maps to a step of AtomicRelayout or a stutter.
LEMMA XfsPromises ==
  ASSUME XfsInv, CommitInv, XfsInv', CommitInv', XfsKinds
  PROVE  Promised
<1>1. XfsSettled /\ worker = "xfs" /\ XfsSource
  BY XfsSettles DEF XfsInv
<1>2. XfsSettled'
  <2>1. (XfsInv /\ CommitInv => XfsSettled)'
    BY XfsSettles, PTL
  <2>. QED BY <2>1
<1>. DEFINE now == Settled(disk)
<1>3. /\ Bound => Good("xfs", now, journal.op) /\ Contents(now) = promised /\ Maps(now) = Maps(stage.image)
      /\ ~ Bound => now = disk /\ disk = cache /\ IsVolume(disk) /\ Contents(now) = promised
  BY <1>1 DEF XfsSettled, Intact
<1>4. /\ Bound' => Good("xfs", now', journal'.op) /\ Contents(now') = promised' /\ Maps(now') = Maps(stage'.image)
      /\ ~ Bound' => now' = disk' /\ IsVolume(disk') /\ Contents(now') = promised'
  BY <1>2 DEF XfsSettled, Intact
<1>0. Copied = cloned /\ Copied' = cloned' /\ Contents(now) = promised
  BY <1>1, <1>3 DEF Copied, XfsInv
<1>. HIDE DEF now
<1>5. CASE XfsQuiet
  <2>1. Maps(now') = Maps(now) /\ Contents(now') = Contents(now) /\ edits' = edits
    BY <1>3, <1>4, <1>5 DEF XfsQuiet
  <2>2. Copied' = Copied \/ Copied' = Contents(now)
    BY <1>0, <1>5 DEF XfsQuiet
  <2>. QED BY <2>1, <2>2 DEF Promised, Volume0!Copy, now
<1>6. CASE XfsTurns
  <2>1. /\ edits' = edits /\ Contents(now') = Copied /\ Copied' = Copied
        /\ IsVolume(now) /\ IsVolume(now') /\ Exclusive(now')
    BY <1>0, <1>3, <1>4, <1>6 DEF XfsTurns, Good, Intact, Sound
  <2>2. \A f \in Files : DOMAIN Contents(now)[f] = DOMAIN Contents(now')[f]
    BY <1>0, <1>1, <2>1 DEF XfsSource
  <2>3. /\ \A f \in Files : IsInjective(Maps(now')[f]) /\ Len(Maps(now')[f]) = Len(Maps(now)[f])
        /\ \A f, g \in Files : f # g => Range(Maps(now')[f]) \intersect Range(Maps(now')[g]) = {}
    BY <2>1, <2>2, SameSizes
  <2>. QED BY <2>1, <2>3 DEF Promised, Volume0!Relayout, Volume0!IsInjective, IsInjective, Volume0!Range, Range, now
<1>7. CASE XfsEnds
  <2>1. /\ edits' = edits /\ Contents(now') = Contents(now) /\ now' = disk /\ Copied' = Copied
        /\ Maps(now) = Maps(stage.image) /\ journal.phase = "verifying-source" /\ Bound
    BY <1>0, <1>3, <1>4, <1>7 DEF XfsEnds
  <2>2. disk = cache
    BY <2>1 DEF CommitInv, Writing
  <2>3. Agree(cache, stage.image, Carries(stage.image)) /\ IsVolume(cache) /\ Good("xfs", stage.image, journal.op)
    BY <1>1, <2>1 DEF XfsInv, XfsSource, XfsImage, Bound
  <2>4. Maps(cache) = Maps(stage.image)
    BY <2>3, AgreeIsGood
  <2>. QED BY <2>1, <2>2, <2>4 DEF Promised, now
<1>8. CASE XfsEdited
  <2>1. /\ edits' = edits + 1 /\ now = cache /\ now' = cache' /\ EditOf(cache, cache') /\ IsVolume(cache)
        /\ Copied' = Copied
    BY <1>0, <1>3, <1>4, <1>8 DEF XfsEdited, Edited
  <2>2. Maps(cache') = Maps(cache)
    BY <2>1, EditKeepsVolume
  <2>. QED BY <2>1, <2>2 DEF Promised, Volume0!OwnerWrites, now
<1>. QED BY <1>5, <1>6, <1>7, <1>8 DEF XfsKinds

-----------------------------------------------------------------------------
(* All four workers.                                                       *)

StagedInv ==
    /\ CommitInv
    /\ \/ worker \in DigestWorkers /\ DigestInv
       \/ worker = "xfs" /\ XfsInv
    /\ faults \in 0..MaxFaults /\ edits \in 0..MaxEdits

\* One invariant for the four workers.
LEMMA StagedInvHolds == Spec => []StagedInv
<1>. DEFINE K == worker \in DigestWorkers \union {"xfs"} /\ faults \in 0..MaxFaults /\ edits \in 0..MaxEdits
<1>1. Start => K
  <2>. SUFFICES ASSUME Start PROVE K
    OBVIOUS
  <2>1. PICK s \in Starts : worker = s[1] /\ faults = 0 /\ edits = 0
    BY DEF Start, Init
  <2>. QED BY <2>1, StartsAssumption, Bounds DEF DigestWorkers
<1>2. K /\ [Next]_allvars => K'
  <2>. SUFFICES ASSUME K, [Next]_allvars PROVE K'
    OBVIOUS
  <2>. QED BY NextCounts, Bounds DEF Counted
<1>3. CommitInv /\ K /\ (worker \in DigestWorkers => DigestInv) /\ (worker = "xfs" => XfsInv) => StagedInv
  <2>. SUFFICES ASSUME CommitInv, K, worker \in DigestWorkers => DigestInv, worker = "xfs" => XfsInv
                PROVE  StagedInv
    OBVIOUS
  <2>1. worker \in DigestWorkers \/ worker = "xfs"
    OBVIOUS
  <2>. QED BY <2>1 DEF StagedInv
<1>. QED BY <1>1, <1>2, <1>3, CommitInvHolds, DigestInvHolds, XfsInvHolds, PTL DEF Spec

\* Volumes, journals and images keep the shapes that the workers rely on, and
\* the recorded offset stays inside the list of blocks of the image it is for.
THEOREM StagedTypeOK == Spec => []TypeOK
<1>1. StagedInv => TypeOK
  <2>. SUFFICES ASSUME StagedInv PROVE TypeOK
    OBVIOUS
  <2>1. /\ IsVolume(disk) /\ IsVolume(cache)
        /\ stage.state \in {"none", "partial", "whole"}
        /\ stage.state = "whole" => IsVolume(stage.image)
    BY DigestMeans, XfsMeans DEF StagedInv
  <2>2. worker = "xfs" /\ journal # NoJournal /\ stage.state = "whole"
        => journal.offset \in 0..Len(Xfs!AllocatedRanges(stage.image))
    BY XfsMeans DEF StagedInv, DigestWorkers
  <2>. QED BY <2>1, <2>2 DEF TypeOK, StagedInv
<1>. QED BY <1>1, StagedInvHolds, PTL

\* Once Recover has written what the journal binds it to write, the fixed
\* metadata and every byte of every file are there, in the kernel and on stable
\* storage: for HFS+, AFFS and SFS as the owner last saw them, for XFS as he last
\* saw them or, from a commit of an image that he wrote past until he writes
\* again, as they were when that image was made.  That holds on every volume the
\* workers accept, with any number of kills and power losses, and of edits in
\* any phase before the commit.
THEOREM StagedContentsKept == Spec => []ContentsKept
<1>1. StagedInv => ContentsKept
  BY DigestMeans, XfsMeans DEF StagedInv
<1>. QED BY <1>1, StagedInvHolds, PTL

\* An image that a journal binds is a volume in order with every file in one run
\* and its reserve free: what the planner and the verifier of each worker let
\* through may be committed.
THEOREM StagedStageReady == Spec => []StageReady
<1>1. StagedInv => StageReady
  BY DigestMeans, XfsMeans DEF StagedInv
<1>. QED BY <1>1, StagedInvHolds, PTL

\* What a planner could place on a volume in order passes the verification of the
\* worker that placed it: for XFS also what the rebuilt trees, the permutation in
\* place and the rewritten inodes make of the plan.
THEOREM StagedPlacedIsVerified == Spec => []PlacedIsVerified
<1>1. StagedInv => PlacedIsVerified
  BY DigestMeans, XfsMeans DEF StagedInv
<1>. QED BY <1>1, StagedInvHolds, PTL

\* When a finished commit gives up its journal, the new layout, in order, is on
\* stable storage.
THEOREM StagedCompletedDurable == Spec => CompletedDurable
<1>1. StagedInv => (journal.phase \in {"committed", "verifying-source"} => Sound(disk) /\ Arranged(disk, journal.op))
  <2>. SUFFICES ASSUME StagedInv, journal.phase \in {"committed", "verifying-source"}
                PROVE  Sound(disk) /\ Arranged(disk, journal.op)
    OBVIOUS
  <2>1. disk = cache
    BY DEF StagedInv, CommitInv, Writing
  <2>2. Good(worker, cache, journal.op)
    BY DEF StagedInv, DigestInv, DigestShape, DigestSource, XfsInv, XfsShape, XfsSource, XfsPhases, NoJournal
  <2>. QED BY <2>1, <2>2 DEF Good, Arranged, LaidOutBy
<1>2. StagedInv /\ [Next]_allvars =>
        [journal.phase \in {"committed", "verifying-source"} /\ journal' = NoJournal /\ edits = 0
         => Sound(disk) /\ Arranged(disk, journal.op)]_vars
  BY <1>1
<1>. QED BY <1>2, StagedInvHolds, PTL DEF Spec, CompletedDurable

\* The four workers, with their journals, images, kills and power losses,
\* implement AtomicRelayout: the layout changes in one step, after which the
\* files hold what they held before it, or for XFS what they held when it made
\* its image; no other step but the owner's changes what a file holds.
THEOREM StagedImplements == Spec => Implements
<1>1. Start => Volume0!Begin
  <2>. SUFFICES ASSUME Start PROVE Volume0!Begin
    OBVIOUS
  <2>1. /\ disk \in InitialVolumes /\ edits = 0 /\ Settled(disk) = disk
        /\ cloned = Contents(disk)
    BY DEF Start, Init, Settled, NoJournal
  <2>. QED BY <2>1 DEF Volume0!Begin, Copied
<1>2. StagedInv /\ StagedInv' /\ [Next]_allvars => Promised
  <2>. SUFFICES ASSUME StagedInv, StagedInv', [Next]_allvars PROVE Promised
    OBVIOUS
  <2>1. CASE UNCHANGED allvars
    <3>1. /\ disk' = disk /\ journal' = journal /\ stage' = stage /\ edits' = edits
          /\ worker' = worker /\ cloned' = cloned
      BY <2>1 DEF vars, allvars
    <3>2. Xfs!ResumeAt(journal.offset)' = Xfs!ResumeAt(journal.offset)
      BY <3>1 DEF Xfs!ResumeAt
    <3>3. Settled(disk)' = Settled(disk)
      BY <3>1, <3>2 DEF Settled
    <3>. QED BY <3>1, <3>3 DEF Promised, Copied
  <2>2. CASE Next /\ worker \in DigestWorkers
    <3>1. DigestInv /\ CommitInv /\ CommitInv'
      BY <2>2 DEF StagedInv, DigestWorkers
    <3>2. DigestInv' /\ (Quiet \/ Turns \/ Ends \/ Edited)
      BY <2>2, <3>1, DigestNextKeeps DEF Next
    <3>. QED BY <3>1, <3>2, DigestPromises
  <2>3. CASE Next /\ worker = "xfs"
    <3>1. XfsInv /\ CommitInv /\ CommitInv'
      BY <2>3 DEF StagedInv, DigestWorkers
    <3>2. XfsInv' /\ XfsKinds
      BY <2>3, <3>1, XfsNextKeeps
    <3>. QED BY <3>1, <3>2, XfsPromises
  <2>. QED BY <2>1, <2>2, <2>3 DEF StagedInv
<1>3. StagedInv /\ StagedInv' /\ [Next]_allvars =>
        [Volume0!Copy \/ Volume0!Relayout \/ Volume0!OwnerWrites]_<<
           Maps(Settled(disk)), Contents(Settled(disk)), Copied, edits>>
  BY <1>2 DEF Promised
<1>. QED BY <1>1, <1>3, StagedInvHolds, PTL DEF Spec, Implements, Volume0!Atomic
=============================================================================
