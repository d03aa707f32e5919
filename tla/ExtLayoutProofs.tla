--------------------------- MODULE ExtLayoutProofs ---------------------------
(***************************************************************************)
(* What the workers that relocate in place are built from: where a plan    *)
(* puts the files, what the permutation and the copies through a workspace *)
(* make of a volume, and what a script that was interrupted leaves.  Then  *)
(* the plans and the scripts of the EXT worker, and where they lead.       *)
(***************************************************************************)
EXTENDS ExtTransaction, FiniteSetTheorems, TLAPS

NatFacts == INSTANCE FoldInduction WITH Step <- LAMBDA v, op, p, x : p, Inv <- LAMBDA v, op, i, p : TRUE

-----------------------------------------------------------------------------
(* The blocks of a volume.                                                 *)

\* Blocks of different names are different blocks.
LEMMA BlockNames ==
  /\ \A c, d : Cell(c) = Cell(d) => c = d
  /\ \A f, g : MapOf(f) = MapOf(g) => f = g
  /\ \A c, f : Cell(c) # MapOf(f) /\ Cell(c) # Header /\ Cell(c) # Bitmap
  /\ \A f : MapOf(f) # Header /\ MapOf(f) # Bitmap
  /\ Header # Bitmap
  /\ \A c : Cell(c)[1] = "cell" /\ Cell(c)[2] = c
  /\ \A f : MapOf(f)[1] = "map" /\ MapOf(f)[2] = f
  /\ Header[1] = "head" /\ Bitmap[1] = "bitmap" /\ \A m : Mirror(m)[1] = "head"
BY DEF Cell, MapOf, Header, Bitmap, Mirror

\* The blocks of a volume are the header and its copies, the bitmap, the maps of
\* the files and the cells.
LEMMA BlockSet ==
  /\ Header \in Blocks /\ Bitmap \in Blocks
  /\ \A f \in Files : MapOf(f) \in Blocks
  /\ \A c \in Cells : Cell(c) \in Blocks
BY DEF Blocks

\* The files are numbered in scan order.
LEMMA FileNumbers ==
  /\ Cardinality(Files) \in Nat
  /\ FileOrder = [j \in 1..Cardinality(Files) |-> j]
  /\ \A f \in Files : f \in Nat /\ f > 0
<1>1. Cardinality(Files) \in Nat
  BY FilesAssumption, FS_CardinalityType
<1>. QED BY <1>1, FilesAssumption DEF FileOrder, Run

\* A reserve is a number of cells.
LEMMA ReserveIsNat == \A op : \A n \in Nat : Reserve(op, n) \in Nat
BY DEF Reserve

\* FirstFit is an unclaimed run of cells, or 0.
LEMMA FirstFitFits ==
  \A claimed : \A span \in Nat :
     LET s == FirstFit(claimed, span) IN
     s # 0 => s \in Cells /\ s + span - 1 <= N /\ claimed \intersect (s..(s + span - 1)) = {}
<1>. TAKE claimed
<1>. TAKE span \in Nat
<1>. DEFINE fits == {s \in Cells : s + span - 1 <= N /\ claimed \intersect (s..(s + span - 1)) = {}}
<1>1. fits \subseteq Nat
  BY CellsAssumption DEF Cells
<1>2. fits # {} => Min(fits) \in fits
  <2>. HIDE DEF fits
  <2>. QED BY <1>1, NatFacts!MinOfNat DEF NatFacts!Min, Min
<1>3. FirstFit(claimed, span) = IF fits = {} THEN 0 ELSE Min(fits)
  BY DEF FirstFit
<1>. HIDE DEF fits
<1>4. FirstFit(claimed, span) # 0 => FirstFit(claimed, span) \in fits
  BY <1>2, <1>3
<1>. QED BY <1>4 DEF fits

\* A run of n cells from s on is the cells s to s + n - 1.
LEMMA RunIs ==
  \A s, n \in Nat : /\ Run(s, n) = [j \in 1..n |-> s + j - 1]
                    /\ Range(Run(s, n)) = s..(s + n - 1)
                    /\ n > 0 => Run(s, n)[1] = s
                    /\ Run(s, n) \in Seq(Int) /\ Len(Run(s, n)) = n
<1>. TAKE s, n \in Nat
<1>1. \A c \in s..(s + n - 1) : c - s + 1 \in 1..n /\ c = s + (c - s + 1) - 1
  OBVIOUS
<1>2. \A j \in 1..n : s + j - 1 \in s..(s + n - 1)
  OBVIOUS
<1>3. Range(Run(s, n)) = s..(s + n - 1)
  BY <1>1, <1>2 DEF Run, Range
<1>4. Run(s, n) \in Seq(Int) /\ Len(Run(s, n)) = n
  BY DEF Run
<1>. QED BY <1>3, <1>4 DEF Run

\* A run is one.
LEMMA RunInOrder ==
  \A s, n \in Nat : IsRun(Run(s, n)) /\ IsInjective(Run(s, n))
<1>. TAKE s, n \in Nat
<1>1. \A j \in 1..n : Run(s, n)[j] = s + j - 1
  BY DEF Run
<1>2. DOMAIN Run(s, n) = 1..n /\ Len(Run(s, n)) = n
  BY RunIs DEF Run
<1>3. \A j \in 2..n : j \in 1..n /\ j - 1 \in 1..n
  OBVIOUS
<1>4. \A j \in 2..n : s + j - 1 = (s + (j - 1) - 1) + 1
  OBVIOUS
<1>5. IsRun(Run(s, n))
  BY <1>1, <1>2, <1>3, <1>4 DEF IsRun
<1>6. IsInjective(Run(s, n))
  BY <1>1, <1>2 DEF IsInjective
<1>. QED BY <1>5, <1>6

-----------------------------------------------------------------------------
(* Volumes that change, and sequences.                                     *)

\* What is in one sequence after another.
LEMMA RangeOfConcat ==
  ASSUME NEW S, NEW a \in Seq(S), NEW b \in Seq(S)
  PROVE  a \o b \in Seq(S) /\ Range(a \o b) = Range(a) \union Range(b)
<1>1. a \o b \in Seq(S) /\ Len(a \o b) = Len(a) + Len(b)
  OBVIOUS
<1>2. \A i \in 1..(Len(a) + Len(b)) : (a \o b)[i] = IF i <= Len(a) THEN a[i] ELSE b[i - Len(a)]
  OBVIOUS
<1>3. DOMAIN a = 1..Len(a) /\ DOMAIN b = 1..Len(b) /\ DOMAIN (a \o b) = 1..(Len(a) + Len(b))
      /\ Len(a) \in Nat /\ Len(b) \in Nat
  BY <1>1
<1>. DEFINE c == a \o b
            m == Len(a)
            n == Len(b)
<1>. HIDE DEF c, m, n
<1>4. Range(c) \subseteq Range(a) \union Range(b)
  <2>. SUFFICES ASSUME NEW i \in 1..(m + n) PROVE c[i] \in Range(a) \union Range(b)
    BY <1>3 DEF Range, c, m, n
  <2>1. CASE i <= m
    <3>1. i \in 1..m /\ c[i] = a[i]
      BY <1>2, <1>3, <2>1 DEF c, m, n
    <3>. QED BY <1>3, <3>1 DEF Range, m
  <2>2. CASE ~ (i <= m)
    <3>1. i - m \in 1..n /\ c[i] = b[i - m]
      BY <1>2, <1>3, <2>2 DEF c, m, n
    <3>. QED BY <1>3, <3>1 DEF Range, n
  <2>. QED BY <2>1, <2>2
<1>5. Range(a) \subseteq Range(c)
  <2>1. \A i \in 1..m : i \in 1..(m + n) /\ c[i] = a[i]
    BY <1>2, <1>3 DEF c, m, n
  <2>. QED BY <1>3, <2>1 DEF Range, c, m, n
<1>6. Range(b) \subseteq Range(c)
  <2>1. \A i \in 1..n : m + i \in 1..(m + n) /\ c[m + i] = b[i]
    BY <1>2, <1>3 DEF c, m, n
  <2>. QED BY <1>3, <2>1 DEF Range, c, m, n
<1>. QED BY <1>1, <1>4, <1>5, <1>6 DEF c

\* A cell more at the end of a sequence.
LEMMA RangeOfAppend ==
  ASSUME NEW S, NEW s \in Seq(S), NEW x \in S
  PROVE  Append(s, x) \in Seq(S) /\ Range(Append(s, x)) = Range(s) \union {x}
<1>. DEFINE t == <<x>>
<1>1. Append(s, x) = s \o t /\ t \in Seq(S)
  OBVIOUS
<1>2. Range(t) = {x}
  BY DEF Range
<1>. HIDE DEF t
<1>3. s \o t \in Seq(S) /\ Range(s \o t) = Range(s) \union Range(t)
  BY <1>1, RangeOfConcat
<1>. QED BY <1>1, <1>2, <1>3

\* The cells of S in order are the cells of S.
Upto(S, n, upto) ==
    upto = [c \in 0..n |-> IF c = 0 THEN <<>>
                           ELSE IF c \in S THEN Append(upto[c - 1], c) ELSE upto[c - 1]]

\* The recursive function that Ascending chooses exists.
LEMMA UptoExists ==
  \A S : \A n \in Nat : \E upto : Upto(S, n, upto)
<1>. TAKE S
<1>. DEFINE T == {n \in Nat : \E upto : Upto(S, n, upto)}
<1>1. 0 \in T
  <2>1. Upto(S, 0, [c \in 0..0 |-> <<>>])
    <3>1. 0..0 = {0}
      OBVIOUS
    <3>. QED BY <3>1 DEF Upto
  <2>. QED BY <2>1
<1>2. ASSUME NEW n \in Nat, n \in T PROVE n + 1 \in T
  <2>1. PICK u : Upto(S, n, u)
    BY <1>2
  <2>. DEFINE w == [c \in 0..(n + 1) |-> IF c = n + 1 THEN (IF c \in S THEN Append(u[n], c) ELSE u[n]) ELSE u[c]]
  <2>2. /\ \A c \in 0..(n + 1) : c # n + 1 => c \in 0..n /\ c - 1 # n + 1 /\ (c # 0 => c - 1 \in 0..(n + 1) /\ c - 1 # n + 1)
        /\ n \in 0..(n + 1) /\ n # n + 1 /\ (n + 1) - 1 = n /\ n + 1 # 0
    OBVIOUS
  <2>3. \A c \in 0..n : u[c] = IF c = 0 THEN <<>> ELSE IF c \in S THEN Append(u[c - 1], c) ELSE u[c - 1]
    BY <2>1 DEF Upto
  <2>4. ASSUME NEW c \in 0..(n + 1)
        PROVE  w[c] = IF c = 0 THEN <<>> ELSE IF c \in S THEN Append(w[c - 1], c) ELSE w[c - 1]
    <3>1. CASE c = n + 1
      <4>1. w[n] = u[n] /\ c - 1 = n /\ c # 0
        BY <2>2, <3>1
      <4>. QED BY <3>1, <4>1
    <3>2. CASE c # n + 1
      <4>1. w[c] = u[c] /\ (c # 0 => w[c - 1] = u[c - 1])
        BY <2>2, <3>2
      <4>2. c \in 0..n
        BY <2>2, <3>2
      <4>. HIDE DEF w
      <4>. QED BY <2>3, <4>1, <4>2
    <3>. QED BY <3>1, <3>2
  <2>5. w = [c \in 0..(n + 1) |-> w[c]]
    OBVIOUS
  <2>. HIDE DEF w
  <2>6. Upto(S, n + 1, w)
    BY <2>4, <2>5 DEF Upto
  <2>. QED BY <2>6
<1>. HIDE DEF T
<1>3. Nat \subseteq T
  BY <1>1, <1>2, NatFacts!NatInduct
<1>. QED BY <1>3 DEF T

\* The ascending sequence of a set of cells holds the cells of the set.
LEMMA AscendingIs ==
  ASSUME NEW S, S \subseteq Cells
  PROVE  Ascending(S) \in Seq(Cells) /\ Range(Ascending(S)) = S
<1>. DEFINE u == CHOOSE upto : Upto(S, N, upto)
<1>1. Ascending(S) = u[N]
  BY DEF Ascending, Upto
<1>2. Upto(S, N, u)
  BY UptoExists, CellsAssumption
<1>. HIDE DEF u
<1>. DEFINE T == {n \in Nat : n <= N => u[n] \in Seq(Cells) /\ Range(u[n]) = S \intersect (1..n)}
<1>3. 0 \in T
  <2>1. 0 \in 0..N /\ 1..0 = {}
    BY CellsAssumption
  <2>2. u[0] = <<>>
    BY <1>2, <2>1 DEF Upto
  <2>3. Range(<<>>) = {} /\ <<>> \in Seq(Cells)
    BY DEF Range
  <2>. QED BY <2>1, <2>2, <2>3
<1>4. ASSUME NEW n \in Nat, n \in T PROVE n + 1 \in T
  <2>. SUFFICES ASSUME n + 1 <= N PROVE u[n + 1] \in Seq(Cells) /\ Range(u[n + 1]) = S \intersect (1..(n + 1))
    OBVIOUS
  <2>1. n <= N /\ n + 1 \in 0..N /\ n + 1 # 0 /\ (n + 1) - 1 = n /\ n + 1 \in Cells
    BY CellsAssumption DEF Cells
  <2>2. u[n] \in Seq(Cells) /\ Range(u[n]) = S \intersect (1..n)
    BY <1>4, <2>1
  <2>3. u[n + 1] = IF n + 1 \in S THEN Append(u[n], n + 1) ELSE u[n]
    BY <1>2, <2>1 DEF Upto
  <2>4. 1..(n + 1) = (1..n) \union {n + 1}
    OBVIOUS
  <2>5. CASE n + 1 \in S
    <3>1. u[n + 1] = Append(u[n], n + 1)
      BY <2>3, <2>5
    <3>2. Append(u[n], n + 1) \in Seq(Cells) /\ Range(Append(u[n], n + 1)) = Range(u[n]) \union {n + 1}
      BY <2>1, <2>2, RangeOfAppend
    <3>. QED BY <2>2, <2>4, <2>5, <3>1, <3>2
  <2>6. CASE n + 1 \notin S
    BY <2>2, <2>3, <2>4, <2>6
  <2>. QED BY <2>5, <2>6
<1>. HIDE DEF T
<1>5. N \in T
  BY <1>3, <1>4, NatFacts!NatInduct, CellsAssumption
<1>6. u[N] \in Seq(Cells) /\ Range(u[N]) = S \intersect (1..N)
  BY <1>5, CellsAssumption DEF T
<1>. QED BY <1>1, <1>6 DEF Cells

\* The cells of a file are cells of the volume.
LEMMA CellsInside ==
  ASSUME NEW v, IsVolume(v)
  PROVE  /\ \A f \in Files : CellsOf(v, f) \subseteq Cells /\ CellsOf(v, f) \subseteq Movable(v)
         /\ v[Bitmap] \subseteq Cells /\ v = [b \in Blocks |-> v[b]] /\ v[Header] \in Nat
<1>1. ASSUME NEW f \in Files PROVE CellsOf(v, f) \subseteq Cells
  <2>. DEFINE m == v[MapOf(f)]
  <2>1. m \in Seq(Cells)
    BY DEF IsVolume
  <2>. HIDE DEF m
  <2>2. \A j \in DOMAIN m : m[j] \in Cells
    BY <2>1
  <2>. QED BY <2>2 DEF CellsOf, Range, m
<1>2. \A f \in Files : CellsOf(v, f) \subseteq Movable(v)
  BY DEF Movable
<1>. QED BY <1>1, <1>2 DEF IsVolume

\* A volume whose blocks come from two others.
LEMMA MixIsVolume ==
  ASSUME NEW v, NEW u, NEW w, IsVolume(v), IsVolume(u), w = [b \in Blocks |-> w[b]],
         \A b \in Blocks : w[b] = v[b] \/ w[b] = u[b]
  PROVE  IsVolume(w)
<1>1. w[Header] \in Nat /\ w[Bitmap] \in SUBSET Cells
  BY BlockSet DEF IsVolume
<1>2. \A f \in Files : w[MapOf(f)] \in Seq(Cells)
  BY BlockSet DEF IsVolume
<1>3. \A c \in Cells : w[Cell(c)] \in Payloads \/ w[Cell(c)][1] < 0
  BY BlockSet DEF IsVolume
<1>. QED BY <1>1, <1>2, <1>3 DEF IsVolume

\* What a volume has to hold in order to be the volume its owner sees.
Carries(v) == {Header, Bitmap} \union {MapOf(f) : f \in Files} \union {Cell(c) : c \in v[Bitmap]}
Agree(w, v, S) == \A b \in S : w[b] = v[b]
\* Only where w has free cells do v and w differ.
OnlyFree(v, w) == \A b \in Blocks : v[b] # w[b] => \E c \in FreeCells(w) : b = Cell(c)

\* A volume that agrees with v on all that v carries is laid out like v and
\* holds the same files.
LEMMA AgreeIsSame ==
  ASSUME NEW v, Exclusive(v), NEW w, Agree(w, v, Carries(v))
  PROVE  /\ w[Bitmap] = v[Bitmap] /\ w[Header] = v[Header]
         /\ \A f \in Files : w[MapOf(f)] = v[MapOf(f)] /\ CellsOf(w, f) = CellsOf(v, f)
         /\ Maps(w) = Maps(v) /\ Contents(w) = Contents(v)
         /\ Movable(w) = Movable(v) /\ FreeCells(w) = FreeCells(v) /\ Carries(w) = Carries(v)
         /\ Exclusive(w) /\ (Sound(v) => Sound(w))
         /\ \A f \in Files : \A op : ReserveAfter(w, f, op) = ReserveAfter(v, f, op)
<1>1. /\ w[Bitmap] = v[Bitmap] /\ w[Header] = v[Header]
      /\ \A f \in Files : w[MapOf(f)] = v[MapOf(f)]
      /\ \A c \in v[Bitmap] : w[Cell(c)] = v[Cell(c)]
  BY DEF Agree, Carries
<1>2. \A f \in Files : CellsOf(w, f) = CellsOf(v, f)
  BY <1>1 DEF CellsOf
<1>3. Movable(w) = Movable(v) /\ FreeCells(w) = FreeCells(v) /\ Carries(w) = Carries(v) /\ Maps(w) = Maps(v)
  BY <1>1, <1>2 DEF Movable, FreeCells, Carries, Maps
<1>4. Exclusive(w) /\ (Sound(v) => Sound(w))
  BY <1>1, <1>2, <1>3 DEF Sound, Exclusive
<1>5. Contents(w) = Contents(v)
  <2>1. ASSUME NEW f \in Files
        PROVE  [j \in DOMAIN w[MapOf(f)] |-> w[Cell(w[MapOf(f)][j])]]
               = [j \in DOMAIN v[MapOf(f)] |-> v[Cell(v[MapOf(f)][j])]]
    <3>1. \A j \in DOMAIN v[MapOf(f)] : v[MapOf(f)][j] \in CellsOf(v, f)
      BY DEF CellsOf, Range
    <3>2. \A j \in DOMAIN v[MapOf(f)] : w[Cell(v[MapOf(f)][j])] = v[Cell(v[MapOf(f)][j])]
      BY <1>1, <3>1 DEF Exclusive
    <3>. QED BY <1>1, <3>2
  <2>. QED BY <2>1 DEF Contents
<1>6. \A f \in Files : \A op : ReserveAfter(w, f, op) = ReserveAfter(v, f, op)
  BY <1>1 DEF ReserveAfter
<1>. QED BY <1>1, <1>2, <1>3, <1>4, <1>5, <1>6

MapOrder == [f \in DOMAIN FileOrder |-> MapOf(f)]

\* The blocks in the order of their addresses are the blocks a volume carries.
LEMMA AddressOrderIs ==
  ASSUME NEW S, S \subseteq Cells
  PROVE  /\ AddressOrder(S) \in Seq(Blocks)
         /\ Range(AddressOrder(S)) = {Header, Bitmap} \union {MapOf(f) : f \in Files} \union {Cell(c) : c \in S}
<1>1. <<Header>> \in Seq(Blocks) /\ Range(<<Header>>) = {Header}
  BY BlockSet DEF Range
<1>2. <<Bitmap>> \in Seq(Blocks) /\ Range(<<Bitmap>>) = {Bitmap}
  BY BlockSet DEF Range
<1>3. MapOrder \in Seq(Blocks) /\ Range(MapOrder) = {MapOf(f) : f \in Files}
  <2>1. DOMAIN FileOrder = Files /\ Cardinality(Files) \in Nat /\ Files = 1..Cardinality(Files)
    BY FileNumbers, FilesAssumption
  <2>2. \A f \in Files : MapOf(f) \in Blocks
    BY BlockSet
  <2>3. MapOrder = [f \in 1..Cardinality(Files) |-> MapOf(f)]
    BY <2>1 DEF MapOrder
  <2>4. MapOrder \in Seq(Blocks)
    BY <2>1, <2>2, <2>3
  <2>. QED BY <2>1, <2>3, <2>4 DEF Range
<1>4. CellOrder(S) \in Seq(Blocks) /\ Range(CellOrder(S)) = {Cell(c) : c \in S}
  <2>. DEFINE a == Ascending(S)
  <2>1. a \in Seq(Cells) /\ Range(a) = S
    BY AscendingIs
  <2>. HIDE DEF a
  <2>2. DOMAIN a = 1..Len(a) /\ Len(a) \in Nat /\ \A i \in DOMAIN a : a[i] \in Cells
    BY <2>1
  <2>3. CellOrder(S) = [i \in DOMAIN a |-> Cell(a[i])]
    BY DEF CellOrder, a
  <2>4. \A i \in DOMAIN a : Cell(a[i]) \in Blocks
    BY <2>2, BlockSet
  <2>5. CellOrder(S) \in Seq(Blocks)
    BY <2>2, <2>3, <2>4
  <2>. QED BY <2>1, <2>3, <2>5 DEF Range
<1>. DEFINE h == <<Header>>
            m == MapOrder
            b == <<Bitmap>>
            k == CellOrder(S)
<1>. HIDE DEF h, m, b, k
<1>. DEFINE hm == h \o m
            hmb == hm \o b
<1>5. hm \in Seq(Blocks) /\ Range(hm) = Range(h) \union Range(m)
  BY <1>1, <1>3, RangeOfConcat DEF h, m
<1>. HIDE DEF hm
<1>6. hmb \in Seq(Blocks) /\ Range(hmb) = Range(hm) \union Range(b)
  <2>1. b \in Seq(Blocks)
    BY <1>2 DEF b
  <2>. QED BY <1>5, <2>1, RangeOfConcat
<1>. HIDE DEF hmb
<1>7. hmb \o k \in Seq(Blocks) /\ Range(hmb \o k) = Range(hmb) \union Range(k)
  BY <1>4, <1>6, RangeOfConcat DEF k
<1>8. AddressOrder(S) = hmb \o k
  BY DEF AddressOrder, hmb, hm, h, m, b, k, MapOrder
<1>. QED BY <1>1, <1>2, <1>3, <1>4, <1>5, <1>6, <1>7, <1>8 DEF h, m, b, k

-----------------------------------------------------------------------------
(* The plan.                                                               *)

\* The n cells from s on.
Spot(s, n) == s..(s + n - 1)
Fits(v, s, n) == s \in Cells /\ s + n - 1 <= N /\ Spot(s, n) \subseteq FreeCells(v) \union Movable(v)

\* The targets of db are places for the files of v, each with its reserve.
AimsWell(v, op, db) ==
    /\ db.digest = Contents(v)
    /\ \A f \in Files : db.start[f] \in Nat
    /\ \A f \in Files : v[MapOf(f)] # <<>> =>
          /\ Fits(v, db.start[f], Span(v, f, op))
          /\ \A g \in Files : g # f /\ v[MapOf(g)] # <<>> =>
                Spot(db.start[f], Span(v, f, op)) \intersect Spot(db.start[g], Span(v, g, op)) = {}

\* The span of a file is its length and its reserve.
LEMMA SpanIs ==
  ASSUME NEW v, NEW op, IsVolume(v), NEW f \in Files
  PROVE  /\ Len(v[MapOf(f)]) \in Nat /\ BlockCount(v, f) = Len(v[MapOf(f)])
         /\ Span(v, f, op) = Len(v[MapOf(f)]) + Reserve(op, Len(v[MapOf(f)]))
         /\ Span(v, f, op) \in Nat /\ Len(v[MapOf(f)]) <= Span(v, f, op)
         /\ Len(v[MapOf(f)]) = 0 <=> v[MapOf(f)] = <<>>
<1>1. v[MapOf(f)] \in Seq(Cells)
  BY DEF IsVolume
<1>2. BlockCount(v, f) = Len(v[MapOf(f)]) /\ Span(v, f, op) = Len(v[MapOf(f)]) + Reserve(op, Len(v[MapOf(f)]))
  BY DEF BlockCount, Span
<1>3. Len(v[MapOf(f)]) \in Nat /\ (Len(v[MapOf(f)]) = 0 <=> v[MapOf(f)] = <<>>)
  BY <1>1
<1>. DEFINE need == Len(v[MapOf(f)])
            reserve == Reserve(op, need)
<1>4. reserve \in Nat
  BY <1>3, ReserveIsNat
<1>. HIDE DEF need, reserve
<1>. QED BY <1>2, <1>3, <1>4 DEF need, reserve

\* The fold of the planner; o is the operation and the order of the files.
PlaceStep(v, o, p, f) ==
    LET span == Span(v, f, o.op)
        start == FirstFit(Cells \ p.remaining, span)
    IN IF BlockCount(v, f) = 0 THEN p
       ELSE IF start = 0 THEN [p EXCEPT !.fits = FALSE]
       ELSE [p EXCEPT !.start[f] = start, !.remaining = @ \ (start..(start + span - 1))]
\* The files with cells among the first i.
Located(v, o, i) == {f \in Files : v[MapOf(f)] # <<>> /\ \E k \in 1..i : f = o.order[k]}
SpotOf(v, o, p, f) == Spot(p.start[f], Span(v, f, o.op))
PlacedSoFar(v, o, i, p) ==
    /\ p = [fits |-> p.fits, start |-> p.start, remaining |-> p.remaining]
    /\ p.start = [f \in Files |-> p.start[f]] /\ \A f \in Files : p.start[f] \in Nat
    /\ p.remaining \subseteq FreeCells(v) \union Movable(v)
    /\ p.fits => /\ \A f \in Located(v, o, i) : /\ Fits(v, p.start[f], Span(v, f, o.op))
                                                 /\ SpotOf(v, o, p, f) \intersect p.remaining = {}
                 /\ \A f, g \in Located(v, o, i) :
                       f # g => SpotOf(v, o, p, f) \intersect SpotOf(v, o, p, g) = {}
PlaceFold == INSTANCE FoldInduction WITH Step <- PlaceStep, Inv <- PlacedSoFar

\* One step of the planner keeps the places that fit.
LEMMA PlaceKeeps ==
  ASSUME NEW v, NEW o, IsVolume(v), NEW i \in 1..Cardinality(Files), NEW p, PlacedSoFar(v, o, i - 1, p)
  PROVE  PlacedSoFar(v, o, i, PlaceStep(v, o, p, o.order[i]))
<1>. DEFINE f == o.order[i]
            w == PlaceStep(v, o, p, f)
            span == Span(v, f, o.op)
            start == FirstFit(Cells \ p.remaining, span)
<1>1. /\ p = [fits |-> p.fits, start |-> p.start, remaining |-> p.remaining]
      /\ p.start = [g \in Files |-> p.start[g]] /\ \A g \in Files : p.start[g] \in Nat
      /\ p.remaining \subseteq FreeCells(v) \union Movable(v)
      /\ p.fits => /\ \A g \in Located(v, o, i - 1) : /\ Fits(v, p.start[g], Span(v, g, o.op))
                                                       /\ SpotOf(v, o, p, g) \intersect p.remaining = {}
                   /\ \A g, h \in Located(v, o, i - 1) :
                         g # h => SpotOf(v, o, p, g) \intersect SpotOf(v, o, p, h) = {}
  BY DEF PlacedSoFar
<1>2. w = IF BlockCount(v, f) = 0 THEN p
          ELSE IF start = 0 THEN [p EXCEPT !.fits = FALSE]
          ELSE [p EXCEPT !.start[f] = start, !.remaining = @ \ Spot(start, span)]
  BY DEF PlaceStep, Spot
<1>3. /\ Located(v, o, i) \subseteq Files
      /\ \A g \in Located(v, o, i) : g # f => g \in Located(v, o, i - 1)
      /\ (f \in Files /\ v[MapOf(f)] # <<>>) \/ f \notin Located(v, o, i)
  <2>1. \A k \in 1..i : k \in 1..(i - 1) \/ k = i
    BY FileNumbers
  <2>. HIDE DEF w, span, start
  <2>. QED BY <2>1 DEF Located
<1>4. ASSUME f \in Files, start # 0 PROVE Fits(v, start, span) /\ Spot(start, span) \subseteq p.remaining
  <2>1. span \in Nat
    BY <1>4, SpanIs
  <2>2. start \in Cells /\ start + span - 1 <= N /\ (Cells \ p.remaining) \intersect (start..(start + span - 1)) = {}
    BY <1>4, <2>1, FirstFitFits
  <2>3. start..(start + span - 1) \subseteq Cells
    <3>. HIDE DEF start, span
    <3>. QED BY <2>1, <2>2, CellsAssumption DEF Cells
  <2>. HIDE DEF start, span
  <2>4. start..(start + span - 1) \subseteq p.remaining
    BY <2>2, <2>3
  <2>5. start..(start + span - 1) \subseteq FreeCells(v) \union Movable(v)
    BY <1>1, <2>4
  <2>. QED BY <2>2, <2>4, <2>5 DEF Fits, Spot
<1>5. f \in Files => (BlockCount(v, f) = 0 <=> v[MapOf(f)] = <<>>)
  BY SpanIs
<1>6. CASE BlockCount(v, f) = 0
  <2>1. w = p
    BY <1>2, <1>6
  <2>2. \A g \in Located(v, o, i) : g \in Located(v, o, i - 1)
    BY <1>3, <1>5, <1>6
  <2>. HIDE DEF w, span, start, f
  <2>. QED BY <1>1, <2>1, <2>2 DEF PlacedSoFar, w, f
<1>7. CASE BlockCount(v, f) # 0 /\ start = 0
  <2>1. w = [p EXCEPT !.fits = FALSE]
    BY <1>2, <1>7
  <2>2. w = [fits |-> FALSE, start |-> p.start, remaining |-> p.remaining]
    BY <1>1, <2>1
  <2>. HIDE DEF w, f
  <2>. QED BY <1>1, <2>2 DEF PlacedSoFar, w, f
<1>8. CASE BlockCount(v, f) # 0 /\ start # 0
  <2>1. w = [p EXCEPT !.start[f] = start, !.remaining = @ \ Spot(start, span)]
    BY <1>2, <1>8
  <2>2. /\ w = [fits |-> w.fits, start |-> w.start, remaining |-> w.remaining]
        /\ w.fits = p.fits /\ w.start = [p.start EXCEPT ![f] = start]
        /\ w.remaining = p.remaining \ Spot(start, span)
    <3>. HIDE DEF f, start, span, w
    <3>. QED BY <1>1, <2>1
  <2>3. /\ w.start = [g \in Files |-> w.start[g]]
        /\ \A g \in Files : w.start[g] = IF g = f THEN start ELSE p.start[g]
    <3>. HIDE DEF f, start, span, w
    <3>. QED BY <1>1, <2>2
  <2>. HIDE DEF w
  <2>4. w.remaining \subseteq FreeCells(v) \union Movable(v)
    BY <1>1, <2>2
  <2>5. \A g \in Files : g # f => SpotOf(v, o, w, g) = SpotOf(v, o, p, g)
    BY <2>3 DEF SpotOf
  <2>6. f \in Files => SpotOf(v, o, w, f) = Spot(start, span)
    BY <2>3 DEF SpotOf
  <2>7. ASSUME w.fits, NEW g \in Located(v, o, i)
        PROVE  /\ Fits(v, w.start[g], Span(v, g, o.op))
               /\ SpotOf(v, o, w, g) \intersect w.remaining = {}
    <3>1. CASE g = f
      <4>. HIDE DEF start
      <4>. QED BY <1>3, <1>4, <1>8, <2>2, <2>3, <2>6, <2>7, <3>1
    <3>2. CASE g # f
      <4>. HIDE DEF start, span, f
      <4>. QED BY <1>1, <1>3, <2>2, <2>3, <2>5, <2>7, <3>2
    <3>. QED BY <3>1, <3>2
  <2>8. ASSUME w.fits, NEW g \in Located(v, o, i), g # f, f \in Files
        PROVE  SpotOf(v, o, w, g) \intersect SpotOf(v, o, w, f) = {}
    <3>1. SpotOf(v, o, p, g) \intersect p.remaining = {} /\ SpotOf(v, o, w, g) = SpotOf(v, o, p, g)
      BY <1>1, <1>3, <2>2, <2>5, <2>8
    <3>2. SpotOf(v, o, w, f) \subseteq p.remaining
      BY <1>4, <1>8, <2>6, <2>8
    <3>. QED BY <3>1, <3>2
  <2>9. ASSUME w.fits, NEW g \in Located(v, o, i), NEW h \in Located(v, o, i), g # h
        PROVE  SpotOf(v, o, w, g) \intersect SpotOf(v, o, w, h) = {}
    <3>. HIDE DEF start, span, f
    <3>1. CASE g # f /\ h # f
      BY <1>1, <1>3, <2>2, <2>5, <2>9, <3>1
    <3>2. CASE g = f
      BY <1>3, <2>8, <2>9, <3>2
    <3>3. CASE h = f
      BY <1>3, <2>8, <2>9, <3>3
    <3>. QED BY <3>1, <3>2, <3>3
  <2>10. \A g \in Files : w.start[g] \in Nat
    <3>1. f \in Files => start \in Nat
      <4>. HIDE DEF start, span, f
      <4>. QED BY <1>4, <1>8, CellsAssumption DEF Fits, Cells
    <3>. HIDE DEF start, span, f
    <3>. QED BY <1>1, <2>3, <3>1
  <2>11. PlacedSoFar(v, o, i, w)
    <3>. HIDE DEF start, span, f
    <3>. QED BY <2>2, <2>3, <2>4, <2>7, <2>9, <2>10 DEF PlacedSoFar
  <2>. HIDE DEF start, span, f
  <2>. QED BY <2>11 DEF w, f
<1>. HIDE DEF w, span, f
<1>. QED BY <1>6, <1>7, <1>8 DEF w, f

\* An order in which every file has its turn.
Complete(order) == /\ DOMAIN order = 1..Cardinality(Files)
                 /\ \A f \in Files : \E i \in 1..Cardinality(Files) : f = order[i]

\* Where the planner puts a file, free cells and cells of files are enough for
\* it and its reserve, and no cell is promised twice.
LEMMA AssignedAimsWell ==
  ASSUME NEW v, NEW op, IsVolume(v), NEW order, Complete(order),
         AssignTargets(v, op, order).fits,
         NEW db, db.start = AssignTargets(v, op, order).start, db.digest = Contents(v)
  PROVE  AimsWell(v, op, db)
<1>. DEFINE none == [fits |-> TRUE, start |-> [g \in Files |-> 0], remaining |-> FreeCells(v) \union Movable(v)]
            o == [op |-> op, order |-> order]
            n == Cardinality(Files)
            plan == PlaceFold!Folded(v, o, none, order)
<1>0. o.op = op /\ o.order = order
  OBVIOUS
<1>. HIDE DEF o
<1>1. AssignTargets(v, op, order) = plan
  <2>1. AssignTargets(v, o.op, order) = plan
    BY DEF AssignTargets, Accumulate, Once, PlaceFold!Folded, PlaceStep,
           FoldLeft, PlaceFold!FoldLeft, MapThenFoldSet, PlaceFold!MapThenFoldSet, Max, PlaceFold!Max
  <2>. HIDE DEF plan
  <2>. QED BY <1>0, <2>1
<1>2. n \in Nat /\ DOMAIN order = 1..n
  BY FileNumbers DEF Complete
<1>3. PlacedSoFar(v, o, 0, none)
  BY DEF PlacedSoFar, Located
<1>4. \A i \in 1..n : \A p : PlacedSoFar(v, o, i - 1, p) => PlacedSoFar(v, o, i, PlaceStep(v, o, p, order[i]))
  BY <1>0, PlaceKeeps
<1>5. PlacedSoFar(v, o, n, plan)
  <2>. HIDE DEF n, none
  <2>. QED BY <1>2, <1>3, <1>4, PlaceFold!FoldKeeps
<1>6. \A f \in Files : v[MapOf(f)] # <<>> => f \in Located(v, o, n)
  BY <1>0 DEF Complete, Located
<1>. HIDE DEF plan, n
<1>8. plan.fits
  BY <1>1
<1>9. \A f \in Files : SpotOf(v, o, plan, f) = Spot(db.start[f], Span(v, f, op))
  BY <1>0, <1>1 DEF SpotOf
<1>10. \A f \in Files : db.start[f] = plan.start[f] /\ plan.start[f] \in Nat
  BY <1>1, <1>5 DEF PlacedSoFar
<1>11. ASSUME NEW f \in Files, v[MapOf(f)] # <<>>
       PROVE  Fits(v, db.start[f], Span(v, f, op))
  BY <1>0, <1>5, <1>6, <1>8, <1>10, <1>11 DEF PlacedSoFar
<1>12. ASSUME NEW f \in Files, v[MapOf(f)] # <<>>, NEW g \in Files, g # f, v[MapOf(g)] # <<>>
       PROVE  Spot(db.start[f], Span(v, f, op)) \intersect Spot(db.start[g], Span(v, g, op)) = {}
  <2>1. SpotOf(v, o, plan, f) \intersect SpotOf(v, o, plan, g) = {}
    BY <1>5, <1>6, <1>8, <1>12 DEF PlacedSoFar
  <2>. QED BY <1>9, <2>1
<1>. QED BY <1>10, <1>11, <1>12 DEF AimsWell

\* The targets of a plan are free cells and cells of files, a run for each file.
LEMMA TargetsInside ==
  ASSUME NEW v, NEW op, IsVolume(v), NEW db, AimsWell(v, op, db)
  PROVE  /\ TargetRanges(db) \subseteq FreeCells(v) \union Movable(v)
         /\ \A f \in Files : /\ FileTarget(db, f) \in Seq(Cells) /\ IsRun(FileTarget(db, f))
                             /\ Range(FileTarget(db, f)) \subseteq TargetRanges(db)
                             /\ \A j \in DOMAIN v[MapOf(f)] : db.start[f] + j - 1 \in Range(FileTarget(db, f))
<1>1. db.digest = Contents(v)
  BY DEF AimsWell
<1>2. \A f \in Files : Range(FileTarget(db, f)) \subseteq TargetRanges(db)
  BY DEF TargetRanges
<1>3. ASSUME NEW f \in Files
      PROVE  /\ FileTarget(db, f) \in Seq(Cells) /\ IsRun(FileTarget(db, f))
             /\ Range(FileTarget(db, f)) \subseteq FreeCells(v) \union Movable(v)
             /\ \A j \in DOMAIN v[MapOf(f)] : db.start[f] + j - 1 \in Range(FileTarget(db, f))
  <2>. DEFINE n == Len(v[MapOf(f)])
              s == db.start[f]
  <2>0. v[MapOf(f)] \in Seq(Cells) /\ n \in Nat /\ DOMAIN v[MapOf(f)] = 1..n
    BY DEF IsVolume
  <2>1. Len(db.digest[f]) = n
    <3>1. db.digest[f] = [j \in DOMAIN v[MapOf(f)] |-> v[Cell(v[MapOf(f)][j])]]
      BY <1>1 DEF Contents
    <3>2. DOMAIN v[MapOf(f)] = 1..n /\ n \in Nat
      BY <2>0
    <3>. HIDE DEF n
    <3>. QED BY <3>1, <3>2
  <2>2. FileTarget(db, f) = Run(s, n)
    BY <2>1 DEF FileTarget
  <2>3. CASE v[MapOf(f)] = <<>>
    <3>1. Run(s, n) = <<>>
      BY <2>3 DEF Run
    <3>2. IsRun(<<>>) /\ <<>> \in Seq(Cells) /\ Range(<<>>) = {}
      BY DEF IsRun, Range
    <3>3. DOMAIN v[MapOf(f)] = {}
      BY <2>3
    <3>. HIDE DEF n, s
    <3>. QED BY <2>2, <3>1, <3>2, <3>3
  <2>4. CASE v[MapOf(f)] # <<>>
    <3>1. Fits(v, s, Span(v, f, op)) /\ n <= Span(v, f, op) /\ Span(v, f, op) \in Nat
      BY <2>4, SpanIs DEF AimsWell
    <3>. DEFINE k == Span(v, f, op)
    <3>. HIDE DEF n, s, k
    <3>2. s \in Nat /\ s \in Cells /\ s + k - 1 <= N /\ s..(s + k - 1) \subseteq FreeCells(v) \union Movable(v)
          /\ n <= k /\ k \in Nat /\ n \in Nat
      BY <2>0, <3>1 DEF Fits, Spot, Cells, k, n
    <3>3. s..(s + n - 1) \subseteq FreeCells(v) \union Movable(v)
      <4>1. s..(s + n - 1) \subseteq s..(s + k - 1)
        BY <3>2
      <4>. QED BY <3>2, <4>1
    <3>4. Run(s, n) = [j \in 1..n |-> s + j - 1] /\ Range(Run(s, n)) = s..(s + n - 1) /\ IsRun(Run(s, n))
      BY <3>2, RunIs, RunInOrder
    <3>5. \A j \in 1..n : s + j - 1 \in s..(s + n - 1) /\ s + j - 1 \in Cells
      BY <3>2, CellsAssumption DEF Cells
    <3>6. Run(s, n) \in Seq(Cells)
      <4>1. [j \in 1..n |-> s + j - 1] \in Seq(Cells)
        BY <3>2, <3>5
      <4>. QED BY <3>4, <4>1
    <3>7. \A j \in DOMAIN v[MapOf(f)] : s + j - 1 \in Range(Run(s, n))
      BY <2>0, <3>4, <3>5 DEF n
    <3>. QED BY <2>2, <3>3, <3>4, <3>6, <3>7 DEF s
  <2>. QED BY <2>3, <2>4
<1>4. TargetRanges(db) \subseteq FreeCells(v) \union Movable(v)
  BY <1>3 DEF TargetRanges
<1>. QED BY <1>2, <1>3, <1>4
\* Every cell of a file moves to a target.
LEMMA MovesToTargets ==
  ASSUME NEW v, NEW op, IsVolume(v), NEW db, AimsWell(v, op, db)
  PROVE  /\ Moves(v, db) = [c \in Movable(v) |-> Moves(v, db)[c]]
         /\ \A c \in Movable(v) : Moves(v, db)[c] \in TargetRanges(db)
<1>1. ASSUME NEW c \in Movable(v) PROVE Moves(v, db)[c] \in TargetRanges(db)
  <2>. DEFINE f == CHOOSE g \in Files : c \in CellsOf(v, g)
              j == CHOOSE i \in DOMAIN v[MapOf(f)] : v[MapOf(f)][i] = c
  <2>1. c \in Movable(v)
    OBVIOUS
  <2>2. Moves(v, db)[c] = db.start[f] + j - 1
    BY <2>1 DEF Moves
  <2>3. f \in Files /\ c \in CellsOf(v, f)
    <3>1. \E g \in Files : c \in CellsOf(v, g)
      BY DEF Movable
    <3>. QED BY <3>1
  <2>. HIDE DEF f
  <2>4. \E i \in DOMAIN v[MapOf(f)] : v[MapOf(f)][i] = c
    BY <2>3 DEF CellsOf, Range
  <2>5. j \in DOMAIN v[MapOf(f)]
    BY <2>4
  <2>. HIDE DEF j
  <2>. QED BY <2>2, <2>3, <2>5, TargetsInside
<1>2. Moves(v, db) = [c \in Movable(v) |-> Moves(v, db)[c]]
  <2>1. DOMAIN Moves(v, db) = Movable(v) /\ Moves(v, db) = [c \in Movable(v) |-> Moves(v, db)[c]]
    BY DEF Moves
  <2>. QED BY <2>1
<1>. QED BY <1>1, <1>2
\* The cells that the plan keeps free behind file f.
Held(v, db, op, f) ==
    (db.start[f] + Len(v[MapOf(f)]))..(db.start[f] + Len(v[MapOf(f)]) + Reserve(op, Len(v[MapOf(f)])) - 1)

\* A run and the reserve behind it share the span of the file.
LEMMA SpanParts ==
  \A s, n, r \in Nat :
     /\ s..(s + n - 1) \subseteq s..(s + (n + r) - 1)
     /\ (s + n)..(s + n + r - 1) \subseteq s..(s + (n + r) - 1)
     /\ s..(s + n - 1) \intersect ((s + n)..(s + n + r - 1)) = {}
OBVIOUS
\* Where the plan puts a file: at the start of its place, with its reserve behind it.
LEMMA TargetIs ==
  ASSUME NEW v, NEW op, IsVolume(v), NEW db, AimsWell(v, op, db), NEW f \in Files
  PROVE  /\ FileTarget(db, f) = Run(db.start[f], Len(v[MapOf(f)]))
         /\ Len(db.digest[f]) = Len(v[MapOf(f)])
         /\ Held(v, db, op, f) \subseteq ReserveRanges(db, op)
         /\ v[MapOf(f)] = <<>> => Range(FileTarget(db, f)) = {}
         /\ v[MapOf(f)] # <<>> =>
               /\ db.start[f] \in Nat /\ Len(v[MapOf(f)]) \in Nat \ {0}
               /\ Range(FileTarget(db, f)) = Spot(db.start[f], Len(v[MapOf(f)]))
               /\ Range(FileTarget(db, f)) \subseteq Spot(db.start[f], Span(v, f, op))
               /\ Held(v, db, op, f) \subseteq Spot(db.start[f], Span(v, f, op))
               /\ Held(v, db, op, f) \intersect Range(FileTarget(db, f)) = {}
               /\ Spot(db.start[f], Span(v, f, op)) \subseteq FreeCells(v) \union Movable(v)
<1>. DEFINE n == Len(v[MapOf(f)])
            s == db.start[f]
            r == Reserve(op, n)
            span == Span(v, f, op)
<1>1. db.digest = Contents(v)
  BY DEF AimsWell
<1>2. n \in Nat /\ (n = 0 <=> v[MapOf(f)] = <<>>) /\ span = n + r /\ DOMAIN v[MapOf(f)] = 1..n
  <2>1. v[MapOf(f)] \in Seq(Cells)
    BY DEF IsVolume
  <2>. QED BY <2>1, SpanIs
<1>3. r \in Nat
  BY <1>2, ReserveIsNat
<1>4. Len(db.digest[f]) = n
  <2>1. db.digest[f] = [j \in DOMAIN v[MapOf(f)] |-> v[Cell(v[MapOf(f)][j])]]
    BY <1>1 DEF Contents
  <2>. HIDE DEF n
  <2>. QED BY <1>2, <2>1
<1>5. FileTarget(db, f) = Run(s, n)
  BY <1>4 DEF FileTarget
<1>6. Held(v, db, op, f) = (s + n)..(s + n + r - 1)
  BY DEF Held
<1>7. Held(v, db, op, f) \subseteq ReserveRanges(db, op)
  <2>1. Held(v, db, op, f) = (db.start[f] + Len(db.digest[f]))..((db.start[f] + Len(db.digest[f])) + Reserve(op, Len(db.digest[f])) - 1)
    BY <1>4 DEF Held
  <2>. QED BY <2>1 DEF ReserveRanges
<1>8. v[MapOf(f)] = <<>> => Range(FileTarget(db, f)) = {}
  <2>1. v[MapOf(f)] = <<>> => Run(s, n) = <<>>
    <3>. HIDE DEF n, s
    <3>. QED BY <1>2 DEF Run
  <2>. QED BY <1>5, <2>1 DEF Range
<1>9. ASSUME v[MapOf(f)] # <<>>
      PROVE  /\ s \in Nat /\ n \in Nat \ {0}
             /\ Range(FileTarget(db, f)) = Spot(s, n)
             /\ Range(FileTarget(db, f)) \subseteq Spot(s, span)
             /\ Held(v, db, op, f) \subseteq Spot(s, span)
             /\ Held(v, db, op, f) \intersect Range(FileTarget(db, f)) = {}
             /\ Spot(s, span) \subseteq FreeCells(v) \union Movable(v)
  <2>1. Fits(v, s, span)
    BY <1>9 DEF AimsWell
  <2>. HIDE DEF s, n, r, span
  <2>2. s \in Nat /\ n \in Nat \ {0}
    BY <1>2, <1>9, <2>1, CellsAssumption DEF Fits, Cells
  <2>3. Range(Run(s, n)) = s..(s + n - 1)
    BY <2>2, RunIs
  <2>4. /\ s..(s + n - 1) \subseteq s..(s + (n + r) - 1)
        /\ (s + n)..(s + n + r - 1) \subseteq s..(s + (n + r) - 1)
        /\ s..(s + n - 1) \intersect ((s + n)..(s + n + r - 1)) = {}
    BY <1>3, <2>2, SpanParts
  <2>. QED BY <1>2, <1>5, <1>6, <2>1, <2>2, <2>3, <2>4 DEF Fits, Spot
<1>. QED BY <1>4, <1>5, <1>7, <1>8, <1>9
\* No cell is the target of two files, and what is kept free is no target.
LEMMA TargetsApart ==
  ASSUME NEW v, NEW op, IsVolume(v), NEW db, AimsWell(v, op, db)
  PROVE  /\ \A f, g \in Files : f # g => Range(FileTarget(db, f)) \intersect Range(FileTarget(db, g)) = {}
         /\ \A f \in Files : v[MapOf(f)] # <<>> =>
               /\ Held(v, db, op, f) \subseteq (FreeCells(v) \union Movable(v)) \ TargetRanges(db)
               /\ Held(v, db, op, f) \subseteq ReserveRanges(db, op)
<1>. DEFINE T(f) == Range(FileTarget(db, f))
            S(f) == Spot(db.start[f], Span(v, f, op))
            H(f) == Held(v, db, op, f)
<1>1. \A f \in Files : /\ v[MapOf(f)] = <<>> => T(f) = {}
                       /\ v[MapOf(f)] # <<>> => /\ T(f) \subseteq S(f) /\ H(f) \subseteq S(f)
                                                /\ H(f) \intersect T(f) = {}
                                                /\ S(f) \subseteq FreeCells(v) \union Movable(v)
                       /\ H(f) \subseteq ReserveRanges(db, op)
  BY TargetIs
<1>2. \A f, g \in Files : f # g /\ v[MapOf(f)] # <<>> /\ v[MapOf(g)] # <<>> => S(f) \intersect S(g) = {}
  BY DEF AimsWell
<1>3. TargetRanges(db) = UNION {T(f) : f \in Files}
  BY DEF TargetRanges
<1>. HIDE DEF T, S, H
<1>4. \A f, g \in Files : f # g => T(f) \intersect T(g) = {}
  <2>. TAKE f, g \in Files
  <2>1. CASE v[MapOf(f)] = <<>> \/ v[MapOf(g)] = <<>>
    BY <1>1, <2>1
  <2>2. CASE v[MapOf(f)] # <<>> /\ v[MapOf(g)] # <<>>
    BY <1>1, <1>2, <2>2
  <2>. QED BY <2>1, <2>2
<1>5. ASSUME NEW f \in Files, v[MapOf(f)] # <<>>, NEW g \in Files PROVE H(f) \intersect T(g) = {}
  <2>1. CASE f = g
    BY <1>1, <1>5, <2>1
  <2>2. CASE v[MapOf(g)] = <<>>
    BY <1>1, <2>2
  <2>3. CASE f # g /\ v[MapOf(g)] # <<>>
    BY <1>1, <1>2, <1>5, <2>3
  <2>. QED BY <2>1, <2>2, <2>3
<1>6. ASSUME NEW f \in Files, v[MapOf(f)] # <<>>
      PROVE  H(f) \subseteq (FreeCells(v) \union Movable(v)) \ TargetRanges(db)
  BY <1>1, <1>3, <1>5, <1>6
<1>. QED BY <1>1, <1>4, <1>6 DEF T, H
\* Each cell of a file moves to its place in the run of the file, and no two
\* cells to the same.
LEMMA MovesApart ==
  ASSUME NEW v, NEW op, IsVolume(v), Exclusive(v), NEW db, AimsWell(v, op, db)
  PROVE  /\ \A f \in Files : \A j \in DOMAIN v[MapOf(f)] :
               /\ v[MapOf(f)][j] \in Movable(v)
               /\ Moves(v, db)[v[MapOf(f)][j]] = db.start[f] + j - 1
               /\ db.start[f] + j - 1 \in Range(FileTarget(db, f))
         /\ \A c, d \in Movable(v) : Moves(v, db)[c] = Moves(v, db)[d] => c = d
<1>. DEFINE M == Moves(v, db)
            T(f) == Range(FileTarget(db, f))
<1>1. \A f \in Files : v[MapOf(f)] \in Seq(Cells) /\ DOMAIN v[MapOf(f)] = 1..Len(v[MapOf(f)]) /\ Len(v[MapOf(f)]) \in Nat
  <2>1. \A f \in Files : v[MapOf(f)] \in Seq(Cells)
    BY DEF IsVolume
  <2>2. \A m \in Seq(Cells) : DOMAIN m = 1..Len(m) /\ Len(m) \in Nat
    OBVIOUS
  <2>. QED BY <2>1, <2>2
<1>2. ASSUME NEW f \in Files, NEW j \in DOMAIN v[MapOf(f)]
      PROVE  /\ v[MapOf(f)][j] \in CellsOf(v, f) /\ v[MapOf(f)][j] \in Movable(v)
             /\ M[v[MapOf(f)][j]] = db.start[f] + j - 1
             /\ db.start[f] + j - 1 \in T(f)
  <2>. DEFINE c == v[MapOf(f)][j]
              file == CHOOSE g \in Files : c \in CellsOf(v, g)
              i == CHOOSE k \in DOMAIN v[MapOf(file)] : v[MapOf(file)][k] = c
  <2>1. c \in CellsOf(v, f) /\ c \in Movable(v)
    BY <1>2 DEF CellsOf, Range, Movable
  <2>2. M[c] = db.start[file] + i - 1
    <3>1. c \in Movable(v)
      BY <2>1
    <3>. HIDE DEF c
    <3>. QED BY <3>1 DEF Moves
  <2>3. file = f
    <3>1. \A g \in Files : c \in CellsOf(v, g) => g = f
      BY <2>1 DEF Exclusive
    <3>. HIDE DEF c
    <3>. QED BY <2>1, <3>1
  <2>4. i = j
    <3>1. v[MapOf(f)][j] = c
      OBVIOUS
    <3>2. \A k \in DOMAIN v[MapOf(f)] : v[MapOf(f)][k] = c => k = j
      BY <3>1 DEF Exclusive, IsInjective
    <3>. HIDE DEF c, file
    <3>. QED BY <1>2, <2>3, <3>1, <3>2
  <2>5. db.start[f] + j - 1 \in T(f)
    BY <1>2, TargetsInside
  <2>. HIDE DEF c, file, i
  <2>. QED BY <2>1, <2>2, <2>3, <2>4, <2>5 DEF c
<1>3. \A f, g \in Files : f # g => T(f) \intersect T(g) = {}
  BY TargetsApart
<1>4. \A f \in Files : v[MapOf(f)] # <<>> => db.start[f] \in Nat
  BY TargetIs
<1>. HIDE DEF M, T
<1>5. ASSUME NEW c \in Movable(v), NEW d \in Movable(v), M[c] = M[d] PROVE c = d
  <2>1. PICK f \in Files : c \in CellsOf(v, f)
    BY DEF Movable
  <2>2. PICK g \in Files : d \in CellsOf(v, g)
    BY DEF Movable
  <2>3. PICK j \in DOMAIN v[MapOf(f)] : v[MapOf(f)][j] = c
    BY <2>1 DEF CellsOf, Range
  <2>4. PICK k \in DOMAIN v[MapOf(g)] : v[MapOf(g)][k] = d
    BY <2>2 DEF CellsOf, Range
  <2>5. M[c] \in T(f) /\ M[d] \in T(g) /\ M[c] = db.start[f] + j - 1 /\ M[d] = db.start[g] + k - 1
    BY <1>2, <2>3, <2>4
  <2>6. f = g
    BY <1>3, <1>5, <2>5
  <2>7. j \in Nat /\ k \in Nat /\ db.start[f] \in Nat
    <3>1. v[MapOf(f)] # <<>>
      BY <2>3
    <3>. QED BY <1>1, <1>4, <2>3, <2>4, <2>6, <3>1
  <2>8. db.start[f] + j - 1 = db.start[f] + k - 1
    BY <1>5, <2>5, <2>6
  <2>9. j = k
    BY <2>7, <2>8
  <2>. QED BY <2>3, <2>4, <2>6, <2>9
<1>. QED BY <1>2, <1>5 DEF M, T

-----------------------------------------------------------------------------
(* Every copy reaches its target.                                          *)

\* The cells of T that go to the free one.
Waiting(M, T, free) == {c \in T : M[c] = free}

\* A cycle of the cells of T is open: its first cell was left.
Opened(M, T, start, free) ==
    /\ IsFiniteSet(T) /\ start \in T
    /\ \A c, d \in T : M[c] = M[d] => c = d
    /\ \A c \in T : M[c] \in (T \ {start}) \union {free}

\* While a cycle is open, some cell is due in the free one.
LEMMA AlwaysDue == \A M, T, start, free : Opened(M, T, start, free) => Waiting(M, T, free) # {}
<1>. SUFFICES ASSUME NEW M, NEW T, NEW start, NEW free, Opened(M, T, start, free),
                     \A c \in T : M[c] # free
              PROVE  FALSE
  BY DEF Waiting
<1>. USE DEF Opened
<1>. DEFINE R == T \ {start}
            m == [c \in T |-> M[c]]
<1>1. IsFiniteSet(R) /\ Cardinality(R) = Cardinality(T) - 1 /\ Cardinality(T) \in Nat
  BY FS_RemoveElement, FS_CardinalityType
<1>2. m \in [T -> R]
  OBVIOUS
<1>3. \A c, d \in T : m[c] = m[d] => c = d
  OBVIOUS
<1>. HIDE DEF R, m
<1>4. \E x, y \in T : x # y /\ m[x] = m[y]
  BY <1>1, <1>2, FS_PigeonHole
<1>. QED BY <1>3, <1>4

\* Steps that the permutation may still need: one copy for each cell, and one
\* step before it where none is due.
Budget(M, T, free) == 2 * Cardinality(T) - (IF Waiting(M, T, free) # {} THEN 1 ELSE 0)

Turn(u, M, p, i) == PermuteStep(p, i)
Turned(u, M, i, p) ==
    /\ p = [image |-> p.image, todo |-> p.todo, olds |-> p.olds,
            free |-> p.free, start |-> p.start, saved |-> p.saved]
    /\ p.image = [b \in Blocks |-> p.image[b]]
    /\ \A b \in Blocks : (\A c \in DOMAIN M : b # Cell(M[c])) => p.image[b] = u[b]
    /\ DOMAIN p.todo \subseteq DOMAIN M /\ p.todo = [c \in DOMAIN p.todo |-> M[c]] /\ p.olds = DOMAIN M
    /\ \A c \in DOMAIN M \ DOMAIN p.todo : p.image[Cell(M[c])] = u[Cell(c)]
    /\ \A c \in DOMAIN p.todo : (IF c = p.start THEN p.saved ELSE p.image[Cell(c)]) = u[Cell(c)]
    /\ p.free \in DOMAIN p.todo => p.free = p.start
    /\ \A c \in DOMAIN M \ DOMAIN p.todo : c # p.free => \A d \in DOMAIN p.todo : M[d] # c
    /\ p.start \in DOMAIN p.todo =>
          \A c \in DOMAIN p.todo : M[c] \in (DOMAIN p.todo \ {p.start}) \union {p.free}
    /\ DOMAIN p.todo = {} \/ Budget(M, DOMAIN p.todo, p.free) + i <= 2 * N
TurnFold == INSTANCE FoldInduction WITH Step <- Turn, Inv <- Turned

\* Every step of the permutation comes nearer to its end, and undoes nothing.
LEMMA TurnKeeps ==
  ASSUME NEW u, NEW M, DOMAIN M \subseteq Cells, \A c \in DOMAIN M : M[c] \in Cells,
         \A c, d \in DOMAIN M : M[c] = M[d] => c = d,
         NEW i, NEW j \in Nat, NEW p, Turned(u, M, j, p)
  PROVE  Turned(u, M, j + 1, PermuteStep(p, i))
<1>. DEFINE T == DOMAIN p.todo
            D == DOMAIN M
            due == Waiting(M, T, p.free)
            terminals == Range(p.todo) \ p.olds
            old == CHOOSE c \in due : TRUE
            first == Min(T)
            w == PermuteStep(p, i)
            carried == Carried(p, old)
            image == [p.image EXCEPT ![Cell(p.free)] = carried]
            todo == [c \in T \ {old} |-> p.todo[c]]
<1>1. /\ p = [image |-> p.image, todo |-> p.todo, olds |-> p.olds,
              free |-> p.free, start |-> p.start, saved |-> p.saved]
      /\ p.image = [b \in Blocks |-> p.image[b]]
      /\ \A b \in Blocks : (\A c \in D : b # Cell(M[c])) => p.image[b] = u[b]
      /\ T \subseteq D /\ p.todo = [c \in T |-> M[c]] /\ p.olds = D
      /\ \A c \in D \ T : p.image[Cell(M[c])] = u[Cell(c)]
      /\ \A c \in T : (IF c = p.start THEN p.saved ELSE p.image[Cell(c)]) = u[Cell(c)]
      /\ p.free \in T => p.free = p.start
      /\ \A c \in D \ T : c # p.free => \A d \in T : M[d] # c
      /\ p.start \in T => \A c \in T : M[c] \in (T \ {p.start}) \union {p.free}
      /\ T = {} \/ Budget(M, T, p.free) + j <= 2 * N
  BY DEF Turned
<1>2. w = IF T = {} THEN p
          ELSE IF due # {} THEN [p EXCEPT !.image[Cell(p.free)] = carried, !.todo = todo, !.free = old]
          ELSE IF terminals # {} THEN [p EXCEPT !.free = Min(terminals)]
          ELSE [p EXCEPT !.free = first, !.start = first, !.saved = p.image[Cell(first)]]
  <2>1. due = {c \in DOMAIN p.todo : p.todo[c] = p.free}
    BY <1>1 DEF Waiting
  <2>. QED BY <2>1 DEF PermuteStep, Restrict
<1>3. IsFiniteSet(T) /\ T \subseteq Nat /\ Cardinality(T) \in Nat /\ N \in Nat
  <2>1. IsFiniteSet(Cells) /\ T \subseteq Cells /\ N \in Nat
    BY <1>1, CellsAssumption, FS_Interval DEF Cells
  <2>2. IsFiniteSet(T)
    BY <2>1, FS_Subset
  <2>. QED BY <2>1, <2>2, FS_CardinalityType, CellsAssumption DEF Cells
<1>4. T # {} => first \in T
  BY <1>3, NatFacts!MinOfNat DEF NatFacts!Min, Min
<1>5. p.start \in T => due # {}
  <2>. SUFFICES ASSUME p.start \in T PROVE due # {}
    OBVIOUS
  <2>1. Opened(M, T, p.start, p.free)
    BY <1>1, <1>3 DEF Opened
  <2>. QED BY <2>1, AlwaysDue
<1>6. due # {} => old \in T /\ M[old] = p.free /\ p.free \in Cells /\ carried = u[Cell(old)]
  <2>1. due # {} => old \in due
    OBVIOUS
  <2>2. due # {} => old \in T /\ M[old] = p.free /\ p.free \in Cells
    BY <1>1, <2>1 DEF Waiting
  <2>3. carried = IF old = p.start THEN p.saved ELSE p.image[Cell(old)]
    BY DEF Carried
  <2>. QED BY <1>1, <2>2, <2>3
<1>7. due = {} => \A c \in T : M[c] # p.free
  BY DEF Waiting
<1>. HIDE DEF due, old, terminals, carried, first
<1>8. CASE T = {}
  <2>1. w = p
    BY <1>2, <1>8
  <2>. HIDE DEF w
  <2>. QED BY <1>1, <1>8, <2>1 DEF Turned, w
<1>9. CASE T # {} /\ due # {}
  <2>. DEFINE S == T \ {old}
  <2>1. w = [p EXCEPT !.image[Cell(p.free)] = carried, !.todo = todo, !.free = old]
    BY <1>2, <1>9
  <2>2. todo = [c \in S |-> M[c]] /\ DOMAIN todo = S
    BY <1>1
  <2>. HIDE DEF todo
  <2>3. w = [image |-> image, todo |-> todo, olds |-> D, free |-> old, start |-> p.start, saved |-> p.saved]
    <3>. HIDE DEF w
    <3>1. w = [[[p EXCEPT !.image = image] EXCEPT !.todo = todo] EXCEPT !.free = old]
      BY <2>1
    <3>. HIDE DEF image
    <3>. QED BY <1>1, <3>1
  <2>4. /\ image = [b \in Blocks |-> image[b]]
        /\ \A b \in Blocks : b # Cell(p.free) => image[b] = p.image[b]
        /\ \A c \in Cells : image[Cell(c)] = IF c = p.free THEN carried ELSE p.image[Cell(c)]
    <3>1. Cell(p.free) \in Blocks
      BY <1>6, <1>9, BlockSet
    <3>. HIDE DEF w
    <3>. QED BY <1>1, <3>1, BlockSet, BlockNames
  <2>. HIDE DEF image, w
  <2>5. old \in T /\ M[old] = p.free /\ carried = u[Cell(old)]
    BY <1>6, <1>9
  <2>6. \A b \in Blocks : (\A c \in D : b # Cell(M[c])) => image[b] = u[b]
    BY <1>1, <2>4, <2>5
  <2>7. \A c \in D \ S : image[Cell(M[c])] = u[Cell(c)]
    <3>. TAKE c \in D \ S
    <3>1. M[c] \in Cells
      OBVIOUS
    <3>2. CASE c = old
      BY <2>4, <2>5, <3>1, <3>2
    <3>3. CASE c # old
      <4>1. M[c] # p.free /\ c \in D \ T
        BY <1>1, <2>5, <3>3
      <4>. QED BY <1>1, <2>4, <3>1, <4>1
    <3>. QED BY <3>2, <3>3
  <2>8. \A c \in S : (IF c = p.start THEN p.saved ELSE image[Cell(c)]) = u[Cell(c)]
    <3>. TAKE c \in S
    <3>1. CASE c = p.start
      BY <1>1, <3>1
    <3>2. CASE c # p.start
      <4>1. c # p.free /\ c \in Cells
        BY <1>1, <3>2
      <4>. QED BY <1>1, <2>4, <3>2, <4>1
    <3>. QED BY <3>1, <3>2
  <2>9. \A c \in D \ S : c # old => \A d \in S : M[d] # c
    BY <1>1, <2>5
  <2>10. p.start \in S => \A c \in S : M[c] \in (S \ {p.start}) \union {old}
    <3>. SUFFICES ASSUME p.start \in S, NEW c \in S PROVE M[c] \in T \ {p.start}
      BY <2>5
    <3>1. M[c] \in (T \ {p.start}) \union {p.free} /\ M[c] # p.free
      BY <1>1, <2>5
    <3>. QED BY <3>1
  <2>11. S = {} \/ Budget(M, S, old) + (j + 1) <= 2 * N
    <3>1. Cardinality(S) = Cardinality(T) - 1 /\ IsFiniteSet(S) /\ Cardinality(S) \in Nat
      BY <1>3, <2>5, FS_RemoveElement, FS_CardinalityType
    <3>2. 2 * Cardinality(T) - 1 + j <= 2 * N
      BY <1>1, <1>9 DEF Budget, due
    <3>3. Budget(M, S, old) <= 2 * Cardinality(S) /\ Budget(M, S, old) \in Int
      BY <3>1 DEF Budget
    <3>. HIDE DEF S
    <3>. QED BY <1>3, <3>1, <3>2, <3>3
  <2>. HIDE DEF S
  <2>12. old \notin S /\ S \subseteq D
    BY <1>1 DEF S
  <2>13. Turned(u, M, j + 1, w)
    BY <2>2, <2>3, <2>4, <2>6, <2>7, <2>8, <2>9, <2>10, <2>11, <2>12 DEF Turned
  <2>. QED BY <2>13 DEF w
<1>10. CASE T # {} /\ due = {} /\ terminals # {}
  <2>. DEFINE t == Min(terminals)
  <2>1. w = [p EXCEPT !.free = t]
    BY <1>2, <1>10
  <2>2. t \in terminals
    <3>1. terminals \subseteq Nat
      BY <1>1, CellsAssumption DEF terminals, Range, Cells
    <3>. QED BY <1>10, <3>1, NatFacts!MinOfNat DEF NatFacts!Min, Min
  <2>3. t \notin D /\ \E c \in T : M[c] = t
    <3>1. t \in Range(p.todo) /\ t \notin D
      BY <1>1, <2>2 DEF terminals
    <3>2. PICK c \in DOMAIN p.todo : p.todo[c] = t
      BY <3>1 DEF Range
    <3>. QED BY <1>1, <3>1, <3>2
  <2>. HIDE DEF t
  <2>4. w = [image |-> p.image, todo |-> p.todo, olds |-> D, free |-> t, start |-> p.start, saved |-> p.saved]
    BY <1>1, <2>1
  <2>. HIDE DEF w
  <2>5. p.start \notin T /\ t \notin T
    BY <1>1, <1>5, <1>10, <2>3
  <2>6. \A c \in D \ T : c # t => \A d \in T : M[d] # c
    BY <1>1, <1>7, <1>10
  <2>7. Budget(M, T, t) + (j + 1) <= 2 * N
    <3>1. 2 * Cardinality(T) + j <= 2 * N
      BY <1>1, <1>3, <1>10 DEF Budget, due
    <3>2. Budget(M, T, t) = 2 * Cardinality(T) - 1
      BY <2>3 DEF Budget, Waiting
    <3>. QED BY <1>3, <3>1, <3>2
  <2>8. Turned(u, M, j + 1, w)
    BY <1>1, <2>4, <2>5, <2>6, <2>7 DEF Turned
  <2>. QED BY <2>8 DEF w
<1>11. CASE T # {} /\ due = {} /\ terminals = {}
  <2>1. w = [p EXCEPT !.free = first, !.start = first, !.saved = p.image[Cell(first)]]
    BY <1>2, <1>11
  <2>2. w = [image |-> p.image, todo |-> p.todo, olds |-> D, free |-> first, start |-> first, saved |-> p.image[Cell(first)]]
    BY <1>1, <2>1
  <2>. HIDE DEF w
  <2>3. first \in T /\ p.start \notin T
    BY <1>4, <1>5, <1>11
  <2>4. \A c \in T : (IF c = first THEN p.image[Cell(first)] ELSE p.image[Cell(c)]) = u[Cell(c)]
    BY <1>1, <2>3
  <2>5. \A c \in D \ T : c # first => \A d \in T : M[d] # c
    BY <1>1, <1>7, <1>11
  <2>6. \A c \in T : M[c] \in T
    <3>. TAKE c \in T
    <3>1. M[c] \in D
      BY <1>1, <1>11 DEF terminals, Range
    <3>. QED BY <1>1, <1>7, <1>11, <3>1
  <2>7. \A c \in T : M[c] \in (T \ {first}) \union {first}
    BY <2>6
  <2>8. Budget(M, T, first) + (j + 1) <= 2 * N
    <3>1. 2 * Cardinality(T) + j <= 2 * N
      BY <1>1, <1>3, <1>11 DEF Budget, due
    <3>2. Opened(M, T, first, first)
      BY <1>1, <1>3, <2>3, <2>7 DEF Opened
    <3>3. Waiting(M, T, first) # {}
      BY <3>2, AlwaysDue
    <3>4. Budget(M, T, first) = 2 * Cardinality(T) - 1
      BY <3>3 DEF Budget
    <3>. QED BY <1>3, <3>1, <3>4
  <2>9. Turned(u, M, j + 1, w)
    BY <1>1, <2>2, <2>3, <2>4, <2>5, <2>7, <2>8 DEF Turned
  <2>. QED BY <2>9 DEF w
<1>. QED BY <1>8, <1>9, <1>10, <1>11

\* The permutation brings what is in every cell to its target, and changes
\* nothing but targets: whatever the cycles are, 2 N steps are enough.
LEMMA PermuteMoves ==
  ASSUME NEW v, v = [b \in Blocks |-> v[b]], NEW moves, DOMAIN moves \subseteq Cells,
         \A c \in DOMAIN moves : moves[c] \in Cells,
         \A c, d \in DOMAIN moves : moves[c] = moves[d] => c = d,
         NEW w, w = Permute(v, moves)
  PROVE  /\ \A c \in DOMAIN moves : w[Cell(moves[c])] = v[Cell(c)]
         /\ \A b \in Blocks : (\A c \in DOMAIN moves : b # Cell(moves[c])) => w[b] = v[b]
<1>. DEFINE M == [c \in {c \in DOMAIN moves : moves[c] # c} |-> moves[c]]
            base == [image |-> v, todo |-> M, olds |-> DOMAIN M, free |-> 0, start |-> 0, saved |-> Junk]
            items == Run(1, 2 * N)
            done == TurnFold!Folded(v, M, base, items)
<1>1. w = done.image
  <2>. DEFINE todo0 == Restrict(moves, {c \in DOMAIN moves : moves[c] # c})
              base0 == [image |-> v, todo |-> todo0, olds |-> DOMAIN todo0, free |-> 0, start |-> 0, saved |-> Junk]
  <2>1. base0 = base
    BY DEF Restrict
  <2>2. Permute(v, moves) = TurnFold!Folded(v, M, base0, Run(1, 2 * N)).image
    BY DEF Permute, Accumulate, Once, TurnFold!Folded, Turn,
           FoldLeft, TurnFold!FoldLeft, MapThenFoldSet, TurnFold!MapThenFoldSet,
           Max, TurnFold!Max
  <2>. HIDE DEF base0, base
  <2>. QED BY <2>1, <2>2
<1>2. /\ DOMAIN M \subseteq Cells /\ DOMAIN M \subseteq DOMAIN moves
      /\ \A c \in DOMAIN M : M[c] = moves[c] /\ M[c] \in Cells
      /\ \A c, d \in DOMAIN M : M[c] = M[d] => c = d
      /\ M = [c \in DOMAIN M |-> M[c]]
      /\ \A c \in DOMAIN moves : c \notin DOMAIN M => moves[c] = c
  OBVIOUS
<1>. HIDE DEF M
<1>3. 2 * N \in Nat /\ DOMAIN items = 1..(2 * N) /\ N \in Nat
  <2>1. 2 * N \in Nat
    BY CellsAssumption
  <2>. QED BY <2>1, CellsAssumption DEF Run
<1>4. Budget(M, DOMAIN M, 0) + 0 <= 2 * N
  <2>1. IsFiniteSet(Cells) /\ Cardinality(Cells) = N
    <3>1. 1 \in Int /\ N \in Int /\ (IF 1 > N THEN 0 ELSE N - 1 + 1) = N
      BY CellsAssumption
    <3>. QED BY <3>1, FS_Interval DEF Cells
  <2>2. IsFiniteSet(DOMAIN M) /\ Cardinality(DOMAIN M) <= N
    BY <1>2, <2>1, FS_Subset
  <2>3. Cardinality(DOMAIN M) \in Nat
    BY <2>2, FS_CardinalityType
  <2>. QED BY <1>3, <2>2, <2>3 DEF Budget
<1>5. Turned(v, M, 0, base)
  <2>1. 0 \notin DOMAIN M
    BY <1>2, CellsAssumption DEF Cells
  <2>2. base = [image |-> base.image, todo |-> base.todo, olds |-> base.olds,
                free |-> base.free, start |-> base.start, saved |-> base.saved]
        /\ base.image = v /\ base.todo = M /\ base.olds = DOMAIN M /\ base.free = 0 /\ base.start = 0
    OBVIOUS
  <2>. HIDE DEF base
  <2>. QED BY <1>2, <1>4, <2>1, <2>2 DEF Turned
<1>. HIDE DEF items, base
<1>6. \A k \in 1..(2 * N) : \A p : Turned(v, M, k - 1, p) => Turned(v, M, k, Turn(v, M, p, items[k]))
  <2>1. ASSUME NEW k \in 1..(2 * N), NEW p, Turned(v, M, k - 1, p)
        PROVE  Turned(v, M, k, Turn(v, M, p, items[k]))
    <3>1. (k - 1) + 1 = k /\ k - 1 \in Nat
      BY <1>3
    <3>2. Turned(v, M, (k - 1) + 1, PermuteStep(p, items[k]))
      BY <1>2, <2>1, <3>1, TurnKeeps
    <3>. QED BY <3>1, <3>2 DEF Turn
  <2>. QED BY <2>1
<1>7. Turned(v, M, 2 * N, done)
  BY <1>3, <1>5, <1>6, TurnFold!FoldKeeps
<1>. HIDE DEF done
<1>8. DOMAIN done.todo = {}
  <2>. DEFINE T == DOMAIN done.todo
  <2>1. T \subseteq DOMAIN M /\ (T = {} \/ Budget(M, T, done.free) + 2 * N <= 2 * N)
    BY <1>7 DEF Turned
  <2>. HIDE DEF T
  <2>2. IsFiniteSet(T) /\ Cardinality(T) \in Nat
    <3>1. IsFiniteSet(Cells)
      BY CellsAssumption, FS_Interval DEF Cells
    <3>2. IsFiniteSet(T)
      BY <1>2, <2>1, <3>1, FS_Subset
    <3>. QED BY <3>2, FS_CardinalityType
  <2>3. T # {} => Cardinality(T) # 0
    BY <2>2, FS_EmptySet
  <2>4. T # {} => Budget(M, T, done.free) > 0 /\ Budget(M, T, done.free) \in Int
    BY <2>2, <2>3 DEF Budget
  <2>. QED BY <1>3, <2>1, <2>4 DEF T
<1>9. /\ \A b \in Blocks : (\A c \in DOMAIN M : b # Cell(M[c])) => w[b] = v[b]
      /\ \A c \in DOMAIN M : w[Cell(M[c])] = v[Cell(c)]
  BY <1>1, <1>7, <1>8 DEF Turned
<1>10. ASSUME NEW c \in DOMAIN moves PROVE w[Cell(moves[c])] = v[Cell(c)]
  <2>1. CASE c \in DOMAIN M
    BY <1>2, <1>9, <2>1
  <2>2. CASE c \notin DOMAIN M
    <3>1. moves[c] = c /\ c \in Cells
      BY <1>2, <2>2
    <3>2. \A d \in DOMAIN M : Cell(c) # Cell(M[d])
      <4>. TAKE d \in DOMAIN M
      <4>1. M[d] = moves[d] /\ d # c /\ d \in DOMAIN moves
        BY <1>2, <2>2
      <4>2. M[d] # c
        BY <3>1, <4>1
      <4>. QED BY <4>2, BlockNames
    <3>. QED BY <1>9, <3>1, <3>2, BlockSet
  <2>. QED BY <2>1, <2>2
<1>11. ASSUME NEW b \in Blocks, \A c \in DOMAIN moves : b # Cell(moves[c]) PROVE w[b] = v[b]
  BY <1>2, <1>9, <1>11
<1>. QED BY <1>10, <1>11

-----------------------------------------------------------------------------
(* Scripts.                                                                *)

\* What a block may hold.
Typed(b, x) ==
    /\ b = Header => x \in Nat
    /\ b = Bitmap => x \in SUBSET Cells
    /\ \A f \in Files : b = MapOf(f) => x \in Seq(Cells)
    /\ \A c \in Cells : b = Cell(c) => x \in Payloads \/ x[1] < 0

\* A volume holds in each block what it may.
LEMMA VolumeIsTyped ==
  \A v : IsVolume(v) <=> v = [b \in Blocks |-> v[b]] /\ \A b \in Blocks : Typed(b, v[b])
<1>. TAKE v
<1>1. ASSUME IsVolume(v), NEW b \in Blocks PROVE Typed(b, v[b])
  BY <1>1 DEF IsVolume, Typed
<1>2. ASSUME \A b \in Blocks : Typed(b, v[b])
      PROVE  /\ v[Header] \in Nat /\ v[Bitmap] \in SUBSET Cells
             /\ \A f \in Files : v[MapOf(f)] \in Seq(Cells)
             /\ \A c \in Cells : v[Cell(c)] \in Payloads \/ v[Cell(c)][1] < 0
  BY <1>2, BlockSet DEF Typed
<1>. QED BY <1>1, <1>2 DEF IsVolume

\* A sequence of whatever it is a sequence of.
IsScript(todo) == todo \in Seq(Range(todo))

\* The blocks that a step writes, and those that a script still writes.
Writes(step) == IF step[1] = "copy" THEN {step[2][j][2] : j \in DOMAIN step[2]}
                ELSE IF step[1] = "write" THEN {step[2]} ELSE {}
Unwritten(todo) == UNION {Writes(todo[k]) : k \in DOMAIN todo}

\* Rows that make of what keep holds what goal has in blocks of reach.
RowsTo(rows, goal, keep, reach) ==
    /\ rows \in Seq(Blocks \X Blocks)
    /\ \A j \in DOMAIN rows : /\ rows[j][1] \in keep /\ rows[j][2] \in reach
                              /\ Carry(goal, rows[j][1], rows[j][2]) = goal[rows[j][2]]
\* The k-th step is such a copy, a write of what goal has or of what a later
\* step overwrites, or a sync.
StepTo(todo, k, goal, keep, reach) ==
    \/ todo[k] = Flush
    \/ todo[k] = Copy(todo[k][2]) /\ RowsTo(todo[k][2], goal, keep, reach)
    \/ /\ todo[k] = Write(todo[k][2], todo[k][3])
       /\ todo[k][2] \in reach /\ Typed(todo[k][2], todo[k][3])
       /\ todo[k][3] = goal[todo[k][2]] \/ \E l \in DOMAIN todo : l > k /\ todo[k][2] \in Writes(todo[l])
Leads(todo, goal, keep, reach) ==
    /\ IsScript(todo)
    /\ keep \subseteq Blocks /\ reach \subseteq Blocks /\ keep \intersect reach = {}
    /\ \A k \in DOMAIN todo : StepTo(todo, k, goal, keep, reach)
    /\ todo # <<>> => todo[Len(todo)] = Flush

\* What is written or synced under the script is on its way to goal in area:
\* d is the disk and c the cache.
Nears(todo, d, c, goal, keep, reach, area) ==
    /\ Leads(todo, goal, keep, reach)
    /\ IsVolume(d) /\ IsVolume(c)
    /\ \A b \in keep : d[b] = goal[b] /\ c[b] = goal[b]
    /\ \A b \in area : c[b] = goal[b] \/ b \in Unwritten(todo)
    /\ todo = <<>> => d = c

\* The first step of a script and the rest.
LEMMA ScriptParts ==
  ASSUME NEW todo, IsScript(todo), todo # <<>>
  PROVE  /\ Len(todo) \in Nat \ {0} /\ DOMAIN todo = 1..Len(todo)
         /\ Head(todo) = todo[1] /\ 1 \in DOMAIN todo
         /\ IsScript(Tail(todo)) /\ Len(Tail(todo)) = Len(todo) - 1
         /\ DOMAIN Tail(todo) = 1..(Len(todo) - 1)
         /\ \A k \in DOMAIN Tail(todo) : Tail(todo)[k] = todo[k + 1] /\ k + 1 \in DOMAIN todo
         /\ \A k \in DOMAIN todo : k = 1 \/ (k - 1 \in DOMAIN Tail(todo) /\ Tail(todo)[k - 1] = todo[k])
<1>1. todo \in Seq(Range(todo)) /\ Len(todo) \in Nat \ {0} /\ DOMAIN todo = 1..Len(todo) /\ Head(todo) = todo[1]
  BY DEF IsScript
<1>. DEFINE n == Len(todo)
            t == Tail(todo)
            S == Range(todo)
<1>2. todo \in Seq(S)
  BY <1>1
<1>3. /\ n \in Nat \ {0} /\ DOMAIN t = 1..(n - 1) /\ Len(t) = n - 1 /\ t \in Seq(S)
      /\ \A k \in 1..(n - 1) : t[k] = todo[k + 1] /\ k + 1 \in 1..n
  <2>. HIDE DEF S
  <2>1. DOMAIN t = 1..(n - 1) /\ Len(t) = n - 1 /\ t \in Seq(S)
    BY <1>2
  <2>2. \A k \in 1..(n - 1) : t[k] = todo[k + 1]
    BY <1>2
  <2>. QED BY <1>1, <2>1, <2>2
<1>. HIDE DEF S, n, t
<1>4. t \in Seq(Range(t)) /\ Len(t) = n - 1
  <2>. DEFINE R == Range(t)
  <2>1. \A k \in 1..Len(t) : t[k] \in R
    BY <1>3 DEF Range
  <2>. HIDE DEF R
  <2>2. t \in Seq(R)
    BY <1>3, <2>1
  <2>. QED BY <1>3, <2>2 DEF R
<1>5. \A k \in 1..n : k = 1 \/ (k - 1 \in 1..(n - 1) /\ t[k - 1] = todo[k])
  <2>1. \A k \in 1..n : k = 1 \/ (k - 1 \in 1..(n - 1) /\ (k - 1) + 1 = k)
    BY <1>3
  <2>. QED BY <1>3, <2>1
<1>. QED BY <1>1, <1>3, <1>4, <1>5 DEF IsScript, n, t

CopyRow(v, o, w, row) == [w EXCEPT ![row[2]] = Carry(v, row[1], row[2])]
\* Of the first i rows.
RowsCopied(v, o, i, w) ==
    /\ w = [b \in Blocks |-> w[b]]
    /\ \A b \in Blocks : w[b] = o.goal[b] \/ (w[b] = v[b] /\ \A j \in 1..i : b # o.rows[j][2])
    /\ \A b \in Blocks : w[b] = v[b] \/ \E j \in 1..i : b = o.rows[j][2]
    /\ \A b \in o.keep : w[b] = o.goal[b]
RowFold == INSTANCE FoldInduction WITH Step <- CopyRow, Inv <- RowsCopied

\* Only the volume's entries for the two blocks of a row count.
LEMMA CarrySame ==
  \A v, w, from, to : v[from] = w[from] => Carry(v, from, to) = Carry(w, from, to)
BY DEF Carry

\* Rows that lead to goal leave in each of their targets what goal has there.
LEMMA CopyRowsTo ==
  ASSUME NEW v, v = [b \in Blocks |-> v[b]], NEW rows, NEW goal, NEW keep, NEW reach,
         RowsTo(rows, goal, keep, reach), keep \subseteq Blocks, reach \subseteq Blocks,
         keep \intersect reach = {}, \A b \in keep : v[b] = goal[b]
  PROVE  LET w == CopyRows(v, rows)
         IN /\ w = [b \in Blocks |-> w[b]]
            /\ \A j \in DOMAIN rows : w[rows[j][2]] = goal[rows[j][2]]
            /\ \A b \in Blocks : w[b] = v[b] \/ \E j \in DOMAIN rows : b = rows[j][2]
<1>. DEFINE o == [goal |-> goal, keep |-> keep, rows |-> rows]
            n == Len(rows)
            w == CopyRows(v, rows)
<1>1. w = RowFold!PlainFold(v, o, v, rows)
  <2>. HIDE DEF o
  <2>. QED BY DEF CopyRows, RowFold!PlainFold, CopyRow, FoldLeft, RowFold!FoldLeft,
              MapThenFoldSet, RowFold!MapThenFoldSet, Max, RowFold!Max
<1>2. n \in Nat /\ DOMAIN rows = 1..n
  BY DEF RowsTo
<1>3. o.goal = goal /\ o.keep = keep /\ o.rows = rows
  OBVIOUS
<1>. HIDE DEF o, n, w
<1>4. RowsCopied(v, o, 0, v)
  <2>1. \A j \in 1..0 : FALSE
    OBVIOUS
  <2>. QED BY <1>3, <2>1 DEF RowsCopied
<1>5. ASSUME NEW i \in 1..n, NEW p, RowsCopied(v, o, i - 1, p)
      PROVE  RowsCopied(v, o, i, CopyRow(v, o, p, rows[i]))
  <2>. DEFINE from == rows[i][1]
              to == rows[i][2]
              q == [p EXCEPT ![to] = Carry(v, from, to)]
  <2>1. from \in keep /\ to \in reach /\ Carry(goal, from, to) = goal[to] /\ to \in Blocks /\ to \notin keep
    BY <1>2 DEF RowsTo
  <2>. HIDE DEF from, to
  <2>2. Carry(v, from, to) = goal[to]
    BY <2>1, CarrySame
  <2>3. q = [b \in Blocks |-> q[b]] /\ q[to] = goal[to] /\ \A b \in Blocks : b # to => q[b] = p[b]
    BY <1>5, <2>1, <2>2 DEF RowsCopied
  <2>. HIDE DEF q
  <2>4. \A j \in 1..i : j \in 1..(i - 1) \/ j = i
    BY <1>2
  <2>5. \A j \in 1..(i - 1) : j \in 1..i
    BY <1>2
  <2>6. i \in 1..i /\ rows[i][2] = to
    BY <1>2 DEF to
  <2>7. \A b \in Blocks : q[b] = o.goal[b] \/ (q[b] = v[b] /\ \A j \in 1..i : b # o.rows[j][2])
    BY <1>3, <1>5, <2>3, <2>4, <2>6 DEF RowsCopied
  <2>8. \A b \in Blocks : q[b] = v[b] \/ \E j \in 1..i : b = o.rows[j][2]
    BY <1>3, <1>5, <2>3, <2>5, <2>6 DEF RowsCopied
  <2>9. \A b \in o.keep : q[b] = o.goal[b]
    BY <1>3, <1>5, <2>1, <2>3 DEF RowsCopied
  <2>10. RowsCopied(v, o, i, q)
    BY <2>3, <2>7, <2>8, <2>9 DEF RowsCopied
  <2>11. CopyRow(v, o, p, rows[i]) = q
    BY DEF CopyRow, q, from, to
  <2>. QED BY <2>10, <2>11
<1>6. RowsCopied(v, o, n, w)
  BY <1>1, <1>2, <1>4, <1>5, RowFold!PlainFoldKeeps
<1>7. ASSUME NEW j \in DOMAIN rows PROVE w[rows[j][2]] = goal[rows[j][2]]
  <2>1. rows[j][2] \in Blocks
    BY DEF RowsTo
  <2>. QED BY <1>2, <1>3, <1>6, <2>1 DEF RowsCopied
<1>. QED BY <1>2, <1>3, <1>6, <1>7 DEF RowsCopied, w

\* What one step of a script does to a volume.
Performed(c, step) == IF step[1] = "copy" THEN CopyRows(c, step[2])
                      ELSE IF step[1] = "write" THEN [c EXCEPT ![step[2]] = step[3]] ELSE c

\* The steps by their kinds.
LEMMA StepKinds ==
  /\ \A rows : Copy(rows)[1] = "copy" /\ Copy(rows)[2] = rows
  /\ \A b, x : Write(b, x)[1] = "write" /\ Write(b, x)[2] = b /\ Write(b, x)[3] = x
  /\ Flush[1] = "flush"
  /\ \A rows : Writes(Copy(rows)) = {rows[j][2] : j \in DOMAIN rows}
  /\ \A b, x : Writes(Write(b, x)) = {b}
  /\ Writes(Flush) = {}
BY DEF Copy, Write, Flush, Writes

\* A step of a script took the disk and the cache from d and c to d1 and c1.
Taken(step, d, c, d1, c1) ==
    c1 = Performed(c, step) /\ d1 = IF step[1] = "flush" THEN c ELSE d

\* Such a step of a script that leads to a goal, and what it leaves.
Steps(todo, d, c, goal, keep, reach, area, d1, c1) ==
    /\ todo # <<>> /\ Nears(todo, d, c, goal, keep, reach, area)
    /\ IsVolume(goal) /\ area \subseteq Blocks
    /\ Taken(Head(todo), d, c, d1, c1)
Stepped(todo, d, c, goal, keep, reach, area, d1, c1) ==
    /\ Nears(Tail(todo), d1, c1, goal, keep, reach, area)
    /\ \A b \in Blocks : b \notin reach => c1[b] = c[b] /\ (d1[b] = d[b] \/ d1[b] = c[b])

\* A step brings the cache nearer to the goal and writes only blocks of its
\* reach; with the last step the disk is what the cache is.
LEMMA StepNears ==
  ASSUME NEW todo, NEW d, NEW c, NEW goal, NEW keep, NEW reach, NEW area, NEW d1, NEW c1,
         Steps(todo, d, c, goal, keep, reach, area, d1, c1)
  PROVE  Stepped(todo, d, c, goal, keep, reach, area, d1, c1)
<1>s. /\ todo # <<>> /\ Nears(todo, d, c, goal, keep, reach, area)
      /\ IsVolume(goal) /\ area \subseteq Blocks
  BY DEF Steps
<1>0. c1 = Performed(c, Head(todo)) /\ d1 = IF Head(todo)[1] = "flush" THEN c ELSE d
  BY DEF Taken, Steps
<1>. USE <1>s, <1>0
<1>. DEFINE step == todo[1]
            rest == Tail(todo)
<1>1. /\ Len(todo) \in Nat \ {0} /\ DOMAIN todo = 1..Len(todo)
      /\ Head(todo) = step /\ 1 \in DOMAIN todo
      /\ IsScript(rest) /\ Len(rest) = Len(todo) - 1
      /\ DOMAIN rest = 1..(Len(todo) - 1)
      /\ \A k \in DOMAIN rest : rest[k] = todo[k + 1] /\ k + 1 \in DOMAIN todo
      /\ \A k \in DOMAIN todo : k = 1 \/ (k - 1 \in DOMAIN rest /\ rest[k - 1] = todo[k])
  BY ScriptParts DEF Nears, Leads
<1>. HIDE DEF step, rest
<1>2. /\ keep \subseteq Blocks /\ reach \subseteq Blocks /\ keep \intersect reach = {}
      /\ \A k \in DOMAIN todo : StepTo(todo, k, goal, keep, reach)
      /\ todo[Len(todo)] = Flush
      /\ IsVolume(d) /\ IsVolume(c)
      /\ \A b \in keep : d[b] = goal[b] /\ c[b] = goal[b]
      /\ \A b \in area : c[b] = goal[b] \/ b \in Unwritten(todo)
  BY DEF Nears, Leads
<1>3. Leads(rest, goal, keep, reach)
  <2>1. ASSUME NEW k \in DOMAIN rest PROVE StepTo(rest, k, goal, keep, reach)
    <3>1. rest[k] = todo[k + 1] /\ k + 1 \in DOMAIN todo /\ StepTo(todo, k + 1, goal, keep, reach)
      BY <1>1, <1>2
    <3>2. \A l \in DOMAIN todo : l > k + 1 => l - 1 \in DOMAIN rest /\ l - 1 > k /\ rest[l - 1] = todo[l]
      BY <1>1
    <3>. QED BY <3>1, <3>2 DEF StepTo
  <2>2. rest # <<>> => rest[Len(rest)] = Flush
    <3>1. rest # <<>> => Len(todo) - 1 > 0
      BY <1>1 DEF IsScript
    <3>2. rest # <<>> => Len(rest) \in DOMAIN rest /\ rest[Len(rest)] = todo[Len(todo)]
      BY <1>1, <3>1
    <3>. QED BY <1>2, <3>2
  <2>. QED BY <1>1, <1>2, <2>1, <2>2 DEF Leads
<1>4. Unwritten(todo) \subseteq Unwritten(rest) \union Writes(step)
  <2>1. ASSUME NEW k \in DOMAIN todo PROVE Writes(todo[k]) \subseteq Unwritten(rest) \union Writes(step)
    <3>1. CASE k = 1
      BY <3>1 DEF step
    <3>2. CASE k # 1
      BY <1>1, <3>2 DEF Unwritten
    <3>. QED BY <3>1, <3>2
  <2>. QED BY <2>1 DEF Unwritten
<1>5. c = [b \in Blocks |-> c[b]] /\ (\A b \in Blocks : Typed(b, c[b])) /\ \A b \in Blocks : Typed(b, goal[b])
  BY <1>2, VolumeIsTyped
<1>6. /\ c1 = [b \in Blocks |-> c1[b]]
      /\ \A b \in Blocks : c1[b] = c[b] \/ (b \in Writes(step) /\ b \in reach)
      /\ \A b \in Blocks : b \in Writes(step) => Typed(b, c1[b]) /\ (c1[b] = goal[b] \/ b \in Unwritten(rest))
  <2>0. StepTo(todo, 1, goal, keep, reach)
    BY <1>1, <1>2
  <2>1. CASE step = Flush
    <3>1. c1 = c /\ Writes(step) = {}
      BY <1>1, <2>1, StepKinds DEF Performed
    <3>. QED BY <1>5, <3>1
  <2>2. CASE step = Copy(step[2]) /\ RowsTo(step[2], goal, keep, reach)
    <3>. DEFINE rows == step[2]
    <3>. HIDE DEF rows
    <3>1. step[1] = "copy" /\ Writes(step) = {rows[j][2] : j \in DOMAIN rows} /\ RowsTo(rows, goal, keep, reach)
      BY <2>2, StepKinds DEF rows
    <3>2. c1 = CopyRows(c, rows)
      BY <1>1, <3>1 DEF Performed, rows
    <3>3. /\ c1 = [b \in Blocks |-> c1[b]]
          /\ \A j \in DOMAIN rows : c1[rows[j][2]] = goal[rows[j][2]]
          /\ \A b \in Blocks : c1[b] = c[b] \/ \E j \in DOMAIN rows : b = rows[j][2]
      <4>1. c = [b \in Blocks |-> c[b]] /\ \A b \in keep : c[b] = goal[b]
        BY <1>2, <1>5
      <4>2. keep \subseteq Blocks /\ reach \subseteq Blocks /\ keep \intersect reach = {} /\ RowsTo(rows, goal, keep, reach)
        BY <1>2, <3>1
      <4>. HIDE <1>s, <1>0
      <4>. QED BY <3>2, <4>1, <4>2, CopyRowsTo
    <3>4. \A j \in DOMAIN rows : rows[j][2] \in reach
      BY <3>1 DEF RowsTo
    <3>. QED BY <1>5, <3>1, <3>3, <3>4
  <2>3. CASE /\ step = Write(step[2], step[3])
             /\ step[2] \in reach /\ Typed(step[2], step[3])
             /\ step[3] = goal[step[2]] \/ \E l \in DOMAIN todo : l > 1 /\ step[2] \in Writes(todo[l])
    <3>1. Writes(step) = {step[2]} /\ step[1] = "write"
      BY <2>3, StepKinds
    <3>2. c1 = [c EXCEPT ![step[2]] = step[3]]
      BY <1>1, <3>1 DEF Performed
    <3>3. step[2] \in Blocks
      BY <1>2, <2>3
    <3>4. c1 = [b \in Blocks |-> c1[b]] /\ c1[step[2]] = step[3] /\ \A b \in Blocks : b # step[2] => c1[b] = c[b]
      BY <1>5, <3>2, <3>3
    <3>5. step[3] = goal[step[2]] \/ step[2] \in Unwritten(rest)
      <4>1. ASSUME NEW l \in DOMAIN todo, l > 1, step[2] \in Writes(todo[l]) PROVE step[2] \in Unwritten(rest)
        <5>1. l - 1 \in DOMAIN rest /\ rest[l - 1] = todo[l]
          BY <1>1, <4>1
        <5>. QED BY <4>1, <5>1 DEF Unwritten
      <4>. QED BY <2>3, <4>1
    <3>. QED BY <2>3, <3>1, <3>4, <3>5
  <2>. QED BY <2>0, <2>1, <2>2, <2>3 DEF StepTo, step
<1>7. IsVolume(c1)
  <2>1. \A b \in Blocks : Typed(b, c1[b])
    BY <1>5, <1>6
  <2>. QED BY <1>6, <2>1, VolumeIsTyped
<1>8. d1 = d \/ d1 = c
  OBVIOUS
<1>9. \A b \in keep : d1[b] = goal[b] /\ c1[b] = goal[b]
  BY <1>2, <1>6, <1>8
<1>10. \A b \in area : c1[b] = goal[b] \/ b \in Unwritten(rest)
  BY <1>2, <1>4, <1>6
<1>11. rest = <<>> => d1 = c1
  <2>. SUFFICES ASSUME rest = <<>> PROVE d1 = c1
    OBVIOUS
  <2>1. Len(rest) = 0
    OBVIOUS
  <2>2. Len(todo) = 1
    BY <1>1, <2>1
  <2>3. step = Flush
    BY <1>2, <2>2 DEF step
  <2>4. Head(todo)[1] = "flush"
    BY <1>1, <2>3, StepKinds
  <2>. QED BY <2>4 DEF Performed
<1>12. Nears(rest, d1, c1, goal, keep, reach, area)
  BY <1>2, <1>3, <1>7, <1>8, <1>9, <1>10, <1>11 DEF Nears
<1>13. \A b \in Blocks : b \notin reach => c1[b] = c[b] /\ (d1[b] = d[b] \/ d1[b] = c[b])
  BY <1>6, <1>8
<1>. QED BY <1>12, <1>13 DEF rest, Stepped

-----------------------------------------------------------------------------
(* The workspace.                                                          *)

\* The greatest of some cells.
LEMMA MaxInside == \A S \in SUBSET Cells : S # {} => Max(S) \in S /\ \A x \in S : x <= Max(S)
<1>1. ASSUME NEW S \in SUBSET Cells, S # {}
      PROVE  \E x \in S : \A y \in S : x >= y
  <2>. DEFINE T == {N + 1 - y : y \in S}
  <2>1. T \subseteq Nat /\ T # {}
    BY <1>1, CellsAssumption DEF Cells
  <2>2. Min(T) \in T /\ \A z \in T : Min(T) <= z
    <3>. HIDE DEF T
    <3>. QED BY <2>1, NatFacts!MinOfNat DEF NatFacts!Min, Min
  <2>3. PICK x \in S : Min(T) = N + 1 - x
    BY <2>2
  <2>4. \A y \in S : N + 1 - x <= N + 1 - y
    BY <2>2, <2>3
  <2>5. \A y \in S : x >= y
    BY <2>4, CellsAssumption DEF Cells
  <2>. QED BY <2>5
<1>. TAKE S \in SUBSET Cells
<1>. HAVE S # {}
<1>2. PICK y \in S : \A x \in S : y >= x
  BY <1>1
<1>3. Max(S) \in S /\ \A x \in S : Max(S) >= x
  BY <1>2 DEF Max
<1>. QED BY <1>3, CellsAssumption DEF Cells

\* The workspace is a run of free cells before the end, none of them to avoid.
LEMMA HighWorkspaceIs ==
  ASSUME NEW free, NEW needed \in Nat, NEW end \in Int, NEW avoid,
         NEW start, start = HighWorkspace(free, needed, end, avoid), start # 0
  PROVE  start \in Cells /\ start + needed - 1 <= end /\ start..(start + needed - 1) \subseteq free \ avoid
<1>. DEFINE runs == {s \in Cells : /\ s + needed - 1 <= end
                                   /\ s..(s + needed - 1) \subseteq free \ avoid
                                   /\ s + needed \notin free \/ s + needed > end}
<1>1. start = IF runs = {} THEN 0 ELSE Max(runs)
  BY DEF HighWorkspace
<1>2. runs \in SUBSET Cells
  OBVIOUS
<1>. HIDE DEF runs
<1>3. start \in runs
  BY <1>1, <1>2, MaxInside
<1>. QED BY <1>3 DEF runs

\* Slots for the blocks of v, free cells none of which is to avoid, no two the same.
IsShelf(v, slots, avoid) ==
    /\ slots = [b \in DOMAIN slots |-> slots[b]]
    /\ DOMAIN slots \subseteq Carries(v)
    /\ \A b \in DOMAIN slots : \E c \in FreeCells(v) \ avoid : slots[b] = Cell(c)
    /\ \A a, b \in DOMAIN slots : slots[a] = slots[b] => a = b

\* Cells in a row, one for each block of an order.
LEMMA SlotsAreShelf ==
  ASSUME NEW v, NEW order, order \in Seq(Blocks), Range(order) \subseteq Carries(v), NEW avoid,
         NEW start \in Nat, start..(start + Len(order) - 1) \subseteq FreeCells(v) \ avoid
  PROVE  IsShelf(v, Slots(order, start), avoid) /\ DOMAIN Slots(order, start) = Range(order)
<1>. DEFINE n == Len(order)
            at(b) == CHOOSE i \in DOMAIN order : order[i] = b
            slots == Slots(order, start)
<1>1. n \in Nat /\ DOMAIN order = 1..n
  OBVIOUS
<1>2. slots = [b \in Range(order) |-> Cell(start - 1 + at(b))]
  BY DEF Slots
<1>3. \A b \in Range(order) : at(b) \in 1..n /\ order[at(b)] = b
  <2>1. \A b \in Range(order) : \E i \in DOMAIN order : order[i] = b
    BY DEF Range
  <2>. QED BY <1>1, <2>1
<1>. HIDE DEF n, at, slots
<1>4. \A b \in Range(order) : \E c \in FreeCells(v) \ avoid : slots[b] = Cell(c)
  <2>1. \A b \in Range(order) : start - 1 + at(b) \in start..(start + n - 1)
    BY <1>1, <1>3
  <2>. QED BY <1>2, <2>1 DEF n
<1>5. ASSUME NEW a \in Range(order), NEW b \in Range(order), slots[a] = slots[b] PROVE a = b
  <2>1. start - 1 + at(a) = start - 1 + at(b)
    BY <1>2, <1>5, BlockNames
  <2>2. at(a) = at(b)
    BY <1>1, <1>3, <2>1
  <2>. QED BY <1>3, <2>2
<1>. QED BY <1>2, <1>4, <1>5 DEF IsShelf, slots

\* The volume with a copy of each block in its slot.
WithCopies(v, slots) ==
    [b \in Blocks |-> IF \E x \in DOMAIN slots : b = slots[x]
                      THEN Carry(v, CHOOSE x \in DOMAIN slots : b = slots[x], b) ELSE v[b]]

\* A block and its copy, and the copy and the block, carry the same.
LEMMA CopyAndBack ==
  ASSUME NEW v, IsVolume(v), NEW b \in Carries(v), NEW c, NEW w, w[Cell(c)] = Carry(v, b, Cell(c))
  PROVE  Carry(w, Cell(c), b) = v[b]
<1>1. Cell(c)[1] = "cell"
  BY BlockNames
<1>2. CASE b[1] = "cell"
  BY <1>1, <1>2 DEF Carry
<1>3. CASE b[1] # "cell"
  <2>1. Carry(v, b, Cell(c)) = <<Code(b), v[b]>>
    BY <1>1, <1>3 DEF Carry
  <2>2. Carry(w, Cell(c), b) = w[Cell(c)][2]
    BY <1>1, <1>3 DEF Carry
  <2>. QED BY <2>1, <2>2
<1>. QED BY <1>2, <1>3

\* The blocks a volume carries are blocks, and copies of them go into cells.
LEMMA CarriesAre ==
  ASSUME NEW v, IsVolume(v)
  PROVE  /\ Carries(v) \subseteq Blocks
         /\ \A c \in FreeCells(v) : Cell(c) \notin Carries(v) /\ c \in Cells
         /\ \A b \in Carries(v) : \A c \in Cells : Typed(Cell(c), Carry(v, b, Cell(c)))
<1>1. v[Bitmap] \subseteq Cells
  BY CellsInside
<1>2. Carries(v) \subseteq Blocks
  BY <1>1, BlockSet DEF Carries
<1>3. \A c \in FreeCells(v) : Cell(c) \notin Carries(v) /\ c \in Cells
  BY BlockNames DEF FreeCells, Carries
<1>4. ASSUME NEW b \in Carries(v), NEW c \in Cells PROVE Typed(Cell(c), Carry(v, b, Cell(c)))
  <2>. SUFFICES Carry(v, b, Cell(c)) \in Payloads \/ Carry(v, b, Cell(c))[1] < 0
    BY BlockNames DEF Typed
  <2>1. CASE b[1] = "cell"
    <3>1. PICK d \in v[Bitmap] : b = Cell(d)
      BY <2>1, BlockNames DEF Carries
    <3>2. v[b] \in Payloads \/ v[b][1] < 0
      BY <1>1, <3>1 DEF IsVolume
    <3>. QED BY <2>1, <3>2, BlockNames DEF Carry
  <2>2. CASE b[1] # "cell"
    <3>1. Carry(v, b, Cell(c)) = <<Code(b), v[b]>>
      BY <2>2, BlockNames DEF Carry
    <3>2. Code(b) < 0
      <4>1. CASE b = Header \/ b = Bitmap
        BY <4>1 DEF Code
      <4>2. CASE b # Header /\ b # Bitmap
        <5>1. PICK f \in Files : b = MapOf(f)
          BY <2>2, <4>2, BlockNames DEF Carries
        <5>2. Code(b) = -2 - f /\ f \in Nat
          BY <4>2, <5>1, BlockNames, FileNumbers DEF Code
        <5>. QED BY <5>2
      <4>. QED BY <4>1, <4>2
    <3>3. Carry(v, b, Cell(c))[1] < 0
      BY <3>1, <3>2
    <3>. QED BY <3>3
  <2>. QED BY <2>1, <2>2
<1>. QED BY <1>2, <1>3, <1>4

\* With the copies, nothing that the volume carries changes.
LEMMA CopiesAre ==
  ASSUME NEW v, IsVolume(v), NEW slots, NEW avoid, IsShelf(v, slots, avoid), NEW w, w = WithCopies(v, slots)
  PROVE  /\ IsVolume(w)
         /\ \A b \in DOMAIN slots : /\ w[slots[b]] = Carry(v, b, slots[b]) /\ w[b] = v[b]
                                    /\ Carry(w, b, slots[b]) = w[slots[b]]
                                    /\ Carry(w, slots[b], b) = w[b]
                                    /\ slots[b] \in Blocks /\ slots[b] \notin Carries(v)
         /\ \A b \in Blocks : (\A x \in DOMAIN slots : b # slots[x]) => w[b] = v[b]
         /\ Agree(w, v, Carries(v))
<1>1. w = [b \in Blocks |-> w[b]] /\ \A b \in Blocks : (\A x \in DOMAIN slots : b # slots[x]) => w[b] = v[b]
  BY DEF WithCopies
<1>2. Carries(v) \subseteq Blocks
  BY CarriesAre
<1>3. ASSUME NEW b \in DOMAIN slots
      PROVE  slots[b] \in Blocks /\ slots[b] \notin Carries(v) /\ w[slots[b]] = Carry(v, b, slots[b])
             /\ Typed(slots[b], w[slots[b]])
  <2>1. PICK c \in FreeCells(v) \ avoid : slots[b] = Cell(c)
    BY DEF IsShelf
  <2>2. c \in Cells /\ Cell(c) \in Blocks /\ Cell(c) \notin Carries(v)
    BY <2>1, CarriesAre, BlockSet
  <2>3. w[slots[b]] = Carry(v, b, slots[b])
    <3>1. \A x \in DOMAIN slots : slots[b] = slots[x] => x = b
      BY DEF IsShelf
    <3>2. (CHOOSE x \in DOMAIN slots : slots[b] = slots[x]) = b
      BY <3>1
    <3>3. w[slots[b]] = Carry(v, CHOOSE x \in DOMAIN slots : slots[b] = slots[x], slots[b])
      BY <2>1, <2>2 DEF WithCopies
    <3>. QED BY <3>2, <3>3
  <2>4. b \in Carries(v)
    BY DEF IsShelf
  <2>. QED BY <2>1, <2>2, <2>3, <2>4, CarriesAre
<1>4. ASSUME NEW b \in Carries(v) PROVE w[b] = v[b]
  BY <1>1, <1>2, <1>3, <1>4
<1>5. \A b \in DOMAIN slots : b \in Carries(v)
  BY DEF IsShelf
<1>6. ASSUME NEW b \in DOMAIN slots
      PROVE  Carry(w, b, slots[b]) = w[slots[b]] /\ Carry(w, slots[b], b) = w[b]
  <2>1. w[b] = v[b]
    BY <1>4, <1>5
  <2>2. Carry(w, b, slots[b]) = Carry(v, b, slots[b])
    BY <2>1, CarrySame
  <2>3. PICK c \in FreeCells(v) \ avoid : slots[b] = Cell(c)
    BY DEF IsShelf
  <2>4. Carry(w, Cell(c), b) = v[b]
    <3>1. w[Cell(c)] = Carry(v, b, Cell(c)) /\ b \in Carries(v)
      BY <1>3, <1>5, <2>3
    <3>. QED BY <3>1, CopyAndBack
  <2>. QED BY <1>3, <2>1, <2>2, <2>3, <2>4
<1>7. IsVolume(w)
  <2>1. \A b \in Blocks : Typed(b, v[b])
    BY VolumeIsTyped
  <2>2. \A b \in Blocks : Typed(b, w[b])
    BY <1>1, <1>3, <2>1
  <2>. QED BY <1>1, <2>2, VolumeIsTyped
<1>. QED BY <1>1, <1>3, <1>4, <1>5, <1>6, <1>7 DEF Agree

\* A volume that holds the copies is the volume when they are put back.
LEMMA RestoredIs ==
  ASSUME NEW v, IsVolume(v), NEW slots, NEW avoid, IsShelf(v, slots, avoid), NEW w, IsVolume(w),
         \A b \in DOMAIN slots : w[slots[b]] = Carry(v, b, slots[b]),
         NEW u, u = Restored(w, slots)
  PROVE  /\ IsVolume(u) /\ \A b \in DOMAIN slots : u[b] = v[b]
         /\ DOMAIN slots = Carries(v) => Agree(u, v, Carries(v))
<1>1. DOMAIN w = Blocks
  BY DEF IsVolume
<1>2. u = [b \in Blocks |-> u[b]] /\ \A b \in Blocks : b \notin DOMAIN slots => u[b] = w[b]
  BY <1>1 DEF Restored
<1>3. ASSUME NEW b \in DOMAIN slots PROVE u[b] = v[b]
  <2>1. b \in Carries(v) /\ b \in Blocks
    BY CarriesAre DEF IsShelf
  <2>2. PICK c \in FreeCells(v) \ avoid : slots[b] = Cell(c)
    BY DEF IsShelf
  <2>3. Carry(w, Cell(c), b) = v[b]
    BY <2>1, <2>2, CopyAndBack
  <2>. QED BY <1>1, <2>1, <2>2, <2>3 DEF Restored
<1>4. IsVolume(u)
  BY <1>2, <1>3, MixIsVolume
<1>. QED BY <1>3, <1>4 DEF Agree

-----------------------------------------------------------------------------
(* Scripts that copy rows.                                                 *)

\* Copies of rows, of each at least once, the last of them synced.
RowScript(todo, rows) ==
    /\ IsScript(todo)
    /\ \A k \in DOMAIN todo : \/ todo[k] = Flush
                              \/ todo[k] = Copy(todo[k][2]) /\ todo[k][2] \in Seq(Range(rows))
    /\ \A j \in DOMAIN rows : \E k \in DOMAIN todo : /\ todo[k] = Copy(todo[k][2])
                                                     /\ rows[j] \in Range(todo[k][2])
    /\ todo # <<>> => todo[Len(todo)] = Flush

\* Such a script leads where its rows lead.
LEMMA RowScriptLeads ==
  ASSUME NEW todo, NEW rows, RowScript(todo, rows), NEW goal, NEW keep, NEW reach,
         RowsTo(rows, goal, keep, reach), keep \subseteq Blocks, reach \subseteq Blocks,
         keep \intersect reach = {}
  PROVE  Leads(todo, goal, keep, reach) /\ \A j \in DOMAIN rows : rows[j][2] \in Unwritten(todo)
<1>1. \A r \in Range(rows) : /\ r \in Blocks \X Blocks /\ r[1] \in keep /\ r[2] \in reach
                             /\ Carry(goal, r[1], r[2]) = goal[r[2]]
  <2>1. \A j \in DOMAIN rows : rows[j] \in Blocks \X Blocks
    BY DEF RowsTo
  <2>. QED BY <2>1 DEF RowsTo, Range
<1>2. ASSUME NEW batch \in Seq(Range(rows)) PROVE RowsTo(batch, goal, keep, reach)
  <2>. DEFINE R == Range(rows)
  <2>1. batch \in Seq(R) /\ R \subseteq Blocks \X Blocks
    BY <1>1
  <2>. HIDE DEF R
  <2>2. batch \in Seq(Blocks \X Blocks) /\ \A j \in DOMAIN batch : batch[j] \in R
    BY <2>1
  <2>. QED BY <1>1, <2>2 DEF RowsTo, R
<1>3. \A k \in DOMAIN todo : StepTo(todo, k, goal, keep, reach)
  BY <1>2 DEF RowScript, StepTo
<1>4. Leads(todo, goal, keep, reach)
  BY <1>3 DEF RowScript, Leads
<1>5. ASSUME NEW j \in DOMAIN rows PROVE rows[j][2] \in Unwritten(todo)
  <2>1. PICK k \in DOMAIN todo : todo[k] = Copy(todo[k][2]) /\ rows[j] \in Range(todo[k][2])
    BY DEF RowScript
  <2>. DEFINE batch == todo[k][2]
  <2>2. PICK i \in DOMAIN batch : batch[i] = rows[j]
    BY <2>1 DEF Range
  <2>. HIDE DEF batch
  <2>3. rows[j][2] \in Writes(Copy(batch))
    BY <2>2, StepKinds
  <2>4. rows[j][2] \in Writes(todo[k])
    BY <2>1, <2>3 DEF batch
  <2>. QED BY <2>4 DEF Unwritten
<1>. QED BY <1>4, <1>5

\* A copy of each row, synced at the end.
LEMMA RowByRowIs ==
  ASSUME NEW R, NEW rows \in Seq(R)
  PROVE  RowScript(RowByRow(rows), rows)
<1>. DEFINE n == Len(rows)
            copies == [i \in 1..n |-> Copy(<<rows[i]>>)]
            todo == RowByRow(rows)
            S == Range(copies) \union {Flush}
            T == Range(rows)
<1>1. n \in Nat /\ DOMAIN rows = 1..n /\ \A i \in 1..n : rows[i] \in T
  BY DEF Range
<1>2. todo = Append(copies, Flush)
  <2>1. DOMAIN rows = 1..n
    BY <1>1
  <2>. HIDE DEF n
  <2>. QED BY <2>1 DEF RowByRow, Each, Once
<1>3. copies \in Seq(S) /\ Flush \in S
  <2>1. \A i \in 1..n : copies[i] \in Range(copies)
    BY DEF Range
  <2>. HIDE DEF n
  <2>. QED BY <1>1, <2>1
<1>. HIDE DEF S
<1>4. /\ todo \in Seq(S) /\ DOMAIN todo = 1..(n + 1) /\ Len(todo) = n + 1
      /\ \A k \in 1..n : todo[k] = Copy(<<rows[k]>>)
      /\ todo[n + 1] = Flush
  <2>1. Len(copies) = n /\ \A k \in 1..n : copies[k] = Copy(<<rows[k]>>)
    BY <1>1
  <2>. HIDE DEF copies, n, todo
  <2>2. todo \in Seq(S) /\ Len(todo) = n + 1 /\ todo[n + 1] = Flush
    BY <1>1, <1>2, <1>3, <2>1
  <2>3. \A k \in 1..n : todo[k] = copies[k]
    BY <1>1, <1>2, <1>3, <2>1
  <2>. QED BY <1>1, <2>1, <2>2, <2>3
<1>5. IsScript(todo)
  <2>. DEFINE U == Range(todo)
  <2>1. \A k \in 1..Len(todo) : todo[k] \in U
    BY <1>4 DEF Range
  <2>. HIDE DEF U, todo
  <2>2. todo \in Seq(U)
    BY <1>4, <2>1
  <2>. QED BY <2>2 DEF IsScript, U
<1>6. ASSUME NEW k \in 1..n
      PROVE  todo[k] = Copy(todo[k][2]) /\ todo[k][2] = <<rows[k]>> /\ <<rows[k]>> \in Seq(T) /\ rows[k] \in Range(<<rows[k]>>)
  <2>1. todo[k][2] = <<rows[k]>>
    BY <1>4, StepKinds
  <2>2. rows[k] \in T
    BY <1>1
  <2>. HIDE DEF T
  <2>. QED BY <1>4, <2>1, <2>2 DEF Range
<1>. HIDE DEF n, todo
<1>7. \A k \in DOMAIN todo : k \in 1..n \/ todo[k] = Flush
  BY <1>1, <1>4
<1>8. todo # <<>> => todo[Len(todo)] = Flush
  BY <1>4
<1>9. \A j \in DOMAIN rows : j \in DOMAIN todo /\ j \in 1..n
  BY <1>1, <1>4
<1>10. \A k \in DOMAIN todo : todo[k] = Flush \/ (todo[k] = Copy(todo[k][2]) /\ todo[k][2] \in Seq(T))
  BY <1>6, <1>7
<1>11. \A j \in DOMAIN rows : \E k \in DOMAIN todo : todo[k] = Copy(todo[k][2]) /\ rows[j] \in Range(todo[k][2])
  BY <1>6, <1>9
<1>. QED BY <1>5, <1>8, <1>10, <1>11 DEF RowScript, todo

-----------------------------------------------------------------------------
(* Copying into the slots and back.                                        *)

\* The slots of the blocks.
SlotsOf(slots) == {slots[b] : b \in DOMAIN slots}

\* The rows of a workspace.
LEMMA SlotRowsAre ==
  ASSUME NEW order, NEW slots, order \in Seq(Blocks), Range(order) = DOMAIN slots, SlotsOf(slots) \subseteq Blocks
  PROVE  /\ SlotRows(order, slots) = [i \in 1..Len(order) |-> <<order[i], slots[order[i]]>>]
         /\ Reversed(SlotRows(order, slots)) = [i \in 1..Len(order) |-> <<slots[order[i]], order[i]>>]
         /\ SlotRows(order, slots) \in Seq(Blocks \X Blocks)
         /\ Reversed(SlotRows(order, slots)) \in Seq(Blocks \X Blocks)
         /\ \A i \in 1..Len(order) : order[i] \in DOMAIN slots
         /\ \A b \in DOMAIN slots : \E i \in 1..Len(order) : order[i] = b
         /\ Len(order) \in Nat
<1>. DEFINE n == Len(order)
            rows == SlotRows(order, slots)
<1>1. n \in Nat /\ DOMAIN order = 1..n /\ \A i \in 1..n : order[i] \in Blocks
  OBVIOUS
<1>2. rows = [i \in 1..n |-> <<order[i], slots[order[i]]>>]
  <2>. HIDE DEF n
  <2>. QED BY <1>1 DEF SlotRows, Each, Once
<1>. HIDE DEF n
<1>3. /\ \A i \in 1..n : order[i] \in DOMAIN slots
      /\ \A b \in DOMAIN slots : \E i \in 1..n : order[i] = b
  BY <1>1 DEF Range
<1>4. \A i \in 1..n : slots[order[i]] \in Blocks
  BY <1>3 DEF SlotsOf
<1>5. DOMAIN rows = 1..n /\ \A i \in 1..n : rows[i][1] = order[i] /\ rows[i][2] = slots[order[i]]
  BY <1>2
<1>. HIDE DEF rows
<1>6. Reversed(rows) = [i \in 1..n |-> <<slots[order[i]], order[i]>>]
  <2>1. Reversed(rows) = [i \in DOMAIN rows |-> <<rows[i][2], rows[i][1]>>]
    BY DEF Reversed, Each, Once
  <2>. QED BY <1>5, <2>1
<1>7. [i \in 1..n |-> <<order[i], slots[order[i]]>>] \in Seq(Blocks \X Blocks)
  BY <1>1, <1>4
<1>8. [i \in 1..n |-> <<slots[order[i]], order[i]>>] \in Seq(Blocks \X Blocks)
  BY <1>1, <1>4
<1>. QED BY <1>1, <1>2, <1>3, <1>6, <1>7, <1>8 DEF rows, n

\* Copying into the workspace, and back from it, leads to the volume with its copies.
LEMMA ShelfRows ==
  ASSUME NEW v, IsVolume(v), NEW slots, NEW avoid, IsShelf(v, slots, avoid),
         NEW order, order \in Seq(Blocks), Range(order) = DOMAIN slots
  PROVE  LET rows == SlotRows(order, slots)
             back == Reversed(rows)
             w == WithCopies(v, slots)
         IN /\ RowsTo(rows, w, Carries(v), SlotsOf(slots))
            /\ \A b \in SlotsOf(slots) : \E j \in DOMAIN rows : rows[j][2] = b
            /\ RowsTo(back, w, SlotsOf(slots), Carries(v))
            /\ \A b \in DOMAIN slots : \E j \in DOMAIN back : back[j][2] = b
            /\ Carries(v) \subseteq Blocks /\ SlotsOf(slots) \subseteq Blocks
            /\ Carries(v) \intersect SlotsOf(slots) = {}
<1>. DEFINE rows == SlotRows(order, slots)
            back == Reversed(rows)
            w == WithCopies(v, slots)
            n == Len(order)
<1>1. \A b \in DOMAIN slots : /\ Carry(w, b, slots[b]) = w[slots[b]] /\ Carry(w, slots[b], b) = w[b]
                              /\ slots[b] \in Blocks /\ slots[b] \notin Carries(v)
  BY CopiesAre
<1>2. Carries(v) \subseteq Blocks /\ SlotsOf(slots) \subseteq Blocks /\ Carries(v) \intersect SlotsOf(slots) = {}
  BY <1>1, CarriesAre DEF SlotsOf
<1>3. /\ rows = [i \in 1..n |-> <<order[i], slots[order[i]]>>]
      /\ back = [i \in 1..n |-> <<slots[order[i]], order[i]>>]
      /\ rows \in Seq(Blocks \X Blocks) /\ back \in Seq(Blocks \X Blocks)
      /\ \A i \in 1..n : order[i] \in DOMAIN slots
      /\ \A b \in DOMAIN slots : \E i \in 1..n : order[i] = b
  BY <1>2, SlotRowsAre
<1>. HIDE DEF rows, back, w, n
<1>4. /\ DOMAIN rows = 1..n /\ \A i \in 1..n : rows[i][1] = order[i] /\ rows[i][2] = slots[order[i]]
      /\ DOMAIN back = 1..n /\ \A i \in 1..n : back[i][1] = slots[order[i]] /\ back[i][2] = order[i]
  BY <1>3
<1>5. \A b \in DOMAIN slots : b \in Carries(v)
  BY DEF IsShelf
<1>6. RowsTo(rows, w, Carries(v), SlotsOf(slots))
  BY <1>1, <1>3, <1>4, <1>5 DEF RowsTo, SlotsOf
<1>7. RowsTo(back, w, SlotsOf(slots), Carries(v))
  BY <1>1, <1>3, <1>4, <1>5 DEF RowsTo, SlotsOf
<1>8. ASSUME NEW b \in SlotsOf(slots) PROVE \E j \in DOMAIN rows : rows[j][2] = b
  <2>1. PICK x \in DOMAIN slots : b = slots[x]
    BY DEF SlotsOf
  <2>2. PICK i \in 1..n : order[i] = x
    BY <1>3
  <2>. QED BY <1>4, <2>1, <2>2
<1>9. \A b \in DOMAIN slots : \E j \in DOMAIN back : back[j][2] = b
  BY <1>3, <1>4
<1>. QED BY <1>2, <1>6, <1>7, <1>8, <1>9 DEF rows, back, w

-----------------------------------------------------------------------------
(* The new layout.                                                         *)

\* What is in use when every file is where the plan of v puts it.
NewUsed(v, db) == (v[Bitmap] \ Movable(v)) \union TargetRanges(db)

\* The volume w is v with its files where the plan puts them.
IsRenewed(v, db, w) ==
    /\ w = [b \in Blocks |-> w[b]]
    /\ w[Header] \in Nat /\ w[Bitmap] = NewUsed(v, db)
    /\ \A f \in Files : w[MapOf(f)] = FileTarget(db, f)
    /\ \A c \in Movable(v) : w[Cell(Moves(v, db)[c])] = v[Cell(c)]
    /\ \A c \in Cells : (\A d \in Movable(v) : c # Moves(v, db)[d]) => Typed(Cell(c), w[Cell(c)])

\* A target is as long as its file.
LEMMA TargetRun ==
  ASSUME NEW v, NEW db, db.digest = Contents(v), IsVolume(v), NEW f \in Files
  PROVE  FileTarget(db, f) = Run(db.start[f], Len(v[MapOf(f)])) /\ Len(db.digest[f]) = Len(v[MapOf(f)])
<1>1. db.digest[f] = [j \in DOMAIN v[MapOf(f)] |-> v[Cell(v[MapOf(f)][j])]]
  BY DEF Contents
<1>2. v[MapOf(f)] \in Seq(Cells)
  BY DEF IsVolume
<1>3. Len(db.digest[f]) = Len(v[MapOf(f)])
  <2>1. \A m \in Seq(Cells) : \A d : d = [j \in DOMAIN m |-> v[Cell(m[j])]] => Len(d) = Len(m)
    <3>. TAKE m \in Seq(Cells)
    <3>. TAKE d
    <3>. HAVE d = [j \in DOMAIN m |-> v[Cell(m[j])]]
    <3>1. DOMAIN m = 1..Len(m) /\ Len(m) \in Nat
      OBVIOUS
    <3>2. d = [j \in 1..Len(m) |-> v[Cell(m[j])]]
      BY <3>1
    <3>. QED BY <3>1, <3>2
  <2>. QED BY <1>1, <1>2, <2>1
<1>. QED BY <1>3 DEF FileTarget

\* The targets are what the cells of the files move to.
LEMMA TargetsAreMoves ==
  ASSUME NEW v, NEW op, IsVolume(v), Exclusive(v), NEW db, AimsWell(v, op, db)
  PROVE  TargetRanges(db) = Range(Moves(v, db))
<1>. DEFINE M == Moves(v, db)
<1>1. DOMAIN M = Movable(v) /\ \A c \in Movable(v) : M[c] \in TargetRanges(db)
  <2>1. M = [c \in Movable(v) |-> M[c]] /\ \A c \in Movable(v) : M[c] \in TargetRanges(db)
    BY MovesToTargets
  <2>. HIDE DEF M
  <2>. QED BY <2>1
<1>2. ASSUME NEW t \in TargetRanges(db) PROVE \E c \in Movable(v) : M[c] = t
  <2>1. PICK f \in Files : t \in Range(FileTarget(db, f))
    BY DEF TargetRanges
  <2>. DEFINE n == Len(v[MapOf(f)])
              s == db.start[f]
  <2>2. v[MapOf(f)] # <<>>
    BY <2>1, TargetIs
  <2>3. s \in Nat /\ n \in Nat \ {0} /\ t \in s..(s + n - 1)
    BY <2>1, <2>2, TargetIs DEF Spot
  <2>4. DOMAIN v[MapOf(f)] = 1..n
    <3>1. v[MapOf(f)] \in Seq(Cells)
      BY DEF IsVolume
    <3>. QED BY <3>1
  <2>. DEFINE j == t - s + 1
  <2>5. j \in 1..n /\ s + j - 1 = t
    <3>. HIDE DEF s, n
    <3>. QED BY <2>3
  <2>6. j \in DOMAIN v[MapOf(f)]
    BY <2>4, <2>5
  <2>. HIDE DEF j
  <2>7. v[MapOf(f)][j] \in Movable(v) /\ M[v[MapOf(f)][j]] = s + j - 1
    <3>1. /\ \A g \in Files : \A i \in DOMAIN v[MapOf(g)] :
               /\ v[MapOf(g)][i] \in Movable(v)
               /\ Moves(v, db)[v[MapOf(g)][i]] = db.start[g] + i - 1
               /\ db.start[g] + i - 1 \in Range(FileTarget(db, g))
          /\ \A c, d \in Movable(v) : Moves(v, db)[c] = Moves(v, db)[d] => c = d
      BY MovesApart, SMTT(60)
    <3>. QED BY <2>6, <3>1
  <2>. QED BY <2>5, <2>7
<1>. HIDE DEF M
<1>. QED BY <1>1, <1>2 DEF Range, M

\* The reserves of a plan are those of its files, no target is in one.
LEMMA ReservesAre ==
  ASSUME NEW v, NEW op, IsVolume(v), NEW db, AimsWell(v, op, db)
  PROVE  /\ ReserveRanges(db, op) \subseteq (FreeCells(v) \union Movable(v)) \ TargetRanges(db)
         /\ \A f \in Files : Held(v, db, op, f) \subseteq ReserveRanges(db, op)
<1>. DEFINE held(f) == Held(v, db, op, f)
            G == (FreeCells(v) \union Movable(v)) \ TargetRanges(db)
<1>1. \A f \in Files : v[MapOf(f)] # <<>> => held(f) \subseteq G
  BY TargetsApart
<1>2. ASSUME NEW f \in Files, v[MapOf(f)] = <<>> PROVE held(f) = {}
  <2>. DEFINE s == db.start[f]
  <2>1. s \in Nat
    BY DEF AimsWell
  <2>2. Len(v[MapOf(f)]) = 0
    BY <1>2, SpanIs
  <2>3. Reserve(op, 0) = 0
    BY DEF Reserve
  <2>4. held(f) = (s + 0)..(s + 0 + 0 - 1)
    BY <2>2, <2>3 DEF Held
  <2>. HIDE DEF s, held
  <2>. QED BY <2>1, <2>4
<1>3. ASSUME NEW f \in Files PROVE Len(db.digest[f]) = Len(v[MapOf(f)])
  <2>1. db.digest = Contents(v)
    BY DEF AimsWell
  <2>. QED BY <2>1, TargetRun
<1>4. ReserveRanges(db, op) = UNION {held(f) : f \in Files}
  <2>1. ASSUME NEW f \in Files
        PROVE  (db.start[f] + Len(db.digest[f]))..(db.start[f] + Len(db.digest[f]) + Reserve(op, Len(db.digest[f])) - 1) = held(f)
    BY <1>3 DEF Held
  <2>. HIDE DEF held
  <2>. QED BY <2>1 DEF ReserveRanges
<1>. HIDE DEF held, G
<1>5. \A f \in Files : held(f) \subseteq G
  BY <1>1, <1>2
<1>6. UNION {held(f) : f \in Files} \subseteq G
  BY <1>5
<1>7. \A f \in Files : held(f) \subseteq ReserveRanges(db, op)
  BY <1>4
<1>. QED BY <1>4, <1>6, <1>7 DEF held, G

\* The new layout is sound, in order, and loses nothing.
LEMMA RenewedIsGood ==
  ASSUME NEW v, NEW op, IsVolume(v), Sound(v), NEW db, AimsWell(v, op, db), NEW w, IsRenewed(v, db, w)
  PROVE  /\ IsVolume(w) /\ Sound(w) /\ Contents(w) = Contents(v) /\ Contents(w) = db.digest
         /\ Movable(w) = TargetRanges(db)
         /\ ReserveRanges(db, op) \subseteq FreeCells(w)
         /\ \A f \in Files : /\ IsRun(w[MapOf(f)]) /\ ReserveAfter(w, f, op) \subseteq FreeCells(w)
                             /\ w[MapOf(f)] = Run(db.start[f], Len(v[MapOf(f)]))
                             /\ v[MapOf(f)] # <<>> => Held(v, db, op, f) \subseteq FreeCells(w)
<1>. DEFINE T == TargetRanges(db)
            M == Moves(v, db)
            target(f) == FileTarget(db, f)
            held(f) == Held(v, db, op, f)
<1>1. Exclusive(v) /\ Pinned \subseteq v[Bitmap] \ Movable(v)
  BY DEF Sound
<1>2. /\ T \subseteq FreeCells(v) \union Movable(v)
      /\ \A f \in Files : target(f) \in Seq(Cells) /\ IsRun(target(f)) /\ Range(target(f)) \subseteq T
  BY TargetsInside
<1>3. T = Range(M) /\ DOMAIN M = Movable(v)
  <2>1. M = [c \in Movable(v) |-> M[c]]
    BY MovesToTargets
  <2>2. DOMAIN M = Movable(v)
    <3>. HIDE DEF M
    <3>. QED BY <2>1
  <2>. QED BY <1>1, <2>2, TargetsAreMoves
<1>4. \A f \in Files : \A j \in DOMAIN v[MapOf(f)] :
         v[MapOf(f)][j] \in Movable(v) /\ M[v[MapOf(f)][j]] = db.start[f] + j - 1
  BY <1>1, MovesApart
<1>5. \A f, g \in Files : f # g => Range(target(f)) \intersect Range(target(g)) = {}
  BY TargetsApart
<1>6. \A f \in Files : /\ target(f) = Run(db.start[f], Len(v[MapOf(f)]))
                       /\ DOMAIN v[MapOf(f)] = 1..Len(v[MapOf(f)]) /\ Len(v[MapOf(f)]) \in Nat
                       /\ v[MapOf(f)] = <<>> <=> Len(v[MapOf(f)]) = 0
                       /\ db.start[f] \in Nat
  <2>1. \A f \in Files : v[MapOf(f)] \in Seq(Cells)
    BY DEF IsVolume
  <2>2. \A m \in Seq(Cells) : DOMAIN m = 1..Len(m) /\ Len(m) \in Nat /\ (m = <<>> <=> Len(m) = 0)
    OBVIOUS
  <2>3. \A f \in Files : db.start[f] \in Nat
    BY DEF AimsWell
  <2>4. ASSUME NEW f \in Files PROVE target(f) = Run(db.start[f], Len(v[MapOf(f)]))
    <3>1. db.digest = Contents(v)
      BY DEF AimsWell
    <3>. QED BY <3>1, TargetRun
  <2>. HIDE DEF target
  <2>. QED BY <2>1, <2>2, <2>3, <2>4
<1>7. db.digest = Contents(v)
  BY DEF AimsWell
<1>8. /\ ReserveRanges(db, op) \subseteq (FreeCells(v) \union Movable(v)) \ T
      /\ \A f \in Files : held(f) \subseteq ReserveRanges(db, op)
  BY ReservesAre
<1>9. v[Bitmap] \subseteq Cells /\ Movable(v) \subseteq v[Bitmap]
  <2>1. \A f \in Files : CellsOf(v, f) \subseteq v[Bitmap]
    BY <1>1 DEF Exclusive
  <2>. QED BY <2>1, CellsInside DEF Movable
<1>10. /\ w = [b \in Blocks |-> w[b]]
       /\ w[Header] \in Nat /\ w[Bitmap] = (v[Bitmap] \ Movable(v)) \union T
       /\ \A f \in Files : w[MapOf(f)] = target(f)
       /\ \A c \in Movable(v) : w[Cell(M[c])] = v[Cell(c)]
       /\ \A c \in Cells : (\A d \in Movable(v) : c # M[d]) => Typed(Cell(c), w[Cell(c)])
  BY DEF IsRenewed, NewUsed
<1>11. \A c \in Movable(v) : c \in Cells
  BY <1>9
<1>12. T \subseteq Cells
  BY <1>2, <1>11 DEF FreeCells
<1>. HIDE DEF T, M, target
<1>13. IsVolume(w)
  <2>1. \A c \in Cells : w[Cell(c)] \in Payloads \/ w[Cell(c)][1] < 0
    <3>. TAKE c \in Cells
    <3>1. CASE \E d \in Movable(v) : c = M[d]
      <4>1. PICK d \in Movable(v) : c = M[d]
        BY <3>1
      <4>2. v[Cell(d)] \in Payloads \/ v[Cell(d)][1] < 0
        BY <1>11 DEF IsVolume
      <4>. QED BY <1>10, <4>1, <4>2
    <3>2. CASE \A d \in Movable(v) : c # M[d]
      BY <1>10, <3>2 DEF Typed
    <3>. QED BY <3>1, <3>2
  <2>2. w[Bitmap] \in SUBSET Cells
    BY <1>9, <1>10, <1>12
  <2>3. \A f \in Files : w[MapOf(f)] \in Seq(Cells)
    BY <1>2, <1>10
  <2>. QED BY <1>10, <2>1, <2>2, <2>3 DEF IsVolume
<1>14. \A f \in Files : CellsOf(w, f) = Range(target(f))
  BY <1>10 DEF CellsOf
<1>15. Movable(w) = T
  BY <1>14 DEF Movable, TargetRanges, T, target
<1>16. ASSUME NEW f \in Files PROVE IsInjective(target(f))
  BY <1>6, RunInOrder
<1>17. Exclusive(w)
  <2>1. \A f \in Files : CellsOf(w, f) \subseteq w[Bitmap]
    BY <1>2, <1>10, <1>14
  <2>2. \A f \in Files : IsInjective(w[MapOf(f)])
    BY <1>10, <1>16
  <2>3. \A f, g \in Files : f # g => CellsOf(w, f) \intersect CellsOf(w, g) = {}
    BY <1>5, <1>14
  <2>. QED BY <2>1, <2>2, <2>3 DEF Exclusive
<1>18. Sound(w)
  <2>1. Pinned \intersect T = {}
    BY <1>1, <1>2 DEF FreeCells
  <2>. QED BY <1>1, <1>10, <1>15, <1>17, <2>1 DEF Sound
<1>19. FreeCells(w) = (FreeCells(v) \union Movable(v)) \ T
  BY <1>9, <1>10 DEF FreeCells
<1>20. ASSUME NEW f \in Files
       PROVE  [j \in DOMAIN w[MapOf(f)] |-> w[Cell(w[MapOf(f)][j])]]
              = [j \in DOMAIN v[MapOf(f)] |-> v[Cell(v[MapOf(f)][j])]]
  <2>. DEFINE n == Len(v[MapOf(f)])
              s == db.start[f]
  <2>1. w[MapOf(f)] = [j \in 1..n |-> s + j - 1] /\ DOMAIN v[MapOf(f)] = 1..n
    BY <1>6, <1>10 DEF Run
  <2>2. \A j \in 1..n : w[Cell(s + j - 1)] = v[Cell(v[MapOf(f)][j])]
    <3>. TAKE j \in 1..n
    <3>1. j \in DOMAIN v[MapOf(f)]
      BY <1>6
    <3>. QED BY <1>4, <1>10, <3>1
  <2>. HIDE DEF n, s
  <2>. QED BY <2>1, <2>2
<1>21. Contents(w) = Contents(v)
  BY <1>20 DEF Contents
<1>22. ASSUME NEW f \in Files PROVE ReserveAfter(w, f, op) \subseteq FreeCells(w)
  <2>. DEFINE n == Len(v[MapOf(f)])
              s == db.start[f]
  <2>1. CASE v[MapOf(f)] = <<>>
    <3>1. target(f) = <<>>
      BY <1>6, <2>1 DEF Run
    <3>. QED BY <1>10, <3>1 DEF ReserveAfter
  <2>2. CASE v[MapOf(f)] # <<>>
    <3>1. w[MapOf(f)] = Run(s, n) /\ s \in Nat /\ n \in Nat \ {0}
      BY <1>6, <1>10, <2>2
    <3>. HIDE DEF s, n
    <3>2. Run(s, n) # <<>> /\ Len(Run(s, n)) = n /\ Last(Run(s, n)) = s + n - 1
      <4>1. Run(s, n) = [j \in 1..n |-> s + j - 1] /\ Len(Run(s, n)) = n /\ Run(s, n) \in Seq(Int)
        BY <3>1, RunIs
      <4>2. n \in 1..n
        BY <3>1
      <4>3. Last(Run(s, n)) = Run(s, n)[n]
        BY <4>1 DEF Last
      <4>. QED BY <3>1, <4>1, <4>2, <4>3
    <3>3. ReserveAfter(w, f, op) = (s + n - 1 + 1)..(s + n - 1 + Reserve(op, n))
      BY <3>1, <3>2 DEF ReserveAfter
    <3>4. Reserve(op, n) \in Nat
      BY <3>1, ReserveIsNat
    <3>. DEFINE r == Reserve(op, n)
    <3>. HIDE DEF r
    <3>5. s + n - 1 + 1 = s + n /\ s + n - 1 + r = s + n + r - 1
      BY <3>1, <3>4 DEF r
    <3>6. ReserveAfter(w, f, op) = held(f)
      BY <3>3, <3>5 DEF Held, r, s, n
    <3>. HIDE DEF held
    <3>. QED BY <1>8, <1>19, <3>6
  <2>. QED BY <2>1, <2>2
<1>23. /\ ReserveRanges(db, op) \subseteq FreeCells(w)
       /\ \A f \in Files : v[MapOf(f)] # <<>> => held(f) \subseteq FreeCells(w)
  BY <1>8, <1>19
<1>24. \A f \in Files : IsRun(w[MapOf(f)]) /\ w[MapOf(f)] = Run(db.start[f], Len(v[MapOf(f)]))
  BY <1>2, <1>6, <1>10
<1>. QED BY <1>7, <1>13, <1>15, <1>18, <1>21, <1>22, <1>23, <1>24 DEF T

-----------------------------------------------------------------------------
(* The plan of a direct relayout.                                          *)

\* The plan p puts the files of v in order, and has a slot for every block
\* that v carries.
PlanOf(v, op, p) ==
    /\ IsVolume(v) /\ Sound(v) /\ AimsWell(v, op, p)
    /\ p.moves = Moves(v, p) /\ p.reserves = ReserveRanges(p, op)
    /\ p.maps = Maps(v) /\ p.used = v[Bitmap]
    /\ IsShelf(v, p.slots, TargetRanges(p) \union ReserveRanges(p, op))
    /\ DOMAIN p.slots = Carries(v)

\* A plan has these parts.
HasParts(p) == p = [start |-> p.start, digest |-> p.digest, moves |-> p.moves, reserves |-> p.reserves,
                    maps |-> p.maps, used |-> p.used, slots |-> p.slots, kept |-> p.kept]

\* The volume v with the copies in their slots and its files where p puts them.
NewLayout(v, p) ==
    [b \in Blocks |->
        IF b[1] = "map" THEN FileTarget(p, b[2])
        ELSE IF b = Bitmap THEN NewUsed(v, p)
        ELSE IF \E c \in Movable(v) : b = Cell(Moves(v, p)[c])
             THEN v[Cell(CHOOSE c \in Movable(v) : b = Cell(Moves(v, p)[c]))]
        ELSE WithCopies(v, p.slots)[b]]

\* The metadata, the cells that the plan fills, and those the new layout uses.
Metadata == {Bitmap} \union {MapOf(f) : f \in Files}
TargetCells(p) == {Cell(c) : c \in TargetRanges(p)}
UsedCells(v, p) == {Header} \union {Cell(c) : c \in NewUsed(v, p)}

\* What the verifiers of the worker let through, and more: a volume in order.
Verified(x, op, p) ==
    IsVolume(x) /\ Sound(x) /\ Contents(x) = owner /\ VerifyStage(x, p, op) /\ LaidOut(x, op)

-----------------------------------------------------------------------------
(* How far a commit came.                                                  *)

Rest(image, k) == LET order == AllocatedRanges(image) IN SubSeq(order, k + 1, Len(order))
\* The first k blocks of the commit are in v.
Written(v, image, k) == \A i \in 1..k : v[AllocatedRanges(image)[i]] = image[AllocatedRanges(image)[i]]

-----------------------------------------------------------------------------
(* Batches of rows.                                                        *)

\* Rows with adjacent targets are copied together.
AddRow(rows, both, acc, row) ==
    IF acc # <<>> /\ Len(Last(acc)) < Interval /\ Joins(Last(Last(acc)), row, both)
    THEN [acc EXCEPT ![Len(acc)] = Append(@, row)] ELSE Append(acc, <<row>>)
\* The first i rows are in batches.
Batched(rows, both, i, acc) ==
    /\ acc \in Seq(Seq(Range(rows)))
    /\ \A j \in 1..i : \E k \in DOMAIN acc : rows[j] \in Range(acc[k])
AddFold == INSTANCE FoldInduction WITH Step <- AddRow, Inv <- Batched
\* Each batch is copied and synced.
SyncBatch(batches, o, done, batch) == done \o <<Copy(batch), Flush>>
\* The first i batches are in the script.
BatchesSynced(batches, o, i, done) ==
    /\ IsScript(done)
    /\ \A k \in DOMAIN done : done[k] = Flush \/ \E j \in DOMAIN batches : done[k] = Copy(batches[j])
    /\ \A j \in 1..i : \E k \in DOMAIN done : done[k] = Copy(batches[j])
    /\ done # <<>> => done[Len(done)] = Flush
SyncFold == INSTANCE FoldInduction WITH Step <- SyncBatch, Inv <- BatchesSynced

\* A row more is in a batch, and so are those before it.
LEMMA RowJoins ==
  ASSUME NEW rows, NEW both, NEW i \in Nat, i + 1 \in DOMAIN rows, NEW acc, Batched(rows, both, i, acc)
  PROVE  Batched(rows, both, i + 1, AddRow(rows, both, acc, rows[i + 1]))
<1>. DEFINE R == Range(rows)
            row == rows[i + 1]
            w == AddRow(rows, both, acc, row)
            n == Len(acc)
<1>1. acc \in Seq(Seq(R)) /\ n \in Nat /\ row \in R
      /\ \A j \in 1..i : \E k \in DOMAIN acc : rows[j] \in Range(acc[k])
  BY DEF Batched, Range
<1>2. \A j \in 1..(i + 1) : j \in 1..i \/ rows[j] = row
  OBVIOUS
<1>3. \A s \in Seq(R) : Append(s, row) \in Seq(R) /\ Range(Append(s, row)) = Range(s) \union {row}
  BY <1>1, RangeOfAppend
<1>4. <<row>> \in Seq(R) /\ row \in Range(<<row>>)
  <2>1. row \in R
    BY <1>1
  <2>. HIDE DEF R, row
  <2>. QED BY <2>1 DEF Range
<1>5. CASE w = Append(acc, <<row>>)
  <2>1. w \in Seq(Seq(R)) /\ DOMAIN w = 1..(n + 1) /\ w[n + 1] = <<row>> /\ \A k \in DOMAIN acc : k \in DOMAIN w /\ w[k] = acc[k]
    <3>. HIDE DEF R, row, w
    <3>. QED BY <1>1, <1>4, <1>5
  <2>2. n + 1 \in DOMAIN w
    <3>. HIDE DEF R, row, w
    <3>. QED BY <1>1, <2>1
  <2>. HIDE DEF R, row, w, n
  <2>. QED BY <1>1, <1>2, <1>4, <2>1, <2>2 DEF Batched, R, row, w
<1>6. CASE acc # <<>> /\ w = [acc EXCEPT ![n] = Append(@, row)]
  <2>1. n \in DOMAIN acc /\ acc[n] \in Seq(R) /\ DOMAIN acc = 1..n
    <3>. HIDE DEF R, row, w
    <3>. QED BY <1>1, <1>6
  <2>2. /\ w \in Seq(Seq(R)) /\ DOMAIN w = DOMAIN acc /\ w[n] = Append(acc[n], row)
        /\ \A k \in DOMAIN acc : k # n => w[k] = acc[k]
    <3>1. Append(acc[n], row) \in Seq(R)
      BY <1>3, <2>1
    <3>. HIDE DEF R, row, w
    <3>. QED BY <1>1, <1>6, <2>1, <3>1
  <2>3. Range(w[n]) = Range(acc[n]) \union {row}
    BY <1>3, <2>1, <2>2
  <2>4. \A k \in DOMAIN acc : Range(acc[k]) \subseteq Range(w[k])
    <3>. HIDE DEF R, row, w, n
    <3>. QED BY <2>2, <2>3
  <2>. HIDE DEF R, row, w, n
  <2>. QED BY <1>1, <1>2, <2>1, <2>2, <2>3, <2>4 DEF Batched, R, row, w
<1>7. w = Append(acc, <<row>>) \/ (acc # <<>> /\ w = [acc EXCEPT ![n] = Append(@, row)])
  BY DEF AddRow
<1>. QED BY <1>5, <1>6, <1>7

\* A batch more is in the script, and a sync after it.
LEMMA BatchSyncs ==
  ASSUME NEW batches, NEW o, NEW i \in Nat, i + 1 \in DOMAIN batches, NEW done, BatchesSynced(batches, o, i, done)
  PROVE  BatchesSynced(batches, o, i + 1, SyncBatch(batches, o, done, batches[i + 1]))
<1>. DEFINE copy == Copy(batches[i + 1])
            w == SyncBatch(batches, o, done, batches[i + 1])
            n == Len(done)
            S == Range(done) \union {copy, Flush}
<1>1. /\ done \in Seq(S) /\ n \in Nat /\ copy \in S /\ Flush \in S /\ w = done \o <<copy, Flush>>
      /\ DOMAIN done = 1..n
  <2>1. done \in Seq(Range(done))
    BY DEF BatchesSynced, IsScript
  <2>. HIDE DEF copy
  <2>. QED BY <2>1 DEF SyncBatch, copy
<1>. HIDE DEF S, w, copy
<1>2. /\ w \in Seq(S) /\ Len(w) = n + 2 /\ DOMAIN w = 1..(n + 2)
      /\ \A k \in 1..n : w[k] = done[k]
      /\ w[n + 1] = copy /\ w[n + 2] = Flush
  BY <1>1
<1>. HIDE DEF n
<1>3. IsScript(w)
  <2>. DEFINE U == Range(w)
  <2>1. \A k \in 1..Len(w) : w[k] \in U
    BY <1>2 DEF Range
  <2>. HIDE DEF U
  <2>2. w \in Seq(U)
    BY <1>2, <2>1
  <2>. QED BY <2>2 DEF IsScript, U
<1>4. \A k \in DOMAIN w : k \in 1..n \/ k = n + 1 \/ k = n + 2
  BY <1>1, <1>2
<1>5. \A k \in DOMAIN w : w[k] = Flush \/ \E j \in DOMAIN batches : w[k] = Copy(batches[j])
  BY <1>1, <1>2, <1>4 DEF BatchesSynced, copy
<1>6. \A j \in 1..(i + 1) : j \in 1..i \/ j = i + 1
  OBVIOUS
<1>7. n + 1 \in DOMAIN w /\ \A k \in 1..n : k \in DOMAIN w
  BY <1>1, <1>2
<1>8. \A j \in 1..(i + 1) : \E k \in DOMAIN w : w[k] = Copy(batches[j])
  BY <1>1, <1>2, <1>6, <1>7 DEF BatchesSynced, copy
<1>. QED BY <1>2, <1>3, <1>5, <1>8 DEF BatchesSynced, w

\* The batches hold every row, and nothing else.
LEMMA BatchesAre ==
  ASSUME NEW R, NEW rows \in Seq(R), NEW both
  PROVE  RowScript(Batches(rows, both), rows)
<1>. DEFINE batches == AddFold!Folded(rows, both, <<>>, rows)
            todo == SyncFold!Folded(batches, both, <<>>, batches)
<1>1. Batches(rows, both) = todo
  BY DEF Batches, Accumulate, Once, AddFold!Folded, SyncFold!Folded, AddRow, SyncBatch,
         FoldLeft, AddFold!FoldLeft, MapThenFoldSet, AddFold!MapThenFoldSet, Max, AddFold!Max,
         SyncFold!FoldLeft, SyncFold!MapThenFoldSet, SyncFold!Max
<1>2. Len(rows) \in Nat /\ DOMAIN rows = 1..Len(rows)
  OBVIOUS
<1>3. Batched(rows, both, Len(rows), batches)
  <2>1. Batched(rows, both, 0, <<>>)
    BY DEF Batched
  <2>2. \A i \in 1..Len(rows) : \A p : Batched(rows, both, i - 1, p) => Batched(rows, both, i, AddRow(rows, both, p, rows[i]))
    <3>. TAKE i \in 1..Len(rows)
    <3>. TAKE p
    <3>. HAVE Batched(rows, both, i - 1, p)
    <3>1. i - 1 \in Nat /\ i - 1 + 1 = i /\ i \in DOMAIN rows
      BY <1>2
    <3>2. \A j \in Nat : j + 1 \in DOMAIN rows /\ Batched(rows, both, j, p) => Batched(rows, both, j + 1, AddRow(rows, both, p, rows[j + 1]))
      BY RowJoins
    <3>3. Batched(rows, both, i - 1 + 1, AddRow(rows, both, p, rows[i - 1 + 1]))
      BY <3>1, <3>2
    <3>. QED BY <3>1, <3>3
  <2>. QED BY <1>2, <2>1, <2>2, AddFold!FoldKeeps
<1>. HIDE DEF batches
<1>4. /\ batches \in Seq(Seq(Range(rows))) /\ Len(batches) \in Nat /\ DOMAIN batches = 1..Len(batches)
      /\ \A j \in DOMAIN rows : \E k \in DOMAIN batches : rows[j] \in Range(batches[k])
      /\ \A k \in DOMAIN batches : batches[k] \in Seq(Range(rows))
  <2>. DEFINE T == Seq(Range(rows))
  <2>1. batches \in Seq(T) /\ \A j \in 1..Len(rows) : \E k \in DOMAIN batches : rows[j] \in Range(batches[k])
    BY <1>3 DEF Batched
  <2>. HIDE DEF T
  <2>2. Len(batches) \in Nat /\ DOMAIN batches = 1..Len(batches) /\ \A k \in DOMAIN batches : batches[k] \in T
    BY <2>1
  <2>. QED BY <1>2, <2>1, <2>2 DEF T
<1>5. BatchesSynced(batches, both, Len(batches), todo)
  <2>1. BatchesSynced(batches, both, 0, <<>>)
    BY DEF BatchesSynced, IsScript
  <2>2. \A i \in 1..Len(batches) : \A p : BatchesSynced(batches, both, i - 1, p)
           => BatchesSynced(batches, both, i, SyncBatch(batches, both, p, batches[i]))
    <3>. TAKE i \in 1..Len(batches)
    <3>. TAKE p
    <3>. HAVE BatchesSynced(batches, both, i - 1, p)
    <3>1. i - 1 \in Nat /\ i - 1 + 1 = i /\ i \in DOMAIN batches
      BY <1>4
    <3>2. \A j \in Nat : j + 1 \in DOMAIN batches /\ BatchesSynced(batches, both, j, p)
             => BatchesSynced(batches, both, j + 1, SyncBatch(batches, both, p, batches[j + 1]))
      BY BatchSyncs
    <3>3. BatchesSynced(batches, both, i - 1 + 1, SyncBatch(batches, both, p, batches[i - 1 + 1]))
      BY <3>1, <3>2
    <3>. QED BY <3>1, <3>3
  <2>. QED BY <1>4, <2>1, <2>2, SyncFold!FoldKeeps
<1>. HIDE DEF todo
<1>6. \A k \in DOMAIN todo : todo[k] = Flush \/ (todo[k] = Copy(todo[k][2]) /\ todo[k][2] \in Seq(Range(rows)))
  <2>. TAKE k \in DOMAIN todo
  <2>1. todo[k] = Flush \/ \E j \in DOMAIN batches : todo[k] = Copy(batches[j])
    BY <1>5 DEF BatchesSynced
  <2>2. CASE \E j \in DOMAIN batches : todo[k] = Copy(batches[j])
    <3>1. PICK j \in DOMAIN batches : todo[k] = Copy(batches[j])
      BY <2>2
    <3>2. todo[k][2] = batches[j]
      BY <3>1, StepKinds
    <3>. QED BY <1>4, <3>1, <3>2
  <2>. QED BY <2>1, <2>2
<1>7. ASSUME NEW j \in DOMAIN rows PROVE \E k \in DOMAIN todo : todo[k] = Copy(todo[k][2]) /\ rows[j] \in Range(todo[k][2])
  <2>1. PICK i \in DOMAIN batches : rows[j] \in Range(batches[i])
    BY <1>4
  <2>2. PICK k \in DOMAIN todo : todo[k] = Copy(batches[i])
    BY <1>4, <1>5 DEF BatchesSynced
  <2>3. todo[k][2] = batches[i]
    BY <2>2, StepKinds
  <2>. QED BY <2>1, <2>2, <2>3
<1>8. IsScript(todo) /\ (todo # <<>> => todo[Len(todo)] = Flush)
  BY <1>5 DEF BatchesSynced
<1>. QED BY <1>1, <1>6, <1>7, <1>8 DEF RowScript

-----------------------------------------------------------------------------
(* What the working image makes of the volume.                             *)

\* What is left to write after k blocks.
LEMMA RestIs ==
  ASSUME NEW image, IsVolume(image), NEW k, k \in 0..Len(AllocatedRanges(image))
  PROVE  /\ k \in Nat /\ Len(AllocatedRanges(image)) \in Nat /\ k <= Len(AllocatedRanges(image))
         /\ Rest(image, k) \in Seq(Blocks) /\ Len(Rest(image, k)) = Len(AllocatedRanges(image)) - k
         /\ Rest(image, k) = <<>> <=> k = Len(AllocatedRanges(image))
         /\ Rest(image, 0) = AllocatedRanges(image)
         /\ \A b \in Carries(image) : b \in Range(Rest(image, k)) \/ \E i \in 1..k : b = AllocatedRanges(image)[i]
         /\ Rest(image, k) # <<>> => /\ Head(Rest(image, k)) = AllocatedRanges(image)[k + 1]
                                     /\ Tail(Rest(image, k)) = Rest(image, k + 1)
                                     /\ k + 1 \in 0..Len(AllocatedRanges(image))
                                     /\ AllocatedRanges(image)[k + 1] \in Blocks
<1>. DEFINE order == AllocatedRanges(image)
            n == Len(order)
            rest == Rest(image, k)
<1>1. order \in Seq(Blocks) /\ Carries(image) \subseteq Range(order)
  <2>1. image[Bitmap] \subseteq Cells
    BY CellsInside
  <2>2. AddressOrder(image[Bitmap]) \in Seq(Blocks) /\ Range(AddressOrder(image[Bitmap])) = Carries(image)
    BY <2>1, AddressOrderIs DEF Carries
  <2>. QED BY <2>2 DEF AllocatedRanges
<1>. HIDE DEF order
<1>2. n \in Nat /\ DOMAIN order = 1..n /\ \A i \in 1..n : order[i] \in Blocks
  BY <1>1
<1>3. k \in Nat /\ k <= n
  BY <1>2 DEF order
<1>4. rest = SubSeq(order, k + 1, n)
  BY DEF Rest, order
<1>5. rest = [i \in 1..(n - k) |-> order[i + k]] /\ rest \in Seq(Blocks) /\ Len(rest) = n - k
  <2>1. SubSeq(order, k + 1, n) = [i \in 1..(n - k) |-> order[i + k]]
    BY <1>1, <1>2, <1>3
  <2>2. \A i \in 1..(n - k) : i + k \in 1..n
    BY <1>2, <1>3
  <2>3. [i \in 1..(n - k) |-> order[i + k]] \in Seq(Blocks)
    BY <1>2, <1>3, <2>2
  <2>4. rest = [i \in 1..(n - k) |-> order[i + k]]
    BY <1>4, <2>1
  <2>. HIDE DEF rest, n
  <2>. QED BY <1>2, <1>3, <2>3, <2>4
<1>6. Rest(image, 0) = order
  <2>1. Rest(image, 0) = SubSeq(order, 1, n)
    BY DEF Rest, order
  <2>. QED BY <1>1, <2>1
<1>7. ASSUME NEW b \in Carries(image) PROVE b \in Range(rest) \/ \E i \in 1..k : b = order[i]
  <2>1. PICK i \in 1..n : b = order[i]
    BY <1>1, <1>2 DEF Range
  <2>2. CASE i <= k
    BY <1>3, <2>1, <2>2
  <2>3. CASE i > k
    <3>1. i - k \in 1..(n - k) /\ (i - k) + k = i
      BY <1>2, <1>3, <2>3
    <3>. HIDE DEF rest, n
    <3>2. rest[i - k] = b /\ i - k \in DOMAIN rest
      BY <1>5, <2>1, <3>1
    <3>. QED BY <3>2 DEF Range
  <2>. QED BY <1>2, <1>3, <2>2, <2>3
<1>8. rest = <<>> <=> k = n
  <2>. HIDE DEF rest, n
  <2>. QED BY <1>2, <1>3, <1>5
<1>9. ASSUME rest # <<>>
      PROVE  Head(rest) = order[k + 1] /\ Tail(rest) = Rest(image, k + 1) /\ k + 1 \in 0..n /\ order[k + 1] \in Blocks
  <2>1. k < n
    <3>1. k # n
      BY <1>8, <1>9
    <3>. HIDE DEF n
    <3>. QED BY <1>2, <1>3, <3>1
  <2>2. k + 1 \in 0..n /\ k + 1 \in 1..n /\ 1 \in 1..(n - k)
    BY <1>2, <1>3, <2>1
  <2>3. Rest(image, k + 1) = SubSeq(order, (k + 1) + 1, n)
    BY DEF Rest, order
  <2>4. SubSeq(order, (k + 1) + 1, n) = [i \in 1..(n - (k + 1)) |-> order[i + (k + 1)]]
    BY <1>1, <1>2, <2>2
  <2>. HIDE DEF rest, n
  <2>5. Head(rest) = order[k + 1]
    BY <1>3, <1>5, <2>2
  <2>6. Tail(rest) = [i \in 1..((n - k) - 1) |-> rest[i + 1]]
    BY <1>2, <1>3, <1>5, <2>1
  <2>7. \A i \in 1..((n - k) - 1) : rest[i + 1] = order[i + (k + 1)]
    <3>1. \A i \in 1..((n - k) - 1) : i + 1 \in 1..(n - k) /\ (i + 1) + k = i + (k + 1)
      BY <1>2, <1>3
    <3>. QED BY <1>5, <3>1
  <2>8. (n - k) - 1 = n - (k + 1)
    BY <1>2, <1>3
  <2>9. Tail(rest) = [i \in 1..(n - (k + 1)) |-> order[i + (k + 1)]]
    BY <2>6, <2>7, <2>8
  <2>10. Tail(rest) = Rest(image, k + 1)
    BY <2>3, <2>4, <2>9 DEF n
  <2>. QED BY <1>2, <2>2, <2>5, <2>10
<1>. QED BY <1>2, <1>3, <1>5, <1>6, <1>7, <1>8, <1>9 DEF order

\* A volume that agrees with a verified one on all it carries is verified too.
LEMMA VerifiedSame ==
  ASSUME NEW x, NEW op, NEW p, Verified(x, op, p), NEW y, IsVolume(y), Agree(y, x, Carries(x))
  PROVE  Verified(y, op, p) /\ Maps(y) = Maps(x) /\ Contents(y) = Contents(x)
<1>1. IsVolume(x) /\ Sound(x) /\ Exclusive(x) /\ Contents(x) = owner /\ VerifyStage(x, p, op) /\ LaidOut(x, op)
  BY DEF Verified, Sound
<1>2. /\ \A f \in Files : y[MapOf(f)] = x[MapOf(f)] /\ CellsOf(y, f) = CellsOf(x, f)
      /\ Maps(y) = Maps(x) /\ Contents(y) = Contents(x) /\ FreeCells(y) = FreeCells(x) /\ Sound(y)
      /\ \A f \in Files : ReserveAfter(y, f, op) = ReserveAfter(x, f, op)
  <2>1. Exclusive(x) /\ Agree(y, x, Carries(x)) /\ Sound(x)
    BY <1>1
  <2>2. /\ y[Bitmap] = x[Bitmap] /\ y[Header] = x[Header]
        /\ \A f \in Files : y[MapOf(f)] = x[MapOf(f)] /\ CellsOf(y, f) = CellsOf(x, f)
        /\ Maps(y) = Maps(x) /\ Contents(y) = Contents(x)
        /\ Movable(y) = Movable(x) /\ FreeCells(y) = FreeCells(x) /\ Carries(y) = Carries(x)
        /\ Exclusive(y) /\ (Sound(x) => Sound(y))
        /\ \A f \in Files : \A o : ReserveAfter(y, f, o) = ReserveAfter(x, f, o)
    BY <2>1, AgreeIsSame
  <2>. QED BY <1>1, <2>2
<1>3. Growth10Satisfied(y) <=> Growth10Satisfied(x)
  BY <1>2 DEF Growth10Satisfied, AllocationIsContiguous
<1>4. VerifyStage(y, p, op)
  BY <1>1, <1>2, <1>3 DEF VerifyStage
<1>5. LaidOut(y, op)
  BY <1>1, <1>2 DEF LaidOut
<1>. QED BY <1>1, <1>2, <1>4, <1>5 DEF Verified

\* What a volume becomes when the rest of a commit is written to it.
LEMMA RestSettles ==
  ASSUME NEW image, NEW op, NEW p, Verified(image, op, p), NEW v, IsVolume(v),
         NEW k, k \in 0..Len(AllocatedRanges(image)), Written(v, image, k),
         NEW u, u = Overlay(v, image, Range(Rest(image, k)))
  PROVE  Verified(u, op, p) /\ Agree(u, image, Carries(image))
<1>1. IsVolume(image)
  BY DEF Verified
<1>2. u = [b \in Blocks |-> u[b]] /\ \A b \in Blocks : u[b] = IF b \in Range(Rest(image, k)) THEN image[b] ELSE v[b]
  BY DEF Overlay
<1>3. IsVolume(u)
  BY <1>1, <1>2, MixIsVolume
<1>4. Agree(u, image, Carries(image))
  <2>1. \A b \in Carries(image) : b \in Range(Rest(image, k)) \/ \E i \in 1..k : b = AllocatedRanges(image)[i]
    BY <1>1, RestIs
  <2>2. Carries(image) \subseteq Blocks
    BY <1>1, CarriesAre
  <2>. QED BY <1>2, <2>1, <2>2 DEF Agree, Written
<1>. QED BY <1>3, <1>4, VerifiedSame

-----------------------------------------------------------------------------
(* Planning.                                                               *)

\* Where the cells of the files of v go, by where the files start.
MovesFrom(v, start) ==
    [old \in Movable(v) |->
        LET f == CHOOSE g \in Files : old \in CellsOf(v, g)
            j == CHOOSE i \in DOMAIN v[MapOf(f)] : v[MapOf(f)][i] = old
        IN start[f] + j - 1]
TargetsFrom(start, digest) == UNION {Range(Run(start[f], Len(digest[f]))) : f \in Files}
ReservesFrom(start, digest, op) ==
    UNION {LET end == start[f] + Len(digest[f])
           IN end..(end + Reserve(op, Len(digest[f])) - 1) : f \in Files}

\* Only the starts and the digests of a plan say where the files go.
LEMMA SamePlan ==
  ASSUME NEW v, NEW p, NEW db, p.start = db.start, p.digest = db.digest, NEW op
  PROVE  /\ Moves(v, p) = Moves(v, db) /\ TargetRanges(p) = TargetRanges(db)
         /\ ReserveRanges(p, op) = ReserveRanges(db, op)
         /\ \A f : FileTarget(p, f) = FileTarget(db, f)
         /\ AimsWell(v, op, db) => AimsWell(v, op, p)
<1>1. \A d : /\ Moves(v, d) = MovesFrom(v, d.start)
             /\ TargetRanges(d) = TargetsFrom(d.start, d.digest)
             /\ ReserveRanges(d, op) = ReservesFrom(d.start, d.digest, op)
  BY DEF Moves, MovesFrom, TargetRanges, TargetsFrom, FileTarget, ReserveRanges, ReservesFrom
<1>2. \A f : FileTarget(p, f) = FileTarget(db, f)
  BY DEF FileTarget
<1>3. AimsWell(v, op, db) => AimsWell(v, op, p)
  BY DEF AimsWell
<1>. QED BY <1>1, <1>2, <1>3

\* The parts of a plan.
LEMMA PreparedParts ==
  ASSUME NEW v, NEW plan, NEW op, NEW start, NEW db, db = PopulatePlan(v, plan),
         NEW p, p = PrepareWorkspace(v, db, op, start)
  PROVE  /\ HasParts(p) /\ p.start = plan.start /\ p.digest = Contents(v)
         /\ p.moves = Moves(v, db) /\ p.reserves = ReserveRanges(db, op)
         /\ p.maps = Maps(v) /\ p.used = v[Bitmap] /\ p.slots = Slots(AllocatedRanges(v), start)
         /\ db.start = plan.start /\ db.digest = Contents(v)
<1>1. db = [start |-> plan.start, digest |-> Contents(v)]
  BY DEF PopulatePlan
<1>. QED BY <1>1 DEF HasParts, PrepareWorkspace

\* What the planner and the workspace it found make a plan.
LEMMA PreparedIsPlan ==
  ASSUME NEW v, IsVolume(v), Sound(v), NEW op, NEW plan, plan = ExtAssignTargets(v, op), plan.fits,
         NEW db, db = PopulatePlan(v, plan), NEW start, start = FindHighWorkspace(v, db, op), start # 0,
         NEW p, p = PrepareWorkspace(v, db, op, start)
  PROVE  PlanOf(v, op, p) /\ HasParts(p)
<1>. DEFINE order == AllocatedRanges(v)
            n == Len(order)
            avoid == TargetRanges(db) \union ReserveRanges(db, op)
<1>1. /\ HasParts(p) /\ p.start = db.start /\ p.digest = db.digest
      /\ p.moves = Moves(v, db) /\ p.reserves = ReserveRanges(db, op)
      /\ p.maps = Maps(v) /\ p.used = v[Bitmap] /\ p.slots = Slots(AllocatedRanges(v), start)
      /\ db.start = plan.start /\ db.digest = Contents(v)
  BY PreparedParts
<1>2. AimsWell(v, op, db)
  <2>1. Complete(FileOrder)
    BY FileNumbers, FilesAssumption DEF Complete
  <2>2. plan = AssignTargets(v, op, FileOrder)
    BY DEF ExtAssignTargets
  <2>. QED BY <1>1, <2>1, <2>2, AssignedAimsWell
<1>3. /\ Moves(v, p) = Moves(v, db) /\ TargetRanges(p) = TargetRanges(db)
      /\ ReserveRanges(p, op) = ReserveRanges(db, op) /\ AimsWell(v, op, p)
  BY <1>1, <1>2, SamePlan
<1>4. order \in Seq(Blocks) /\ Range(order) = Carries(v)
  <2>1. v[Bitmap] \subseteq Cells
    BY CellsInside
  <2>. QED BY <2>1, AddressOrderIs DEF AllocatedRanges, Carries
<1>5. n \in Nat
  BY <1>4
<1>6. start \in Nat /\ start..(start + n - 1) \subseteq FreeCells(v) \ avoid
  <2>1. start = HighWorkspace(FreeCells(v), n, N, avoid)
    BY DEF FindHighWorkspace
  <2>. HIDE DEF n, avoid
  <2>2. start \in Cells /\ start..(start + n - 1) \subseteq FreeCells(v) \ avoid
    BY <1>5, <2>1, CellsAssumption, HighWorkspaceIs
  <2>. QED BY <2>2 DEF Cells
<1>7. IsShelf(v, Slots(order, start), avoid) /\ DOMAIN Slots(order, start) = Range(order)
  <2>. HIDE DEF order, avoid
  <2>1. Range(order) \subseteq Carries(v)
    BY <1>4
  <2>. QED BY <1>4, <1>6, <2>1, SlotsAreShelf DEF n
<1>. QED BY <1>1, <1>3, <1>4, <1>7 DEF PlanOf

\* The parts of the definition of a plan, and what follows from them.
LEMMA PlanFacts ==
  ASSUME NEW v, NEW op, NEW p, PlanOf(v, op, p)
  PROVE  /\ IsVolume(v) /\ Sound(v) /\ Exclusive(v) /\ AimsWell(v, op, p)
         /\ p.moves = Moves(v, p) /\ DOMAIN p.moves = Movable(v) /\ Movable(v) \subseteq v[Bitmap] /\ v[Bitmap] \subseteq Cells
         /\ TargetRanges(p) = Range(p.moves) /\ TargetRanges(p) \subseteq Cells
         /\ TargetRanges(p) \subseteq FreeCells(v) \union Movable(v)
         /\ \A c, d \in Movable(v) : p.moves[c] = p.moves[d] => c = d
         /\ \A b \in DOMAIN p.slots : /\ p.slots[b] \in Blocks /\ p.slots[b] \notin Carries(v)
                                      /\ \E c \in FreeCells(v) : p.slots[b] = Cell(c) /\ c \notin TargetRanges(p)
         /\ DOMAIN p.slots = Carries(v) /\ Carries(v) \subseteq Blocks
<1>1. /\ IsVolume(v) /\ Sound(v) /\ AimsWell(v, op, p) /\ p.moves = Moves(v, p)
      /\ IsShelf(v, p.slots, TargetRanges(p) \union ReserveRanges(p, op)) /\ DOMAIN p.slots = Carries(v)
  BY DEF PlanOf
<1>2. Exclusive(v)
  BY <1>1 DEF Sound
<1>3. Movable(v) \subseteq v[Bitmap] /\ v[Bitmap] \subseteq Cells
  <2>1. \A f \in Files : CellsOf(v, f) \subseteq v[Bitmap]
    BY <1>2 DEF Exclusive
  <2>. QED BY <1>1, <2>1, CellsInside DEF Movable
<1>4. p.moves = [c \in Movable(v) |-> p.moves[c]]
  BY <1>1, MovesToTargets
<1>5. DOMAIN p.moves = Movable(v)
  <2>. DEFINE M == p.moves
  <2>1. M = [c \in Movable(v) |-> M[c]]
    BY <1>4
  <2>. HIDE DEF M
  <2>2. DOMAIN M = Movable(v)
    BY <2>1
  <2>. QED BY <2>2 DEF M
<1>6. TargetRanges(p) = Range(p.moves)
  BY <1>1, <1>2, TargetsAreMoves
<1>7. TargetRanges(p) \subseteq FreeCells(v) \union Movable(v)
  BY <1>1, TargetsInside
<1>8. TargetRanges(p) \subseteq Cells
  BY <1>3, <1>7 DEF FreeCells
<1>9. \A c, d \in Movable(v) : p.moves[c] = p.moves[d] => c = d
  <2>1. \A c, d \in Movable(v) : Moves(v, p)[c] = Moves(v, p)[d] => c = d
    <3>1. IsVolume(v) /\ Exclusive(v) /\ AimsWell(v, op, p)
      BY <1>1, <1>2
    <3>2. /\ \A f \in Files : \A j \in DOMAIN v[MapOf(f)] :
               /\ v[MapOf(f)][j] \in Movable(v)
               /\ Moves(v, p)[v[MapOf(f)][j]] = p.start[f] + j - 1
               /\ p.start[f] + j - 1 \in Range(FileTarget(p, f))
         /\ \A c, d \in Movable(v) : Moves(v, p)[c] = Moves(v, p)[d] => c = d
      BY <3>1, MovesApart, SMTT(60)
    <3>. QED BY <3>2
  <2>. QED BY <1>1, <2>1
<1>10. Carries(v) \subseteq Blocks /\ \A c \in FreeCells(v) : Cell(c) \notin Carries(v) /\ c \in Cells
  BY <1>1, CarriesAre
<1>11. ASSUME NEW b \in DOMAIN p.slots
       PROVE  /\ p.slots[b] \in Blocks /\ p.slots[b] \notin Carries(v)
              /\ \E c \in FreeCells(v) : p.slots[b] = Cell(c) /\ c \notin TargetRanges(p)
  <2>1. PICK c \in FreeCells(v) \ (TargetRanges(p) \union ReserveRanges(p, op)) : p.slots[b] = Cell(c)
    BY <1>1 DEF IsShelf
  <2>. QED BY <1>10, <2>1, BlockSet
<1>. QED BY <1>1, <1>2, <1>3, <1>5, <1>6, <1>7, <1>8, <1>9, <1>10, <1>11

\* The new layout, with the copies in their slots and the rest as it was.
LEMMA NewLayoutIs ==
  ASSUME NEW v, NEW op, NEW p, PlanOf(v, op, p), NEW w, w = NewLayout(v, p)
  PROVE  /\ IsRenewed(v, p, w) /\ IsVolume(w)
         /\ \A c \in Movable(v) : w[Cell(p.moves[c])] = v[Cell(c)]
         /\ \A b \in DOMAIN p.slots : w[p.slots[b]] = WithCopies(v, p.slots)[p.slots[b]]
         /\ \A c \in v[Bitmap] \ TargetRanges(p) : w[Cell(c)] = v[Cell(c)]
         /\ w[Header] = v[Header]
<1>. DEFINE M == p.moves
            S == p.slots
            u == WithCopies(v, S)
            hit(b) == \E c \in Movable(v) : b = Cell(M[c])
            from(b) == CHOOSE c \in Movable(v) : b = Cell(M[c])
<1>1. /\ IsVolume(v) /\ Sound(v) /\ Exclusive(v) /\ AimsWell(v, op, p)
      /\ M = Moves(v, p) /\ DOMAIN M = Movable(v) /\ Movable(v) \subseteq v[Bitmap] /\ v[Bitmap] \subseteq Cells
      /\ TargetRanges(p) = Range(M) /\ TargetRanges(p) \subseteq Cells
      /\ TargetRanges(p) \subseteq FreeCells(v) \union Movable(v)
      /\ \A c, d \in Movable(v) : M[c] = M[d] => c = d
      /\ \A b \in DOMAIN S : /\ S[b] \in Blocks /\ S[b] \notin Carries(v)
                             /\ \E c \in FreeCells(v) : S[b] = Cell(c) /\ c \notin TargetRanges(p)
      /\ DOMAIN S = Carries(v) /\ Carries(v) \subseteq Blocks
  BY PlanFacts
<1>2. /\ IsVolume(u) /\ Agree(u, v, Carries(v))
  <2>1. IsShelf(v, S, TargetRanges(p) \union ReserveRanges(p, op))
    BY DEF PlanOf
  <2>. HIDE DEF S
  <2>2. /\ IsVolume(u)
        /\ \A b \in DOMAIN S : /\ u[S[b]] = Carry(v, b, S[b]) /\ u[b] = v[b]
                               /\ Carry(u, b, S[b]) = u[S[b]]
                               /\ Carry(u, S[b], b) = u[b]
                               /\ S[b] \in Blocks /\ S[b] \notin Carries(v)
        /\ \A b \in Blocks : (\A x \in DOMAIN S : b # S[x]) => u[b] = v[b]
        /\ Agree(u, v, Carries(v))
    BY <1>1, <2>1, CopiesAre
  <2>. QED BY <2>2
<1>3. w = [b \in Blocks |-> IF b[1] = "map" THEN FileTarget(p, b[2])
                            ELSE IF b = Bitmap THEN NewUsed(v, p)
                            ELSE IF hit(b) THEN v[Cell(from(b))] ELSE u[b]]
  BY <1>1 DEF NewLayout
<1>. HIDE DEF M, S, u
<1>4. \A c \in Movable(v) : c \in Cells /\ M[c] \in Cells /\ M[c] \in TargetRanges(p)
  <2>1. \A c \in Movable(v) : M[c] \in Range(M)
    BY <1>1 DEF Range
  <2>. QED BY <1>1, <2>1
<1>5. ASSUME NEW c \in Movable(v) PROVE w[Cell(M[c])] = v[Cell(c)]
  <2>1. Cell(M[c]) \in Blocks
    BY <1>4, BlockSet
  <2>2. hit(Cell(M[c]))
    OBVIOUS
  <2>3. from(Cell(M[c])) \in Movable(v) /\ Cell(M[c]) = Cell(M[from(Cell(M[c]))])
    BY <2>2
  <2>4. from(Cell(M[c])) = c
    <3>. HIDE DEF from
    <3>. QED BY <1>1, <2>3, BlockNames
  <2>5. Cell(M[c])[1] # "map" /\ Cell(M[c]) # Bitmap
    BY BlockNames
  <2>. HIDE DEF hit, from
  <2>. QED BY <1>3, <2>1, <2>2, <2>4, <2>5
<1>6. ASSUME NEW b \in Blocks, b[1] # "map", b # Bitmap, \A t \in TargetRanges(p) : b # Cell(t)
      PROVE  w[b] = u[b]
  <2>1. ~ hit(b)
    BY <1>4, <1>6
  <2>. HIDE DEF hit, from
  <2>. QED BY <1>3, <1>6, <2>1
<1>7. ASSUME NEW b \in DOMAIN S PROVE w[S[b]] = u[S[b]]
  <2>1. PICK c \in FreeCells(v) : S[b] = Cell(c) /\ c \notin TargetRanges(p)
    BY <1>1
  <2>2. S[b] \in Blocks /\ S[b][1] # "map" /\ S[b] # Bitmap /\ \A t \in TargetRanges(p) : S[b] # Cell(t)
    BY <1>1, <2>1, BlockNames
  <2>. QED BY <1>6, <2>2
<1>8. ASSUME NEW c \in v[Bitmap] \ TargetRanges(p) PROVE w[Cell(c)] = v[Cell(c)]
  <2>1. Cell(c) \in Blocks /\ Cell(c)[1] # "map" /\ Cell(c) # Bitmap /\ \A t \in TargetRanges(p) : Cell(c) # Cell(t)
    BY <1>1, BlockNames, BlockSet
  <2>2. Cell(c) \in Carries(v)
    BY DEF Carries
  <2>. QED BY <1>2, <1>6, <2>1, <2>2 DEF Agree
<1>9. w[Header] = v[Header]
  <2>1. Header \in Blocks /\ Header[1] # "map" /\ Header # Bitmap /\ \A t : Header # Cell(t)
    BY BlockNames, BlockSet
  <2>2. Header \in Carries(v)
    BY DEF Carries
  <2>. QED BY <1>2, <1>6, <2>1, <2>2 DEF Agree
<1>10. IsRenewed(v, p, w)
  <2>1. w = [b \in Blocks |-> w[b]]
    <3>. HIDE DEF hit, from
    <3>. QED BY <1>3
  <2>2. w[Header] \in Nat
    BY <1>1, <1>9 DEF IsVolume
  <2>3. w[Bitmap] = NewUsed(v, p)
    <3>1. Bitmap \in Blocks /\ Bitmap[1] # "map"
      BY BlockNames, BlockSet
    <3>. HIDE DEF hit, from
    <3>. QED BY <1>3, <3>1
  <2>4. \A f \in Files : w[MapOf(f)] = FileTarget(p, f)
    <3>1. \A f \in Files : MapOf(f) \in Blocks /\ MapOf(f)[1] = "map" /\ MapOf(f)[2] = f
      BY BlockNames, BlockSet
    <3>. HIDE DEF hit, from
    <3>. QED BY <1>3, <3>1
  <2>5. ASSUME NEW c \in Cells, \A d \in Movable(v) : c # M[d] PROVE Typed(Cell(c), w[Cell(c)])
    <3>1. Cell(c) \in Blocks /\ Cell(c)[1] # "map" /\ Cell(c) # Bitmap
      BY BlockNames, BlockSet
    <3>2. \A t \in TargetRanges(p) : Cell(c) # Cell(t)
      BY <1>1, <2>5, BlockNames DEF Range
    <3>3. w[Cell(c)] = u[Cell(c)]
      BY <1>6, <3>1, <3>2
    <3>. QED BY <1>2, <3>1, <3>3, VolumeIsTyped
  <2>6. \A c \in Movable(v) : w[Cell(M[c])] = v[Cell(c)]
    BY <1>5
  <2>7. \A c \in Cells : (\A d \in Movable(v) : c # M[d]) => Typed(Cell(c), w[Cell(c)])
    BY <2>5
  <2>8. /\ \A c \in Movable(v) : w[Cell(Moves(v, p)[c])] = v[Cell(c)]
        /\ \A c \in Cells : (\A d \in Movable(v) : c # Moves(v, p)[d]) => Typed(Cell(c), w[Cell(c)])
    BY <1>1, <2>6, <2>7
  <2>. QED BY <2>1, <2>2, <2>3, <2>4, <2>8 DEF IsRenewed
<1>11. IsVolume(w)
  BY <1>1, <1>10, RenewedIsGood
<1>. QED BY <1>5, <1>7, <1>8, <1>9, <1>10, <1>11 DEF M, S, u

-----------------------------------------------------------------------------
(* Where the scripts lead.                                                 *)

\* The batches of rows that lead to goal do.
LEMMA RowsNear ==
  ASSUME NEW rows, NEW both, NEW goal, NEW keep, NEW reach, RowsTo(rows, goal, keep, reach),
         keep \subseteq Blocks, reach \subseteq Blocks, keep \intersect reach = {},
         NEW d, NEW c, IsVolume(d), IsVolume(c), Agree(d, goal, keep), Agree(c, goal, keep),
         NEW area, \A b \in area : c[b] = goal[b] \/ \E j \in DOMAIN rows : rows[j][2] = b,
         rows = <<>> => d = c
  PROVE  Nears(Batches(rows, both), d, c, goal, keep, reach, area)
<1>. DEFINE todo == Batches(rows, both)
<1>1. rows \in Seq(Blocks \X Blocks)
  BY DEF RowsTo
<1>2. RowScript(todo, rows)
  BY <1>1, BatchesAre
<1>. HIDE DEF todo
<1>3. Leads(todo, goal, keep, reach) /\ \A j \in DOMAIN rows : rows[j][2] \in Unwritten(todo)
  BY <1>2, RowScriptLeads
<1>4. \A b \in keep : d[b] = goal[b] /\ c[b] = goal[b]
  BY DEF Agree
<1>5. \A b \in area : c[b] = goal[b] \/ b \in Unwritten(todo)
  BY <1>3
<1>6. todo = <<>> => d = c
  <2>. SUFFICES ASSUME todo = <<>> PROVE d = c
    OBVIOUS
  <2>1. \A j \in DOMAIN rows : FALSE
    BY <1>2 DEF RowScript
  <2>2. rows = <<>>
    <3>. DEFINE R == Blocks \X Blocks
    <3>1. rows \in Seq(R)
      BY <1>1
    <3>. HIDE DEF R
    <3>2. Len(rows) \in Nat /\ DOMAIN rows = 1..Len(rows)
      BY <3>1
    <3>3. Len(rows) = 0
      BY <2>1, <3>2
    <3>. QED BY <3>1, <3>3
  <2>. QED BY <2>2
<1>7. Nears(todo, d, c, goal, keep, reach, area)
  BY <1>3, <1>4, <1>5, <1>6 DEF Nears
<1>. QED BY <1>7 DEF todo

\* The blocks in the order of their addresses have their slots.
LEMMA PlanOrder ==
  ASSUME NEW v, NEW op, NEW p, PlanOf(v, op, p)
  PROVE  /\ AddressOrder(p.used) \in Seq(Blocks) /\ Range(AddressOrder(p.used)) = DOMAIN p.slots
         /\ WorkspaceRows(p) = SlotRows(AddressOrder(p.used), p.slots)
         /\ IsShelf(v, p.slots, TargetRanges(p) \union ReserveRanges(p, op))
         /\ IsVolume(v) /\ Header \in DOMAIN p.slots /\ DOMAIN p.slots = Carries(v)
<1>1. p.used = v[Bitmap] /\ DOMAIN p.slots = Carries(v) /\ IsVolume(v)
      /\ IsShelf(v, p.slots, TargetRanges(p) \union ReserveRanges(p, op))
  BY DEF PlanOf
<1>2. v[Bitmap] \subseteq Cells
  BY <1>1, CellsInside
<1>3. AddressOrder(v[Bitmap]) \in Seq(Blocks) /\ Range(AddressOrder(v[Bitmap])) = Carries(v)
  BY <1>2, AddressOrderIs DEF Carries
<1>. QED BY <1>1, <1>3 DEF WorkspaceRows, Carries

\* The copies into the workspace.
LEMMA StagingNears ==
  ASSUME NEW v, NEW op, NEW p, PlanOf(v, op, p), NEW d, IsVolume(d), OnlyFree(d, v)
  PROVE  Nears(CopyWorkspaceRuns(WorkspaceRows(p)), d, v, WithCopies(v, p.slots),
               Carries(v), SlotsOf(p.slots), SlotsOf(p.slots))
<1>. DEFINE order == AddressOrder(p.used)
            rows == SlotRows(order, p.slots)
            w == WithCopies(v, p.slots)
            avoid == TargetRanges(p) \union ReserveRanges(p, op)
<1>1. /\ order \in Seq(Blocks) /\ Range(order) = DOMAIN p.slots /\ WorkspaceRows(p) = rows
      /\ IsShelf(v, p.slots, avoid) /\ IsVolume(v) /\ Header \in DOMAIN p.slots /\ DOMAIN p.slots = Carries(v)
  BY PlanOrder
<1>. HIDE DEF order, avoid
<1>2. /\ RowsTo(rows, w, Carries(v), SlotsOf(p.slots))
      /\ \A b \in SlotsOf(p.slots) : \E j \in DOMAIN rows : rows[j][2] = b
      /\ Carries(v) \subseteq Blocks /\ SlotsOf(p.slots) \subseteq Blocks
      /\ Carries(v) \intersect SlotsOf(p.slots) = {}
  BY <1>1, ShelfRows
<1>3. Agree(w, v, Carries(v))
  <2>1. /\ IsVolume(w)
        /\ \A b \in DOMAIN p.slots : /\ w[p.slots[b]] = Carry(v, b, p.slots[b]) /\ w[b] = v[b]
                                   /\ Carry(w, b, p.slots[b]) = w[p.slots[b]]
                                   /\ Carry(w, p.slots[b], b) = w[b]
                                   /\ p.slots[b] \in Blocks /\ p.slots[b] \notin Carries(v)
        /\ \A b \in Blocks : (\A x \in DOMAIN p.slots : b # p.slots[x]) => w[b] = v[b]
        /\ Agree(w, v, Carries(v))
    <3>. HIDE DEF w
    <3>. QED BY <1>1, CopiesAre DEF w
  <2>. QED BY <2>1
<1>4. Agree(v, w, Carries(v)) /\ Agree(d, w, Carries(v))
  <2>1. \A b \in Carries(v) : b \in Blocks /\ \A c \in FreeCells(v) : b # Cell(c)
    BY <1>1, CarriesAre
  <2>2. \A b \in Carries(v) : d[b] = v[b]
    BY <2>1 DEF OnlyFree
  <2>. HIDE DEF w
  <2>. QED BY <1>3, <2>2 DEF Agree
<1>5. rows # <<>>
  <2>1. p.slots[Header] \in SlotsOf(p.slots)
    BY <1>1 DEF SlotsOf
  <2>2. PICK j \in DOMAIN rows : rows[j][2] = p.slots[Header]
    BY <1>2, <2>1
  <2>. HIDE DEF rows
  <2>. QED BY <2>2
<1>. HIDE DEF rows, w
<1>6. CopyWorkspaceRuns(WorkspaceRows(p)) = Batches(rows, TRUE)
  BY <1>1 DEF CopyWorkspaceRuns
<1>7. Nears(Batches(rows, TRUE), d, v, w, Carries(v), SlotsOf(p.slots), SlotsOf(p.slots))
  <2>. DEFINE S == SlotsOf(p.slots)
              K == Carries(v)
  <2>1. RowsTo(rows, w, K, S) /\ K \subseteq Blocks /\ S \subseteq Blocks /\ K \intersect S = {}
        /\ \A b \in S : v[b] = w[b] \/ \E j \in DOMAIN rows : rows[j][2] = b
    BY <1>2
  <2>2. IsVolume(v) /\ IsVolume(d) /\ Agree(d, w, K) /\ Agree(v, w, K) /\ (rows = <<>> => d = v)
    BY <1>1, <1>4, <1>5
  <2>. HIDE DEF S, K
  <2>3. Nears(Batches(rows, TRUE), d, v, w, K, S, S)
    BY <2>1, <2>2, RowsNear, ZenonT(60)
  <2>. QED BY <2>3 DEF S, K
<1>. QED BY <1>6, <1>7 DEF w

\* The copies back from the workspace.
LEMMA RestoringNears ==
  ASSUME NEW v, NEW op, NEW p, PlanOf(v, op, p), NEW d, NEW c, IsVolume(d), IsVolume(c),
         Agree(d, WithCopies(v, p.slots), SlotsOf(p.slots)), Agree(c, WithCopies(v, p.slots), SlotsOf(p.slots))
  PROVE  Nears(CopyWorkspaceRuns(Reversed(WorkspaceRows(p))), d, c, WithCopies(v, p.slots),
               SlotsOf(p.slots), Carries(v), Carries(v))
<1>. DEFINE order == AddressOrder(p.used)
            rows == Reversed(SlotRows(order, p.slots))
            w == WithCopies(v, p.slots)
            avoid == TargetRanges(p) \union ReserveRanges(p, op)
<1>1. /\ order \in Seq(Blocks) /\ Range(order) = DOMAIN p.slots /\ WorkspaceRows(p) = SlotRows(order, p.slots)
      /\ IsShelf(v, p.slots, avoid) /\ IsVolume(v) /\ Header \in DOMAIN p.slots /\ DOMAIN p.slots = Carries(v)
  BY PlanOrder
<1>. HIDE DEF order, avoid
<1>2. /\ RowsTo(rows, w, SlotsOf(p.slots), Carries(v))
      /\ \A b \in DOMAIN p.slots : \E j \in DOMAIN rows : rows[j][2] = b
      /\ Carries(v) \subseteq Blocks /\ SlotsOf(p.slots) \subseteq Blocks
      /\ SlotsOf(p.slots) \intersect Carries(v) = {}
  BY <1>1, ShelfRows
<1>3. \A b \in Carries(v) : \E j \in DOMAIN rows : rows[j][2] = b
  BY <1>1, <1>2
<1>4. rows # <<>>
  <2>1. PICK j \in DOMAIN rows : rows[j][2] = Header
    BY <1>1, <1>2
  <2>. HIDE DEF rows
  <2>. QED BY <2>1
<1>. HIDE DEF rows
<1>5. CopyWorkspaceRuns(Reversed(WorkspaceRows(p))) = Batches(rows, TRUE)
  <2>1. Reversed(WorkspaceRows(p)) = rows
    BY <1>1 DEF rows
  <2>. QED BY <2>1 DEF CopyWorkspaceRuns
<1>6. Agree(d, w, SlotsOf(p.slots)) /\ Agree(c, w, SlotsOf(p.slots))
  OBVIOUS
<1>. HIDE DEF w
<1>7. Nears(Batches(rows, TRUE), d, c, w, SlotsOf(p.slots), Carries(v), Carries(v))
  BY <1>2, <1>3, <1>4, <1>6, RowsNear
<1>. QED BY <1>5, <1>7 DEF w

\* The row that brings what is kept for a target to it.
TargetRow(p, target) ==
    <<p.slots[Cell(CHOOSE c \in {x \in DOMAIN p.moves : p.moves[x] # x} : p.moves[c] = target)], Cell(target)>>
MovedTo(p) == {p.moves[c] : c \in {x \in DOMAIN p.moves : p.moves[x] # x}}

\* A row for every target of a cell that moves.
LEMMA PlaceRowsAre ==
  ASSUME NEW p, MovedTo(p) \subseteq Cells
  PROVE  \E rows : /\ PlaceScript(p) = Batches(rows, FALSE)
                   /\ DOMAIN rows = 1..Len(Ascending(MovedTo(p))) /\ Len(Ascending(MovedTo(p))) \in Nat
                   /\ \A j \in DOMAIN rows : \E t \in MovedTo(p) : rows[j] = TargetRow(p, t)
                   /\ \A t \in MovedTo(p) : \E j \in DOMAIN rows : rows[j] = TargetRow(p, t)
                   /\ \A R : (\A t \in MovedTo(p) : TargetRow(p, t) \in R) => rows \in Seq(R)
<1>. DEFINE T == MovedTo(p)
            targets == Ascending(T)
            rows == [i \in DOMAIN targets |-> TargetRow(p, targets[i])]
<1>1. targets \in Seq(Cells) /\ Range(targets) = T
  BY AscendingIs
<1>2. PlaceScript(p) = Batches(rows, FALSE)
  <2>1. PlaceScript(p) = Batches(Each(LAMBDA t : TargetRow(p, t), Ascending(MovedTo(p))), FALSE)
    BY DEF PlaceScript, TargetRow, MovedTo
  <2>2. Each(LAMBDA t : TargetRow(p, t), Ascending(MovedTo(p))) = rows
    BY DEF Each, Once
  <2>. QED BY <2>1, <2>2
<1>. HIDE DEF targets, T
<1>3. Len(targets) \in Nat /\ DOMAIN targets = 1..Len(targets)
  BY <1>1
<1>4. DOMAIN rows = 1..Len(targets) /\ \A j \in 1..Len(targets) : rows[j] = TargetRow(p, targets[j]) /\ targets[j] \in T
  BY <1>1, <1>3 DEF Range
<1>5. ASSUME NEW t \in T PROVE \E j \in DOMAIN rows : rows[j] = TargetRow(p, t)
  <2>1. PICK j \in DOMAIN targets : targets[j] = t
    BY <1>1 DEF Range
  <2>. QED BY <1>3, <1>4, <2>1
<1>6. ASSUME NEW R, \A t \in T : TargetRow(p, t) \in R PROVE rows \in Seq(R)
  <2>1. rows = [j \in 1..Len(targets) |-> rows[j]] /\ \A j \in 1..Len(targets) : rows[j] \in R
    BY <1>3, <1>4, <1>6
  <2>. HIDE DEF rows
  <2>. QED BY <1>3, <2>1
<1>7. \A R : (\A t \in T : TargetRow(p, t) \in R) => rows \in Seq(R)
  BY <1>6
<1>. HIDE DEF rows
<1>. QED BY <1>2, <1>3, <1>4, <1>5, <1>7 DEF T, targets

\* The copies of the cells that move lead to their targets.
LEMMA TargetRowLeads ==
  ASSUME NEW v, NEW op, NEW p, PlanOf(v, op, p), NEW c \in Movable(v), p.moves[c] # c, NEW t, t = p.moves[c]
  PROVE  /\ TargetRow(p, t) = <<p.slots[Cell(c)], Cell(t)>>
         /\ p.slots[Cell(c)] \in SlotsOf(p.slots) /\ p.slots[Cell(c)] \in Blocks
         /\ Cell(t) \in TargetCells(p) /\ Cell(t) \in Blocks /\ t \in Cells
         /\ Carry(NewLayout(v, p), p.slots[Cell(c)], Cell(t)) = NewLayout(v, p)[Cell(t)]
<1>. DEFINE M == p.moves
            S == p.slots
            w == NewLayout(v, p)
            u == WithCopies(v, S)
<1>1. /\ IsVolume(v) /\ DOMAIN M = Movable(v) /\ Movable(v) \subseteq v[Bitmap]
      /\ TargetRanges(p) = Range(M) /\ TargetRanges(p) \subseteq Cells
      /\ \A x, y \in Movable(v) : M[x] = M[y] => x = y
      /\ \A b \in DOMAIN S : /\ S[b] \in Blocks /\ S[b] \notin Carries(v)
                             /\ \E x \in FreeCells(v) : S[b] = Cell(x) /\ x \notin TargetRanges(p)
      /\ DOMAIN S = Carries(v)
  BY PlanFacts
<1>2. w[Cell(M[c])] = v[Cell(c)] /\ \A b \in DOMAIN S : w[S[b]] = u[S[b]]
  BY NewLayoutIs
<1>3. Cell(c) \in DOMAIN S
  BY <1>1 DEF Carries
<1>4. u[S[Cell(c)]] = Carry(v, Cell(c), S[Cell(c)])
  <2>1. IsShelf(v, S, TargetRanges(p) \union ReserveRanges(p, op))
    BY DEF PlanOf
  <2>. HIDE DEF S
  <2>2. /\ IsVolume(u)
        /\ \A b \in DOMAIN S : /\ u[S[b]] = Carry(v, b, S[b]) /\ u[b] = v[b]
                               /\ Carry(u, b, S[b]) = u[S[b]]
                               /\ Carry(u, S[b], b) = u[b]
                               /\ S[b] \in Blocks /\ S[b] \notin Carries(v)
        /\ \A b \in Blocks : (\A x \in DOMAIN S : b # S[x]) => u[b] = v[b]
        /\ Agree(u, v, Carries(v))
    BY <1>1, <2>1, CopiesAre
  <2>. QED BY <1>3, <2>2
<1>. HIDE DEF M, S, w, u
<1>5. PICK x \in FreeCells(v) : S[Cell(c)] = Cell(x)
  BY <1>1, <1>3
<1>6. Carry(v, Cell(c), S[Cell(c)]) = v[Cell(c)]
  BY <1>5, BlockNames DEF Carry
<1>7. w[S[Cell(c)]] = v[Cell(c)] /\ w[Cell(t)] = v[Cell(c)]
  BY <1>2, <1>3, <1>4, <1>6 DEF M
<1>8. Carry(w, S[Cell(c)], Cell(t)) = w[S[Cell(c)]]
  BY <1>5, BlockNames DEF Carry
<1>9. (CHOOSE y \in {x1 \in DOMAIN M : M[x1] # x1} : M[y] = t) = c
  BY <1>1 DEF M
<1>10. t \in TargetRanges(p) /\ t \in Cells
  BY <1>1 DEF Range, M
<1>11. TargetRow(p, t) = <<S[Cell(c)], Cell(t)>>
  BY <1>9 DEF TargetRow, M, S
<1>12. S[Cell(c)] \in SlotsOf(S) /\ S[Cell(c)] \in Blocks
  BY <1>1, <1>3 DEF SlotsOf
<1>13. Cell(t) \in TargetCells(p) /\ Cell(t) \in Blocks
  BY <1>10, BlockSet DEF TargetCells
<1>. QED BY <1>7, <1>8, <1>10, <1>11, <1>12, <1>13 DEF S, w

\* The copies to their targets.
LEMMA PlacingNears ==
  ASSUME NEW v, NEW op, NEW p, PlanOf(v, op, p), NEW d, IsVolume(d), Agree(d, v, Carries(v)),
         Agree(d, WithCopies(v, p.slots), SlotsOf(p.slots))
  PROVE  Nears(PlaceScript(p), d, d, NewLayout(v, p), SlotsOf(p.slots), TargetCells(p), UsedCells(v, p))
<1>. DEFINE M == p.moves
            S == SlotsOf(p.slots)
            T == TargetCells(p)
            w == NewLayout(v, p)
<1>1. /\ IsVolume(v) /\ DOMAIN M = Movable(v) /\ Movable(v) \subseteq v[Bitmap]
      /\ TargetRanges(p) = Range(M) /\ TargetRanges(p) \subseteq Cells
      /\ \A b \in DOMAIN p.slots : /\ p.slots[b] \in Blocks /\ p.slots[b] \notin Carries(v)
                             /\ \E x \in FreeCells(v) : p.slots[b] = Cell(x) /\ x \notin TargetRanges(p)
      /\ DOMAIN p.slots = Carries(v)
  BY PlanFacts
<1>2. /\ \A c \in Movable(v) : w[Cell(M[c])] = v[Cell(c)]
      /\ \A b \in DOMAIN p.slots : w[p.slots[b]] = WithCopies(v, p.slots)[p.slots[b]]
      /\ \A c \in v[Bitmap] \ TargetRanges(p) : w[Cell(c)] = v[Cell(c)]
      /\ w[Header] = v[Header]
  BY NewLayoutIs
<1>3. MovedTo(p) \subseteq Cells /\ \A t \in MovedTo(p) : \E c \in Movable(v) : M[c] # c /\ t = M[c]
  BY <1>1 DEF MovedTo, Range
<1>4. PICK rows : /\ PlaceScript(p) = Batches(rows, FALSE)
                  /\ \A j \in DOMAIN rows : \E t \in MovedTo(p) : rows[j] = TargetRow(p, t)
                  /\ \A t \in MovedTo(p) : \E j \in DOMAIN rows : rows[j] = TargetRow(p, t)
                  /\ \A R : (\A t \in MovedTo(p) : TargetRow(p, t) \in R) => rows \in Seq(R)
  BY <1>3, PlaceRowsAre
<1>5. ASSUME NEW t \in MovedTo(p)
      PROVE  /\ TargetRow(p, t) \in Blocks \X Blocks
             /\ TargetRow(p, t)[1] \in S /\ TargetRow(p, t)[2] \in T /\ TargetRow(p, t)[2] = Cell(t)
             /\ Carry(w, TargetRow(p, t)[1], TargetRow(p, t)[2]) = w[TargetRow(p, t)[2]]
  <2>1. PICK c \in Movable(v) : M[c] # c /\ t = M[c]
    BY <1>3
  <2>2. /\ TargetRow(p, t) = <<p.slots[Cell(c)], Cell(t)>>
        /\ p.slots[Cell(c)] \in S /\ p.slots[Cell(c)] \in Blocks
        /\ Cell(t) \in T /\ Cell(t) \in Blocks /\ t \in Cells
        /\ Carry(w, p.slots[Cell(c)], Cell(t)) = w[Cell(t)]
    BY <2>1, TargetRowLeads
  <2>. HIDE DEF S, T, w
  <2>. QED BY <2>2
<1>6. RowsTo(rows, w, S, T)
  <2>1. rows \in Seq(Blocks \X Blocks)
    BY <1>4, <1>5
  <2>. HIDE DEF S, T, w
  <2>. QED BY <1>4, <1>5, <2>1 DEF RowsTo
<1>7. S \subseteq Blocks /\ T \subseteq Blocks /\ S \intersect T = {}
  BY <1>1, BlockNames, BlockSet DEF SlotsOf, TargetCells
<1>8. Agree(d, w, S)
  BY <1>2 DEF Agree, SlotsOf
<1>9. ASSUME NEW b \in UsedCells(v, p) PROVE d[b] = w[b] \/ \E j \in DOMAIN rows : rows[j][2] = b
  <2>1. Header \in Carries(v) /\ \A c \in v[Bitmap] : Cell(c) \in Carries(v)
    BY DEF Carries
  <2>2. d[Header] = v[Header] /\ \A c \in v[Bitmap] : d[Cell(c)] = v[Cell(c)]
    BY <2>1 DEF Agree
  <2>3. CASE b = Header
    BY <1>2, <2>2, <2>3
  <2>4. CASE \E c \in v[Bitmap] \ TargetRanges(p) : b = Cell(c)
    BY <1>2, <2>2, <2>4
  <2>5. CASE \E c \in TargetRanges(p) : b = Cell(c)
    <3>1. PICK x \in Movable(v) : b = Cell(M[x])
      BY <1>1, <2>5 DEF Range
    <3>2. CASE M[x] = x
      BY <1>1, <1>2, <2>2, <3>1, <3>2
    <3>3. CASE M[x] # x
      <4>1. M[x] \in MovedTo(p)
        BY <1>1, <3>3 DEF MovedTo
      <4>2. PICK j \in DOMAIN rows : rows[j] = TargetRow(p, M[x])
        BY <1>4, <4>1
      <4>. QED BY <1>5, <3>1, <4>1, <4>2
    <3>. QED BY <3>2, <3>3
  <2>6. b = Header \/ (\E c \in v[Bitmap] \ TargetRanges(p) : b = Cell(c)) \/ \E c \in TargetRanges(p) : b = Cell(c)
    BY DEF UsedCells, NewUsed
  <2>. QED BY <2>3, <2>4, <2>5, <2>6
<1>. HIDE DEF S, T, w, M
<1>10. Nears(Batches(rows, FALSE), d, d, w, S, T, UsedCells(v, p))
  BY <1>6, <1>7, <1>8, <1>9, RowsNear
<1>. QED BY <1>4, <1>10 DEF S, T, w

-----------------------------------------------------------------------------
(* The metadata.                                                           *)

\* One file of ApplyMappings.
MapStep(p, o, todo, f) ==
    IF p.maps[f] = FileTarget(p, f) THEN todo ELSE Append(todo, Write(MapOf(f), FileTarget(p, f)))
\* The maps of the first i files.
MapsWritten(p, o, i, todo) ==
    /\ IsScript(todo)
    /\ \A k \in DOMAIN todo : \E f \in Files : todo[k] = Write(MapOf(f), FileTarget(p, f))
    /\ \A f \in 1..i : p.maps[f] = FileTarget(p, f) \/ \E k \in DOMAIN todo : todo[k] = Write(MapOf(f), FileTarget(p, f))
MapFold == INSTANCE FoldInduction WITH Step <- MapStep, Inv <- MapsWritten

\* A step more at the end of a script.
LEMMA ScriptGrows ==
  ASSUME NEW todo, IsScript(todo), NEW step
  PROVE  /\ IsScript(Append(todo, step)) /\ Len(todo) \in Nat
         /\ DOMAIN todo = 1..Len(todo) /\ DOMAIN Append(todo, step) = 1..(Len(todo) + 1)
         /\ \A k \in DOMAIN todo : k \in DOMAIN Append(todo, step) /\ Append(todo, step)[k] = todo[k]
         /\ Append(todo, step)[Len(todo) + 1] = step
         /\ \A k \in DOMAIN Append(todo, step) : k \in DOMAIN todo \/ k = Len(todo) + 1
<1>. DEFINE S == Range(todo) \union {step}
            w == Append(todo, step)
            n == Len(todo)
<1>1. todo \in Seq(S) /\ step \in S
  <2>1. todo \in Seq(Range(todo))
    BY DEF IsScript
  <2>. QED BY <2>1
<1>. HIDE DEF S
<1>2. n \in Nat /\ DOMAIN todo = 1..n
  BY <1>1
<1>3. w \in Seq(S) /\ Len(w) = n + 1 /\ DOMAIN w = 1..(n + 1) /\ w[n + 1] = step /\ \A k \in 1..n : w[k] = todo[k]
  BY <1>1
<1>. HIDE DEF n, w
<1>4. IsScript(w)
  <2>. DEFINE U == Range(w)
  <2>1. \A k \in 1..Len(w) : w[k] \in U
    BY <1>3 DEF Range
  <2>. HIDE DEF U
  <2>2. w \in Seq(U)
    BY <1>3, <2>1
  <2>. QED BY <2>2 DEF IsScript, U
<1>5. \A k \in 1..(n + 1) : k \in 1..n \/ k = n + 1
  BY <1>2
<1>6. \A k \in 1..n : k \in 1..(n + 1)
  BY <1>2
<1>. QED BY <1>2, <1>3, <1>4, <1>5, <1>6 DEF n, w

\* The maps that change are written.
LEMMA MapWritesAre ==
  ASSUME NEW p
  PROVE  /\ IsScript(MapWrites(p))
         /\ \A k \in DOMAIN MapWrites(p) : \E f \in Files : MapWrites(p)[k] = Write(MapOf(f), FileTarget(p, f))
         /\ \A f \in Files : \/ p.maps[f] = FileTarget(p, f)
                             \/ \E k \in DOMAIN MapWrites(p) : MapWrites(p)[k] = Write(MapOf(f), FileTarget(p, f))
<1>. DEFINE n == Cardinality(Files)
<1>1. n \in Nat /\ FileOrder = [j \in 1..n |-> j] /\ Files = 1..n
  BY FileNumbers, FilesAssumption
<1>2. MapWrites(p) = MapFold!Folded(p, 0, <<>>, FileOrder)
  BY DEF MapWrites, Accumulate, Once, MapFold!Folded, MapStep,
         FoldLeft, MapFold!FoldLeft, MapThenFoldSet, MapFold!MapThenFoldSet, Max, MapFold!Max
<1>3. MapsWritten(p, 0, 0, <<>>)
  BY DEF MapsWritten, IsScript
<1>4. ASSUME NEW i \in 1..n, NEW todo, MapsWritten(p, 0, i - 1, todo)
      PROVE  MapsWritten(p, 0, i, MapStep(p, 0, todo, FileOrder[i]))
  <2>1. FileOrder[i] = i /\ i \in Files
    BY <1>1
  <2>2. \A f \in 1..i : f \in 1..(i - 1) \/ f = i
    BY <1>1
  <2>3. CASE p.maps[i] = FileTarget(p, i)
    <3>1. MapStep(p, 0, todo, i) = todo
      BY <2>3 DEF MapStep
    <3>. QED BY <1>4, <2>1, <2>2, <2>3, <3>1 DEF MapsWritten
  <2>4. CASE p.maps[i] # FileTarget(p, i)
    <3>. DEFINE step == Write(MapOf(i), FileTarget(p, i))
                w == Append(todo, step)
    <3>1. MapStep(p, 0, todo, i) = w
      BY <2>4 DEF MapStep
    <3>. HIDE DEF step
    <3>2. IsScript(todo)
      BY <1>4 DEF MapsWritten
    <3>3. /\ IsScript(w) /\ Len(todo) \in Nat
          /\ DOMAIN todo = 1..Len(todo) /\ DOMAIN w = 1..(Len(todo) + 1)
          /\ \A k \in DOMAIN todo : k \in DOMAIN w /\ w[k] = todo[k]
          /\ w[Len(todo) + 1] = step
          /\ \A k \in DOMAIN w : k \in DOMAIN todo \/ k = Len(todo) + 1
      BY <3>2, ScriptGrows
    <3>4. Len(todo) + 1 \in DOMAIN w
      BY <3>3
    <3>. HIDE DEF w
    <3>5. \A k \in DOMAIN w : \E f \in Files : w[k] = Write(MapOf(f), FileTarget(p, f))
      BY <1>4, <2>1, <3>3 DEF MapsWritten, step
    <3>6. \A f \in 1..i : p.maps[f] = FileTarget(p, f) \/ \E k \in DOMAIN w : w[k] = Write(MapOf(f), FileTarget(p, f))
      BY <1>4, <2>2, <3>3, <3>4 DEF MapsWritten, step
    <3>. QED BY <2>1, <3>1, <3>3, <3>5, <3>6 DEF MapsWritten
  <2>. QED BY <2>3, <2>4
<1>5. MapsWritten(p, 0, n, MapFold!Folded(p, 0, <<>>, FileOrder))
  <2>1. DOMAIN FileOrder = 1..n
    BY <1>1
  <2>2. \A i \in 1..n : \A todo : MapsWritten(p, 0, i - 1, todo) => MapsWritten(p, 0, i, MapStep(p, 0, todo, FileOrder[i]))
    BY <1>4
  <2>. QED BY <1>1, <1>3, <2>1, <2>2, MapFold!FoldKeeps
<1>. QED BY <1>1, <1>2, <1>5 DEF MapsWritten

\* The blocks that the new layout uses stay marked, and no other.
LEMMA ReleasedIs ==
  ASSUME NEW v, NEW op, IsVolume(v), Sound(v), NEW db, AimsWell(v, op, db), NEW p,
         p.moves = Moves(v, db), p.reserves = ReserveRanges(db, op), p.used = v[Bitmap]
  PROVE  Released(p) = NewUsed(v, db) /\ Allocated(p) \subseteq Cells
<1>1. Exclusive(v)
  BY DEF Sound
<1>2. TargetRanges(db) = Range(Moves(v, db)) /\ DOMAIN Moves(v, db) = Movable(v)
  <2>1. TargetRanges(db) = Range(Moves(v, db))
    BY <1>1, TargetsAreMoves
  <2>. QED BY <2>1 DEF Moves
<1>3. ReserveRanges(db, op) \subseteq (FreeCells(v) \union Movable(v)) \ TargetRanges(db)
  BY ReservesAre
<1>4. TargetRanges(db) \subseteq FreeCells(v) \union Movable(v)
  BY TargetsInside
<1>5. Movable(v) \subseteq v[Bitmap] /\ v[Bitmap] \subseteq Cells
  <2>1. \A f \in Files : CellsOf(v, f) \subseteq v[Bitmap]
    BY <1>1 DEF Exclusive
  <2>. QED BY <2>1, CellsInside DEF Movable
<1>. DEFINE R == ReserveRanges(db, op)
            T == TargetRanges(db)
            M == Movable(v)
            U == v[Bitmap]
<1>6. R \subseteq (FreeCells(v) \union M) \ T /\ T \subseteq FreeCells(v) \union M /\ M \subseteq U /\ U \subseteq Cells
      /\ FreeCells(v) = Cells \ U
  BY <1>3, <1>4, <1>5 DEF FreeCells
<1>7. Allocated(p) = U \union T \union R /\ OldBlocks(p) = M /\ NewBlocks(p) = T /\ p.reserves = R
  BY <1>2 DEF Allocated, OldBlocks, NewBlocks
<1>. HIDE DEF R, T, M, U
<1>8. Allocated(p) \subseteq Cells
  BY <1>6, <1>7
<1>9. Released(p) = (U \ M) \union T
  BY <1>6, <1>7 DEF Released
<1>. QED BY <1>8, <1>9 DEF NewUsed, R, T, M, U

Enclosing(a, b, c, m) == <<a, b>> \o m \o <<b, c, b>>
\* A sequence in the middle of another.
LEMMA Enclosed ==
  ASSUME NEW m, IsScript(m), NEW a, NEW b, NEW c, NEW s, s = Enclosing(a, b, c, m)
  PROVE  /\ IsScript(s) /\ Len(m) \in Nat /\ Len(s) = Len(m) + 5 /\ DOMAIN s = 1..(Len(m) + 5)
         /\ DOMAIN m = 1..Len(m)
         /\ s[1] = a /\ s[2] = b /\ s[Len(m) + 3] = b /\ s[Len(m) + 4] = c /\ s[Len(m) + 5] = b
         /\ \A k \in DOMAIN m : s[k + 2] = m[k] /\ k + 2 \in DOMAIN s
         /\ \A k \in DOMAIN s : k = 1 \/ k = 2 \/ (k - 2 \in DOMAIN m /\ s[k] = m[k - 2])
                                \/ k = Len(m) + 3 \/ k = Len(m) + 4 \/ k = Len(m) + 5
<1>. DEFINE S == Range(m) \union {a, b, c}
            n == Len(m)
            left == <<a, b>> \o m
<1>1. m \in Seq(S) /\ a \in S /\ b \in S /\ c \in S
  <2>1. m \in Seq(Range(m))
    BY DEF IsScript
  <2>. QED BY <2>1
<1>. HIDE DEF S
<1>2. n \in Nat /\ DOMAIN m = 1..n
  BY <1>1
<1>3. left \in Seq(S) /\ Len(left) = n + 2 /\ left[1] = a /\ left[2] = b /\ \A k \in 1..n : left[k + 2] = m[k]
  <2>1. <<a, b>> \in Seq(S) /\ Len(<<a, b>>) = 2
    BY <1>1
  <2>2. left \in Seq(S) /\ Len(left) = 2 + n
    BY <1>1, <2>1
  <2>3. \A k \in 1..(2 + n) : left[k] = IF k <= 2 THEN <<a, b>>[k] ELSE m[k - 2]
    BY <1>1, <2>1
  <2>. HIDE DEF left, n
  <2>4. 1 \in 1..(2 + n) /\ 2 \in 1..(2 + n) /\ \A k \in 1..n : k + 2 \in 1..(2 + n) /\ ~ (k + 2 <= 2) /\ (k + 2) - 2 = k
    BY <1>2
  <2>5. left[1] = a /\ left[2] = b
    BY <2>3, <2>4
  <2>6. \A k \in 1..n : left[k + 2] = m[k]
    BY <2>3, <2>4
  <2>. QED BY <1>2, <2>2, <2>5, <2>6
<1>. HIDE DEF left
<1>4. s \in Seq(S) /\ Len(s) = n + 5 /\ \A k \in 1..(n + 5) : s[k] = IF k <= n + 2 THEN left[k] ELSE <<b, c, b>>[k - (n + 2)]
  <2>1. <<b, c, b>> \in Seq(S) /\ Len(<<b, c, b>>) = 3
    BY <1>1
  <2>2. s = left \o <<b, c, b>>
    BY DEF left, Enclosing
  <2>. HIDE DEF n
  <2>3. s \in Seq(S) /\ Len(s) = (n + 2) + 3
    BY <1>2, <1>3, <2>1, <2>2
  <2>4. \A k \in 1..((n + 2) + 3) : s[k] = IF k <= n + 2 THEN left[k] ELSE <<b, c, b>>[k - (n + 2)]
    BY <1>2, <1>3, <2>1, <2>2
  <2>. QED BY <1>2, <2>3, <2>4
<1>. HIDE DEF n
<1>5. DOMAIN s = 1..(n + 5)
  BY <1>4
<1>6. /\ s[1] = a /\ s[2] = b /\ s[n + 3] = b /\ s[n + 4] = c /\ s[n + 5] = b
      /\ \A k \in 1..n : s[k + 2] = m[k] /\ k + 2 \in 1..(n + 5)
  <2>. DEFINE right == <<b, c, b>>
  <2>1. right[1] = b /\ right[2] = c /\ right[3] = b
    OBVIOUS
  <2>2. \A k \in 1..(n + 5) : s[k] = IF k <= n + 2 THEN left[k] ELSE right[k - (n + 2)]
    BY <1>4
  <2>. HIDE DEF right
  <2>3. s[1] = a /\ s[2] = b
    BY <1>2, <1>3, <2>2
  <2>4. s[n + 3] = right[1] /\ s[n + 4] = right[2] /\ s[n + 5] = right[3]
    <3>1. /\ n + 3 \in 1..(n + 5) /\ n + 4 \in 1..(n + 5) /\ n + 5 \in 1..(n + 5)
          /\ ~ (n + 3 <= n + 2) /\ ~ (n + 4 <= n + 2) /\ ~ (n + 5 <= n + 2)
          /\ (n + 3) - (n + 2) = 1 /\ (n + 4) - (n + 2) = 2 /\ (n + 5) - (n + 2) = 3
      BY <1>2
    <3>. QED BY <2>2, <3>1
  <2>5. \A k \in 1..n : s[k + 2] = m[k] /\ k + 2 \in 1..(n + 5)
    BY <1>2, <1>3, <2>2
  <2>. QED BY <2>1, <2>3, <2>4, <2>5
<1>7. ASSUME NEW k \in 1..(n + 5)
      PROVE  k = 1 \/ k = 2 \/ (k - 2 \in 1..n /\ s[k] = m[k - 2]) \/ k = n + 3 \/ k = n + 4 \/ k = n + 5
  <2>1. k = 1 \/ k = 2 \/ k - 2 \in 1..n \/ k = n + 3 \/ k = n + 4 \/ k = n + 5
    BY <1>2
  <2>2. k - 2 \in 1..n => s[(k - 2) + 2] = m[k - 2] /\ (k - 2) + 2 = k
    BY <1>2, <1>6
  <2>. QED BY <2>1, <2>2
<1>8. IsScript(s)
  <2>. DEFINE U == Range(s)
  <2>1. \A k \in 1..Len(s) : s[k] \in U
    BY <1>4, <1>5 DEF Range
  <2>. HIDE DEF U
  <2>2. s \in Seq(U)
    BY <1>4, <2>1
  <2>. QED BY <2>2 DEF IsScript, U
<1>. QED BY <1>2, <1>4, <1>5, <1>6, <1>7, <1>8 DEF n

\* The allocation map and the maps of the new layout.
LEMMA MetadataNears ==
  ASSUME NEW v, NEW op, NEW p, PlanOf(v, op, p), NEW d, IsVolume(d), Agree(d, v, Metadata),
         Agree(d, NewLayout(v, p), SlotsOf(p.slots)), Agree(d, NewLayout(v, p), UsedCells(v, p))
  PROVE  Nears(ApplyMappings(p), d, d, NewLayout(v, p), SlotsOf(p.slots), Metadata, Carries(NewLayout(v, p)))
<1>. DEFINE S == SlotsOf(p.slots)
            w == NewLayout(v, p)
            m == MapWrites(p)
            n == Len(m)
            todo == ApplyMappings(p)
            marked == Write(Bitmap, Allocated(p))
            released == Write(Bitmap, Released(p))
<1>1. /\ IsVolume(v) /\ Sound(v) /\ AimsWell(v, op, p) /\ p.moves = Moves(v, p) /\ p.reserves = ReserveRanges(p, op)
      /\ p.maps = Maps(v) /\ p.used = v[Bitmap]
  BY DEF PlanOf
<1>2. /\ \A b \in DOMAIN p.slots : p.slots[b] \in Blocks /\ \E x \in FreeCells(v) : p.slots[b] = Cell(x)
      /\ \A f \in Files : w[MapOf(f)] = FileTarget(p, f)
      /\ w[Bitmap] = NewUsed(v, p) /\ IsVolume(w)
  BY PlanFacts, NewLayoutIs DEF IsRenewed
<1>3. Released(p) = NewUsed(v, p) /\ Allocated(p) \subseteq Cells
  BY <1>1, ReleasedIs
<1>4. /\ IsScript(m)
      /\ \A k \in DOMAIN m : \E f \in Files : m[k] = Write(MapOf(f), FileTarget(p, f))
      /\ \A f \in Files : \/ p.maps[f] = FileTarget(p, f)
                          \/ \E k \in DOMAIN m : m[k] = Write(MapOf(f), FileTarget(p, f))
  BY MapWritesAre
<1>5. /\ IsScript(todo) /\ n \in Nat /\ Len(todo) = n + 5 /\ DOMAIN todo = 1..(n + 5) /\ DOMAIN m = 1..n
      /\ todo[1] = marked /\ todo[2] = Flush /\ todo[n + 3] = Flush /\ todo[n + 4] = released /\ todo[n + 5] = Flush
      /\ \A k \in DOMAIN m : todo[k + 2] = m[k] /\ k + 2 \in DOMAIN todo
      /\ \A k \in DOMAIN todo : k = 1 \/ k = 2 \/ (k - 2 \in DOMAIN m /\ todo[k] = m[k - 2])
                                  \/ k = n + 3 \/ k = n + 4 \/ k = n + 5
  <2>1. todo = Enclosing(marked, Flush, released, m)
    BY DEF ApplyMappings, Enclosing
  <2>. HIDE DEF m, todo, marked, released
  <2>. QED BY <1>4, <2>1, Enclosed
<1>. HIDE DEF m, todo, n, w, S
<1>6. S \subseteq Blocks /\ Metadata \subseteq Blocks /\ S \intersect Metadata = {}
  BY <1>2, BlockNames, BlockSet DEF S, SlotsOf, Metadata
<1>7. n + 4 \in DOMAIN todo /\ n + 5 \in DOMAIN todo /\ n + 4 > 1
  BY <1>5
<1>8. Bitmap \in Metadata /\ \A f \in Files : MapOf(f) \in Metadata
  BY DEF Metadata
<1>9. ASSUME NEW k \in DOMAIN todo PROVE StepTo(todo, k, w, S, Metadata)
  <2>1. CASE k = 1
    <3>1. marked = Write(marked[2], marked[3]) /\ marked[2] = Bitmap /\ marked[3] = Allocated(p)
      BY StepKinds
    <3>2. Typed(Bitmap, Allocated(p))
      BY <1>3, BlockNames DEF Typed
    <3>3. Bitmap \in Writes(todo[n + 4])
      BY <1>5, StepKinds
    <3>. HIDE DEF marked
    <3>. QED BY <1>5, <1>7, <1>8, <2>1, <3>1, <3>2, <3>3 DEF StepTo
  <2>2. CASE k = 2 \/ k = n + 3 \/ k = n + 5
    BY <1>5, <2>2 DEF StepTo
  <2>3. CASE k = n + 4
    <3>1. released = Write(released[2], released[3]) /\ released[2] = Bitmap /\ released[3] = w[Bitmap]
      BY <1>2, <1>3, StepKinds
    <3>2. Typed(Bitmap, w[Bitmap])
      BY <1>2, BlockSet, VolumeIsTyped
    <3>. HIDE DEF released
    <3>. QED BY <1>5, <1>8, <2>3, <3>1, <3>2 DEF StepTo
  <2>4. CASE k - 2 \in DOMAIN m /\ todo[k] = m[k - 2]
    <3>1. PICK f \in Files : m[k - 2] = Write(MapOf(f), FileTarget(p, f))
      BY <1>4, <2>4
    <3>2. todo[k] = Write(MapOf(f), w[MapOf(f)])
      BY <1>2, <2>4, <3>1
    <3>3. todo[k] = Write(todo[k][2], todo[k][3]) /\ todo[k][2] = MapOf(f) /\ todo[k][3] = w[MapOf(f)]
      BY <3>2, StepKinds
    <3>4. Typed(MapOf(f), w[MapOf(f)])
      BY <1>2, BlockSet, VolumeIsTyped
    <3>. QED BY <1>8, <3>3, <3>4 DEF StepTo
  <2>. QED BY <1>5, <2>1, <2>2, <2>3, <2>4
<1>10. Leads(todo, w, S, Metadata)
  BY <1>5, <1>6, <1>9 DEF Leads
<1>11. ASSUME NEW b \in Carries(w) PROVE d[b] = w[b] \/ b \in Unwritten(todo)
  <2>1. CASE b = Bitmap
    <3>1. b \in Writes(todo[n + 4])
      BY <1>5, <2>1, StepKinds
    <3>. QED BY <1>7, <3>1 DEF Unwritten
  <2>2. CASE b = Header \/ \E c \in w[Bitmap] : b = Cell(c)
    <3>1. b \in UsedCells(v, p)
      BY <1>2, <2>2 DEF UsedCells
    <3>. QED BY <3>1 DEF Agree, w
  <2>3. CASE \E f \in Files : b = MapOf(f)
    <3>1. PICK f \in Files : b = MapOf(f)
      BY <2>3
    <3>2. CASE p.maps[f] = FileTarget(p, f)
      <4>1. v[MapOf(f)] = FileTarget(p, f)
        BY <1>1, <3>2 DEF Maps
      <4>. QED BY <1>2, <1>8, <3>1, <4>1 DEF Agree
    <3>3. CASE \E k \in DOMAIN m : m[k] = Write(MapOf(f), FileTarget(p, f))
      <4>1. PICK k \in DOMAIN m : m[k] = Write(MapOf(f), FileTarget(p, f))
        BY <3>3
      <4>2. todo[k + 2] = Write(MapOf(f), FileTarget(p, f)) /\ k + 2 \in DOMAIN todo
        BY <1>5, <4>1
      <4>3. MapOf(f) \in Writes(todo[k + 2])
        BY <4>2, StepKinds
      <4>. QED BY <3>1, <4>2, <4>3 DEF Unwritten
    <3>. QED BY <1>4, <3>2, <3>3
  <2>. QED BY <2>1, <2>2, <2>3 DEF Carries
<1>12. \A b \in S : d[b] = w[b]
  BY DEF Agree, S, w
<1>13. todo # <<>>
  BY <1>7
<1>14. Nears(todo, d, d, w, S, Metadata, Carries(w))
  BY <1>2, <1>10, <1>11, <1>12, <1>13 DEF Nears
<1>. QED BY <1>14 DEF todo, w, S

-----------------------------------------------------------------------------
(* The new layout is verified.                                             *)

\* The least, the greatest and the number of some cells in a row.
LEMMA SpotEnds ==
  ASSUME NEW s \in Nat, NEW n \in Nat, s..(s + n - 1) # {}
  PROVE  /\ Max(s..(s + n - 1)) = s + n - 1 /\ Min(s..(s + n - 1)) = s /\ Cardinality(s..(s + n - 1)) = n
         /\ n > 0
<1>. DEFINE S == s..(s + n - 1)
<1>1. n > 0
  OBVIOUS
<1>2. s + n - 1 \in S /\ s \in S /\ \A x \in S : x \in Int /\ s <= x /\ x <= s + n - 1
  BY <1>1
<1>3. Max(S) = s + n - 1
  <2>. HIDE DEF S
  <2>1. \A y \in S : s + n - 1 >= y
    BY <1>2
  <2>2. Max(S) \in S /\ \A y \in S : Max(S) >= y
    BY <1>2, <2>1 DEF Max
  <2>. DEFINE m == Max(S)
  <2>3. m \in S /\ m >= s + n - 1
    BY <1>2, <2>2
  <2>. HIDE DEF m
  <2>4. m \in Int /\ m <= s + n - 1
    BY <1>2, <2>3
  <2>5. m = s + n - 1
    BY <2>3, <2>4
  <2>. QED BY <2>5 DEF m
<1>4. Min(S) = s
  <2>. HIDE DEF S
  <2>1. Min(S) \in S /\ \A y \in S : Min(S) <= y
    BY <1>2 DEF Min
  <2>. DEFINE m == Min(S)
  <2>3. m \in S /\ m <= s
    BY <1>2, <2>1
  <2>. HIDE DEF m
  <2>4. m \in Int /\ s <= m
    BY <1>2, <2>3
  <2>5. m = s
    BY <2>3, <2>4
  <2>. QED BY <2>5 DEF m
<1>5. Cardinality(S) = n
  <2>1. Cardinality(S) = IF s > s + n - 1 THEN 0 ELSE (s + n - 1) - s + 1
    BY FS_Interval
  <2>. QED BY <1>1, <2>1
<1>. QED BY <1>1, <1>3, <1>4, <1>5

\* No verifier refuses a volume that is laid out as its plan says.
LEMMA RenewedVerifies ==
  ASSUME NEW v, NEW op, IsVolume(v), Sound(v), Contents(v) = owner, NEW p, AimsWell(v, op, p),
         NEW w, IsRenewed(v, p, w)
  PROVE  Verified(w, op, p)
<1>1. /\ IsVolume(w) /\ Sound(w) /\ Contents(w) = Contents(v) /\ Contents(w) = p.digest
      /\ ReserveRanges(p, op) \subseteq FreeCells(w)
      /\ \A f \in Files : /\ IsRun(w[MapOf(f)]) /\ ReserveAfter(w, f, op) \subseteq FreeCells(w)
                          /\ w[MapOf(f)] = Run(p.start[f], Len(v[MapOf(f)]))
                          /\ v[MapOf(f)] # <<>> => Held(v, p, op, f) \subseteq FreeCells(w)
  BY RenewedIsGood
<1>2. \A f \in Files : w[MapOf(f)] = FileTarget(p, f)
  BY DEF IsRenewed
<1>3. ASSUME op = "growth-defrag", NEW f \in Files, CellsOf(w, f) # {}
      PROVE  /\ AllocationIsContiguous(w, f)
             /\ (Max(CellsOf(w, f)) + 1)..(Max(CellsOf(w, f)) + Reserve("growth-defrag", Cardinality(CellsOf(w, f))))
                  \subseteq FreeCells(w)
  <2>. DEFINE s == p.start[f]
              n == Len(v[MapOf(f)])
  <2>1. s \in Nat /\ n \in Nat /\ (n = 0 <=> v[MapOf(f)] = <<>>)
    <3>1. p.start[f] \in Nat
      BY DEF AimsWell
    <3>2. v[MapOf(f)] \in Seq(Cells)
      BY DEF IsVolume
    <3>3. \A m \in Seq(Cells) : Len(m) \in Nat /\ (Len(m) = 0 <=> m = <<>>)
      OBVIOUS
    <3>. QED BY <3>1, <3>2, <3>3
  <2>2. CellsOf(w, f) = s..(s + n - 1)
    <3>. HIDE DEF s, n
    <3>1. w[MapOf(f)] = Run(s, n)
      BY <1>1 DEF s, n
    <3>. QED BY <2>1, <3>1, RunIs DEF CellsOf
  <2>3. Held(v, p, op, f) = (s + n)..(s + n + Reserve("growth-defrag", n) - 1)
    BY <1>3 DEF Held
  <2>. HIDE DEF s, n
  <2>4. Max(s..(s + n - 1)) = s + n - 1 /\ Min(s..(s + n - 1)) = s /\ Cardinality(s..(s + n - 1)) = n /\ n > 0
    BY <1>3, <2>1, <2>2, SpotEnds
  <2>5. Held(v, p, op, f) \subseteq FreeCells(w)
    BY <1>1, <2>1, <2>4
  <2>6. Reserve("growth-defrag", n) \in Nat
    BY <2>1, ReserveIsNat
  <2>7. (s + n - 1) + 1 = s + n /\ (s + n - 1) + Reserve("growth-defrag", n) = s + n + Reserve("growth-defrag", n) - 1
        /\ (s + n - 1) - s + 1 = n
    BY <2>1, <2>6
  <2>. QED BY <2>2, <2>3, <2>4, <2>5, <2>7 DEF AllocationIsContiguous
<1>4. op = "growth-defrag" => Growth10Satisfied(w)
  BY <1>3 DEF Growth10Satisfied
<1>5. VerifyStage(w, p, op)
  BY <1>1, <1>2, <1>4 DEF VerifyStage
<1>6. LaidOut(w, op)
  BY <1>1 DEF LaidOut
<1>. QED BY <1>1, <1>5, <1>6 DEF Verified

\* In place, the plan leads to a layout that is verified.
LEMMA NewLayoutVerifies ==
  ASSUME NEW v, NEW op, NEW p, PlanOf(v, op, p), Contents(v) = owner,
         NEW c, IsVolume(c), Agree(c, NewLayout(v, p), Carries(NewLayout(v, p)))
  PROVE  Verified(c, op, p)
<1>1. IsVolume(v) /\ Sound(v) /\ AimsWell(v, op, p)
  BY DEF PlanOf
<1>2. IsRenewed(v, p, NewLayout(v, p))
  BY NewLayoutIs
<1>3. Verified(NewLayout(v, p), op, p)
  BY <1>1, <1>2, RenewedVerifies
<1>. QED BY <1>3, VerifiedSame

-----------------------------------------------------------------------------
(* The working image.                                                      *)

\* The allocated blocks are a volume with the same files.
LEMMA CopyUsedIs ==
  ASSUME NEW v, IsVolume(v), Sound(v), NEW w, w = CopyUsed(v)
  PROVE  IsVolume(w) /\ Agree(w, v, Carries(v)) /\ Sound(w) /\ Contents(w) = Contents(v)
<1>1. w = [b \in Blocks |-> w[b]] /\ \A b \in Blocks : w[b] = IF b[1] = "cell" /\ b[2] \in FreeCells(v) THEN Junk ELSE v[b]
  BY DEF CopyUsed
<1>2. \A b \in Blocks : Typed(b, v[b])
  BY VolumeIsTyped
<1>3. ASSUME NEW b \in Blocks PROVE Typed(b, w[b])
  <2>1. CASE w[b] = v[b]
    BY <1>2, <2>1
  <2>2. CASE b[1] = "cell" /\ b[2] \in FreeCells(v)
    <3>1. w[b] = Junk
      BY <1>1, <2>2
    <3>2. Junk \in Payloads
      BY DEF Junk, Payloads
    <3>3. b # Header /\ b # Bitmap /\ \A f : b # MapOf(f)
      BY <2>2, BlockNames
    <3>. QED BY <3>1, <3>2, <3>3 DEF Typed
  <2>. QED BY <1>1, <2>1, <2>2
<1>4. IsVolume(w)
  BY <1>1, <1>3, VolumeIsTyped
<1>5. Agree(w, v, Carries(v))
  <2>1. \A b \in Carries(v) : b \in Blocks
    BY CarriesAre
  <2>2. \A b \in Carries(v) : ~ (b[1] = "cell" /\ b[2] \in FreeCells(v))
    BY BlockNames DEF Carries, FreeCells
  <2>. QED BY <1>1, <2>1, <2>2 DEF Agree
<1>6. Exclusive(v)
  BY DEF Sound
<1>. QED BY <1>4, <1>5, <1>6, AgreeIsSame

\* The planner sees only the maps and the allocation map.
LEMMA PlanSame ==
  ASSUME NEW v, NEW w, Exclusive(v), IsVolume(v), Agree(w, v, Carries(v)), NEW op
  PROVE  AssignTargets(w, op, FileOrder) = AssignTargets(v, op, FileOrder)
<1>. DEFINE o == [op |-> op, order |-> FileOrder]
            n == Cardinality(Files)
            base == [fits |-> TRUE, start |-> [f \in Files |-> 0], remaining |-> FreeCells(v) \union Movable(v)]
<1>1. /\ \A f \in Files : w[MapOf(f)] = v[MapOf(f)]
      /\ FreeCells(w) = FreeCells(v) /\ Movable(w) = Movable(v)
  BY AgreeIsSame
<1>2. n \in Nat /\ DOMAIN FileOrder = 1..n /\ \A i \in 1..n : FileOrder[i] \in Files
  BY FileNumbers, FilesAssumption
<1>. DEFINE Plan(x) == PlaceFold!Folded(x, o, base, FileOrder)
            Step(x, i) == PlaceFold!Iterated(x, o, base, FileOrder)[1..i]
<1>3. AssignTargets(v, op, FileOrder) = Plan(v)
  BY DEF AssignTargets, Accumulate, Once, PlaceFold!Folded, PlaceStep,
         FoldLeft, PlaceFold!FoldLeft, MapThenFoldSet, PlaceFold!MapThenFoldSet, Max, PlaceFold!Max
<1>4. AssignTargets(w, op, FileOrder) = Plan(w)
  BY <1>1 DEF AssignTargets, Accumulate, Once, PlaceFold!Folded, PlaceStep,
         FoldLeft, PlaceFold!FoldLeft, MapThenFoldSet, PlaceFold!MapThenFoldSet, Max, PlaceFold!Max
<1>. HIDE DEF o, base
<1>5. \A x : /\ Step(x, 0) = base
             /\ \A i \in 1..n : Step(x, i) = PlaceStep(x, o, Step(x, i - 1), FileOrder[i])
             /\ Plan(x) = Step(x, n)
  BY <1>2, PlaceFold!IteratedSteps, PlaceFold!FoldedIsIterated
<1>6. ASSUME NEW p, NEW i \in 1..n PROVE PlaceStep(w, o, p, FileOrder[i]) = PlaceStep(v, o, p, FileOrder[i])
  BY <1>1, <1>2 DEF PlaceStep, Span, BlockCount
<1>. HIDE DEF Step, Plan
<1>. DEFINE T == {i \in Nat : i <= n => Step(w, i) = Step(v, i)}
<1>7. 0 \in T
  BY <1>5
<1>8. ASSUME NEW i \in Nat, i \in T PROVE i + 1 \in T
  <2>. SUFFICES ASSUME i + 1 <= n PROVE Step(w, i + 1) = Step(v, i + 1)
    OBVIOUS
  <2>1. i + 1 \in 1..n /\ (i + 1) - 1 = i /\ i <= n
    BY <1>2
  <2>2. Step(w, i) = Step(v, i)
    BY <1>8, <2>1
  <2>. QED BY <1>5, <1>6, <2>1, <2>2
<1>. HIDE DEF T
<1>9. n \in T
  BY <1>2, <1>7, <1>8, NatFacts!NatInduct
<1>10. Step(w, n) = Step(v, n)
  BY <1>2, <1>9 DEF T
<1>. QED BY <1>3, <1>4, <1>5, <1>10

\* The working image, arranged, is verified.
LEMMA ArrangedVerifies ==
  ASSUME NEW v, IsVolume(v), Sound(v), Contents(v) = owner, NEW db, AimsWell(v, proc.op, db),
         NEW moves, moves = Moves(v, db), NEW w, w = ArrangedImage(v, db, moves)
  PROVE  Verified(w, proc.op, db)
<1>. DEFINE applied == PrepareWorkspace(v, db, proc.op, 0)
            u == Permute(v, moves)
<1>1. Exclusive(v)
  BY DEF Sound
<1>2. moves = [c \in Movable(v) |-> moves[c]] /\ \A c \in Movable(v) : moves[c] \in TargetRanges(db)
  BY MovesToTargets
<1>3. TargetRanges(db) \subseteq Cells /\ Movable(v) \subseteq Cells
  <2>1. TargetRanges(db) \subseteq FreeCells(v) \union Movable(v)
    BY TargetsInside
  <2>2. \A f \in Files : CellsOf(v, f) \subseteq Cells
    BY CellsInside
  <2>. QED BY <2>1, <2>2 DEF Movable, FreeCells
<1>4. \A c, d \in Movable(v) : moves[c] = moves[d] => c = d
  <2>. DEFINE op == proc.op
  <2>1. IsVolume(v) /\ Exclusive(v) /\ AimsWell(v, op, db)
    BY <1>1
  <2>. HIDE DEF op
  <2>2. /\ \A f \in Files : \A j \in DOMAIN v[MapOf(f)] :
               /\ v[MapOf(f)][j] \in Movable(v)
               /\ Moves(v, db)[v[MapOf(f)][j]] = db.start[f] + j - 1
               /\ db.start[f] + j - 1 \in Range(FileTarget(db, f))
        /\ \A c, d \in Movable(v) : Moves(v, db)[c] = Moves(v, db)[d] => c = d
    BY <2>1, MovesApart, SMTT(60)
  <2>. QED BY <2>2
<1>5. DOMAIN moves = Movable(v)
  <2>. DEFINE M == moves
  <2>1. M = [c \in Movable(v) |-> M[c]]
    BY <1>2
  <2>. QED BY <2>1
<1>6. /\ \A c \in Movable(v) : u[Cell(moves[c])] = v[Cell(c)]
      /\ \A b \in Blocks : (\A c \in Movable(v) : b # Cell(moves[c])) => u[b] = v[b]
  <2>1. v = [b \in Blocks |-> v[b]]
    BY DEF IsVolume
  <2>2. DOMAIN moves \subseteq Cells /\ \A c \in DOMAIN moves : moves[c] \in Cells
    BY <1>2, <1>3, <1>5
  <2>3. \A c, d \in DOMAIN moves : moves[c] = moves[d] => c = d
    BY <1>4, <1>5
  <2>4. /\ \A c \in DOMAIN moves : u[Cell(moves[c])] = v[Cell(c)]
        /\ \A b \in Blocks : (\A c \in DOMAIN moves : b # Cell(moves[c])) => u[b] = v[b]
    BY <2>1, <2>2, <2>3, PermuteMoves
  <2>. QED BY <1>5, <2>4
<1>7. Released(applied) = NewUsed(v, db)
  <2>1. applied.moves = Moves(v, db) /\ applied.reserves = ReserveRanges(db, proc.op) /\ applied.used = v[Bitmap]
    BY DEF PrepareWorkspace
  <2>. HIDE DEF applied
  <2>. QED BY <2>1, ReleasedIs
<1>8. w = [b \in Blocks |-> IF b[1] = "map" THEN FileTarget(db, b[2])
                            ELSE IF b = Bitmap THEN NewUsed(v, db) ELSE u[b]]
  BY <1>7 DEF ArrangedImage
<1>. HIDE DEF u, applied
<1>9. IsRenewed(v, db, w)
  <2>1. w[Header] = v[Header]
    <3>1. Header \in Blocks /\ Header[1] # "map" /\ Header # Bitmap /\ \A c : Header # Cell(c)
      BY BlockNames, BlockSet
    <3>. QED BY <1>6, <1>8, <3>1
  <2>2. v[Header] \in Nat
    BY DEF IsVolume
  <2>3. w[Bitmap] = NewUsed(v, db)
    <3>1. Bitmap \in Blocks /\ Bitmap[1] # "map"
      BY BlockNames, BlockSet
    <3>. QED BY <1>8, <3>1
  <2>4. \A f \in Files : w[MapOf(f)] = FileTarget(db, f)
    <3>1. \A f \in Files : MapOf(f) \in Blocks /\ MapOf(f)[1] = "map" /\ MapOf(f)[2] = f
      BY BlockNames, BlockSet
    <3>. QED BY <1>8, <3>1
  <2>5. \A c \in Cells : w[Cell(c)] = u[Cell(c)]
    <3>1. \A c \in Cells : Cell(c) \in Blocks /\ Cell(c)[1] # "map" /\ Cell(c) # Bitmap
      BY BlockNames, BlockSet
    <3>. QED BY <1>8, <3>1
  <2>6. \A c \in Movable(v) : w[Cell(moves[c])] = v[Cell(c)]
    BY <1>2, <1>3, <1>6, <2>5
  <2>7. ASSUME NEW c \in Cells, \A d \in Movable(v) : c # moves[d] PROVE Typed(Cell(c), w[Cell(c)])
    <3>1. u[Cell(c)] = v[Cell(c)]
      BY <1>6, <2>7, BlockNames, BlockSet
    <3>. QED BY <2>5, <3>1, BlockSet, VolumeIsTyped
  <2>8. w = [b \in Blocks |-> w[b]]
    BY <1>8
  <2>9. /\ \A c \in Movable(v) : w[Cell(Moves(v, db)[c])] = v[Cell(c)]
        /\ \A c \in Cells : (\A d \in Movable(v) : c # Moves(v, db)[d]) => Typed(Cell(c), w[Cell(c)])
    BY <2>6, <2>7
  <2>. QED BY <2>1, <2>2, <2>3, <2>4, <2>8, <2>9 DEF IsRenewed
<1>. QED BY <1>9, RenewedVerifies
=============================================================================
