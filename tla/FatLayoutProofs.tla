--------------------------- MODULE FatLayoutProofs ---------------------------
(***************************************************************************)
(* Proofs about the FAT layout scheduler: it only asks for relocations to  *)
(* free clusters that keep the chains apart, none of its own consistency   *)
(* checks fails, and a command that completes leaves what the next one     *)
(* finds already satisfied.                                                *)
(***************************************************************************)
EXTENDS FatLayout, FiniteSetTheorems, TLAPS

-----------------------------------------------------------------------------
(* Counting the members below one: Rank, Nth, Min and Max.                 *)

\* R orders S strictly.
Orders(R, S) == /\ \A x, y \in S : x # y => <<x, y>> \in R \/ <<y, x>> \in R
                /\ \A x \in S : ~ <<x, x>> \in R
                /\ \A x, y, z \in S : <<x, y>> \in R /\ <<y, z>> \in R => <<x, z>> \in R
Below(R, S, x) == {y \in S : <<y, x>> \in R}
Graded(R, S) ==
    LET n == Cardinality(S)
    IN /\ \A x \in S : Cardinality(Below(R, S, x)) \in 0..(n - 1)
       /\ \A x, y \in S : <<x, y>> \in R => Cardinality(Below(R, S, x)) < Cardinality(Below(R, S, y))
       /\ \A k \in 0..(n - 1) : \E x \in S : Cardinality(Below(R, S, x)) = k

\* A finite ordered set has a member with each number of members below it.
LEMMA EachRank ==
  ASSUME NEW S, IsFiniteSet(S), NEW R, Orders(R, S)
  PROVE  Graded(R, S)
<1>. DEFINE n == Cardinality(S)
            rank == [x \in S |-> Cardinality(Below(R, S, x))]
<1>0. n \in Nat
  BY FS_CardinalityType
<1>1. ASSUME NEW x \in S
      PROVE  IsFiniteSet(Below(R, S, x)) /\ rank[x] \in 0..(n - 1)
  <2>1. Below(R, S, x) \in SUBSET S /\ x \notin Below(R, S, x)
    BY DEF Below, Orders
  <2>2. IsFiniteSet(Below(R, S, x)) /\ Cardinality(Below(R, S, x)) <= n
        /\ (n = Cardinality(Below(R, S, x)) => S = Below(R, S, x))
    BY <2>1, FS_Subset
  <2>3. Cardinality(Below(R, S, x)) \in Nat /\ n # Cardinality(Below(R, S, x))
    BY <2>1, <2>2, FS_CardinalityType
  <2>. QED BY <1>0, <2>2, <2>3
<1>2. ASSUME NEW x \in S, NEW y \in S, <<x, y>> \in R
      PROVE  rank[x] < rank[y]
  <2>1. Below(R, S, x) \in SUBSET Below(R, S, y) /\ x \in Below(R, S, y) /\ x \notin Below(R, S, x)
    BY <1>2 DEF Below, Orders
  <2>2. IsFiniteSet(Below(R, S, y))
    BY <1>1
  <2>3. Cardinality(Below(R, S, x)) <= Cardinality(Below(R, S, y))
        /\ (Cardinality(Below(R, S, y)) = Cardinality(Below(R, S, x)) => Below(R, S, y) = Below(R, S, x))
    BY <2>1, <2>2, FS_Subset
  <2>4. rank[x] \in 0..(n - 1) /\ rank[y] \in 0..(n - 1)
    BY <1>1
  <2>. QED BY <2>1, <2>3, <2>4
<1>3. rank \in Injection(S, 0..(n - 1))
  <2>1. rank \in [S -> 0..(n - 1)]
    BY <1>1
  <2>2. ASSUME NEW x \in S, NEW y \in S, rank[x] = rank[y], x # y PROVE FALSE
    <3>1. rank[x] \in Int /\ rank[y] \in Int
      BY <1>1
    <3>2. CASE <<x, y>> \in R
      <4>1. rank[x] < rank[y]
        BY <1>2, <3>2
      <4>. HIDE DEF rank
      <4>. QED BY <2>2, <3>1, <4>1
    <3>3. CASE <<y, x>> \in R
      <4>1. rank[y] < rank[x]
        BY <1>2, <3>3
      <4>. HIDE DEF rank
      <4>. QED BY <2>2, <3>1, <4>1
    <3>. QED BY <2>2, <3>2, <3>3 DEF Orders
  <2>. HIDE DEF rank
  <2>. QED BY <2>1, <2>2 DEF Injection, IsInjective
<1>4. IsFiniteSet(0..(n - 1)) /\ Cardinality(0..(n - 1)) = n
  <2>1. IsFiniteSet(0..(n - 1)) /\ Cardinality(0..(n - 1)) = IF 0 > n - 1 THEN 0 ELSE (n - 1) - 0 + 1
    BY <1>0, FS_Interval
  <2>. QED BY <1>0, <2>1
<1>5. rank \in Surjection(S, 0..(n - 1))
  <2>. HIDE DEF rank
  <2>. QED BY <1>3, <1>4, FS_Injection DEF n
<1>6. \A k \in 0..(n - 1) : \E x \in S : rank[x] = k
  <2>. HIDE DEF rank, n
  <2>. QED BY <1>5 DEF Surjection
<1>. QED BY <1>1, <1>2, <1>6 DEF Graded

\* Smaller numbers come before.
Smaller(S) == {z \in S \X S : z[1] < z[2]}

\* Numbers are ordered by size.
LEMMA SmallerOrders == \A S : S \subseteq Int => Orders(Smaller(S), S)
BY DEF Orders, Smaller

\* Rank numbers the members from 1, and Nth finds each number's member.
LEMMA RankNth ==
  ASSUME NEW S, IsFiniteSet(S), S \subseteq Int
  PROVE  /\ \A x \in S : Rank(S, x) \in 1..Cardinality(S)
         /\ \A x, y \in S : x < y => Rank(S, x) < Rank(S, y)
         /\ \A x, y \in S : Rank(S, x) = Rank(S, y) => x = y
         /\ \A i \in 1..Cardinality(S) : Nth(S, i) \in S /\ Rank(S, Nth(S, i)) = i
<1>. DEFINE R == Smaller(S)
            n == Cardinality(S)
<1>0. n \in Nat
  BY FS_CardinalityType
<1>1. /\ \A x \in S : Cardinality(Below(R, S, x)) \in 0..(n - 1)
      /\ \A x, y \in S : <<x, y>> \in R => Cardinality(Below(R, S, x)) < Cardinality(Below(R, S, y))
      /\ \A k \in 0..(n - 1) : \E x \in S : Cardinality(Below(R, S, x)) = k
  <2>1. Orders(R, S)
    BY SmallerOrders
  <2>2. Graded(R, S)
    BY <2>1, EachRank
  <2>. HIDE DEF R
  <2>. QED BY <2>2 DEF Graded
<1>2. ASSUME NEW x \in S PROVE Rank(S, x) = Cardinality(Below(R, S, x)) + 1
  <2>1. Below(R, S, x) = {y \in S : y < x}
    BY DEF Below, Smaller
  <2>2. {y \in S : y <= x} = {y \in S : y < x} \cup {x} /\ x \notin {y \in S : y < x}
    <3>1. \A y \in S : y \in Int
      OBVIOUS
    <3>2. \A y \in S : (y <= x <=> y < x \/ y = x)
      BY <3>1
    <3>3. ~ (x < x)
      BY <3>1
    <3>. QED BY <3>2, <3>3
  <2>3. IsFiniteSet({y \in S : y < x})
    <3>1. {y \in S : y < x} \in SUBSET S
      OBVIOUS
    <3>. QED BY <3>1, FS_Subset
  <2>4. Cardinality({y \in S : y < x} \cup {x}) = Cardinality({y \in S : y < x}) + 1
    BY <2>2, <2>3, FS_AddElement
  <2>. QED BY <2>1, <2>2, <2>4 DEF Rank
<1>3. \A x, y \in S : <<x, y>> \in R <=> x < y
  BY DEF Smaller
<1>4. \A x \in S : Rank(S, x) \in 1..n
  BY <1>0, <1>1, <1>2
<1>5. ASSUME NEW x \in S, NEW y \in S, x < y PROVE Rank(S, x) < Rank(S, y)
  <2>1. Cardinality(Below(R, S, x)) < Cardinality(Below(R, S, y))
    BY <1>1, <1>3, <1>5
  <2>2. Rank(S, x) = Cardinality(Below(R, S, x)) + 1 /\ Rank(S, y) = Cardinality(Below(R, S, y)) + 1
    BY <1>2
  <2>3. Cardinality(Below(R, S, x)) \in Int /\ Cardinality(Below(R, S, y)) \in Int
    <3>. HIDE DEF n, R
    <3>. QED BY <1>0, <1>1
  <2>. HIDE DEF R
  <2>. QED BY <2>1, <2>2, <2>3
<1>6. \A x, y \in S : Rank(S, x) = Rank(S, y) => x = y
  <2>1. \A x, y \in S : x # y => x < y \/ y < x
    OBVIOUS
  <2>. HIDE DEF R, n
  <2>. QED BY <1>0, <1>4, <1>5, <2>1
<1>7. ASSUME NEW i \in 1..n PROVE Nth(S, i) \in S /\ Rank(S, Nth(S, i)) = i
  <2>1. i - 1 \in 0..(n - 1)
    BY <1>0
  <2>2. PICK x \in S : Cardinality(Below(R, S, x)) = i - 1
    BY <1>1, <2>1
  <2>3. Rank(S, x) = i
    BY <1>2, <2>2
  <2>4. \E z \in S : Cardinality({y \in S : y <= z}) = i
    BY <2>3 DEF Rank
  <2>. QED BY <2>4 DEF Nth, Rank
<1>. QED BY <1>4, <1>5, <1>6, <1>7

\* A finite nonempty set of integers has a least and a greatest member.
LEMMA MinMax ==
  ASSUME NEW S, IsFiniteSet(S), S \subseteq Int, S # {}
  PROVE  /\ Min(S) \in S /\ \A y \in S : Min(S) <= y
         /\ Max(S) \in S /\ \A y \in S : y <= Max(S)
<1>. DEFINE n == Cardinality(S)
<1>0. n \in Nat /\ n # 0
  BY FS_CardinalityType, FS_EmptySet
<1>1. /\ \A x \in S : Rank(S, x) \in 1..n
      /\ \A x, y \in S : x < y => Rank(S, x) < Rank(S, y)
      /\ \A i \in 1..n : Nth(S, i) \in S /\ Rank(S, Nth(S, i)) = i
  BY RankNth
<1>. HIDE DEF n
<1>2. \E x \in S : \A y \in S : x <= y
  <2>. DEFINE x == Nth(S, 1)
  <2>1. x \in S /\ Rank(S, x) = 1
    BY <1>0, <1>1
  <2>2. ASSUME NEW y \in S, y < x PROVE FALSE
    <3>. HIDE DEF x
    <3>1. Rank(S, y) \in 1..n
      BY <1>1
    <3>2. Rank(S, y) < Rank(S, x)
      BY <1>1, <2>1, <2>2
    <3>. QED BY <1>0, <2>1, <3>1, <3>2
  <2>. HIDE DEF x
  <2>3. \A y \in S : y \in Int /\ x \in Int
    BY <2>1
  <2>. QED BY <2>1, <2>2, <2>3
<1>3. \E x \in S : \A y \in S : y <= x
  <2>. DEFINE x == Nth(S, n)
  <2>1. x \in S /\ Rank(S, x) = n
    BY <1>0, <1>1
  <2>2. ASSUME NEW y \in S, x < y PROVE FALSE
    <3>. HIDE DEF x
    <3>1. Rank(S, y) \in 1..n
      BY <1>1
    <3>2. Rank(S, x) < Rank(S, y)
      BY <1>1, <2>1, <2>2
    <3>. QED BY <1>0, <2>1, <3>1, <3>2
  <2>. HIDE DEF x
  <2>3. \A y \in S : y \in Int /\ x \in Int
    BY <2>1
  <2>. QED BY <2>1, <2>2, <2>3
<1>4. \E x \in S : \A y \in S : x >= y
  <2>1. \A x, y \in S : y <= x => x >= y
    OBVIOUS
  <2>. QED BY <1>3, <2>1
<1>. QED BY <1>2, <1>4 DEF Min, Max
-----------------------------------------------------------------------------
(* What a transaction does to the chains.                                  *)

\* The chains avoid the bad clusters and each other.
Chains(p) == /\ \A o \in Objects : p[o] \in [1..Size[o] -> Clusters \ setup.bad]
             /\ Disjoint(p)

\* q differs from p only where it has clusters that are free in p.
FreeMoves(p, q) == \A o \in Objects : \A i \in 1..Size[o] :
                     q[o][i] # p[o][i] => q[o][i] \in Free(p)

\* Places for some objects, within a set of clusters and off each other.
Apart(at) == \A o, q \in DOMAIN at :
               o # q => at[o] + Size[o] <= at[q] \/ at[q] + Size[q] <= at[o]
Batch(at, S) == /\ DOMAIN at \subseteq Objects
                /\ \A o \in DOMAIN at : at[o] \in Int /\ Run(at[o], Size[o]) \subseteq S
                /\ Apart(at)

\* Every object has at least one cluster.
LEMMA SizeType == \A o \in Objects : Size[o] \in Nat /\ Size[o] >= 1
BY Sizes

\* A used cluster is some cell of some chain, and a free one is none.
LEMMA UsedCells ==
  ASSUME NEW p, Chains(p)
  PROVE  /\ \A c : c \in Used(p) <=> \E o \in Objects : \E i \in 1..Size[o] : c = p[o][i]
         /\ \A c : c \in Free(p) <=> /\ c \in Clusters \ setup.bad
                                     /\ \A o \in Objects : \A i \in 1..Size[o] : p[o][i] # c
         /\ \A o \in Objects : \A i \in 1..Size[o] : p[o][i] \in Clusters \ setup.bad
<1>1. \A o \in Objects : Range(p[o]) = {p[o][i] : i \in 1..Size[o]}
  BY DEF Chains, Range
<1>2. \A c : c \in Used(p) <=> \E o \in Objects : \E i \in 1..Size[o] : c = p[o][i]
  BY <1>1 DEF Used
<1>3. \A o \in Objects : \A i \in 1..Size[o] : p[o][i] \in Clusters \ setup.bad
  BY DEF Chains
<1>. QED BY <1>2, <1>3 DEF Free

\* The clusters of a run.
LEMMA InRun == \A start, n \in Int : \A x : x \in Run(start, n) <=> x \in Int /\ start <= x /\ x < start + n
BY DEF Run

\* Whole objects moved to free runs off each other keep the chains apart.
LEMMA MovedKept ==
  ASSUME NEW p, Chains(p), NEW at, Batch(at, Free(p))
  PROVE  Chains(Moved(p, at)) /\ FreeMoves(p, Moved(p, at))
<1>. DEFINE q == Moved(p, at)
<1>1. ASSUME NEW o \in Objects, o \notin DOMAIN at PROVE q[o] = p[o]
  BY <1>1 DEF Moved
<1>2. ASSUME NEW o \in Objects, o \in DOMAIN at
      PROVE  /\ q[o] \in [1..Size[o] -> Free(p)]
             /\ \A i \in 1..Size[o] : q[o][i] = at[o] + i - 1
  <2>1. q[o] = [i \in 1..Size[o] |-> at[o] + i - 1]
    BY <1>2 DEF Moved, Contiguous
  <2>2. at[o] \in Int /\ Run(at[o], Size[o]) \subseteq Free(p) /\ Size[o] \in Nat
    BY <1>2, SizeType DEF Batch
  <2>3. \A i \in 1..Size[o] : at[o] + i - 1 \in Run(at[o], Size[o])
    BY <2>2, InRun
  <2>. QED BY <2>1, <2>2, <2>3
<1>3. FreeMoves(p, q)
  <2>. SUFFICES ASSUME NEW o \in Objects, NEW i \in 1..Size[o], q[o][i] # p[o][i]
                PROVE  q[o][i] \in Free(p)
    BY DEF FreeMoves
  <2>. HIDE DEF q
  <2>. QED BY <1>1, <1>2
<1>4. \A o \in Objects : q[o] \in [1..Size[o] -> Clusters \ setup.bad]
  <2>1. Free(p) \subseteq Clusters \ setup.bad
    BY UsedCells
  <2>2. \A o \in Objects : p[o] \in [1..Size[o] -> Clusters \ setup.bad]
    BY DEF Chains
  <2>. HIDE DEF q
  <2>. QED BY <1>1, <1>2, <2>1, <2>2
<1>5. Disjoint(q)
  <2>. SUFFICES ASSUME NEW o \in Objects, NEW r \in Objects, NEW i \in 1..Size[o], NEW j \in 1..Size[r],
                       q[o][i] = q[r][j]
                PROVE  o = r /\ i = j
    BY DEF Disjoint
  <2>. HIDE DEF q
  <2>1. CASE o \notin DOMAIN at /\ r \notin DOMAIN at
    BY <1>1, <2>1 DEF Chains, Disjoint
  <2>0. \A c \in Free(p) : p[o][i] # c /\ p[r][j] # c
    BY UsedCells
  <2>2. CASE o \in DOMAIN at /\ r \notin DOMAIN at
    <3>1. q[o][i] \in Free(p) /\ q[r] = p[r]
      BY <1>1, <1>2, <2>2
    <3>. QED BY <2>0, <3>1
  <2>3. CASE o \notin DOMAIN at /\ r \in DOMAIN at
    <3>1. q[r][j] \in Free(p) /\ q[o] = p[o]
      BY <1>1, <1>2, <2>3
    <3>. QED BY <2>0, <3>1
  <2>4. CASE o \in DOMAIN at /\ r \in DOMAIN at
    <3>1. at[o] \in Int /\ at[r] \in Int /\ Size[o] \in Nat /\ Size[r] \in Nat
      BY <2>4, SizeType DEF Batch
    <3>2. at[o] + i - 1 = at[r] + j - 1
      BY <1>2, <2>4
    <3>3. o # r => at[o] + Size[o] <= at[r] \/ at[r] + Size[r] <= at[o]
      BY <2>4 DEF Batch, Apart
    <3>. QED BY <3>1, <3>2, <3>3
  <2>. QED BY <2>1, <2>2, <2>3, <2>4
<1>. QED BY <1>3, <1>4, <1>5 DEF Chains

\* So do single clusters moved to different free clusters.
LEMMA RemappedKept ==
  ASSUME NEW p, Chains(p), NEW map,
         \A c \in DOMAIN map : map[c] \in Free(p),
         \A c, d \in DOMAIN map : map[c] = map[d] => c = d
  PROVE  Chains(Remapped(p, map)) /\ FreeMoves(p, Remapped(p, map))
<1>. DEFINE q == Remapped(p, map)
<1>1. ASSUME NEW o \in Objects
      PROVE  /\ DOMAIN q[o] = 1..Size[o]
             /\ \A i \in 1..Size[o] : q[o][i] = IF p[o][i] \in DOMAIN map THEN map[p[o][i]] ELSE p[o][i]
             /\ q[o] = [i \in 1..Size[o] |-> q[o][i]]
  <2>1. DOMAIN p[o] = 1..Size[o]
    BY DEF Chains
  <2>2. q[o] = [i \in 1..Size[o] |-> IF p[o][i] \in DOMAIN map THEN map[p[o][i]] ELSE p[o][i]]
    BY <2>1 DEF Remapped
  <2>. HIDE DEF q
  <2>. QED BY <2>2
<1>. HIDE DEF q
<1>2. FreeMoves(p, q)
  BY <1>1 DEF FreeMoves
<1>3. \A o \in Objects : q[o] \in [1..Size[o] -> Clusters \ setup.bad]
  <2>0. Free(p) \subseteq Clusters \ setup.bad
    BY UsedCells
  <2>1. ASSUME NEW o \in Objects, NEW i \in 1..Size[o] PROVE q[o][i] \in Clusters \ setup.bad
    <3>1. q[o][i] = (IF p[o][i] \in DOMAIN map THEN map[p[o][i]] ELSE p[o][i])
      BY <1>1
    <3>2. p[o][i] \in Clusters \ setup.bad
      BY UsedCells
    <3>. QED BY <2>0, <3>1, <3>2
  <2>. QED BY <1>1, <2>1
<1>4. Disjoint(q)
  <2>. SUFFICES ASSUME NEW o \in Objects, NEW r \in Objects, NEW i \in 1..Size[o], NEW j \in 1..Size[r],
                       q[o][i] = q[r][j]
                PROVE  o = r /\ i = j
    BY DEF Disjoint
  <2>1. p[o][i] = p[r][j]
    <3>1. q[o][i] = (IF p[o][i] \in DOMAIN map THEN map[p[o][i]] ELSE p[o][i])
          /\ q[r][j] = (IF p[r][j] \in DOMAIN map THEN map[p[r][j]] ELSE p[r][j])
      BY <1>1
    <3>2. \A c \in DOMAIN map : map[c] # p[o][i] /\ map[c] # p[r][j]
      BY UsedCells
    <3>. QED BY <3>1, <3>2
  <2>. QED BY <2>1 DEF Chains, Disjoint
<1>. QED BY <1>2, <1>3, <1>4 DEF Chains, q

-----------------------------------------------------------------------------
(* The inductive invariant.                                                *)

Count == Cardinality(Objects)
Placing == {"forward", "forwardPlace", "unified", "unifiedPlace", "adaptive",
            "fallback", "unblock", "fallbackPlace"}
States == {"start", "evacuate", "verify"} \cup Placing \cup Ended

\* A sequence that holds each object once.
Lists(s) == /\ s \in [1..Count -> Objects]
            /\ \A i, j \in 1..Count : s[i] = s[j] => i = j
            /\ \A o \in Objects : \E i \in 1..Count : s[i] = o

\* The workspace ends the volume and has no bad cluster.
GoodWorkspace == workspace \in Clusters /\ \A b \in setup.bad : b < workspace

\* The plan's targets, below the workspace.
GoodTargets == /\ DOMAIN target = Objects
               /\ Batch(target, (2..(workspace - 1)) \ setup.bad)

\* Objects outside S have no cluster in the workspace.
OutsideWorkspace(S) ==
    \A o \in Objects \ S : \A i \in 1..Size[o] : place[o][i] < workspace

ForwardInv == pc = "forward" => next >= 1 /\ OutsideWorkspace({})
ForwardPlaceInv ==
    pc = "forwardPlace" => /\ DOMAIN staged \subseteq Objects
                           /\ next + Cardinality(DOMAIN staged) \in 1..(Count + 1)
                           /\ OutsideWorkspace(DOMAIN staged)
UnifiedPlaceInv == pc = "unifiedPlace" => DOMAIN staged \subseteq Objects
FallbackInv == /\ pc = "fallback" => next \in 0..Count
               /\ pc \in {"unblock", "fallbackPlace"} => next \in 1..Count
               /\ pc = "unblock" => /\ original \in [1..Size[order[next]] -> Clusters \ setup.bad]
                                    /\ \A i, j \in DOMAIN original : original[i] = original[j] => i = j

LayoutInv ==
    /\ TypeOK
    /\ pc \in States
    /\ Chains(place)
    /\ pc \in {"start", "evacuate"} => staged = <<>> /\ next = 0
    /\ order = <<>> \/ Lists(order)
    /\ pc \in {"evacuate"} \cup Placing => Lists(order) /\ GoodWorkspace
    /\ pc \in Placing => GoodTargets
    /\ ForwardInv /\ ForwardPlaceInv /\ UnifiedPlaceInv /\ FallbackInv
    /\ pc = "completed" => VerifyAccepts(place)

-----------------------------------------------------------------------------
(* The plan.                                                               *)

\* o's run and its reserve end at some cluster that no other run crosses.
Reserved(limit, at, cursor, o) ==
    \E e \in ReserveEnds(at[o] + Size[o], Reserve(o), limit) :
        /\ e <= cursor
        /\ \A q \in DOMAIN at : q # o => at[q] + Size[q] <= at[o] \/ e <= at[q]

PlannedRuns(limit, at) ==
    \A o \in DOMAIN at : /\ at[o] \in Nat /\ at[o] >= 2 /\ at[o] + Size[o] <= limit
                         /\ Run(at[o], Size[o]) \cap setup.bad = {}

\* What a plan has after i of the objects.
PlanTaken(limit, items, i, plan) ==
    /\ DOMAIN plan = {"fits", "cursor", "at"}
    /\ plan.fits \in BOOLEAN
    /\ plan.fits => /\ DOMAIN plan.at = {items[j] : j \in 1..i}
                    /\ plan.cursor \in Nat /\ plan.cursor >= 2
                    /\ PlannedRuns(limit, plan.at)
                    /\ \A o \in DOMAIN plan.at : Reserved(limit, plan.at, plan.cursor, o)

PlanFold == INSTANCE FoldInduction WITH Step <- LAMBDA v, op, p, x : PlanStep(v, p, x),
                                        Inv <- PlanTaken

\* The least usable run and reserve end are usable.
LEMMA LeastRun ==
  ASSUME NEW cursor \in Int, NEW length \in Int, NEW limit \in Int,
         UsableRuns(cursor, length, limit) # {}
  PROVE  /\ Min(UsableRuns(cursor, length, limit)) \in cursor..(limit - length)
         /\ Run(Min(UsableRuns(cursor, length, limit)), length) \cap setup.bad = {}
<1>. DEFINE S == UsableRuns(cursor, length, limit)
<1>1. S \in SUBSET (cursor..(limit - length))
  BY DEF UsableRuns
<1>2. IsFiniteSet(cursor..(limit - length))
  BY FS_Interval
<1>3. IsFiniteSet(S) /\ S \subseteq Int
  BY <1>1, <1>2, FS_Subset
<1>4. Min(S) \in S
  <2>. HIDE DEF S
  <2>1. S # {}
    BY DEF S
  <2>. QED BY <1>3, <2>1, MinMax
<1>. QED BY <1>4 DEF UsableRuns

\* So is the least end of a reserve, which is where the plan goes on.
LEMMA LeastEnd ==
  ASSUME NEW cursor \in Int, NEW r, NEW limit \in Int, ReserveEnds(cursor, r, limit) # {}
  PROVE  /\ Min(ReserveEnds(cursor, r, limit)) \in ReserveEnds(cursor, r, limit)
         /\ Min(ReserveEnds(cursor, r, limit)) \in cursor..limit
<1>. DEFINE S == ReserveEnds(cursor, r, limit)
<1>1. S \in SUBSET (cursor..limit)
  BY DEF ReserveEnds
<1>2. IsFiniteSet(cursor..limit)
  BY FS_Interval
<1>3. IsFiniteSet(S) /\ S \subseteq Int
  BY <1>1, <1>2, FS_Subset
<1>4. Min(S) \in S
  <2>. HIDE DEF S
  <2>1. S # {}
    BY DEF S
  <2>. QED BY <1>3, <2>1, MinMax
<1>. QED BY <1>1, <1>4

\* A function with one more point.
LEMMA OneMore ==
  \A f, a, b : /\ DOMAIN With(f, a, b) = {a} \cup DOMAIN f
               /\ With(f, a, b)[a] = b
               /\ \A x \in DOMAIN f : x # a => With(f, a, b)[x] = f[x]
               /\ With(f, a, b) # <<>>
<1>. TAKE f, a, b
<1>1. DOMAIN With(f, a, b) = {a} \cup DOMAIN f
  BY DEF With
<1>2. With(f, a, b)[a] = b /\ \A x \in DOMAIN f : x # a => With(f, a, b)[x] = f[x]
  BY DEF With
<1>3. With(f, a, b) # <<>>
  <2>1. DOMAIN <<>> = {}
    OBVIOUS
  <2>2. a \in DOMAIN With(f, a, b)
    BY <1>1
  <2>. QED BY <2>1, <2>2
<1>. QED BY <1>1, <1>2, <1>3

\* The next object gets a good run and its reserve beyond all earlier ones.
LEMMA PlanStepKeeps ==
  ASSUME NEW limit \in Int, NEW items, Lists(items), NEW i \in 1..Count, NEW plan,
         PlanTaken(limit, items, i - 1, plan)
  PROVE  PlanTaken(limit, items, i, PlanStep(limit, plan, items[i]))
<1>. DEFINE o == items[i]
            runs == UsableRuns(plan.cursor, Size[o], limit)
            s == Min(runs)
            ends == ReserveEnds(s + Size[o], Reserve(o), limit)
            e == Min(ends)
<1>0. o \in Objects /\ Size[o] \in Nat /\ Size[o] >= 1 /\ Count \in Nat
  BY SizeType, FiniteObjects, FS_CardinalityType DEF Lists, Count
<1>1. CASE ~ plan.fits \/ runs = {} \/ ends = {}
  <2>1. PlanStep(limit, plan, o) = [plan EXCEPT !.fits = FALSE]
    BY <1>1 DEF PlanStep
  <2>2. DOMAIN plan = {"fits", "cursor", "at"}
    BY DEF PlanTaken
  <2>. HIDE DEF o
  <2>3. LET r == [plan EXCEPT !.fits = FALSE] IN r.fits = FALSE /\ DOMAIN r = {"fits", "cursor", "at"}
    BY <2>2
  <2>. QED BY <2>1, <2>3 DEF PlanTaken, o
<1>2. CASE plan.fits /\ runs # {} /\ ends # {}
  <2>. DEFINE at == With(plan.at, o, s)
  <2>1. PlanStep(limit, plan, o) = [fits |-> TRUE, cursor |-> e, at |-> at]
    BY <1>2 DEF PlanStep
  <2>2. /\ DOMAIN plan.at = {items[j] : j \in 1..(i - 1)}
        /\ plan.cursor \in Nat /\ plan.cursor >= 2
        /\ PlannedRuns(limit, plan.at)
        /\ \A q \in DOMAIN plan.at : Reserved(limit, plan.at, plan.cursor, q)
    BY <1>2 DEF PlanTaken
  <2>3. s \in plan.cursor..(limit - Size[o]) /\ Run(s, Size[o]) \cap setup.bad = {}
    <3>. HIDE DEF o
    <3>. QED BY <1>0, <1>2, <2>2, LeastRun
  <2>. HIDE DEF s, runs
  <2>4. e \in ends /\ e \in (s + Size[o])..limit
    <3>1. s + Size[o] \in Int
      BY <1>0, <2>2, <2>3
    <3>. HIDE DEF o
    <3>. QED BY <1>2, <3>1, LeastEnd
  <2>. HIDE DEF e
  <2>5. o \notin DOMAIN plan.at
    <3>1. \A j \in 1..(i - 1) : items[j] # items[i]
      BY <1>0 DEF Lists
    <3>. QED BY <2>2, <3>1
  <2>6. /\ DOMAIN at = {o} \cup DOMAIN plan.at
        /\ at[o] = s
        /\ \A q \in DOMAIN plan.at : at[q] = plan.at[q]
    <3>1. DOMAIN at = {o} \cup DOMAIN plan.at
      BY OneMore
    <3>3. at[o] = s
      BY OneMore
    <3>2. ASSUME NEW q \in DOMAIN plan.at PROVE at[q] = plan.at[q]
      BY <2>5, OneMore
    <3>. QED BY <3>1, <3>2, <3>3
  <2>7. DOMAIN at = {items[j] : j \in 1..i}
    <3>1. \A j \in 1..i : j = i \/ j \in 1..(i - 1)
      BY <1>0
    <3>2. \A j \in 1..(i - 1) : j \in 1..i
      BY <1>0
    <3>3. i \in 1..i
      BY <1>0
    <3>. QED BY <2>2, <2>6, <3>1, <3>2, <3>3
  <2>. HIDE DEF at, o, ends
  <2>8. DOMAIN plan.at \subseteq Objects
    <3>1. \A j \in 1..(i - 1) : items[j] \in Objects
      BY <1>0 DEF Lists
    <3>. QED BY <2>2, <3>1
  <2>9. PlannedRuns(limit, at)
    BY <1>0, <2>2, <2>3, <2>6 DEF PlannedRuns
  <2>10. ASSUME NEW q \in DOMAIN plan.at
         PROVE  plan.at[q] + Size[q] <= plan.cursor /\ Reserved(limit, at, e, q)
    <3>1. PICK f \in ReserveEnds(plan.at[q] + Size[q], Reserve(q), limit) :
             /\ f <= plan.cursor
             /\ \A r \in DOMAIN plan.at : r # q => plan.at[r] + Size[r] <= plan.at[q] \/ f <= plan.at[r]
      BY <2>2 DEF Reserved
    <3>2. plan.at[q] \in Nat /\ Size[q] \in Nat
      BY <2>2, <2>8, SizeType DEF PlannedRuns
    <3>3. f \in (plan.at[q] + Size[q])..limit
      BY DEF ReserveEnds
    <3>4. f <= s /\ f <= e /\ f \in Int
      BY <1>0, <2>2, <2>3, <2>4, <3>1, <3>2, <3>3
    <3>5. \A r \in DOMAIN at : r # q => at[r] + Size[r] <= at[q] \/ f <= at[r]
      BY <2>6, <3>1, <3>4
    <3>6. f \in ReserveEnds(at[q] + Size[q], Reserve(q), limit)
      BY <2>6
    <3>. QED BY <2>2, <3>1, <3>2, <3>3, <3>4, <3>5, <3>6 DEF Reserved
  <2>11. Reserved(limit, at, e, o)
    <3>1. e \in ReserveEnds(at[o] + Size[o], Reserve(o), limit)
      BY <2>4, <2>6 DEF ends
    <3>2. \A q \in DOMAIN at : q # o => at[q] + Size[q] <= at[o]
      <4>1. ASSUME NEW q \in DOMAIN plan.at PROVE at[q] + Size[q] <= at[o]
        <5>1. plan.at[q] + Size[q] <= plan.cursor
          BY <2>10
        <5>2. plan.at[q] \in Nat /\ Size[q] \in Nat
          BY <2>2, <2>8, SizeType DEF PlannedRuns
        <5>. QED BY <2>2, <2>3, <2>6, <5>1, <5>2
      <4>. QED BY <2>6, <4>1
    <3>3. e <= e
      BY <2>4
    <3>. QED BY <3>1, <3>2, <3>3 DEF Reserved
  <2>12. e \in Nat /\ e >= 2
    BY <1>0, <2>2, <2>3, <2>4
  <2>13. \A q \in DOMAIN at : Reserved(limit, at, e, q)
    BY <2>6, <2>10, <2>11
  <2>. QED BY <2>1, <2>7, <2>9, <2>12, <2>13 DEF PlanTaken, o
<1>. QED BY <1>1, <1>2 DEF PlanTaken

\* A plan that fits gives every object a run, off bad clusters and the others.
LEMMA PlanKept ==
  ASSUME NEW limit \in Int, NEW items, Lists(items)
  PROVE  PlanTaken(limit, items, Count, Plan(items, limit))
<1>0. Count \in Nat
  BY FiniteObjects, FS_CardinalityType DEF Count
<1>1. DOMAIN items = 1..Count
  BY DEF Lists
<1>2. Plan(items, limit) = PlanFold!PlainFold(limit, items, EmptyPlan, items)
  BY DEF Plan, PlanFold!PlainFold, FoldLeft, PlanFold!FoldLeft, MapThenFoldSet,
         PlanFold!MapThenFoldSet, Max, PlanFold!Max
<1>3. PlanTaken(limit, items, 0, EmptyPlan)
  BY DEF PlanTaken, EmptyPlan, PlannedRuns
<1>4. \A i \in 1..Count : \A p : PlanTaken(limit, items, i - 1, p) =>
                                  PlanTaken(limit, items, i, PlanStep(limit, p, items[i]))
  BY PlanStepKeeps
<1>5. PlanTaken(limit, items, Count, PlanFold!PlainFold(limit, items, EmptyPlan, items))
  BY <1>0, <1>1, <1>3, <1>4, PlanFold!PlainFoldKeeps
<1>. QED BY <1>2, <1>5

-----------------------------------------------------------------------------
(* The order of the objects.                                               *)

\* The lowest cluster of a chain is one of its clusters.
LEMMA LowestCluster ==
  ASSUME NEW p, Chains(p), NEW o \in Objects
  PROVE  /\ \E i \in 1..Size[o] : PhysicalFirst(p, o) = p[o][i]
         /\ PhysicalFirst(p, o) \in Clusters
         /\ \A i \in 1..Size[o] : PhysicalFirst(p, o) <= p[o][i]
<1>. DEFINE S == Range(p[o])
<1>1. p[o] \in [1..Size[o] -> Clusters] /\ Size[o] \in Nat /\ Size[o] >= 1
  BY SizeType DEF Chains
<1>2. S = {p[o][i] : i \in 1..Size[o]}
  BY <1>1 DEF Range
<1>3. S \in SUBSET (2..LastCluster)
  BY <1>1, <1>2 DEF Clusters
<1>4. IsFiniteSet(2..LastCluster)
  BY FiniteObjects, FS_Interval
<1>5. IsFiniteSet(S) /\ S \subseteq Int
  BY <1>3, <1>4, FiniteObjects, FS_Subset
<1>6. p[o][1] \in S
  BY <1>1, <1>2
<1>7. Min(S) \in S /\ \A y \in S : Min(S) <= y
  <2>. HIDE DEF S
  <2>. QED BY <1>5, <1>6, MinMax
<1>. QED BY <1>2, <1>3, <1>7 DEF PhysicalFirst, Clusters

\* Two objects have different lowest clusters.
LEMMA LowestDiffer ==
  ASSUME NEW p, Chains(p), NEW o \in Objects, NEW q \in Objects,
         PhysicalFirst(p, o) = PhysicalFirst(p, q)
  PROVE  o = q
<1>1. PICK i \in 1..Size[o] : PhysicalFirst(p, o) = p[o][i]
  BY LowestCluster
<1>2. PICK j \in 1..Size[q] : PhysicalFirst(p, q) = p[q][j]
  BY LowestCluster
<1>3. p[o][i] = p[q][j]
  BY <1>1, <1>2
<1>. QED BY <1>3 DEF Chains, Disjoint

\* The plan's order lists every object once.
LEMMA PhysicalOrderLists ==
  ASSUME NEW p, Chains(p)
  PROVE  Lists(PhysicalOrder(p))
<1>. DEFINE R == {z \in Objects \X Objects : PhysicalFirst(p, z[1]) < PhysicalFirst(p, z[2])}
            rank(o) == Cardinality({q \in Objects : PhysicalFirst(p, q) <= PhysicalFirst(p, o)})
            s == PhysicalOrder(p)
<1>0. Count \in Nat /\ \A o \in Objects : PhysicalFirst(p, o) \in Int
  BY FiniteObjects, FS_CardinalityType, LowestCluster DEF Count, Clusters
<1>1. Orders(R, Objects)
  <2>1. \A x, y \in Objects : x # y => <<x, y>> \in R \/ <<y, x>> \in R
    <3>1. \A x, y \in Objects : x # y => PhysicalFirst(p, x) # PhysicalFirst(p, y)
      BY LowestDiffer
    <3>2. \A x, y \in Objects : x # y => PhysicalFirst(p, x) < PhysicalFirst(p, y)
                                           \/ PhysicalFirst(p, y) < PhysicalFirst(p, x)
      BY <1>0, <3>1
    <3>. QED BY <3>2
  <2>2. \A x \in Objects : <<x, x>> \notin R
    BY <1>0
  <2>3. \A x, y, z \in Objects : <<x, y>> \in R /\ <<y, z>> \in R => <<x, z>> \in R
    BY <1>0
  <2>. HIDE DEF R
  <2>. QED BY <2>1, <2>2, <2>3 DEF Orders
<1>2. Graded(R, Objects)
  <2>. HIDE DEF R
  <2>. QED BY <1>1, FiniteObjects, EachRank
<1>3. ASSUME NEW o \in Objects PROVE rank(o) = Cardinality(Below(R, Objects, o)) + 1
  <2>1. \A q \in Objects : q \in Below(R, Objects, o) <=> PhysicalFirst(p, q) < PhysicalFirst(p, o)
    BY DEF Below
  <2>2. \A q \in Objects : PhysicalFirst(p, q) <= PhysicalFirst(p, o)
                             <=> q \in Below(R, Objects, o) \/ q = o
    <3>1. \A q \in Objects : PhysicalFirst(p, q) = PhysicalFirst(p, o) => q = o
      BY LowestDiffer
    <3>. HIDE DEF R
    <3>. QED BY <1>0, <2>1, <3>1
  <2>3. Below(R, Objects, o) \in SUBSET Objects /\ o \notin Below(R, Objects, o)
    <3>1. Below(R, Objects, o) \in SUBSET Objects
      BY DEF Below
    <3>. HIDE DEF R
    <3>. QED BY <1>0, <2>1, <3>1
  <2>. HIDE DEF R
  <2>4. {q \in Objects : PhysicalFirst(p, q) <= PhysicalFirst(p, o)} = Below(R, Objects, o) \cup {o}
    BY <2>2, <2>3
  <2>5. IsFiniteSet(Below(R, Objects, o))
    BY <2>3, FiniteObjects, FS_Subset
  <2>6. Cardinality(Below(R, Objects, o) \cup {o}) = Cardinality(Below(R, Objects, o)) + 1
    BY <2>3, <2>5, FS_AddElement
  <2>. QED BY <2>4, <2>6
<1>4. \A o \in Objects : Cardinality(Below(R, Objects, o)) \in 0..(Count - 1)
  <2>. HIDE DEF R
  <2>. QED BY <1>2 DEF Graded, Count
<1>5. \A o \in Objects : rank(o) \in 1..Count
  <2>. HIDE DEF R, rank
  <2>. QED BY <1>0, <1>3, <1>4
<1>6. ASSUME NEW o \in Objects, NEW q \in Objects, rank(o) = rank(q) PROVE o = q
  <2>1. Cardinality(Below(R, Objects, o)) = Cardinality(Below(R, Objects, q))
    <3>. HIDE DEF R, rank
    <3>. QED BY <1>0, <1>3, <1>4, <1>6
  <2>2. \A x, y \in Objects : <<x, y>> \in R => Cardinality(Below(R, Objects, x)) < Cardinality(Below(R, Objects, y))
    <3>. HIDE DEF R
    <3>. QED BY <1>2 DEF Graded
  <2>3. <<o, q>> \notin R /\ <<q, o>> \notin R
    <3>. HIDE DEF R
    <3>. QED BY <1>0, <1>4, <2>1, <2>2
  <2>. HIDE DEF R
  <2>. QED BY <1>1, <2>3 DEF Orders
<1>7. \A i \in 1..Count : \E o \in Objects : rank(o) = i
  <2>1. \A k \in 0..(Count - 1) : \E o \in Objects : Cardinality(Below(R, Objects, o)) = k
    <3>. HIDE DEF R
    <3>. QED BY <1>2 DEF Graded, Count
  <2>2. \A i \in 1..Count : i - 1 \in 0..(Count - 1) /\ (i - 1) + 1 = i
    BY <1>0
  <2>. HIDE DEF R, rank
  <2>. QED BY <1>3, <2>1, <2>2
<1>8. s = [i \in 1..Count |-> CHOOSE o \in Objects : rank(o) = i]
  BY DEF PhysicalOrder, Count
<1>. HIDE DEF s, rank
<1>9. \A i \in 1..Count : s[i] \in Objects /\ rank(s[i]) = i
  BY <1>7, <1>8
<1>10. s \in [1..Count -> Objects]
  BY <1>8, <1>9
<1>11. \A i, j \in 1..Count : s[i] = s[j] => i = j
  BY <1>9
<1>12. \A o \in Objects : \E i \in 1..Count : s[i] = o
  <2>1. ASSUME NEW o \in Objects PROVE s[rank(o)] = o
    <3>1. rank(o) \in 1..Count
      BY <1>5
    <3>2. s[rank(o)] \in Objects /\ rank(s[rank(o)]) = rank(o)
      BY <1>9, <3>1
    <3>. QED BY <1>6, <3>2
  <2>. QED BY <1>5, <2>1
<1>. QED BY <1>10, <1>11, <1>12 DEF Lists, s

\* The objects' clusters add up to a number.
TotalKept(v, op, i, total) == total \in Nat
TotalFold == INSTANCE FoldInduction WITH Step <- LAMBDA v, op, total, o : total + Size[o],
                                         Inv <- TotalKept

\* The objects have a natural number of clusters together.
LEMMA TotalType == ASSUME NEW s, Lists(s) PROVE Total(s) \in Nat
<1>1. DOMAIN s = 1..Count /\ Count \in Nat /\ \A i \in 1..Count : Size[s[i]] \in Nat
  BY FiniteObjects, FS_CardinalityType, SizeType DEF Lists, Count
<1>2. Total(s) = TotalFold!PlainFold(0, 0, 0, s)
  BY DEF Total, TotalFold!PlainFold, FoldLeft, TotalFold!FoldLeft, MapThenFoldSet,
         TotalFold!MapThenFoldSet, Max, TotalFold!Max
<1>3. \A i \in 1..Count : \A n : TotalKept(0, 0, i - 1, n) => TotalKept(0, 0, i, n + Size[s[i]])
  BY <1>1 DEF TotalKept
<1>4. TotalKept(0, 0, 0, 0)
  BY DEF TotalKept
<1>5. TotalKept(0, 0, Count, TotalFold!PlainFold(0, 0, 0, s))
  BY <1>1, <1>3, <1>4, TotalFold!PlainFoldKeeps
<1>. QED BY <1>2, <1>5 DEF TotalKept

-----------------------------------------------------------------------------
(* The batches.                                                            *)

\* Objects of a batch go straight to their free targets.
Direct(p, at) == /\ DOMAIN at \subseteq Objects
                 /\ \A o \in DOMAIN at : at[o] = target[o] /\ TargetFree(p, o)

\* Free targets do not overlap, since the targets of a plan do not.
LEMMA DirectIsBatch ==
  ASSUME GoodTargets, NEW p, NEW at, Direct(p, at)
  PROVE  Batch(at, Free(p))
<1>1. \A o \in DOMAIN at : o \in DOMAIN target /\ at[o] = target[o]
  BY DEF GoodTargets, Direct
<1>2. \A o \in DOMAIN at : at[o] \in Int /\ Run(at[o], Size[o]) \subseteq Free(p)
  BY <1>1 DEF Direct, TargetFree, GoodTargets, Batch
<1>3. Apart(at)
  BY <1>1 DEF Apart, GoodTargets, Batch
<1>. QED BY <1>2, <1>3 DEF Batch, Direct

DirectKept(p, items, i, batch) == DOMAIN batch = {"at", "total"} /\ Direct(p, batch.at)
DirectFold == INSTANCE FoldInduction WITH Step <- LAMBDA v, op, b, o : DirectStep(v, b, o),
                                          Inv <- DirectKept

\* One more object in a batch.
LEMMA JoinedOne ==
  ASSUME NEW batch, {"at", "total"} \subseteq DOMAIN batch, NEW o, NEW start
  PROVE  /\ DOMAIN Joined(batch, o, start) = DOMAIN batch
         /\ Joined(batch, o, start).at = With(batch.at, o, start)
         /\ Joined(batch, o, start).total = batch.total + Size[o]
         /\ \A f \in DOMAIN batch : f \notin {"at", "total"} => Joined(batch, o, start)[f] = batch[f]
BY DEF Joined

\* One more free target.
LEMMA DirectJoined ==
  ASSUME NEW p, NEW at, Direct(p, at), NEW o \in Objects, TargetFree(p, o)
  PROVE  Direct(p, With(at, o, target[o]))
<1>1. DOMAIN With(at, o, target[o]) = {o} \cup DOMAIN at
  BY OneMore
<1>2. \A q \in {o} \cup DOMAIN at : With(at, o, target[o])[q] = target[q] /\ TargetFree(p, q)
  BY DEF With, Direct
<1>3. {o} \cup DOMAIN at \subseteq Objects
  BY DEF Direct
<1>. QED BY <1>1, <1>2, <1>3 DEF Direct

\* The listed objects from the last to the first.
LEMMA ReversedItems ==
  ASSUME NEW s, Lists(s), NEW n \in 0..Count
  PROVE  /\ DOMAIN Reverse(SubSeq(s, 1, n)) = 1..n
         /\ \A i \in 1..n : Reverse(SubSeq(s, 1, n))[i] \in Objects
         /\ DOMAIN Reverse(s) = 1..Count
         /\ \A i \in 1..Count : Reverse(s)[i] \in Objects
<1>1. Count \in Nat /\ s \in [1..Count -> Objects] /\ s \in Seq(Objects) /\ Len(s) = Count
  BY FiniteObjects, FS_CardinalityType DEF Lists, Count
<1>2. DOMAIN SubSeq(s, 1, n) = 1..n /\ Len(SubSeq(s, 1, n)) = n /\ \A i \in 1..n : SubSeq(s, 1, n)[i] = s[i]
  BY <1>1
<1>3. \A i \in 1..n : s[(n - i) + 1] \in Objects /\ (n - i) + 1 \in 1..n
  BY <1>1
<1>. QED BY <1>1, <1>2, <1>3 DEF Reverse

\* A batch of free targets.
LEMMA DirectBatchDirect ==
  ASSUME NEW p, Lists(order)
  PROVE  Direct(p, DirectBatch(p).at)
<1>. DEFINE items == Reverse(order)
<1>0. Count \in Nat /\ Count \in 0..Count
  BY FiniteObjects, FS_CardinalityType DEF Count
<1>1. DOMAIN items = 1..Count /\ \A i \in 1..Count : items[i] \in Objects
  BY <1>0, ReversedItems
<1>2. DirectBatch(p) = DirectFold!PlainFold(p, 0, Nothing, items)
  BY DEF DirectBatch, DirectFold!PlainFold, FoldLeft, DirectFold!FoldLeft, MapThenFoldSet,
         DirectFold!MapThenFoldSet, Max, DirectFold!Max
<1>3. DirectKept(p, 0, 0, Nothing)
  BY DEF DirectKept, Nothing, Direct
<1>4. ASSUME NEW b, NEW o \in Objects, DirectKept(p, 0, 0, b)
      PROVE  DirectKept(p, 0, 0, DirectStep(p, b, o))
  <2>1. CASE InPlace(p, o) \/ ~ TargetFree(p, o) \/ Exceeds(b, o)
    BY <1>4, <2>1 DEF DirectStep
  <2>2. CASE ~ (InPlace(p, o) \/ ~ TargetFree(p, o) \/ Exceeds(b, o))
    <3>1. DirectStep(p, b, o) = Joined(b, o, target[o]) /\ TargetFree(p, o)
      BY <2>2 DEF DirectStep
    <3>2. DOMAIN b = {"at", "total"} /\ Direct(p, b.at)
      BY <1>4 DEF DirectKept
    <3>3. DOMAIN Joined(b, o, target[o]) = {"at", "total"}
          /\ Joined(b, o, target[o]).at = With(b.at, o, target[o])
      BY <3>2, JoinedOne
    <3>4. Direct(p, With(b.at, o, target[o]))
      BY <3>1, <3>2, DirectJoined
    <3>. QED BY <3>1, <3>3, <3>4 DEF DirectKept
  <2>. QED BY <2>1, <2>2
<1>. HIDE DEF items
<1>5. \A i \in 1..Count : \A b : DirectKept(p, 0, i - 1, b) => DirectKept(p, 0, i, DirectStep(p, b, items[i]))
  BY <1>1, <1>4 DEF DirectKept
<1>6. DirectKept(p, 0, Count, DirectFold!PlainFold(p, 0, Nothing, items))
  BY <1>0, <1>1, <1>3, <1>5, DirectFold!PlainFoldKeeps
<1>. QED BY <1>2, <1>6 DEF DirectKept

\* The batch of the fallback, and the object it has reached.
ReverseKept(p, from, i, batch) ==
    /\ DOMAIN batch = {"at", "total", "next", "more"}
    /\ Direct(p, batch.at)
    /\ batch.next \in (from - i)..from
ReverseFold == INSTANCE FoldInduction WITH Step <- LAMBDA v, op, b, o : ReverseStep(v, b, o),
                                           Inv <- ReverseKept

\* So is the batch of the fallback, which does not go below the first object.
LEMMA ReverseBatchDirect ==
  ASSUME NEW p, Lists(order), NEW from \in 0..Count
  PROVE  Direct(p, ReverseBatch(p, from).at) /\ ReverseBatch(p, from).next \in 0..from
<1>. DEFINE items == Reverse(SubSeq(order, 1, from))
            empty == [at |-> <<>>, total |-> 0, next |-> from, more |-> TRUE]
<1>0. Count \in Nat /\ from \in Nat
  BY FiniteObjects, FS_CardinalityType DEF Count
<1>1. DOMAIN items = 1..from /\ \A i \in 1..from : items[i] \in Objects
  BY <1>0, ReversedItems
<1>2. ReverseBatch(p, from) = ReverseFold!PlainFold(p, from, empty, items)
  BY DEF ReverseBatch, ReverseFold!PlainFold, FoldLeft, ReverseFold!FoldLeft, MapThenFoldSet,
         ReverseFold!MapThenFoldSet, Max, ReverseFold!Max
<1>3. ReverseKept(p, from, 0, empty)
  BY <1>0 DEF ReverseKept, Direct
<1>4. ASSUME NEW i \in 1..from, NEW b, NEW o \in Objects, ReverseKept(p, from, i - 1, b)
      PROVE  ReverseKept(p, from, i, ReverseStep(p, b, o))
  <2>1. DOMAIN b = {"at", "total", "next", "more"} /\ Direct(p, b.at) /\ b.next \in (from - (i - 1))..from
    BY <1>4 DEF ReverseKept
  <2>2. b.next \in (from - i)..from /\ b.next - 1 \in (from - i)..from
    BY <1>0, <2>1
  <2>3. CASE ~ b.more
    BY <2>1, <2>2, <2>3 DEF ReverseStep, ReverseKept
  <2>4. CASE b.more /\ InPlace(p, o)
    <3>1. ReverseStep(p, b, o) = [b EXCEPT !.next = @ - 1]
      BY <2>4 DEF ReverseStep
    <3>. QED BY <2>1, <2>2, <3>1 DEF ReverseKept
  <2>5. CASE /\ b.more /\ ~ InPlace(p, o)
             /\ \/ ~ TargetFree(p, o)
                \/ b.at # <<>> /\ b.total + Size[o] > setup.ram
    <3>1. ReverseStep(p, b, o) = [b EXCEPT !.more = FALSE]
      BY <2>5 DEF ReverseStep
    <3>. QED BY <2>1, <2>2, <3>1 DEF ReverseKept
  <2>6. CASE /\ b.more /\ ~ InPlace(p, o)
             /\ TargetFree(p, o) /\ ~ (b.at # <<>> /\ b.total + Size[o] > setup.ram)
    <3>1. ReverseStep(p, b, o) = [Joined(b, o, target[o]) EXCEPT !.next = @ - 1,
                                        !.more = b.total + Size[o] < setup.ram]
      BY <2>6 DEF ReverseStep
    <3>2. DOMAIN Joined(b, o, target[o]) = {"at", "total", "next", "more"}
          /\ Joined(b, o, target[o]).at = With(b.at, o, target[o])
          /\ Joined(b, o, target[o]).next = b.next
      BY <2>1 DEF Joined
    <3>3. Direct(p, With(b.at, o, target[o]))
      BY <2>1, <2>6, DirectJoined
    <3>. QED BY <2>2, <3>1, <3>2, <3>3 DEF ReverseKept
  <2>. QED BY <2>3, <2>4, <2>5, <2>6
<1>. HIDE DEF items, empty
<1>5. \A i \in 1..from : \A b : ReverseKept(p, from, i - 1, b) => ReverseKept(p, from, i, ReverseStep(p, b, items[i]))
  BY <1>1, <1>4
<1>6. ReverseKept(p, from, from, ReverseFold!PlainFold(p, from, empty, items))
  BY <1>0, <1>1, <1>3, <1>5, ReverseFold!PlainFoldKeeps
<1>7. (from - from)..from = 0..from
  BY <1>0
<1>. QED BY <1>2, <1>6, <1>7 DEF ReverseKept

-----------------------------------------------------------------------------
(* Staging in the workspace.                                               *)

\* Objects at successive clusters from the start of the workspace.
Staging(at, total) ==
    /\ DOMAIN at \subseteq Objects
    /\ total \in Nat
    /\ at = <<>> => total = 0
    /\ \A o \in DOMAIN at : at[o] \in Int /\ workspace <= at[o] /\ at[o] + Size[o] <= workspace + total
    /\ Apart(at)

\* One more object at the next clusters of the workspace.
LEMMA StagingJoined ==
  ASSUME workspace \in Int, NEW at, NEW total, Staging(at, total), NEW o \in Objects
  PROVE  Staging(With(at, o, workspace + total), total + Size[o])
<1>. DEFINE g == With(at, o, workspace + total)
<1>0. total \in Nat /\ Size[o] \in Nat /\ Size[o] >= 1
  BY SizeType DEF Staging
<1>1. DOMAIN g = {o} \cup DOMAIN at /\ g[o] = workspace + total /\ \A q \in DOMAIN at : q # o => g[q] = at[q]
  <2>1. DOMAIN g = {o} \cup DOMAIN at
    BY OneMore
  <2>2. g[o] = workspace + total
    BY OneMore
  <2>3. \A q \in DOMAIN at : q # o => g[q] = at[q]
    BY OneMore
  <2>. QED BY <2>1, <2>2, <2>3
<1>2. g # <<>>
  BY OneMore
<1>. HIDE DEF g
<1>3. \A q \in DOMAIN at : q \in Objects /\ Size[q] \in Nat
  BY SizeType DEF Staging
<1>4. \A q \in DOMAIN g : g[q] \in Int /\ workspace <= g[q] /\ g[q] + Size[q] <= workspace + (total + Size[o])
  BY <1>0, <1>1, <1>3 DEF Staging
<1>5. \A q \in DOMAIN at : q # o => g[q] + Size[q] <= g[o]
  BY <1>0, <1>1, <1>3 DEF Staging
<1>6. Apart(g)
  <2>. SUFFICES ASSUME NEW q \in DOMAIN g, NEW r \in DOMAIN g, q # r
                PROVE  g[q] + Size[q] <= g[r] \/ g[r] + Size[r] <= g[q]
    BY DEF Apart
  <2>1. CASE q = o
    BY <1>1, <1>5, <2>1
  <2>2. CASE r = o
    BY <1>1, <1>5, <2>2
  <2>3. CASE q # o /\ r # o
    BY <1>1, <2>3 DEF Staging, Apart
  <2>. QED BY <2>1, <2>2, <2>3
<1>7. DOMAIN g \subseteq Objects
  BY <1>1 DEF Staging
<1>8. total + Size[o] \in Nat
  BY <1>0
<1>. QED BY <1>2, <1>4, <1>6, <1>7, <1>8 DEF Staging, g

UnifiedKept(p, op, i, batch) == DOMAIN batch = {"at", "total"} /\ Staging(batch.at, batch.total)
UnifiedFold == INSTANCE FoldInduction WITH Step <- LAMBDA v, op, b, o : UnifiedStep(v, b, o),
                                           Inv <- UnifiedKept

\* The unified pass stages at successive clusters.
LEMMA UnifiedBatchStaging ==
  ASSUME NEW p, Lists(order), workspace \in Int
  PROVE  Staging(UnifiedBatch(p).at, UnifiedBatch(p).total)
<1>0. Count \in Nat
  BY FiniteObjects, FS_CardinalityType DEF Count
<1>1. DOMAIN order = 1..Count /\ \A i \in 1..Count : order[i] \in Objects
  BY DEF Lists
<1>2. UnifiedBatch(p) = UnifiedFold!PlainFold(p, 0, Nothing, order)
  BY DEF UnifiedBatch, UnifiedFold!PlainFold, FoldLeft, UnifiedFold!FoldLeft, MapThenFoldSet,
         UnifiedFold!MapThenFoldSet, Max, UnifiedFold!Max
<1>3. UnifiedKept(p, 0, 0, Nothing)
  BY DEF UnifiedKept, Nothing, Staging, Apart
<1>4. ASSUME NEW b, NEW o \in Objects, UnifiedKept(p, 0, 0, b)
      PROVE  UnifiedKept(p, 0, 0, UnifiedStep(p, b, o))
  <2>1. CASE InPlace(p, o)
    BY <1>4, <2>1 DEF UnifiedStep
  <2>2. CASE ~ InPlace(p, o)
    <3>1. UnifiedStep(p, b, o) = Joined(b, o, workspace + b.total)
      BY <2>2 DEF UnifiedStep
    <3>2. DOMAIN b = {"at", "total"} /\ Staging(b.at, b.total)
      BY <1>4 DEF UnifiedKept
    <3>3. /\ DOMAIN Joined(b, o, workspace + b.total) = {"at", "total"}
          /\ Joined(b, o, workspace + b.total).at = With(b.at, o, workspace + b.total)
          /\ Joined(b, o, workspace + b.total).total = b.total + Size[o]
      BY <3>2, JoinedOne
    <3>4. Staging(With(b.at, o, workspace + b.total), b.total + Size[o])
      BY <3>2, StagingJoined
    <3>. QED BY <3>1, <3>3, <3>4 DEF UnifiedKept
  <2>. QED BY <2>1, <2>2
<1>5. \A i \in 1..Count : \A b : UnifiedKept(p, 0, i - 1, b) => UnifiedKept(p, 0, i, UnifiedStep(p, b, order[i]))
  BY <1>1, <1>4 DEF UnifiedKept
<1>6. UnifiedKept(p, 0, Count, UnifiedFold!PlainFold(p, 0, Nothing, order))
  BY <1>0, <1>1, <1>3, <1>5, UnifiedFold!PlainFoldKeeps
<1>. QED BY <1>2, <1>6 DEF UnifiedKept

\* The forward pass stages no more than the workspace holds.
ForwardKept(p, op, i, batch) ==
    /\ DOMAIN batch = {"at", "total", "more", "possible"}
    /\ Staging(batch.at, batch.total)
    /\ batch.total <= WorkspaceSize
    /\ IsFiniteSet(DOMAIN batch.at) /\ Cardinality(DOMAIN batch.at) <= i
ForwardFold == INSTANCE FoldInduction WITH Step <- LAMBDA v, op, b, o : ForwardStep(v, b, o),
                                           Inv <- ForwardKept

\* So does the forward pass, within the workspace and no more objects than are left.
LEMMA ForwardBatchStaging ==
  ASSUME NEW p, Lists(order), GoodWorkspace, NEW from \in 1..Count
  PROVE  LET batch == ForwardBatch(p, from)
         IN /\ Staging(batch.at, batch.total)
            /\ batch.total <= WorkspaceSize
            /\ IsFiniteSet(DOMAIN batch.at) /\ Cardinality(DOMAIN batch.at) <= Count - from + 1
<1>. DEFINE items == OrderFrom(from)
            n == Count - from + 1
            empty == [at |-> <<>>, total |-> 0, more |-> TRUE, possible |-> TRUE]
<1>0. Count \in Nat /\ n \in Nat /\ workspace \in Int /\ WorkspaceSize \in Nat
  BY FiniteObjects, FS_CardinalityType DEF Count, GoodWorkspace, Clusters, WorkspaceSize
<1>1. DOMAIN items = 1..n /\ \A i \in 1..n : items[i] \in Objects
  <2>1. order \in Seq(Objects) /\ Len(order) = Count /\ \A i \in 1..Count : order[i] \in Objects
    BY <1>0 DEF Lists
  <2>2. \A i \in 1..n : from + i - 1 \in 1..Count
    BY <1>0
  <2>3. items = [i \in 1..n |-> order[from + i - 1]]
    BY <1>0, <2>1 DEF OrderFrom
  <2>. HIDE DEF items, n
  <2>. QED BY <2>1, <2>2, <2>3
<1>2. ForwardBatch(p, from) = ForwardFold!PlainFold(p, 0, empty, items)
  BY DEF ForwardBatch, ForwardFold!PlainFold, FoldLeft, ForwardFold!FoldLeft, MapThenFoldSet,
         ForwardFold!MapThenFoldSet, Max, ForwardFold!Max
<1>3. ForwardKept(p, 0, 0, empty)
  <2>1. DOMAIN <<>> = {}
    OBVIOUS
  <2>2. Staging(<<>>, 0)
    BY DEF Staging, Apart
  <2>. QED BY <1>0, <2>1, <2>2, FS_EmptySet DEF ForwardKept
<1>4. ASSUME NEW i \in 1..n, NEW b, NEW o \in Objects, ForwardKept(p, 0, i - 1, b)
      PROVE  ForwardKept(p, 0, i, ForwardStep(p, b, o))
  <2>1. /\ DOMAIN b = {"at", "total", "more", "possible"}
        /\ Staging(b.at, b.total) /\ b.total <= WorkspaceSize
        /\ IsFiniteSet(DOMAIN b.at) /\ Cardinality(DOMAIN b.at) <= i - 1
    BY <1>4 DEF ForwardKept
  <2>2. Cardinality(DOMAIN b.at) \in Nat /\ Cardinality(DOMAIN b.at) <= i
    BY <1>0, <2>1, FS_CardinalityType
  <2>3. CASE ~ b.more
    BY <2>1, <2>2, <2>3 DEF ForwardStep, ForwardKept
  <2>4. ASSUME NEW c, DOMAIN c = DOMAIN b, c.at = b.at, c.total = b.total
        PROVE  ForwardKept(p, 0, i, c)
    BY <2>1, <2>2, <2>4 DEF ForwardKept
  <2>5. CASE b.more /\ InPlace(p, o)
    <3>1. ForwardStep(p, b, o) = [b EXCEPT !.more = FALSE]
      BY <2>5 DEF ForwardStep
    <3>. QED BY <2>1, <2>4, <3>1
  <2>6. CASE /\ b.more /\ ~ InPlace(p, o)
             /\ \/ target[o] > PhysicalFirst(p, o)
                \/ b.at = <<>> /\ Size[o] > WorkspaceSize
    <3>1. ForwardStep(p, b, o) = [b EXCEPT !.more = FALSE, !.possible = FALSE]
      BY <2>6 DEF ForwardStep
    <3>. QED BY <2>1, <2>4, <3>1
  <2>7. CASE /\ b.more /\ ~ InPlace(p, o)
             /\ ~ (\/ target[o] > PhysicalFirst(p, o)
                   \/ b.at = <<>> /\ Size[o] > WorkspaceSize)
             /\ b.at # <<>>
             /\ \/ b.total + Size[o] > WorkspaceSize
                \/ b.total + Size[o] > setup.ram
    <3>1. ForwardStep(p, b, o) = [b EXCEPT !.more = FALSE]
      BY <2>7 DEF ForwardStep
    <3>. QED BY <2>1, <2>4, <3>1
  <2>8. CASE /\ b.more /\ ~ InPlace(p, o)
             /\ ~ (\/ target[o] > PhysicalFirst(p, o)
                   \/ b.at = <<>> /\ Size[o] > WorkspaceSize)
             /\ ~ (/\ b.at # <<>>
                   /\ \/ b.total + Size[o] > WorkspaceSize
                      \/ b.total + Size[o] > setup.ram)
    <3>1. ForwardStep(p, b, o) = Joined(b, o, workspace + b.total)
      BY <2>8 DEF ForwardStep
    <3>2. /\ DOMAIN Joined(b, o, workspace + b.total) = {"at", "total", "more", "possible"}
          /\ Joined(b, o, workspace + b.total).at = With(b.at, o, workspace + b.total)
          /\ Joined(b, o, workspace + b.total).total = b.total + Size[o]
      BY <2>1 DEF Joined
    <3>3. Staging(With(b.at, o, workspace + b.total), b.total + Size[o])
      BY <1>0, <2>1, StagingJoined
    <3>4. b.total \in Nat /\ Size[o] \in Nat /\ (b.at = <<>> => b.total = 0)
      BY <2>1, SizeType DEF Staging
    <3>5. b.total + Size[o] <= WorkspaceSize
      <4>1. CASE b.at = <<>>
        BY <1>0, <2>8, <3>4, <4>1
      <4>2. CASE b.at # <<>>
        BY <1>0, <2>8, <3>4, <4>2
      <4>. QED BY <4>1, <4>2
    <3>6. DOMAIN With(b.at, o, workspace + b.total) = {o} \cup DOMAIN b.at
      BY OneMore
    <3>9. {o} \cup DOMAIN b.at = DOMAIN b.at \cup {o}
      OBVIOUS
    <3>7. IsFiniteSet(DOMAIN b.at \cup {o})
          /\ Cardinality(DOMAIN b.at \cup {o}) =
                IF o \in DOMAIN b.at THEN Cardinality(DOMAIN b.at) ELSE Cardinality(DOMAIN b.at) + 1
      BY <2>1, FS_AddElement
    <3>8. Cardinality(DOMAIN b.at \cup {o}) <= i
      BY <2>1, <2>2, <3>7
    <3>. QED BY <3>1, <3>2, <3>3, <3>5, <3>6, <3>7, <3>8, <3>9 DEF ForwardKept
  <2>. QED BY <2>3, <2>5, <2>6, <2>7, <2>8
<1>. HIDE DEF items, empty, n
<1>5. \A i \in 1..n : \A b : ForwardKept(p, 0, i - 1, b) => ForwardKept(p, 0, i, ForwardStep(p, b, items[i]))
  BY <1>1, <1>4
<1>6. ForwardKept(p, 0, n, ForwardFold!PlainFold(p, 0, empty, items))
  BY <1>0, <1>1, <1>3, <1>5, ForwardFold!PlainFoldKeeps
<1>. QED BY <1>2, <1>6 DEF ForwardKept, n

\* Blockers are ordered: by score, by size, by place in the plan.
LEMMA RankedBlockers ==
  ASSUME NEW p, Chains(p), Lists(order)
  PROVE  /\ Cardinality(Blockers(p)) \in Nat
         /\ DOMAIN Ranked(p) = 1..Cardinality(Blockers(p))
         /\ \A i \in 1..Cardinality(Blockers(p)) : Ranked(p)[i] \in Objects
<1>. DEFINE S == Blockers(p)
            R == {z \in Objects \X Objects : Before(p, z[1], z[2])}
            n == Cardinality(S)
<1>1. S \in SUBSET Objects
  BY DEF Blockers
<1>2. IsFiniteSet(S) /\ n \in Nat
  BY <1>1, FiniteObjects, FS_Subset, FS_CardinalityType
<1>3. \A o \in Objects : Score(p, o) \in Int /\ Size[o] \in Int /\ IndexOf(o) \in Int
  <2>. TAKE o \in Objects
  <2>1. Score(p, o) \in Int
    <3>. DEFINE T == {c \in Range(p[o]) : \E q \in Objects : ~ InPlace(p, q) /\ c \in Run(target[q], Size[q])}
    <3>1. T \in SUBSET (2..LastCluster)
      <4>1. p[o] \in [1..Size[o] -> Clusters \ setup.bad]
        BY DEF Chains
      <4>. QED BY <4>1 DEF Range, Clusters
    <3>2. IsFiniteSet(2..LastCluster)
      BY FiniteObjects, FS_Interval
    <3>. HIDE DEF T
    <3>3. Cardinality(T) \in Nat
      BY <3>1, <3>2, FS_Subset, FS_CardinalityType
    <3>. QED BY <3>3 DEF Score, T
  <2>2. \E i \in DOMAIN order : order[i] = o
    BY DEF Lists
  <2>3. IndexOf(o) \in DOMAIN order
    BY <2>2 DEF IndexOf
  <2>4. DOMAIN order \subseteq Int
    BY DEF Lists
  <2>. QED BY <2>1, <2>3, <2>4, SizeType
<1>4. \A o \in Objects : order[IndexOf(o)] = o
  <2>. TAKE o \in Objects
  <2>1. \E i \in DOMAIN order : order[i] = o
    BY DEF Lists
  <2>. QED BY <2>1 DEF IndexOf
<1>5. Orders(R, S)
  <2>1. \A x, y \in Objects : x # y => Before(p, x, y) \/ Before(p, y, x)
    <3>1. \A x, y \in Objects : x # y => IndexOf(x) # IndexOf(y)
      BY <1>4
    <3>. QED BY <1>3, <3>1 DEF Before
  <2>2. \A x \in Objects : ~ Before(p, x, x)
    BY <1>3 DEF Before
  <2>3. \A x, y, z \in Objects : Before(p, x, y) /\ Before(p, y, z) => Before(p, x, z)
    BY <1>3 DEF Before
  <2>4. \A x, y \in Objects : <<x, y>> \in R <=> Before(p, x, y)
    OBVIOUS
  <2>. HIDE DEF R, S
  <2>. QED BY <1>1, <2>1, <2>2, <2>3, <2>4 DEF Orders
<1>6. Graded(R, S)
  <2>. HIDE DEF R, S
  <2>. QED BY <1>2, <1>5, EachRank
<1>7. \A o \in S : {q \in S : Before(p, q, o)} = Below(R, S, o)
  <2>1. \A x, y \in Objects : <<x, y>> \in R <=> Before(p, x, y)
    OBVIOUS
  <2>. HIDE DEF R, S
  <2>. QED BY <1>1, <2>1 DEF Below
<1>8. \A i \in 1..n : \E o \in S : Cardinality({q \in S : Before(p, q, o)}) = i - 1
  <2>1. \A k \in 0..(n - 1) : \E o \in S : Cardinality(Below(R, S, o)) = k
    <3>. HIDE DEF R, S
    <3>. QED BY <1>6 DEF Graded
  <2>2. \A i \in 1..n : i - 1 \in 0..(n - 1)
    BY <1>2
  <2>. HIDE DEF R, S, n
  <2>. QED BY <1>7, <2>1, <2>2
<1>9. Ranked(p) = [i \in 1..n |-> CHOOSE o \in S : Cardinality({q \in S : Before(p, q, o)}) = i - 1]
  BY DEF Ranked
<1>. HIDE DEF S, R
<1>10. \A i \in 1..n : Ranked(p)[i] \in S
  BY <1>8, <1>9
<1>. QED BY <1>1, <1>2, <1>9, <1>10 DEF S

\* The adaptive pass stages blockers in free runs of the workspace.
StageKept(p, op, i, batch) ==
    DOMAIN batch = {"at", "total"} /\ Batch(batch.at, Free(p) \cap WorkspaceRange)
StageFold == INSTANCE FoldInduction WITH Step <- LAMBDA v, op, b, o : StageStep(v, b, o),
                                         Inv <- StageKept

\* One more object in the lowest free run that no other object of the batch has.
LEMMA StageJoined ==
  ASSUME NEW F, F \subseteq Int, IsFiniteSet(F), NEW at, Batch(at, F), NEW o \in Objects,
         RunsIn(F \ Taken(at), Size[o]) # {}
  PROVE  Batch(With(at, o, Min(RunsIn(F \ Taken(at), Size[o]))), F)
<1>. DEFINE S == F \ Taken(at)
            runs == RunsIn(S, Size[o])
            s == Min(runs)
            g == With(at, o, s)
<1>1. runs \in SUBSET F /\ runs # {}
  BY DEF RunsIn
<1>2. IsFiniteSet(runs) /\ runs \subseteq Int
  BY <1>1, FS_Subset
<1>3. s \in runs
  <2>. HIDE DEF runs
  <2>. QED BY <1>1, <1>2, MinMax
<1>4. s \in Int /\ Run(s, Size[o]) \subseteq F /\ Run(s, Size[o]) \cap Taken(at) = {}
  <2>1. s \in S /\ Run(s, Size[o]) \subseteq S
    BY <1>3 DEF RunsIn
  <2>. QED BY <2>1
<1>. HIDE DEF s
<1>5. DOMAIN g = {o} \cup DOMAIN at
  BY OneMore
<1>6. g[o] = s
  BY OneMore
<1>7. \A q \in DOMAIN at : q # o => g[q] = at[q]
  BY OneMore
<1>. HIDE DEF g, S, runs
<1>8. Size[o] \in Nat /\ Size[o] >= 1 /\ \A q \in DOMAIN at : q \in Objects /\ at[q] \in Int
                                                             /\ Size[q] \in Nat /\ Size[q] >= 1
  BY SizeType DEF Batch
<1>9. ASSUME NEW q \in DOMAIN at PROVE at[q] + Size[q] <= s \/ s + Size[o] <= at[q]
  <2>1. \A c \in Run(s, Size[o]) : c \notin Run(at[q], Size[q])
    BY <1>4 DEF Taken
  <2>2. s \in Run(s, Size[o]) /\ (s <= at[q] /\ at[q] < s + Size[o] => at[q] \in Run(s, Size[o]))
    BY <1>4, <1>8, InRun
  <2>3. at[q] \in Run(at[q], Size[q]) /\ (at[q] <= s /\ s < at[q] + Size[q] => s \in Run(at[q], Size[q]))
    BY <1>4, <1>8, InRun
  <2>. QED BY <1>4, <1>8, <2>1, <2>2, <2>3
<1>10. Apart(g)
  <2>. SUFFICES ASSUME NEW q \in DOMAIN g, NEW r \in DOMAIN g, q # r
                PROVE  g[q] + Size[q] <= g[r] \/ g[r] + Size[r] <= g[q]
    BY DEF Apart
  <2>1. CASE q = o
    <3>1. r \in DOMAIN at /\ g[r] = at[r]
      BY <1>5, <1>7, <2>1
    <3>. QED BY <1>6, <1>9, <2>1, <3>1
  <2>2. CASE r = o
    <3>1. q \in DOMAIN at /\ g[q] = at[q]
      BY <1>5, <1>7, <2>2
    <3>. QED BY <1>6, <1>9, <2>2, <3>1
  <2>3. CASE q # o /\ r # o
    BY <1>5, <1>7, <2>3 DEF Batch, Apart
  <2>. QED BY <2>1, <2>2, <2>3
<1>11. \A q \in DOMAIN g : g[q] \in Int /\ Run(g[q], Size[q]) \subseteq F
  BY <1>4, <1>5, <1>6, <1>7 DEF Batch
<1>12. DOMAIN g \subseteq Objects
  BY <1>5 DEF Batch
<1>. QED BY <1>10, <1>11, <1>12 DEF Batch, g, s, runs, S

\* The blockers of one transaction go to runs of the workspace that are free.
LEMMA StageBatchFree ==
  ASSUME NEW p, Chains(p), Lists(order)
  PROVE  Batch(StageBatch(p).at, Free(p) \cap WorkspaceRange)
<1>. DEFINE items == Ranked(p)
            n == Cardinality(Blockers(p))
            F == Free(p) \cap WorkspaceRange
<1>1. n \in Nat /\ DOMAIN items = 1..n /\ \A i \in 1..n : items[i] \in Objects
  BY RankedBlockers
<1>2. StageBatch(p) = StageFold!PlainFold(p, 0, Nothing, items)
  BY DEF StageBatch, StageFold!PlainFold, FoldLeft, StageFold!FoldLeft, MapThenFoldSet,
         StageFold!MapThenFoldSet, Max, StageFold!Max
<1>3. StageKept(p, 0, 0, Nothing)
  BY DEF StageKept, Nothing, Batch, Apart
<1>4. F \subseteq Int /\ IsFiniteSet(F)
  <2>1. F \in SUBSET (2..LastCluster)
    BY UsedCells DEF Clusters
  <2>2. IsFiniteSet(2..LastCluster)
    BY FiniteObjects, FS_Interval
  <2>. QED BY <2>1, <2>2, FiniteObjects, FS_Subset
<1>5. ASSUME NEW b, NEW o \in Objects, StageKept(p, 0, 0, b)
      PROVE  StageKept(p, 0, 0, StageStep(p, b, o))
  <2>. DEFINE runs == RunsIn(F \ Taken(b.at), Size[o])
  <2>1. CASE runs = {} \/ Exceeds(b, o)
    <3>1. StageStep(p, b, o) = b
      BY <2>1 DEF StageStep
    <3>. QED BY <1>5, <3>1
  <2>2. CASE ~ (runs = {} \/ Exceeds(b, o))
    <3>1. StageStep(p, b, o) = Joined(b, o, Min(runs))
      BY <2>2 DEF StageStep
    <3>2. DOMAIN b = {"at", "total"} /\ Batch(b.at, F)
      BY <1>5 DEF StageKept
    <3>3. runs # {}
      BY <2>2
    <3>4. Batch(With(b.at, o, Min(runs)), F)
      <4>. HIDE DEF F
      <4>. QED BY <1>4, <3>2, <3>3, StageJoined
    <3>. HIDE DEF runs
    <3>5. DOMAIN Joined(b, o, Min(runs)) = {"at", "total"}
          /\ Joined(b, o, Min(runs)).at = With(b.at, o, Min(runs))
      BY <3>2, JoinedOne
    <3>. QED BY <3>1, <3>4, <3>5 DEF StageKept
  <2>. QED BY <2>1, <2>2
<1>. HIDE DEF items, n
<1>6. \A i \in 1..n : \A b : StageKept(p, 0, i - 1, b) => StageKept(p, 0, i, StageStep(p, b, items[i]))
  BY <1>1, <1>5 DEF StageKept
<1>7. StageKept(p, 0, n, StageFold!PlainFold(p, 0, Nothing, items))
  BY <1>1, <1>3, <1>6, StageFold!PlainFoldKeeps
<1>. QED BY <1>2, <1>7 DEF StageKept

-----------------------------------------------------------------------------
(* The invariant holds at the start, and what keeps it.                    *)

\* A command begins with the chains that the scan accepted.
LEMMA InitHolds == Init => LayoutInv
<1>. SUFFICES ASSUME Init PROVE LayoutInv
  OBVIOUS
<1>1. Chains(place)
  <2>1. /\ \A o \in Objects : place[o] \in [1..Size[o] -> 2..LastCluster]
        /\ Disjoint(place)
    BY ChainsGiven DEF Init
  <2>2. ASSUME NEW o \in Objects PROVE place[o] \in [1..Size[o] -> Clusters \ setup.bad]
    <3>1. \A i \in 1..Size[o] : place[o][i] \in Range(place[o])
      BY <2>1 DEF Range
    <3>2. Range(place[o]) \subseteq Used(place)
      BY DEF Used
    <3>3. Used(place) \cap setup.bad = {}
      BY DEF Init
    <3>. QED BY <2>1, <3>1, <3>2, <3>3 DEF Clusters
  <2>. QED BY <2>1, <2>2 DEF Chains
<1>2. DOMAIN <<>> = {} /\ Len(<<>>) = 0
  OBVIOUS
<1>3. TypeOK
  <2>1. setup \in Setups /\ stop \in BOOLEAN /\ workspace \in Clusters \cup {0}
    BY DEF Init
  <2>2. next \in 0..(Len(order) + 1)
    <3>1. next = 0 /\ Len(order) = 0
      BY <1>2 DEF Init
    <3>. QED BY <3>1
  <2>3. DOMAIN target = {} /\ DOMAIN staged = {}
    BY <1>2 DEF Init
  <2>. QED BY <1>1, <2>1, <2>2, <2>3 DEF TypeOK, Chains
<1>. QED BY <1>1, <1>3 DEF LayoutInv, Init, States, Placing, Ended, ForwardInv, ForwardPlaceInv,
                           UnifiedPlaceInv, FallbackInv

\* What a placing step starts from.
LEMMA PlacingFacts ==
  ASSUME LayoutInv, pc \in {"evacuate"} \cup Placing
  PROVE  /\ Lists(order) /\ GoodWorkspace /\ workspace \in Int /\ workspace >= 2
         /\ Count \in Nat /\ Len(order) = Count /\ LastCluster \in Nat
         /\ \A i \in 1..Count : order[i] \in Objects
         /\ pc \in Placing => GoodTargets
<1>1. Lists(order) /\ GoodWorkspace /\ (pc \in Placing => GoodTargets)
  BY DEF LayoutInv
<1>2. Count \in Nat
  BY FiniteObjects, FS_CardinalityType DEF Count
<1>3. Len(order) = Count
  BY <1>1, <1>2 DEF Lists
<1>. QED BY <1>1, <1>2, <1>3, FiniteObjects DEF Lists, GoodWorkspace, Clusters

\* A step that leaves the options, the order, the plan and the workspace alone.
LEMMA FixedKept ==
  ASSUME LayoutInv, UNCHANGED <<setup, order, target, workspace>>,
         pc' \in States, pc' # "start",
         pc' = "evacuate" => pc = "evacuate" /\ staged' = staged /\ next' = next,
         pc' \in Placing => pc \in Placing,
         Chains(place)', stop' \in BOOLEAN, next' \in 0..(Len(order) + 1),
         \A o \in DOMAIN staged' : staged'[o] \in WorkspaceRange,
         ForwardInv', ForwardPlaceInv', UnifiedPlaceInv', FallbackInv',
         pc' = "completed" => VerifyAccepts(place)'
  PROVE  LayoutInv'
<1>1. TypeOK'
  BY DEF LayoutInv, TypeOK, Chains, Clusters, WorkspaceRange
<1>2. Lists(order)' <=> Lists(order)
  BY DEF Lists, Count
<1>3. GoodWorkspace' <=> GoodWorkspace
  BY DEF GoodWorkspace, Clusters
<1>4. GoodTargets' <=> GoodTargets
  BY DEF GoodTargets, Batch, Apart, Run
<1>. QED BY <1>1, <1>2, <1>3, <1>4 DEF LayoutInv

\* Nothing more to show of a step to a state in which nothing is being placed.
LEMMA LeavesPlacing ==
  ASSUME LayoutInv, UNCHANGED <<setup, place, order, target, workspace, next, staged>>,
         pc' \in {"verify", "stopped", "refused", "unverified", "occupied", "died"},
         stop' \in BOOLEAN
  PROVE  LayoutInv' /\ FreeMoves(place, place')
<1>1. Chains(place)'
  BY DEF LayoutInv, Chains, Disjoint, Clusters
<1>2. pc' \in States /\ pc' \notin Placing
  BY DEF States, Placing, Ended
<1>3. next' \in 0..(Len(order) + 1) /\ \A o \in DOMAIN staged' : staged'[o] \in WorkspaceRange
  BY DEF LayoutInv, TypeOK
<1>4. ForwardInv' /\ ForwardPlaceInv' /\ UnifiedPlaceInv' /\ FallbackInv'
  BY DEF ForwardInv, ForwardPlaceInv, UnifiedPlaceInv, FallbackInv
<1>5. LayoutInv'
  BY <1>1, <1>2, <1>3, <1>4, FixedKept
<1>6. FreeMoves(place, place')
  BY DEF FreeMoves
<1>. QED BY <1>5, <1>6

\* What a transaction that keeps the chains leaves of them.
LEMMA ChainsNext ==
  ASSUME NEW q, Chains(q), place' = q, setup' = setup
  PROVE  Chains(place)'
BY DEF Chains, Disjoint, Clusters

-----------------------------------------------------------------------------
(* The actions.                                                            *)

\* The workspace that a feasible plan leaves ends the volume, beyond the plan.
LEMMA WorkspaceFits ==
  ASSUME LayoutInv, Files # {}, NEW objects, Lists(objects),
         Feasible(objects, Plan(objects, LastCluster + 1))
  PROVE  LET w == LastCluster + 1 - WorkspaceClusters(objects, Plan(objects, LastCluster + 1))
         IN /\ w \in Clusters /\ \A b \in setup.bad : b < w
            /\ Plan(objects, LastCluster + 1).cursor <= w
<1>. DEFINE plan == Plan(objects, LastCluster + 1)
            W == WorkspaceClusters(objects, plan)
            B == setup.bad \cup {1}
            slack == LastCluster + 1 - plan.cursor
            T == {Total(objects), setup.ram, slack, TerminalCapacity}
            sizes == {Size[o] : o \in Objects}
<1>1. setup \in Setups /\ setup.bad \in SUBSET (2..LastCluster) /\ setup.ram \in Int
  <2>1. setup \in Setups
    BY DEF LayoutInv, TypeOK
  <2>. QED BY <2>1, SetupRecords
<1>2. Max(B) \in B /\ \A b \in B : b <= Max(B)
  <2>1. B \in SUBSET (1..(LastCluster + 1))
    BY <1>1, FiniteObjects
  <2>2. IsFiniteSet(1..(LastCluster + 1))
    BY FiniteObjects, FS_Interval
  <2>3. IsFiniteSet(B) /\ B \subseteq Int /\ B # {}
    BY <2>1, <2>2, FiniteObjects, FS_Subset
  <2>. HIDE DEF B
  <2>. QED BY <2>3, MinMax
<1>3. Max(B) \in Int /\ Max(B) >= 1 /\ \A b \in setup.bad : b \in Int /\ b <= Max(B)
  <2>1. \A b \in B : b \in Int /\ b >= 1
    BY <1>1, FiniteObjects
  <2>. QED BY <1>2, <2>1
<1>4. TerminalCapacity \in Int /\ TerminalCapacity = LastCluster - Max(B)
  BY <1>3, FiniteObjects DEF TerminalCapacity
<1>5. plan.fits
  BY DEF Feasible
<1>6. slack \in Int /\ plan.cursor \in Int
  <2>1. LastCluster + 1 \in Int
    BY FiniteObjects
  <2>2. PlanTaken(LastCluster + 1, objects, Count, plan)
    BY <2>1, PlanKept
  <2>. HIDE DEF plan
  <2>3. plan.cursor \in Nat
    BY <1>5, <2>2 DEF PlanTaken
  <2>. QED BY <2>3, FiniteObjects
<1>7. Total(objects) \in Int
  BY TotalType
<1>8. Largest \in Nat /\ Largest >= 1
  <2>. DEFINE f == [o \in Objects |-> Size[o]]
  <2>1. sizes \subseteq Int /\ \A n \in sizes : n >= 1
    BY SizeType
  <2>2. \E o : o \in Objects
    BY DEF Files
  <2>3. sizes # {}
    BY <2>2
  <2>4. IsFiniteSet(sizes)
    <3>1. f \in Surjection(Objects, sizes)
      BY DEF Surjection
    <3>. HIDE DEF f, sizes
    <3>. QED BY <3>1, FiniteObjects, FS_Surjection
  <2>5. Max(sizes) \in sizes
    <3>. HIDE DEF sizes
    <3>. QED BY <2>1, <2>3, <2>4, MinMax
  <2>6. Largest = Max(sizes)
    BY DEF Largest
  <2>. HIDE DEF sizes
  <2>7. Max(sizes) \in Int /\ Max(sizes) >= 1
    BY <2>1, <2>5
  <2>. QED BY <2>6, <2>7
<1>9. /\ Min({slack, TerminalCapacity}) \in Int /\ Min({slack, TerminalCapacity}) <= TerminalCapacity
      /\ Min({slack, TerminalCapacity}) <= slack
  <2>. DEFINE S == {slack, TerminalCapacity}
  <2>1. IsFiniteSet(S)
    <3>1. IsFiniteSet({slack})
      BY FS_Singleton
    <3>2. IsFiniteSet({slack} \cup {TerminalCapacity})
      BY <3>1, FS_AddElement
    <3>3. S = {slack} \cup {TerminalCapacity}
      OBVIOUS
    <3>. QED BY <3>2, <3>3
  <2>2. S \subseteq Int /\ S # {} /\ TerminalCapacity \in S /\ slack \in S
    BY <1>4, <1>6
  <2>. HIDE DEF S
  <2>3. Min(S) \in S /\ \A y \in S : Min(S) <= y
    BY <2>1, <2>2, MinMax
  <2>. QED BY <2>2, <2>3 DEF S
<1>10. W \in Int /\ W >= 1
  <2>. DEFINE U == {Largest, Min(T)}
  <2>1. Min(T) \in Int
    <3>1. IsFiniteSet(T)
      <4>1. IsFiniteSet({Total(objects)})
        BY FS_Singleton
      <4>2. IsFiniteSet({Total(objects)} \cup {setup.ram})
        BY <4>1, FS_AddElement
      <4>3. IsFiniteSet(({Total(objects)} \cup {setup.ram}) \cup {slack})
        BY <4>2, FS_AddElement
      <4>4. IsFiniteSet((({Total(objects)} \cup {setup.ram}) \cup {slack}) \cup {TerminalCapacity})
        BY <4>3, FS_AddElement
      <4>5. T = (({Total(objects)} \cup {setup.ram}) \cup {slack}) \cup {TerminalCapacity}
        OBVIOUS
      <4>. QED BY <4>4, <4>5
    <3>2. T \subseteq Int /\ T # {}
      BY <1>1, <1>4, <1>6, <1>7
    <3>. HIDE DEF T
    <3>. QED BY <3>1, <3>2, MinMax
  <2>. HIDE DEF T
  <2>2. IsFiniteSet(U)
    <3>1. IsFiniteSet({Largest})
      BY FS_Singleton
    <3>2. IsFiniteSet({Largest} \cup {Min(T)})
      BY <3>1, FS_AddElement
    <3>3. U = {Largest} \cup {Min(T)}
      OBVIOUS
    <3>. QED BY <3>2, <3>3
  <2>3. U \subseteq Int /\ U # {} /\ Largest \in U
    BY <1>8, <2>1
  <2>4. W = Max(U)
    BY DEF WorkspaceClusters, T
  <2>. HIDE DEF U, W
  <2>5. Max(U) \in U /\ \A y \in U : y <= Max(U)
    BY <2>2, <2>3, MinMax
  <2>6. Max(U) \in Int /\ Largest <= Max(U)
    BY <2>3, <2>5
  <2>. QED BY <1>8, <2>4, <2>6
<1>11. W <= Min({slack, TerminalCapacity})
  BY DEF Feasible
<1>12. W <= LastCluster - Max(B) /\ W <= slack
  <2>. HIDE DEF W, B, slack
  <2>. QED BY <1>4, <1>6, <1>9, <1>10, <1>11
<1>. DEFINE w == LastCluster + 1 - W
<1>13. w \in Clusters /\ \A b \in setup.bad : b < w
  <2>. HIDE DEF W, B
  <2>. QED BY <1>3, <1>10, <1>12, FiniteObjects DEF Clusters
<1>14. plan.cursor <= w
  <2>. HIDE DEF W, B, plan
  <2>. QED BY <1>6, <1>10, <1>12, FiniteObjects
<1>. QED BY <1>13, <1>14

\* The command begins: nothing to do, refused, or on to the evacuation.
LEMMA StartKeeps == LayoutInv /\ Start => LayoutInv' /\ FreeMoves(place, place')
<1>. SUFFICES ASSUME LayoutInv, Start PROVE LayoutInv' /\ FreeMoves(place, place')
  OBVIOUS
<1>. DEFINE objects == PhysicalOrder(place)
            plan == Plan(objects, LastCluster + 1)
<1>0. /\ pc = "start" /\ UNCHANGED <<setup, place, target, next, staged, original, stop>>
      /\ staged = <<>> /\ next = 0 /\ stop \in BOOLEAN
  BY DEF Start, LayoutInv, TypeOK
<1>1. CASE pc' = "verify" /\ UNCHANGED <<order, workspace>>
  BY <1>0, <1>1, LeavesPlacing
<1>2. CASE pc' = "refused" /\ UNCHANGED <<order, workspace>>
  BY <1>0, <1>2, LeavesPlacing
<1>3. CASE /\ Files # {} /\ Feasible(objects, plan)
           /\ order' = objects /\ workspace' = LastCluster + 1 - WorkspaceClusters(objects, plan)
           /\ pc' = "evacuate"
  <2>1. Chains(place)
    BY DEF LayoutInv
  <2>2. Lists(objects)
    BY <2>1, PhysicalOrderLists
  <2>3. workspace' \in Clusters /\ \A b \in setup.bad : b < workspace'
    <3>. HIDE DEF objects
    <3>. QED BY <1>3, <2>2, WorkspaceFits
  <2>4. Lists(order)'
    <3>. HIDE DEF objects
    <3>. QED BY <1>3, <2>2 DEF Lists, Count
  <2>5. GoodWorkspace'
    BY <1>0, <2>3 DEF GoodWorkspace, Clusters
  <2>6. Chains(place)'
    BY <1>0, <2>1, ChainsNext
  <2>7. Count \in Nat /\ Len(order') = Count
    <3>1. Count \in Nat
      BY FiniteObjects, FS_CardinalityType DEF Count
    <3>2. order' \in [1..Count -> Objects]
      <4>. HIDE DEF objects
      <4>. QED BY <1>3, <2>2 DEF Lists
    <3>. QED BY <3>1, <3>2
  <2>8. TypeOK'
    <3>1. setup' \in Setups /\ stop' \in BOOLEAN /\ DOMAIN target' \subseteq Objects
          /\ \A o \in DOMAIN target' : target'[o] \in Clusters
      BY <1>0 DEF LayoutInv, TypeOK
    <3>2. DOMAIN staged' = {} /\ next' \in 0..(Len(order') + 1)
      BY <1>0, <2>7
    <3>. QED BY <2>3, <2>6, <3>1, <3>2 DEF TypeOK, Chains, Clusters
  <2>9. ForwardInv' /\ ForwardPlaceInv' /\ UnifiedPlaceInv' /\ FallbackInv'
    BY <1>3 DEF ForwardInv, ForwardPlaceInv, UnifiedPlaceInv, FallbackInv
  <2>10. FreeMoves(place, place')
    BY <1>0 DEF FreeMoves
  <2>. HIDE DEF objects
  <2>. QED BY <1>0, <1>3, <2>4, <2>5, <2>6, <2>8, <2>9, <2>10 DEF LayoutInv, States, Placing, Ended
<1>4. \/ pc' = "verify" /\ UNCHANGED <<order, workspace>>
      \/ pc' = "refused" /\ UNCHANGED <<order, workspace>>
      \/ /\ Files # {} /\ Feasible(objects, plan)
         /\ order' = objects /\ workspace' = LastCluster + 1 - WorkspaceClusters(objects, plan)
         /\ pc' = "evacuate"
  BY DEF Start
<1>. HIDE DEF objects
<1>. QED BY <1>1, <1>2, <1>3, <1>4

\* Clusters of the workspace go to as many free ones below it.
LEMMA EvacuationFree ==
  ASSUME NEW p, Chains(p), NEW sources, sources \subseteq Used(p), NEW room, room \subseteq Free(p),
         NEW n \in Int, n <= Cardinality(room)
  PROVE  LET moving == {c \in sources : Rank(sources, c) <= n}
             map == [c \in moving |-> Nth(room, Rank(sources, c))]
         IN Chains(Remapped(p, map)) /\ FreeMoves(p, Remapped(p, map))
<1>. DEFINE moving == {c \in sources : Rank(sources, c) <= n}
            map == [c \in moving |-> Nth(room, Rank(sources, c))]
<1>1. IsFiniteSet(sources) /\ sources \subseteq Int /\ IsFiniteSet(room) /\ room \subseteq Int
  <2>1. IsFiniteSet(2..LastCluster)
    BY FiniteObjects, FS_Interval
  <2>2. \A c \in Used(p) : c \in 2..LastCluster
    BY UsedCells DEF Clusters
  <2>3. \A c \in Free(p) : c \in 2..LastCluster
    BY UsedCells DEF Clusters
  <2>4. sources \in SUBSET (2..LastCluster) /\ room \in SUBSET (2..LastCluster)
    BY <2>2, <2>3
  <2>5. IsFiniteSet(sources)
    BY <2>1, <2>4, FS_Subset
  <2>6. IsFiniteSet(room)
    BY <2>1, <2>4, FS_Subset
  <2>. QED BY <2>4, <2>5, <2>6, FiniteObjects
<1>2. /\ \A c \in sources : Rank(sources, c) \in 1..Cardinality(sources)
      /\ \A c, d \in sources : Rank(sources, c) = Rank(sources, d) => c = d
  BY <1>1, RankNth
<1>3. \A i \in 1..Cardinality(room) : Nth(room, i) \in room /\ Rank(room, Nth(room, i)) = i
  BY <1>1, RankNth
<1>4. Cardinality(room) \in Nat /\ Cardinality(sources) \in Nat
  BY <1>1, FS_CardinalityType
<1>5. \A c \in moving : Rank(sources, c) \in 1..Cardinality(room)
  BY <1>2, <1>4
<1>6. \A c \in DOMAIN map : map[c] \in Free(p) /\ Rank(room, map[c]) = Rank(sources, c) /\ c \in sources
  BY <1>3, <1>5
<1>. HIDE DEF map
<1>7. \A c, d \in DOMAIN map : map[c] = map[d] => c = d
  BY <1>2, <1>6
<1>8. Chains(Remapped(p, map)) /\ FreeMoves(p, Remapped(p, map))
  BY <1>6, <1>7, RemappedKept
<1>. QED BY <1>8 DEF map

\* A transaction of the evacuation moves no more than is left in the workspace.
LEMMA EvacuationBatch ==
  ASSUME LayoutInv, GoodWorkspace
  PROVE  LET sources == Used(place) \cap WorkspaceRange
             n == Min({Cardinality(sources), setup.batch, WorkspaceSize})
         IN n \in Int /\ Cardinality(sources) \in Nat /\ n <= Cardinality(sources)
<1>. DEFINE sources == Used(place) \cap WorkspaceRange
            T == {Cardinality(sources), setup.batch, WorkspaceSize}
<1>1. IsFiniteSet(sources)
  <2>1. IsFiniteSet(workspace..LastCluster)
    <3>1. workspace \in Int /\ LastCluster \in Int
      BY FiniteObjects DEF GoodWorkspace, Clusters
    <3>. QED BY <3>1, FS_Interval
  <2>2. sources \in SUBSET (workspace..LastCluster)
    BY DEF WorkspaceRange
  <2>. HIDE DEF sources
  <2>. QED BY <2>1, <2>2, FS_Subset
<1>. HIDE DEF sources
<1>2. Cardinality(sources) \in Nat
  BY <1>1, FS_CardinalityType
<1>3. setup.batch \in Int
  <2>1. setup \in Setups
    BY DEF LayoutInv, TypeOK
  <2>. QED BY <2>1, SetupRecords
<1>4. WorkspaceSize \in Int
  BY FiniteObjects DEF WorkspaceSize, GoodWorkspace, Clusters
<1>5. T \subseteq Int /\ T # {}
  BY <1>2, <1>3, <1>4
<1>6. IsFiniteSet(T)
  <2>1. IsFiniteSet({Cardinality(sources)})
    BY FS_Singleton
  <2>2. IsFiniteSet({Cardinality(sources)} \cup {setup.batch})
    BY <2>1, FS_AddElement
  <2>3. IsFiniteSet(({Cardinality(sources)} \cup {setup.batch}) \cup {WorkspaceSize})
    BY <2>2, FS_AddElement
  <2>4. T = ({Cardinality(sources)} \cup {setup.batch}) \cup {WorkspaceSize}
    OBVIOUS
  <2>. QED BY <2>3, <2>4
<1>7. Min(T) \in Int /\ Min(T) <= Cardinality(sources)
  <2>1. Cardinality(sources) \in T
    OBVIOUS
  <2>. HIDE DEF T
  <2>2. Min(T) \in T /\ \A y \in T : Min(T) <= y
    BY <1>5, <1>6, MinMax
  <2>. QED BY <1>5, <2>1, <2>2
<1>. QED BY <1>2, <1>7 DEF sources

\* A plan that fits below the workspace gives every object a run there.
LEMMA PlannedBatch ==
  ASSUME Lists(order), GoodWorkspace, Plan(order, workspace).fits
  PROVE  /\ DOMAIN Plan(order, workspace).at = Objects
         /\ Batch(Plan(order, workspace).at, (2..(workspace - 1)) \ setup.bad)
<1>. DEFINE plan == Plan(order, workspace)
<1>0. workspace \in 2..LastCluster /\ workspace \in Int
  BY FiniteObjects DEF GoodWorkspace, Clusters
<1>1. PlanTaken(workspace, order, Count, plan) /\ plan.fits
  BY <1>0, PlanKept
<1>. HIDE DEF plan
<1>2. /\ DOMAIN plan.at = {order[j] : j \in 1..Count}
      /\ PlannedRuns(workspace, plan.at)
      /\ \A o \in DOMAIN plan.at : Reserved(workspace, plan.at, plan.cursor, o)
  BY <1>1 DEF PlanTaken
<1>3. DOMAIN plan.at = Objects
  BY <1>2 DEF Lists
<1>4. ASSUME NEW o \in Objects
      PROVE  plan.at[o] \in Int /\ Run(plan.at[o], Size[o]) \subseteq (2..(workspace - 1)) \ setup.bad
  <2>1. plan.at[o] \in Nat /\ plan.at[o] >= 2 /\ plan.at[o] + Size[o] <= workspace
        /\ Run(plan.at[o], Size[o]) \cap setup.bad = {}
    BY <1>2, <1>3 DEF PlannedRuns
  <2>2. Size[o] \in Nat
    BY SizeType
  <2>3. \A c \in Run(plan.at[o], Size[o]) : c \in 2..(workspace - 1)
    BY <1>0, <2>1, <2>2, InRun
  <2>. QED BY <2>1, <2>3
<1>5. Apart(plan.at)
  <2>. SUFFICES ASSUME NEW o \in Objects, NEW q \in Objects, o # q
                PROVE  plan.at[o] + Size[o] <= plan.at[q] \/ plan.at[q] + Size[q] <= plan.at[o]
    BY <1>3 DEF Apart
  <2>1. PICK e \in ReserveEnds(plan.at[o] + Size[o], Reserve(o), workspace) :
           plan.at[q] + Size[q] <= plan.at[o] \/ e <= plan.at[q]
    BY <1>2, <1>3 DEF Reserved
  <2>2. e \in (plan.at[o] + Size[o])..workspace
    BY DEF ReserveEnds
  <2>3. plan.at[o] \in Int /\ plan.at[q] \in Int /\ Size[o] \in Nat
    BY <1>4, SizeType
  <2>. QED BY <1>0, <2>1, <2>2, <2>3
<1>. QED BY <1>3, <1>4, <1>5 DEF Batch, plan

\* Evacuation moves clusters below the workspace; when none is left in it, the
\* targets of the plan lie below it, and no object reaches into it.
LEMMA EvacuateKeeps == LayoutInv /\ Evacuate => LayoutInv' /\ FreeMoves(place, place')
<1>. SUFFICES ASSUME LayoutInv, Evacuate PROVE LayoutInv' /\ FreeMoves(place, place')
  OBVIOUS
<1>. DEFINE sources == Used(place) \cap WorkspaceRange
            room == Free(place) \ WorkspaceRange
            n == Min({Cardinality(sources), setup.batch, WorkspaceSize})
            moving == {c \in sources : Rank(sources, c) <= n}
            map == [c \in moving |-> Nth(room, Rank(sources, c))]
            plan == Plan(order, workspace)
<1>0. /\ pc = "evacuate" /\ UNCHANGED <<setup, order, workspace, staged, original, stop>>
      /\ staged = <<>> /\ next = 0 /\ stop \in BOOLEAN /\ Chains(place)
  BY DEF Evacuate, LayoutInv, TypeOK
<1>1. /\ Lists(order) /\ GoodWorkspace /\ workspace \in Int /\ workspace >= 2
      /\ Count \in Nat /\ Len(order) = Count /\ LastCluster \in Nat
  BY <1>0, PlacingFacts
<1>2. CASE /\ sources # {} /\ Cardinality(room) >= n
           /\ place' = Remapped(place, map)
           /\ UNCHANGED <<target, next, pc>>
  <2>1. n \in Int
    BY <1>0, <1>1, EvacuationBatch
  <2>2. n <= Cardinality(room)
    <3>1. IsFiniteSet(room)
      <4>1. IsFiniteSet(2..LastCluster)
        BY FiniteObjects, FS_Interval
      <4>2. room \in SUBSET (2..LastCluster)
        BY <1>0, UsedCells DEF Clusters
      <4>. HIDE DEF room
      <4>. QED BY <4>1, <4>2, FS_Subset
    <3>. HIDE DEF room, n
    <3>2. Cardinality(room) \in Int
      BY <3>1, FS_CardinalityType
    <3>. QED BY <1>2, <2>1, <3>2
  <2>3. Chains(Remapped(place, map)) /\ FreeMoves(place, Remapped(place, map))
    <3>1. sources \subseteq Used(place) /\ room \subseteq Free(place)
      OBVIOUS
    <3>. HIDE DEF sources, room, n
    <3>. QED BY <1>0, <2>1, <2>2, <3>1, EvacuationFree
  <2>4. Chains(place)' /\ FreeMoves(place, place')
    <3>. HIDE DEF map
    <3>. QED BY <1>0, <1>2, <2>3, ChainsNext
  <2>5. pc' = "evacuate" /\ next' \in 0..(Len(order) + 1) /\ DOMAIN staged' = {}
    BY <1>0, <1>1, <1>2
  <2>6. ForwardInv' /\ ForwardPlaceInv' /\ UnifiedPlaceInv' /\ FallbackInv'
    BY <2>5 DEF ForwardInv, ForwardPlaceInv, UnifiedPlaceInv, FallbackInv
  <2>7. LayoutInv'
    <3>. HIDE DEF map, sources, room, n
    <3>. QED BY <1>0, <1>2, <2>4, <2>5, <2>6, FixedKept DEF States, Placing
  <2>. QED BY <2>4, <2>7
<1>3. CASE pc' = "died" /\ UNCHANGED <<place, target, next>>
  BY <1>0, <1>3, LeavesPlacing
<1>4. CASE /\ sources = {} /\ plan.fits
           /\ target' = plan.at /\ next' = 1 /\ pc' = "forward" /\ UNCHANGED place
  <2>1. DOMAIN plan.at = Objects /\ Batch(plan.at, (2..(workspace - 1)) \ setup.bad)
    BY <1>1, <1>4, PlannedBatch
  <2>2. \A o \in Objects : plan.at[o] \in Clusters
    <3>. HIDE DEF plan
    <3>. SUFFICES ASSUME NEW o \in Objects PROVE plan.at[o] \in Clusters
      OBVIOUS
    <3>1. plan.at[o] \in Int /\ Run(plan.at[o], Size[o]) \subseteq 2..(workspace - 1)
          /\ Size[o] \in Nat /\ Size[o] >= 1
      BY <2>1, SizeType DEF Batch
    <3>2. plan.at[o] \in Run(plan.at[o], Size[o])
      BY <3>1, InRun
    <3>. QED BY <1>1, <3>1, <3>2 DEF GoodWorkspace, Clusters
  <2>. HIDE DEF plan
  <2>6. GoodTargets'
    BY <1>0, <1>4, <2>1 DEF GoodTargets, Batch, Apart, Run
  <2>7. Chains(place)'
    BY <1>0, <1>4, ChainsNext
  <2>8. OutsideWorkspace({})'
    <3>1. ASSUME NEW o \in Objects, NEW i \in 1..Size[o] PROVE place[o][i] < workspace
      <4>1. place[o][i] \in Used(place) /\ place[o][i] \in Clusters
        BY <1>0, UsedCells
      <4>2. place[o][i] \notin workspace..LastCluster
        BY <1>4, <4>1 DEF WorkspaceRange
      <4>. QED BY <1>1, <4>1, <4>2 DEF Clusters
    <3>. QED BY <1>0, <1>4, <3>1 DEF OutsideWorkspace
  <2>9. TypeOK'
    <3>1. setup' \in Setups /\ stop' \in BOOLEAN /\ workspace' \in Clusters \cup {0} /\ DOMAIN staged' = {}
      BY <1>0 DEF LayoutInv, TypeOK
    <3>2. DOMAIN target' \subseteq Objects /\ \A o \in DOMAIN target' : target'[o] \in Clusters
      BY <1>4, <2>1, <2>2
    <3>3. next' \in 0..(Len(order') + 1)
      BY <1>0, <1>1, <1>4
    <3>. QED BY <2>7, <3>1, <3>2, <3>3 DEF TypeOK, Chains, Clusters
  <2>10. ForwardInv' /\ ForwardPlaceInv' /\ UnifiedPlaceInv' /\ FallbackInv'
    BY <1>4, <2>8 DEF ForwardInv, ForwardPlaceInv, UnifiedPlaceInv, FallbackInv
  <2>11. Lists(order)' /\ GoodWorkspace'
    BY <1>0, <1>1 DEF Lists, Count, GoodWorkspace, Clusters
  <2>12. FreeMoves(place, place')
    BY <1>4 DEF FreeMoves
  <2>. HIDE DEF sources
  <2>. QED BY <1>0, <1>4, <2>6, <2>7, <2>9, <2>10, <2>11, <2>12 DEF LayoutInv, States, Placing, Ended
<1>5. \/ /\ sources # {} /\ Cardinality(room) >= n
         /\ place' = Remapped(place, map)
         /\ UNCHANGED <<target, next, pc>>
      \/ pc' = "died" /\ UNCHANGED <<place, target, next>>
      \/ /\ sources = {} /\ plan.fits
         /\ target' = plan.at /\ next' = 1 /\ pc' = "forward" /\ UNCHANGED place
  BY DEF Evacuate
<1>. HIDE DEF sources, room, n, map, plan
<1>. QED BY <1>2, <1>3, <1>4, <1>5

\* A staged batch that the workspace holds lies in its first clusters.
LEMMA StagedInWorkspace ==
  ASSUME GoodWorkspace, NEW at, NEW total, Staging(at, total), total <= WorkspaceSize
  PROVE  /\ \A o \in DOMAIN at : /\ at[o] \in WorkspaceRange
                                 /\ Run(at[o], Size[o]) \subseteq Run(workspace, total)
         /\ Run(workspace, total) \subseteq WorkspaceRange
<1>1. workspace \in 2..LastCluster /\ LastCluster \in Int /\ total \in Nat
  BY FiniteObjects DEF GoodWorkspace, Clusters, Staging
<1>2. total <= LastCluster - workspace + 1
  BY DEF WorkspaceSize
<1>3. ASSUME NEW o \in DOMAIN at
      PROVE  at[o] \in WorkspaceRange /\ Run(at[o], Size[o]) \subseteq Run(workspace, total)
  <2>1. at[o] \in Int /\ workspace <= at[o] /\ at[o] + Size[o] <= workspace + total
        /\ Size[o] \in Nat /\ Size[o] >= 1
    BY SizeType DEF Staging
  <2>2. \A c \in Run(at[o], Size[o]) : c \in Run(workspace, total)
    BY <1>1, <2>1, InRun
  <2>. QED BY <1>1, <1>2, <2>1, <2>2 DEF WorkspaceRange
<1>4. \A c \in Run(workspace, total) : c \in workspace..LastCluster
  BY <1>1, <1>2, InRun
<1>. QED BY <1>3, <1>4 DEF WorkspaceRange

\* Staged there, objects do not overlap.
LEMMA StagedIsBatch ==
  ASSUME GoodWorkspace, NEW p, NEW at, NEW total, Staging(at, total), total <= WorkspaceSize,
         Run(workspace, total) \subseteq Free(p)
  PROVE  Batch(at, Free(p))
<1>1. \A o \in DOMAIN at : Run(at[o], Size[o]) \subseteq Run(workspace, total)
  BY StagedInWorkspace
<1>. QED BY <1>1 DEF Batch, Staging

\* The chain of an object after a move.
LEMMA MovedCells ==
  \A p, at : \A o \in Objects :
     Moved(p, at)[o] = IF o \in DOMAIN at THEN Contiguous(at[o], Size[o]) ELSE p[o]
BY DEF Moved

\* A workspace that no object reaches into is free.
LEMMA EmptyWorkspaceFree ==
  ASSUME LayoutInv, GoodWorkspace, OutsideWorkspace({})
  PROVE  WorkspaceRange \subseteq Free(place)
<1>0. Chains(place) /\ workspace \in 2..LastCluster /\ workspace \in Int /\ LastCluster \in Nat
  BY FiniteObjects DEF LayoutInv, GoodWorkspace, Clusters
<1>. SUFFICES ASSUME NEW c \in workspace..LastCluster PROVE c \in Free(place)
  BY DEF WorkspaceRange
<1>1. c \in Clusters \ setup.bad
  <2>1. setup.bad \subseteq Int
    <3>1. setup \in Setups
      BY DEF LayoutInv, TypeOK
    <3>. QED BY <3>1, SetupRecords
  <2>2. \A b \in setup.bad : b < workspace
    BY DEF GoodWorkspace
  <2>. QED BY <1>0, <2>1, <2>2 DEF Clusters
<1>2. \A o \in Objects : \A i \in 1..Size[o] : place[o][i] # c
  BY <1>0 DEF OutsideWorkspace
<1>. QED BY <1>0, <1>1, <1>2, UsedCells

\* The forward pass stages in a workspace that no object reaches into.
LEMMA ForwardKeeps == LayoutInv /\ Forward => LayoutInv' /\ FreeMoves(place, place')
<1>. SUFFICES ASSUME LayoutInv, Forward PROVE LayoutInv' /\ FreeMoves(place, place')
  OBVIOUS
<1>. DEFINE waiting == {i \in next..Len(order) : ~ InPlace(place, order[i])}
            from == Min(waiting)
            batch == ForwardBatch(place, from)
<1>0. /\ pc = "forward" /\ UNCHANGED <<setup, order, target, workspace, original, stop>>
      /\ stop \in BOOLEAN /\ Chains(place) /\ pc \in Placing
      /\ next >= 1 /\ next \in 0..(Len(order) + 1) /\ OutsideWorkspace({})
  BY DEF Forward, LayoutInv, TypeOK, Placing, ForwardInv
<1>1. /\ Lists(order) /\ GoodWorkspace /\ workspace \in Int /\ workspace >= 2
      /\ Count \in Nat /\ Len(order) = Count /\ LastCluster \in Nat
  BY <1>0, PlacingFacts
<1>2. CASE pc' \in {"verify", "unified"} /\ UNCHANGED <<place, next, staged>>
  <2>1. CASE pc' = "verify"
    BY <1>0, <1>2, <2>1, LeavesPlacing
  <2>2. CASE pc' = "unified"
    <3>1. Chains(place)'
      BY <1>0, <1>2, ChainsNext
    <3>2. ForwardInv' /\ ForwardPlaceInv' /\ UnifiedPlaceInv' /\ FallbackInv'
      BY <2>2 DEF ForwardInv, ForwardPlaceInv, UnifiedPlaceInv, FallbackInv
    <3>3. pc' \in States /\ \A o \in DOMAIN staged' : staged'[o] \in WorkspaceRange
      BY <1>2, <2>2 DEF States, Placing, LayoutInv, TypeOK
    <3>4. LayoutInv'
      BY <1>0, <1>2, <2>2, <3>1, <3>2, <3>3, FixedKept
    <3>. QED BY <1>2, <3>4 DEF FreeMoves
  <2>. QED BY <1>2, <2>1, <2>2
<1>3. CASE /\ waiting # {}
           /\ staged' = batch.at /\ place' = Moved(place, staged')
           /\ next' = from /\ pc' = "forwardPlace"
  <2>1. from \in waiting
    <3>1. IsFiniteSet(waiting) /\ waiting \subseteq Int
      <4>1. IsFiniteSet(next..Len(order))
        BY <1>0, <1>1, FS_Interval
      <4>2. waiting \in SUBSET (next..Len(order))
        OBVIOUS
      <4>. HIDE DEF waiting
      <4>3. IsFiniteSet(waiting)
        BY <4>1, <4>2, FS_Subset
      <4>. QED BY <1>0, <1>1, <4>2, <4>3
    <3>. HIDE DEF waiting
    <3>. QED BY <1>3, <3>1, MinMax
  <2>2. from \in 1..Count
    BY <1>0, <1>1, <2>1
  <2>. HIDE DEF from, waiting
  <2>3. /\ Staging(batch.at, batch.total) /\ batch.total <= WorkspaceSize
        /\ IsFiniteSet(DOMAIN batch.at) /\ Cardinality(DOMAIN batch.at) <= Count - from + 1
    BY <1>1, <2>2, ForwardBatchStaging
  <2>. DEFINE at == batch.at
              total == batch.total
  <2>. HIDE DEF batch
  <2>4. /\ \A o \in DOMAIN at : at[o] \in WorkspaceRange
        /\ \A o \in DOMAIN at : Run(at[o], Size[o]) \subseteq Run(workspace, total)
        /\ Run(workspace, total) \subseteq WorkspaceRange
    BY <1>1, <2>3, StagedInWorkspace
  <2>5. WorkspaceRange \subseteq Free(place)
    BY <1>0, <1>1, EmptyWorkspaceFree
  <2>6. Batch(at, Free(place))
    <3>1. Run(workspace, total) \subseteq Free(place)
      BY <2>4, <2>5
    <3>. QED BY <1>1, <2>3, <3>1, StagedIsBatch
  <2>7. Chains(Moved(place, at)) /\ FreeMoves(place, Moved(place, at))
    BY <1>0, <2>6, MovedKept
  <2>8. Chains(place)' /\ FreeMoves(place, place')
    BY <1>0, <1>3, <2>7, ChainsNext
  <2>9. DOMAIN at \subseteq Objects /\ Cardinality(DOMAIN at) \in Nat
    BY <2>3, FS_CardinalityType DEF Staging
  <2>10. OutsideWorkspace(DOMAIN staged)'
    <3>1. ASSUME NEW o \in Objects, o \notin DOMAIN at, NEW i \in 1..Size[o]
          PROVE  place'[o][i] < workspace
      <4>1. place'[o] = place[o]
        BY <1>3, <3>1, MovedCells
      <4>. QED BY <1>0, <4>1 DEF OutsideWorkspace
    <3>. QED BY <1>0, <1>3, <3>1 DEF OutsideWorkspace
  <2>11. ForwardPlaceInv'
    <3>1. next' + Cardinality(DOMAIN staged') \in 1..(Count + 1)
      BY <1>1, <1>3, <2>2, <2>3, <2>9
    <3>. QED BY <1>3, <2>9, <2>10, <3>1 DEF ForwardPlaceInv, Count
  <2>12. ForwardInv' /\ UnifiedPlaceInv' /\ FallbackInv'
    BY <1>3 DEF ForwardInv, UnifiedPlaceInv, FallbackInv
  <2>13. next' \in 0..(Len(order) + 1)
    BY <1>1, <1>3, <2>2
  <2>14. \A o \in DOMAIN staged' : staged'[o] \in WorkspaceRange
    BY <1>3, <2>4
  <2>15. LayoutInv'
    BY <1>0, <1>3, <2>8, <2>11, <2>12, <2>13, <2>14, FixedKept DEF States, Placing
  <2>. QED BY <2>8, <2>15
<1>4. \/ pc' \in {"verify", "unified"} /\ UNCHANGED <<place, next, staged>>
      \/ /\ waiting # {}
         /\ staged' = batch.at /\ place' = Moved(place, staged')
         /\ next' = from /\ pc' = "forwardPlace"
  BY DEF Forward
<1>. HIDE DEF waiting, from, batch
<1>. QED BY <1>2, <1>3, <1>4

\* The unified pass stages only at clusters it has found free.
LEMMA UnifiedKeeps == LayoutInv /\ Unified => LayoutInv' /\ FreeMoves(place, place')
<1>. SUFFICES ASSUME LayoutInv, Unified PROVE LayoutInv' /\ FreeMoves(place, place')
  OBVIOUS
<1>. DEFINE moving == UnifiedBatch(place)
<1>0. /\ pc = "unified" /\ UNCHANGED <<setup, order, target, workspace, next, original, stop>>
      /\ stop \in BOOLEAN /\ Chains(place) /\ pc \in Placing /\ next \in 0..(Len(order) + 1)
  BY DEF Unified, LayoutInv, TypeOK, Placing
<1>1. Lists(order) /\ GoodWorkspace /\ workspace \in Int
  BY <1>0, PlacingFacts
<1>2. CASE pc' \in {"verify", "died"} /\ UNCHANGED <<place, staged>>
  BY <1>0, <1>2, LeavesPlacing
<1>3. CASE pc' = "adaptive" /\ UNCHANGED <<place, staged>>
  <2>1. Chains(place)'
    BY <1>0, <1>3, ChainsNext
  <2>2. ForwardInv' /\ ForwardPlaceInv' /\ UnifiedPlaceInv' /\ FallbackInv'
    BY <1>3 DEF ForwardInv, ForwardPlaceInv, UnifiedPlaceInv, FallbackInv
  <2>3. pc' \in States /\ \A o \in DOMAIN staged' : staged'[o] \in WorkspaceRange
    BY <1>3 DEF States, Placing, LayoutInv, TypeOK
  <2>4. LayoutInv'
    BY <1>0, <1>3, <2>1, <2>2, <2>3, FixedKept
  <2>. QED BY <1>3, <2>4 DEF FreeMoves
<1>4. CASE /\ moving.total <= WorkspaceSize
           /\ Run(workspace, moving.total) \subseteq Free(place)
           /\ staged' = moving.at /\ place' = Moved(place, staged') /\ pc' = "unifiedPlace"
  <2>1. Staging(moving.at, moving.total)
    BY <1>1, UnifiedBatchStaging
  <2>. HIDE DEF moving
  <2>2. Batch(moving.at, Free(place))
    BY <1>1, <1>4, <2>1, StagedIsBatch
  <2>3. Chains(Moved(place, moving.at)) /\ FreeMoves(place, Moved(place, moving.at))
    BY <1>0, <2>2, MovedKept
  <2>4. Chains(place)' /\ FreeMoves(place, place')
    BY <1>0, <1>4, <2>3, ChainsNext
  <2>5. \A o \in DOMAIN staged' : staged'[o] \in WorkspaceRange
    BY <1>1, <1>4, <2>1, StagedInWorkspace
  <2>6. DOMAIN staged' \subseteq Objects
    BY <1>4, <2>1 DEF Staging
  <2>7. ForwardInv' /\ ForwardPlaceInv' /\ UnifiedPlaceInv' /\ FallbackInv'
    BY <1>4, <2>6 DEF ForwardInv, ForwardPlaceInv, UnifiedPlaceInv, FallbackInv
  <2>8. LayoutInv'
    BY <1>0, <1>4, <2>4, <2>5, <2>7, FixedKept DEF States, Placing
  <2>. QED BY <2>4, <2>8
<1>5. \/ pc' \in {"verify", "died"} /\ UNCHANGED <<place, staged>>
      \/ pc' = "adaptive" /\ UNCHANGED <<place, staged>>
      \/ /\ moving.total <= WorkspaceSize
         /\ Run(workspace, moving.total) \subseteq Free(place)
         /\ staged' = moving.at /\ place' = Moved(place, staged') /\ pc' = "unifiedPlace"
  BY DEF Unified
<1>. HIDE DEF moving
<1>. QED BY <1>2, <1>3, <1>4, <1>5

\* The staged objects go to their targets.
LEMMA PlacedKept ==
  ASSUME LayoutInv, pc \in Placing, DOMAIN staged \subseteq Objects,
         \A o \in DOMAIN staged : TargetFree(place, o),
         place' = Moved(place, [o \in DOMAIN staged |-> target[o]]), setup' = setup
  PROVE  Chains(place)' /\ FreeMoves(place, place')
<1>. DEFINE at == [o \in DOMAIN staged |-> target[o]]
<1>1. Direct(place, at)
  BY DEF Direct
<1>2. GoodTargets /\ Chains(place)
  BY DEF LayoutInv
<1>. HIDE DEF at
<1>3. Batch(at, Free(place))
  BY <1>1, <1>2, DirectIsBatch
<1>4. Chains(Moved(place, at)) /\ FreeMoves(place, Moved(place, at))
  BY <1>2, <1>3, MovedKept
<1>5. place' = Moved(place, at)
  BY DEF at
<1>. QED BY <1>4, <1>5, ChainsNext

\* Placing the staged objects below the workspace leaves it empty again.
LEMMA ForwardPlaceKeeps == LayoutInv /\ ForwardPlace => LayoutInv' /\ FreeMoves(place, place')
<1>. SUFFICES ASSUME LayoutInv, ForwardPlace PROVE LayoutInv' /\ FreeMoves(place, place')
  OBVIOUS
<1>0. /\ pc = "forwardPlace" /\ UNCHANGED <<setup, order, target, workspace, original, stop>>
      /\ stop \in BOOLEAN /\ pc \in Placing /\ next \in 0..(Len(order) + 1)
      /\ DOMAIN staged \subseteq Objects /\ next + Cardinality(DOMAIN staged) \in 1..(Count + 1)
      /\ OutsideWorkspace(DOMAIN staged)
  BY DEF ForwardPlace, PlaceStaged, LayoutInv, TypeOK, Placing, ForwardPlaceInv
<1>1. /\ GoodWorkspace /\ GoodTargets /\ workspace \in Int /\ Count \in Nat /\ Len(order) = Count
  BY <1>0, PlacingFacts
<1>2. CASE pc' = "died" /\ UNCHANGED <<place, next, staged>>
  BY <1>0, <1>2, LeavesPlacing
<1>3. CASE /\ \A o \in DOMAIN staged : Exact(place, o, staged[o]) /\ TargetFree(place, o)
           /\ place' = Moved(place, [o \in DOMAIN staged |-> target[o]])
           /\ next' = next + Cardinality(DOMAIN staged)
           /\ staged' = <<>> /\ pc' = "forward"
  <2>1. Chains(place)' /\ FreeMoves(place, place')
    BY <1>0, <1>3, PlacedKept
  <2>2. OutsideWorkspace({})'
    <3>1. ASSUME NEW o \in Objects, NEW i \in 1..Size[o] PROVE place'[o][i] < workspace
      <4>1. CASE o \in DOMAIN staged
        <5>1. place'[o] = Contiguous(target[o], Size[o])
          BY <1>3, <4>1 DEF Moved
        <5>2. place'[o][i] = target[o] + i - 1
          BY <5>1 DEF Contiguous
        <5>3. target[o] \in Int /\ Run(target[o], Size[o]) \subseteq 2..(workspace - 1)
              /\ Size[o] \in Nat
          BY <1>1, SizeType DEF GoodTargets, Batch
        <5>4. target[o] + i - 1 \in Run(target[o], Size[o])
          BY <5>3, InRun
        <5>. QED BY <1>1, <5>2, <5>3, <5>4
      <4>2. CASE o \notin DOMAIN staged
        <5>1. place'[o] = place[o]
          BY <1>3, <4>2 DEF Moved
        <5>. QED BY <1>0, <4>2, <5>1 DEF OutsideWorkspace
      <4>. QED BY <4>1, <4>2
    <3>. QED BY <1>0, <3>1 DEF OutsideWorkspace
  <2>3. next' >= 1 /\ next' \in 0..(Len(order) + 1)
    BY <1>0, <1>1, <1>3
  <2>4. ForwardInv' /\ ForwardPlaceInv' /\ UnifiedPlaceInv' /\ FallbackInv'
    BY <1>3, <2>2, <2>3 DEF ForwardInv, ForwardPlaceInv, UnifiedPlaceInv, FallbackInv
  <2>5. DOMAIN staged' = {}
    BY <1>3
  <2>6. LayoutInv'
    BY <1>0, <1>3, <2>1, <2>3, <2>4, <2>5, FixedKept DEF States, Placing
  <2>. QED BY <2>1, <2>6
<1>4. \/ pc' = "died" /\ UNCHANGED <<place, next, staged>>
      \/ /\ \A o \in DOMAIN staged : Exact(place, o, staged[o]) /\ TargetFree(place, o)
         /\ place' = Moved(place, [o \in DOMAIN staged |-> target[o]])
         /\ next' = next + Cardinality(DOMAIN staged)
         /\ staged' = <<>> /\ pc' = "forward"
  BY DEF ForwardPlace, PlaceStaged
<1>. QED BY <1>2, <1>3, <1>4

\* The unified pass places what it staged and is done.
LEMMA UnifiedPlaceKeeps == LayoutInv /\ UnifiedPlace => LayoutInv' /\ FreeMoves(place, place')
<1>. SUFFICES ASSUME LayoutInv, UnifiedPlace PROVE LayoutInv' /\ FreeMoves(place, place')
  OBVIOUS
<1>0. /\ pc = "unifiedPlace" /\ UNCHANGED <<setup, order, target, workspace, original, stop>>
      /\ stop \in BOOLEAN /\ pc \in Placing /\ next \in 0..(Len(order) + 1)
      /\ DOMAIN staged \subseteq Objects
  BY DEF UnifiedPlace, PlaceStaged, LayoutInv, TypeOK, Placing, UnifiedPlaceInv
<1>2. CASE pc' = "died" /\ UNCHANGED <<place, next, staged>>
  BY <1>0, <1>2, LeavesPlacing
<1>3. CASE /\ \A o \in DOMAIN staged : Exact(place, o, staged[o]) /\ TargetFree(place, o)
           /\ place' = Moved(place, [o \in DOMAIN staged |-> target[o]])
           /\ next' = next /\ staged' = <<>> /\ pc' = "verify"
  <2>1. Chains(place)' /\ FreeMoves(place, place')
    BY <1>0, <1>3, PlacedKept
  <2>2. ForwardInv' /\ ForwardPlaceInv' /\ UnifiedPlaceInv' /\ FallbackInv'
    BY <1>3 DEF ForwardInv, ForwardPlaceInv, UnifiedPlaceInv, FallbackInv
  <2>3. DOMAIN staged' = {}
    BY <1>3
  <2>4. LayoutInv'
    BY <1>0, <1>3, <2>1, <2>2, <2>3, FixedKept DEF States, Placing
  <2>. QED BY <2>1, <2>4
<1>4. \/ pc' = "died" /\ UNCHANGED <<place, next, staged>>
      \/ /\ \A o \in DOMAIN staged : Exact(place, o, staged[o]) /\ TargetFree(place, o)
         /\ place' = Moved(place, [o \in DOMAIN staged |-> target[o]])
         /\ next' = next /\ staged' = <<>> /\ pc' = "verify"
  BY DEF UnifiedPlace, PlaceStaged
<1>. QED BY <1>2, <1>3, <1>4

\* The adaptive pass moves objects to free targets, or blockers into free runs of
\* the workspace.
LEMMA AdaptiveKeeps == LayoutInv /\ Adaptive => LayoutInv' /\ FreeMoves(place, place')
<1>. SUFFICES ASSUME LayoutInv, Adaptive PROVE LayoutInv' /\ FreeMoves(place, place')
  OBVIOUS
<1>. DEFINE direct == DirectBatch(place).at
            blockers == StageBatch(place).at
<1>0. /\ pc = "adaptive" /\ UNCHANGED <<setup, order, target, workspace, staged, original, stop>>
      /\ stop \in BOOLEAN /\ Chains(place) /\ pc \in Placing /\ next \in 0..(Len(order) + 1)
      /\ \A o \in DOMAIN staged : staged[o] \in WorkspaceRange
  BY DEF Adaptive, LayoutInv, TypeOK, Placing
<1>1. Lists(order) /\ GoodWorkspace /\ GoodTargets /\ Count \in Nat /\ Len(order) = Count
  BY <1>0, PlacingFacts
<1>2. ASSUME NEW at, Batch(at, Free(place)), place' = Moved(place, at), UNCHANGED <<pc, next>>
      PROVE  LayoutInv' /\ FreeMoves(place, place')
  <2>1. Chains(Moved(place, at)) /\ FreeMoves(place, Moved(place, at))
    BY <1>0, <1>2, MovedKept
  <2>2. Chains(place)' /\ FreeMoves(place, place')
    BY <1>0, <1>2, <2>1, ChainsNext
  <2>3. ForwardInv' /\ ForwardPlaceInv' /\ UnifiedPlaceInv' /\ FallbackInv'
    BY <1>0, <1>2 DEF ForwardInv, ForwardPlaceInv, UnifiedPlaceInv, FallbackInv
  <2>4. next' \in 0..(Len(order) + 1) /\ \A o \in DOMAIN staged' : staged'[o] \in WorkspaceRange
    BY <1>0, <1>2
  <2>5. LayoutInv'
    BY <1>0, <1>2, <2>2, <2>3, <2>4, FixedKept DEF States, Placing
  <2>. QED BY <2>2, <2>5
<1>3. Batch(direct, Free(place))
  <2>1. Direct(place, direct)
    BY <1>1, DirectBatchDirect
  <2>. HIDE DEF direct
  <2>. QED BY <1>1, <2>1, DirectIsBatch
<1>4. Batch(blockers, Free(place))
  <2>1. Batch(blockers, Free(place) \cap WorkspaceRange)
    BY <1>0, <1>1, StageBatchFree
  <2>. HIDE DEF blockers
  <2>. QED BY <2>1 DEF Batch
<1>5. CASE pc' = "verify" /\ UNCHANGED <<place, next>>
  BY <1>0, <1>5, LeavesPlacing
<1>6. CASE pc' = "fallback" /\ next' = Len(order) /\ UNCHANGED place
  <2>1. Chains(place)'
    BY <1>0, <1>6, ChainsNext
  <2>2. next' \in 0..Count /\ next' \in 0..(Len(order) + 1)
    BY <1>1, <1>6
  <2>3. ForwardInv' /\ ForwardPlaceInv' /\ UnifiedPlaceInv' /\ FallbackInv'
    BY <1>6, <2>2 DEF ForwardInv, ForwardPlaceInv, UnifiedPlaceInv, FallbackInv, Count
  <2>4. \A o \in DOMAIN staged' : staged'[o] \in WorkspaceRange
    BY <1>0
  <2>5. LayoutInv'
    BY <1>0, <1>6, <2>1, <2>2, <2>3, <2>4, FixedKept DEF States, Placing
  <2>. QED BY <1>6, <2>5 DEF FreeMoves
<1>7. \/ pc' = "verify" /\ UNCHANGED <<place, next>>
      \/ place' = Moved(place, direct) /\ UNCHANGED <<pc, next>>
      \/ place' = Moved(place, blockers) /\ UNCHANGED <<pc, next>>
      \/ pc' = "fallback" /\ next' = Len(order) /\ UNCHANGED place
  BY DEF Adaptive
<1>. HIDE DEF direct, blockers
<1>. QED BY <1>2, <1>3, <1>4, <1>5, <1>6, <1>7

\* One object in a run of free clusters.
LEMMA OneIsBatch ==
  ASSUME NEW S, NEW o \in Objects, NEW start \in Int, Run(start, Size[o]) \subseteq S
  PROVE  Batch(With(<<>>, o, start), S)
<1>. DEFINE at == With(<<>>, o, start)
<1>1. DOMAIN at = {o} \cup DOMAIN <<>>
  BY OneMore
<1>4. DOMAIN <<>> = {}
  OBVIOUS
<1>2. at[o] = start
  BY OneMore
<1>3. DOMAIN at = {o}
  BY <1>1, <1>4
<1>. HIDE DEF at
<1>. QED BY <1>2, <1>3 DEF Batch, Apart, at

\* The fallback moves what it can directly, or stages one object and remembers
\* where it was.
LEMMA FallbackKeeps == LayoutInv /\ Fallback => LayoutInv' /\ FreeMoves(place, place')
<1>. SUFFICES ASSUME LayoutInv, Fallback PROVE LayoutInv' /\ FreeMoves(place, place')
  OBVIOUS
<1>. DEFINE batch == ReverseBatch(place, next)
            object == order[next]
<1>0. /\ pc = "fallback" /\ UNCHANGED <<setup, order, target, workspace, staged, stop>>
      /\ stop \in BOOLEAN /\ Chains(place) /\ pc \in Placing /\ next \in 0..Count
      /\ \A o \in DOMAIN staged : staged[o] \in WorkspaceRange
  BY DEF Fallback, LayoutInv, TypeOK, Placing, FallbackInv
<1>1. /\ Lists(order) /\ GoodWorkspace /\ GoodTargets /\ Count \in Nat /\ Len(order) = Count
      /\ workspace \in Int /\ \A i \in 1..Count : order[i] \in Objects
  BY <1>0, PlacingFacts
<1>2. CASE pc' \in {"verify", "occupied"} /\ UNCHANGED <<place, next, original>>
  BY <1>0, <1>2, LeavesPlacing
<1>3. CASE place' = Moved(place, batch.at) /\ next' = batch.next /\ UNCHANGED <<pc, original>>
  <2>1. Direct(place, batch.at) /\ batch.next \in 0..next
    BY <1>0, <1>1, ReverseBatchDirect
  <2>. HIDE DEF batch
  <2>2. Batch(batch.at, Free(place))
    BY <1>1, <2>1, DirectIsBatch
  <2>3. Chains(Moved(place, batch.at)) /\ FreeMoves(place, Moved(place, batch.at))
    BY <1>0, <2>2, MovedKept
  <2>4. Chains(place)' /\ FreeMoves(place, place')
    BY <1>0, <1>3, <2>3, ChainsNext
  <2>5. next' \in 0..Count /\ next' \in 0..(Len(order) + 1)
    BY <1>0, <1>1, <1>3, <2>1
  <2>6. ForwardInv' /\ ForwardPlaceInv' /\ UnifiedPlaceInv' /\ FallbackInv'
    BY <1>0, <1>3, <2>5 DEF ForwardInv, ForwardPlaceInv, UnifiedPlaceInv, FallbackInv, Count
  <2>7. \A o \in DOMAIN staged' : staged'[o] \in WorkspaceRange
    BY <1>0
  <2>8. LayoutInv'
    BY <1>0, <1>3, <2>4, <2>5, <2>6, <2>7, FixedKept DEF States, Placing
  <2>. QED BY <2>4, <2>8
<1>4. CASE /\ next # 0 /\ Run(workspace, Size[object]) \subseteq Free(place)
           /\ original' = place[object]
           /\ place' = Moved(place, With(<<>>, object, workspace))
           /\ pc' = "unblock" /\ next' = next
  <2>1. next \in 1..Count /\ object \in Objects
    BY <1>0, <1>1, <1>4
  <2>2. Batch(With(<<>>, object, workspace), Free(place))
    <3>. HIDE DEF object
    <3>. QED BY <1>1, <1>4, <2>1, OneIsBatch
  <2>3. Chains(Moved(place, With(<<>>, object, workspace)))
        /\ FreeMoves(place, Moved(place, With(<<>>, object, workspace)))
    <3>. HIDE DEF object
    <3>. QED BY <1>0, <2>2, MovedKept
  <2>4. Chains(place)' /\ FreeMoves(place, place')
    BY <1>0, <1>4, <2>3, ChainsNext
  <2>5. /\ original' \in [1..Size[object] -> Clusters \ setup.bad]
        /\ \A i, j \in DOMAIN original' : original'[i] = original'[j] => i = j
    <3>. HIDE DEF object
    <3>1. place[object] \in [1..Size[object] -> Clusters \ setup.bad]
      BY <1>0, <2>1 DEF Chains
    <3>2. \A i, j \in 1..Size[object] : place[object][i] = place[object][j] => i = j
      BY <1>0, <2>1 DEF Chains, Disjoint
    <3>. QED BY <1>4, <3>1, <3>2
  <2>6. FallbackInv'
    BY <1>0, <1>4, <2>1, <2>5 DEF FallbackInv, Count, Clusters
  <2>7. ForwardInv' /\ ForwardPlaceInv' /\ UnifiedPlaceInv'
    BY <1>4 DEF ForwardInv, ForwardPlaceInv, UnifiedPlaceInv
  <2>8. next' \in 0..(Len(order) + 1) /\ \A o \in DOMAIN staged' : staged'[o] \in WorkspaceRange
    BY <1>0, <1>1, <1>4
  <2>9. LayoutInv'
    BY <1>0, <1>4, <2>4, <2>6, <2>7, <2>8, FixedKept DEF States, Placing
  <2>. QED BY <2>4, <2>9
<1>5. \/ pc' \in {"verify", "occupied"} /\ UNCHANGED <<place, next, original>>
      \/ place' = Moved(place, batch.at) /\ next' = batch.next /\ UNCHANGED <<pc, original>>
      \/ /\ next # 0 /\ Run(workspace, Size[object]) \subseteq Free(place)
         /\ original' = place[object]
         /\ place' = Moved(place, With(<<>>, object, workspace))
         /\ pc' = "unblock" /\ next' = next
  BY DEF Fallback
<1>. HIDE DEF batch, object
<1>. QED BY <1>2, <1>3, <1>4, <1>5

\* Where the blockers of a target go: along the clusters of the staged object.
Unblocked(chain, slots, blockers) == [c \in blockers |-> chain[Nth(slots, Rank(blockers, c))]]

\* They are different and free.
LEMMA UnblockedKept ==
  ASSUME NEW p, Chains(p), NEW n \in Nat, NEW chain,
         chain \in [1..n -> Clusters], \A i, j \in 1..n : chain[i] = chain[j] => i = j,
         NEW blockers, blockers \subseteq Int, IsFiniteSet(blockers), NEW slots, slots \subseteq 1..n,
         \A i \in slots : chain[i] \in Free(p) \/ blockers = {},
         Cardinality(blockers) <= Cardinality(slots)
  PROVE  /\ Chains(Remapped(p, Unblocked(chain, slots, blockers)))
         /\ FreeMoves(p, Remapped(p, Unblocked(chain, slots, blockers)))
<1>. DEFINE map == Unblocked(chain, slots, blockers)
<1>1. IsFiniteSet(slots) /\ slots \subseteq Int
  <2>1. IsFiniteSet(1..n)
    BY FS_Interval
  <2>2. slots \in SUBSET (1..n)
    OBVIOUS
  <2>3. IsFiniteSet(slots)
    BY <2>1, <2>2, FS_Subset
  <2>. QED BY <2>2, <2>3
<1>2. /\ \A c \in blockers : Rank(blockers, c) \in 1..Cardinality(blockers)
      /\ \A c, d \in blockers : Rank(blockers, c) = Rank(blockers, d) => c = d
  BY RankNth
<1>3. \A i \in 1..Cardinality(slots) : Nth(slots, i) \in slots /\ Rank(slots, Nth(slots, i)) = i
  BY <1>1, RankNth
<1>4. Cardinality(slots) \in Nat /\ Cardinality(blockers) \in Nat
  BY <1>1, FS_CardinalityType
<1>5. \A c \in blockers : Rank(blockers, c) \in 1..Cardinality(slots)
  BY <1>2, <1>4
<1>6. \A c \in blockers : /\ Nth(slots, Rank(blockers, c)) \in slots
                          /\ Rank(slots, Nth(slots, Rank(blockers, c))) = Rank(blockers, c)
  BY <1>3, <1>5
<1>7. \A c \in DOMAIN map : c \in blockers /\ map[c] = chain[Nth(slots, Rank(blockers, c))]
  BY DEF Unblocked
<1>. HIDE DEF map
<1>8. \A c \in DOMAIN map : map[c] \in Free(p)
  BY <1>6, <1>7
<1>9. ASSUME NEW c \in DOMAIN map, NEW d \in DOMAIN map, map[c] = map[d] PROVE c = d
  <2>1. Nth(slots, Rank(blockers, c)) = Nth(slots, Rank(blockers, d))
    BY <1>6, <1>7, <1>9
  <2>2. Rank(blockers, c) = Rank(blockers, d)
    BY <1>6, <1>7, <2>1
  <2>. QED BY <1>2, <1>7, <2>2
<1>10. Chains(Remapped(p, map)) /\ FreeMoves(p, Remapped(p, map))
  BY <1>8, <1>9, RemappedKept
<1>. QED BY <1>10 DEF map

\* Unblocking uses only clusters that the staged object has left.
LEMMA UnblockKeeps == LayoutInv /\ Unblock => LayoutInv' /\ FreeMoves(place, place')
<1>. SUFFICES ASSUME LayoutInv, Unblock PROVE LayoutInv' /\ FreeMoves(place, place')
  OBVIOUS
<1>. DEFINE object == order[next]
            wanted == Run(target[object], Size[object])
            blockers == wanted \ Free(place)
            slots == {i \in DOMAIN original : original[i] \notin wanted}
            map == Unblocked(original, slots, blockers)
<1>0. /\ pc = "unblock"
      /\ UNCHANGED <<setup, order, target, workspace, next, staged, original, stop>>
      /\ stop \in BOOLEAN /\ Chains(place) /\ pc \in Placing /\ next \in 1..Count
      /\ next \in 0..(Len(order) + 1)
      /\ \A o \in DOMAIN staged : staged[o] \in WorkspaceRange
      /\ original \in [1..Size[order[next]] -> Clusters \ setup.bad]
      /\ \A i, j \in DOMAIN original : original[i] = original[j] => i = j
  BY DEF Unblock, LayoutInv, TypeOK, Placing, FallbackInv
<1>1. Lists(order) /\ GoodTargets /\ \A i \in 1..Count : order[i] \in Objects
  BY <1>0, PlacingFacts
<1>2. CASE pc' = "died" /\ UNCHANGED place
  BY <1>0, <1>2, LeavesPlacing
<1>3. CASE /\ {original[i] : i \in slots} \subseteq Free(place) \/ blockers = {}
           /\ Cardinality(blockers) <= Cardinality(slots)
           /\ place' = Remapped(place, map) /\ pc' = "fallbackPlace"
  <2>1. object \in Objects /\ Size[object] \in Nat /\ target[object] \in Int
    BY <1>0, <1>1, SizeType DEF GoodTargets, Batch
  <2>2. wanted \subseteq Int /\ IsFiniteSet(wanted)
    <3>. HIDE DEF object
    <3>1. IsFiniteSet(target[object]..(target[object] + Size[object] - 1))
      BY <2>1, FS_Interval
    <3>. QED BY <2>1, <3>1 DEF Run
  <2>3. blockers \subseteq Int /\ IsFiniteSet(blockers)
    <3>1. blockers \in SUBSET wanted
      OBVIOUS
    <3>. HIDE DEF wanted, blockers
    <3>. QED BY <2>2, <3>1, FS_Subset
  <2>4. original \in [1..Size[object] -> Clusters] /\ slots \subseteq 1..Size[object]
    BY <1>0
  <2>. HIDE DEF wanted, slots
  <2>5. Chains(Remapped(place, map)) /\ FreeMoves(place, Remapped(place, map))
    <3>1. \A i, j \in 1..Size[object] : original[i] = original[j] => i = j
      BY <1>0
    <3>2. \A i \in slots : original[i] \in Free(place) \/ blockers = {}
      BY <1>3
    <3>. HIDE DEF blockers, object
    <3>. QED BY <1>0, <1>3, <2>1, <2>3, <2>4, <3>1, <3>2, UnblockedKept
  <2>. HIDE DEF map, blockers, object
  <2>6. Chains(place)' /\ FreeMoves(place, place')
    BY <1>0, <1>3, <2>5, ChainsNext
  <2>7. ForwardInv' /\ ForwardPlaceInv' /\ UnifiedPlaceInv' /\ FallbackInv'
    BY <1>0, <1>3 DEF ForwardInv, ForwardPlaceInv, UnifiedPlaceInv, FallbackInv, Count
  <2>8. next' \in 0..(Len(order) + 1) /\ \A o \in DOMAIN staged' : staged'[o] \in WorkspaceRange
    BY <1>0
  <2>9. LayoutInv'
    BY <1>0, <1>3, <2>6, <2>7, <2>8, FixedKept DEF States, Placing
  <2>. QED BY <2>6, <2>9
<1>4. \/ pc' = "died" /\ UNCHANGED place
      \/ /\ {original[i] : i \in slots} \subseteq Free(place) \/ blockers = {}
         /\ Cardinality(blockers) <= Cardinality(slots)
         /\ place' = Remapped(place, map) /\ pc' = "fallbackPlace"
  BY DEF Unblock, Unblocked
<1>. HIDE DEF map, blockers, slots, wanted, object
<1>. QED BY <1>2, <1>3, <1>4

\* The staged object goes to its target, and the fallback to the object before it.
LEMMA FallbackPlaceKeeps == LayoutInv /\ FallbackPlace => LayoutInv' /\ FreeMoves(place, place')
<1>. SUFFICES ASSUME LayoutInv, FallbackPlace PROVE LayoutInv' /\ FreeMoves(place, place')
  OBVIOUS
<1>. DEFINE object == order[next]
            at == With(<<>>, object, target[object])
<1>0. /\ pc = "fallbackPlace"
      /\ UNCHANGED <<setup, order, target, workspace, staged, original, stop>>
      /\ stop \in BOOLEAN /\ Chains(place) /\ pc \in Placing /\ next \in 1..Count
      /\ \A o \in DOMAIN staged : staged[o] \in WorkspaceRange
  BY DEF FallbackPlace, LayoutInv, TypeOK, Placing, FallbackInv
<1>1. /\ Lists(order) /\ GoodTargets /\ \A i \in 1..Count : order[i] \in Objects
      /\ Count \in Nat /\ Len(order) = Count
  BY <1>0, PlacingFacts
<1>2. CASE pc' = "died" /\ UNCHANGED <<place, next>>
  BY <1>0, <1>2, LeavesPlacing
<1>3. CASE /\ TargetFree(place, object)
           /\ place' = Moved(place, at) /\ next' = next - 1 /\ pc' = "fallback"
  <2>1. object \in Objects /\ target[object] \in Int
    BY <1>0, <1>1 DEF GoodTargets, Batch
  <2>2. Batch(at, Free(place))
    <3>1. Run(target[object], Size[object]) \subseteq Free(place)
      BY <1>3 DEF TargetFree
    <3>. HIDE DEF object
    <3>. QED BY <2>1, <3>1, OneIsBatch
  <2>. HIDE DEF at, object
  <2>3. Chains(Moved(place, at)) /\ FreeMoves(place, Moved(place, at))
    BY <1>0, <2>2, MovedKept
  <2>4. Chains(place)' /\ FreeMoves(place, place')
    BY <1>0, <1>3, <2>3, ChainsNext
  <2>5. next' \in 0..Count /\ next' \in 0..(Len(order) + 1)
    BY <1>0, <1>1, <1>3
  <2>6. ForwardInv' /\ ForwardPlaceInv' /\ UnifiedPlaceInv' /\ FallbackInv'
    BY <1>3, <2>5 DEF ForwardInv, ForwardPlaceInv, UnifiedPlaceInv, FallbackInv, Count
  <2>7. \A o \in DOMAIN staged' : staged'[o] \in WorkspaceRange
    BY <1>0
  <2>8. LayoutInv'
    BY <1>0, <1>3, <2>4, <2>5, <2>6, <2>7, FixedKept DEF States, Placing
  <2>. QED BY <2>4, <2>8
<1>4. \/ pc' = "died" /\ UNCHANGED <<place, next>>
      \/ /\ TargetFree(place, object)
         /\ place' = Moved(place, at) /\ next' = next - 1 /\ pc' = "fallback"
  BY DEF FallbackPlace
<1>. HIDE DEF at, object
<1>. QED BY <1>2, <1>3, <1>4

-----------------------------------------------------------------------------
(* The last verification.                                                  *)

\* Nothing of a plan depends on the state but the options and bad clusters.
LEMMA RunsNext ==
  ASSUME setup' = setup
  PROVE  /\ \A cursor, length, limit : UsableRuns(cursor, length, limit)' = UsableRuns(cursor, length, limit)
         /\ \A cursor, r, limit : ReserveEnds(cursor, r, limit)' = ReserveEnds(cursor, r, limit)
         /\ \A o : Reserve(o)' = Reserve(o)
BY DEF UsableRuns, ReserveEnds, Reserve

\* Nor does a step of the plan.
LEMMA PlanStepNext ==
  ASSUME setup' = setup
  PROVE  \A limit, plan, o : PlanStep(limit, plan, o)' = PlanStep(limit, plan, o)
<1>. SUFFICES ASSUME NEW limit, NEW plan, NEW o
              PROVE  PlanStep(limit, plan, o)' = PlanStep(limit, plan, o)
  OBVIOUS
<1>. QED BY RunsNext DEF PlanStep

\* Nor does the plan of a given list of objects.
LEMMA PlanNext ==
  ASSUME setup' = setup
  PROVE  \A items, limit : Plan(items, limit)' = Plan(items, limit)
<1>. SUFFICES ASSUME NEW items, NEW limit PROVE Plan(items, limit)' = Plan(items, limit)
  OBVIOUS
<1>. DEFINE P(iter) == iter = [s \in SUBSET DOMAIN items |->
                IF s = {} THEN EmptyPlan
                ELSE PlanStep(limit, iter[s \ {Max(s)}], items[Max(s)])]
            Q(iter) == iter = [s \in SUBSET DOMAIN items |->
                IF s = {} THEN EmptyPlan
                ELSE PlanStep(limit, iter[s \ {Max(s)}], items[Max(s)])']
<1>1. Plan(items, limit) = (CHOOSE iter : P(iter))[DOMAIN items]
  BY DEF Plan, FoldLeft, MapThenFoldSet
<1>2. Plan(items, limit)' = (CHOOSE iter : Q(iter))[DOMAIN items]
  BY DEF Plan, FoldLeft, MapThenFoldSet, EmptyPlan
<1>3. \A iter : P(iter) <=> Q(iter)
  BY PlanStepNext
<1>4. (CHOOSE iter : P(iter)) = (CHOOSE iter : Q(iter))
  <2>. HIDE DEF P, Q
  <2>. QED BY <1>3
<1>. QED BY <1>1, <1>2, <1>4

\* While options and chains stay, the verification says the same.
LEMMA VerifyNext ==
  ASSUME UNCHANGED <<setup, place>>
  PROVE  VerifyAccepts(place)' <=> VerifyAccepts(place)
<1>1. MatchesCanonical(place)' <=> MatchesCanonical(place)
  BY PlanNext DEF MatchesCanonical
<1>2. Free(place)' = Free(place)
  BY DEF Free, Clusters
<1>. QED BY <1>1, <1>2 DEF VerifyAccepts, HighWater

\* A command completes only on a layout that passes its verification.
LEMMA VerifyKeeps == LayoutInv /\ Verify => LayoutInv' /\ FreeMoves(place, place')
<1>. SUFFICES ASSUME LayoutInv, Verify PROVE LayoutInv' /\ FreeMoves(place, place')
  OBVIOUS
<1>0. /\ pc = "verify" /\ stop \in BOOLEAN /\ Chains(place)
      /\ UNCHANGED <<setup, place, order, target, workspace, next, staged, original, stop>>
      /\ next \in 0..(Len(order) + 1) /\ \A o \in DOMAIN staged : staged[o] \in WorkspaceRange
  BY DEF Verify, LayoutInv, TypeOK
<1>1. CASE ~ VerifyAccepts(place)
  <2>1. pc' = "unverified"
    BY <1>1 DEF Verify
  <2>. QED BY <1>0, <2>1, LeavesPlacing
<1>2. CASE VerifyAccepts(place)
  <2>1. pc' = "completed"
    BY <1>2 DEF Verify
  <2>2. VerifyAccepts(place)'
    BY <1>0, <1>2, VerifyNext
  <2>3. Chains(place)'
    BY <1>0, ChainsNext
  <2>4. ForwardInv' /\ ForwardPlaceInv' /\ UnifiedPlaceInv' /\ FallbackInv'
    BY <2>1 DEF ForwardInv, ForwardPlaceInv, UnifiedPlaceInv, FallbackInv
  <2>5. pc' \in States /\ pc' \notin Placing
    BY <2>1 DEF States, Placing, Ended
  <2>6. next' \in 0..(Len(order) + 1) /\ \A o \in DOMAIN staged' : staged'[o] \in WorkspaceRange
    BY <1>0
  <2>7. LayoutInv'
    BY <1>0, <2>1, <2>2, <2>3, <2>4, <2>5, <2>6, FixedKept
  <2>. QED BY <1>0, <2>7 DEF FreeMoves
<1>. QED BY <1>1, <1>2

\* A Stop that is seen leaves everything where it is.
LEMMA StoppedKeeps == LayoutInv /\ Stopped => LayoutInv' /\ FreeMoves(place, place')
<1>1. LayoutInv => stop \in BOOLEAN
  BY DEF LayoutInv, TypeOK
<1>. QED BY <1>1, LeavesPlacing DEF Stopped

\* A step that at most sets stop.
LEMMA StopKeeps ==
  ASSUME LayoutInv, UNCHANGED <<setup, place, order, target, workspace, pc, next, staged, original>>,
         stop' \in BOOLEAN
  PROVE  LayoutInv' /\ FreeMoves(place, place')
<1>1. Chains(place)'
  BY ChainsNext DEF LayoutInv
<1>2. TypeOK'
  BY DEF LayoutInv, TypeOK, Clusters, WorkspaceRange
<1>3. Lists(order)' <=> Lists(order)
  BY DEF Lists, Count
<1>4. GoodWorkspace' <=> GoodWorkspace
  BY DEF GoodWorkspace, Clusters
<1>5. GoodTargets' <=> GoodTargets
  BY DEF GoodTargets, Batch, Apart, Run
<1>6. ForwardInv' /\ ForwardPlaceInv' /\ UnifiedPlaceInv'
  BY DEF LayoutInv, ForwardInv, ForwardPlaceInv, UnifiedPlaceInv, OutsideWorkspace, Count
<1>7. FallbackInv'
  BY DEF LayoutInv, FallbackInv, Count, Clusters
<1>8. pc' = "completed" => VerifyAccepts(place)'
  BY VerifyNext DEF LayoutInv
<1>9. FreeMoves(place, place')
  BY DEF FreeMoves
<1>10. pc \in States /\ (pc \in {"start", "evacuate"} => staged = <<>> /\ next = 0)
       /\ (order = <<>> \/ Lists(order))
       /\ (pc \in {"evacuate"} \cup Placing => Lists(order) /\ GoodWorkspace)
       /\ (pc \in Placing => GoodTargets)
  BY DEF LayoutInv
<1>11. (pc \in {"start", "evacuate"} => staged = <<>> /\ next = 0)'
  BY <1>10
<1>12. (pc \in {"evacuate"} \cup Placing => Lists(order) /\ GoodWorkspace)'
  BY <1>3, <1>4, <1>10 DEF Placing
<1>13. (pc \in Placing => GoodTargets)'
  BY <1>5, <1>10 DEF Placing
<1>14. (pc \in States /\ (order = <<>> \/ Lists(order)))'
  BY <1>3, <1>10 DEF States, Placing, Ended
<1>15. LayoutInv'
  BY <1>1, <1>2, <1>6, <1>7, <1>8, <1>11, <1>12, <1>13, <1>14 DEF LayoutInv
<1>. QED BY <1>9, <1>15

-----------------------------------------------------------------------------
(* The theorems.                                                           *)

\* Every step keeps the invariant and moves only to free clusters.
LEMMA StepKeeps == LayoutInv /\ [Next]_vars => LayoutInv' /\ FreeMoves(place, place')
<1>. SUFFICES ASSUME LayoutInv, [Next]_vars PROVE LayoutInv' /\ FreeMoves(place, place')
  OBVIOUS
<1>1. CASE Start
  BY <1>1, StartKeeps
<1>2. CASE Evacuate
  BY <1>2, EvacuateKeeps
<1>3. CASE Forward
  BY <1>3, ForwardKeeps
<1>4. CASE ForwardPlace
  BY <1>4, ForwardPlaceKeeps
<1>5. CASE Unified
  BY <1>5, UnifiedKeeps
<1>6. CASE UnifiedPlace
  BY <1>6, UnifiedPlaceKeeps
<1>7. CASE Adaptive
  BY <1>7, AdaptiveKeeps
<1>8. CASE Fallback
  BY <1>8, FallbackKeeps
<1>9. CASE Unblock
  BY <1>9, UnblockKeeps
<1>10. CASE FallbackPlace
  BY <1>10, FallbackPlaceKeeps
<1>11. CASE Verify
  BY <1>11, VerifyKeeps
<1>12. CASE Stopped
  BY <1>12, StoppedKeeps
<1>13. CASE Stop
  <2>1. UNCHANGED <<setup, place, order, target, workspace, pc, next, staged, original>> /\ stop' \in BOOLEAN
    BY <1>13 DEF Stop
  <2>. QED BY <2>1, StopKeeps
<1>14. CASE UNCHANGED vars
  <2>1. UNCHANGED <<setup, place, order, target, workspace, pc, next, staged, original>> /\ stop' \in BOOLEAN
    BY <1>14 DEF vars, LayoutInv, TypeOK
  <2>. QED BY <2>1, StopKeeps
<1>. QED BY <1>1, <1>2, <1>3, <1>4, <1>5, <1>6, <1>7, <1>8, <1>9, <1>10, <1>11, <1>12, <1>13, <1>14
         DEF Next, Work, Terminated

\* The inductive invariant holds in every reachable state.
THEOREM LayoutInvariant == Spec => []LayoutInv
<1>1. Init => LayoutInv
  BY InitHolds
<1>2. LayoutInv /\ [Next]_vars => LayoutInv'
  BY StepKeeps
<1>. QED BY <1>1, <1>2, PTL DEF Spec

\* Every variable of the scheduler keeps its type: each chain is as long as
\* its object and off the bad clusters, staged objects are in the workspace.
THEOREM LayoutTypeCorrect == Spec => []TypeOK
<1>1. LayoutInv => TypeOK
  BY DEF LayoutInv
<1>. QED BY <1>1, LayoutInvariant, PTL

\* The scheduler only asks for relocations that the transaction can carry
\* out: to clusters that are free, and never two objects to one cluster.
THEOREM FreeDestinations == Spec => OnlyFreeDestinations
<1>1. LayoutInv /\ [Next]_vars =>
        [\A o, q \in Objects : \A i \in 1..Size[o], j \in 1..Size[q] :
           /\ place'[o][i] # place[o][i] => place'[o][i] \in Free(place)
           /\ place'[o][i] = place'[q][j] => o = q /\ i = j]_vars
  <2>. SUFFICES ASSUME LayoutInv, [Next]_vars,
                       NEW o \in Objects, NEW q \in Objects, NEW i \in 1..Size[o], NEW j \in 1..Size[q]
                PROVE  /\ place'[o][i] # place[o][i] => place'[o][i] \in Free(place)
                       /\ place'[o][i] = place'[q][j] => o = q /\ i = j
    OBVIOUS
  <2>1. LayoutInv' /\ FreeMoves(place, place')
    BY StepKeeps
  <2>2. Disjoint(place')
    BY <2>1 DEF LayoutInv, Chains, Disjoint
  <2>. QED BY <2>1, <2>2 DEF FreeMoves, Disjoint
<1>. QED BY <1>1, LayoutInvariant, PTL DEF Spec, OnlyFreeDestinations

\* A verified layout is what the next command calls satisfied: the plan's
\* reserves are free, because no other run of the plan crosses one.
LEMMA VerifiedIsSatisfied ==
  ASSUME NEW p, Chains(p), VerifyAccepts(p)
  PROVE  Preflight(p) /\ MatchesCanonical(p)
<1>. DEFINE plan == Plan(PhysicalOrder(p), LastCluster + 1)
            at == plan.at
            limit == LastCluster + 1
<1>1. /\ \A o \in Objects : Exact(p, o, p[o][1])
      /\ MatchesCanonical(p)
  BY DEF VerifyAccepts
<1>2. plan.fits /\ \A o \in Objects : at[o] = PhysicalFirst(p, o)
  BY <1>1 DEF MatchesCanonical
<1>3. Lists(PhysicalOrder(p))
  BY PhysicalOrderLists
<1>4. limit \in Int /\ LastCluster \in Nat
  BY FiniteObjects
<1>5. PlanTaken(limit, PhysicalOrder(p), Count, plan)
  BY <1>3, <1>4, PlanKept
<1>. HIDE DEF plan
<1>6. /\ DOMAIN at = Objects
      /\ PlannedRuns(limit, at)
      /\ \A o \in Objects : Reserved(limit, at, plan.cursor, o)
  <2>. DEFINE items == PhysicalOrder(p)
  <2>. HIDE DEF items
  <2>1. /\ DOMAIN at = {items[j] : j \in 1..Count}
        /\ PlannedRuns(limit, at)
        /\ \A o \in DOMAIN at : Reserved(limit, at, plan.cursor, o)
    BY <1>2, <1>5 DEF PlanTaken, items
  <2>2. {items[j] : j \in 1..Count} = Objects
    BY <1>3 DEF Lists, items
  <2>. QED BY <2>1, <2>2
<1>. HIDE DEF at
<1>7. ASSUME NEW o \in Objects
      PROVE  /\ at[o] = p[o][1] /\ at[o] \in Nat /\ at[o] >= 2 /\ Size[o] \in Nat /\ Size[o] >= 1
             /\ \A i \in 1..Size[o] : p[o][i] = at[o] + i - 1
  <2>1. Size[o] \in Nat /\ Size[o] >= 1 /\ 1 \in 1..Size[o]
    BY SizeType
  <2>2. at[o] \in Nat /\ at[o] >= 2
    BY <1>6 DEF PlannedRuns
  <2>3. \A i \in 1..Size[o] : p[o][i] = p[o][1] + i - 1
    BY <1>1 DEF Exact, Contiguous
  <2>4. p[o][1] \in Int
    BY <2>1, UsedCells DEF Clusters
  <2>5. PICK i \in 1..Size[o] : PhysicalFirst(p, o) = p[o][i]
    BY LowestCluster
  <2>6. PhysicalFirst(p, o) <= p[o][1]
    BY <2>1, LowestCluster
  <2>7. p[o][1] = at[o]
    BY <1>2, <2>1, <2>2, <2>3, <2>4, <2>5, <2>6
  <2>. QED BY <2>1, <2>2, <2>3, <2>7
<1>8. ASSUME NEW o \in Objects PROVE ReserveFree(p, o)
  <2>1. PICK e \in ReserveEnds(at[o] + Size[o], Reserve(o), limit) :
           \A q \in Objects : q # o => at[q] + Size[q] <= at[o] \/ e <= at[q]
    BY <1>6 DEF Reserved
  <2>2. e \in (at[o] + Size[o])..limit
    BY DEF ReserveEnds
  <2>3. ASSUME NEW c \in (at[o] + Size[o])..(e - 1) PROVE c \in Free(p) \cup setup.bad
    <3>1. c \in Clusters
      BY <1>4, <1>7, <2>2 DEF Clusters
    <3>2. ASSUME NEW q \in Objects, NEW j \in 1..Size[q] PROVE p[q][j] # c
      <4>1. p[q][j] = at[q] + j - 1 /\ at[q] \in Nat /\ Size[q] \in Nat
        BY <1>7
      <4>2. CASE q = o
        BY <1>7, <2>2, <4>1, <4>2
      <4>3. CASE q # o
        <5>1. at[q] + Size[q] <= at[o] \/ e <= at[q]
          BY <2>1, <4>3
        <5>. QED BY <1>4, <1>7, <2>2, <4>1, <5>1
      <4>. QED BY <4>2, <4>3
    <3>. QED BY <3>1, <3>2, UsedCells
  <2>4. p[o][1] = at[o]
    BY <1>7
  <2>5. (at[o] + Size[o])..(e - 1) \subseteq Free(p) \cup setup.bad
    BY <2>3
  <2>. HIDE DEF limit
  <2>6. e \in ReserveEnds(p[o][1] + Size[o], Reserve(o), LastCluster + 1)
    BY <2>4 DEF limit
  <2>. QED BY <2>4, <2>5, <2>6 DEF ReserveFree
<1>. QED BY <1>1, <1>8 DEF Preflight, Files

\* A command that completes leaves nothing for the next one to do.
THEOREM CompletedSatisfied == Spec => []CompletedIsSatisfied
<1>1. LayoutInv => CompletedIsSatisfied
  <2>. SUFFICES ASSUME LayoutInv, pc = "completed" PROVE Preflight(place) /\ MatchesCanonical(place)
    BY DEF CompletedIsSatisfied
  <2>1. Chains(place) /\ VerifyAccepts(place)
    BY DEF LayoutInv
  <2>. QED BY <2>1, VerifiedIsSatisfied
<1>. QED BY <1>1, LayoutInvariant, PTL

-----------------------------------------------------------------------------
(* The same plan within a smaller limit.                                   *)

\* The least member of a set is the least of any part of the set that has it.
LEMMA LeastOfPart ==
  ASSUME NEW S, IsFiniteSet(S), S \subseteq Int, NEW T, T \subseteq S, Min(S) \in T
  PROVE  Min(T) = Min(S)
<1>1. IsFiniteSet(T)
  <2>1. T \in SUBSET S
    OBVIOUS
  <2>. QED BY <2>1, FS_Subset
<1>2. Min(T) \in T /\ Min(T) <= Min(S)
  BY <1>1, MinMax
<1>3. Min(S) <= Min(T)
  BY <1>2, MinMax
<1>4. Min(S) \in Int /\ Min(T) \in Int
  BY <1>2
<1>. QED BY <1>2, <1>3, <1>4

\* The candidates of a step of the plan are finitely many clusters.
LEMMA CandidatesFinite ==
  \A cursor, length, limit \in Int : \A r :
     /\ IsFiniteSet(UsableRuns(cursor, length, limit)) /\ UsableRuns(cursor, length, limit) \subseteq Int
     /\ IsFiniteSet(ReserveEnds(cursor, r, limit)) /\ ReserveEnds(cursor, r, limit) \subseteq Int
<1>. TAKE cursor, length, limit \in Int
<1>. TAKE r
<1>1. UsableRuns(cursor, length, limit) \in SUBSET (cursor..(limit - length))
  BY DEF UsableRuns
<1>2. ReserveEnds(cursor, r, limit) \in SUBSET (cursor..limit)
  BY DEF ReserveEnds
<1>3. IsFiniteSet(cursor..(limit - length)) /\ IsFiniteSet(cursor..limit)
  <2>1. limit - length \in Int
    OBVIOUS
  <2>2. IsFiniteSet(cursor..(limit - length))
    BY <2>1, FS_Interval
  <2>3. IsFiniteSet(cursor..limit)
    BY FS_Interval
  <2>. QED BY <2>2, <2>3
<1>4. IsFiniteSet(UsableRuns(cursor, length, limit))
  BY <1>1, <1>3, FS_Subset
<1>5. IsFiniteSet(ReserveEnds(cursor, r, limit))
  BY <1>2, <1>3, FS_Subset
<1>. QED BY <1>1, <1>2, <1>4, <1>5

\* A step of the plan that stays below w is the step that w as the limit allows.
LEMMA ShorterStep ==
  ASSUME NEW limit \in Int, NEW w \in Int, w <= limit, NEW items, NEW i, NEW plan,
         PlanTaken(limit, items, i, plan), NEW o \in Objects,
         PlanStep(limit, plan, o).fits, PlanStep(limit, plan, o).cursor <= w
  PROVE  plan.fits /\ plan.cursor <= w /\ PlanStep(w, plan, o) = PlanStep(limit, plan, o)
<1>. DEFINE runs == UsableRuns(plan.cursor, Size[o], limit)
            s == Min(runs)
            ends == ReserveEnds(s + Size[o], Reserve(o), limit)
            e == Min(ends)
            wruns == UsableRuns(plan.cursor, Size[o], w)
            wends == ReserveEnds(s + Size[o], Reserve(o), w)
<1>0. Size[o] \in Nat /\ Size[o] >= 1 /\ DOMAIN plan = {"fits", "cursor", "at"}
  BY SizeType DEF PlanTaken
<1>1. plan.fits /\ runs # {} /\ ends # {}
  <2>. SUFFICES ASSUME ~ plan.fits \/ runs = {} \/ ends = {} PROVE FALSE
    OBVIOUS
  <2>1. PlanStep(limit, plan, o) = [plan EXCEPT !.fits = FALSE]
    BY DEF PlanStep
  <2>. HIDE DEF runs, ends
  <2>. QED BY <1>0, <2>1
<1>2. PlanStep(limit, plan, o) = [fits |-> TRUE, cursor |-> e, at |-> With(plan.at, o, s)]
  BY <1>1 DEF PlanStep
<1>3. plan.cursor \in Nat
  BY <1>1 DEF PlanTaken
<1>4. s \in plan.cursor..(limit - Size[o]) /\ Run(s, Size[o]) \cap setup.bad = {}
  <2>1. plan.cursor \in Int /\ Size[o] \in Int /\ UsableRuns(plan.cursor, Size[o], limit) # {}
    BY <1>0, <1>1, <1>3
  <2>2. s = Min(UsableRuns(plan.cursor, Size[o], limit))
    OBVIOUS
  <2>. HIDE DEF s, runs
  <2>. QED BY <2>1, <2>2, LeastRun
<1>. HIDE DEF s
<1>5. e \in ends /\ e \in (s + Size[o])..limit
  <2>1. s + Size[o] \in Int
    BY <1>0, <1>3, <1>4
  <2>. QED BY <1>1, <2>1, LeastEnd
<1>6. e <= w
  <2>. HIDE DEF e
  <2>. QED BY <1>2
<1>7. Min(wruns) = s
  <2>1. IsFiniteSet(runs) /\ runs \subseteq Int
    <3>1. plan.cursor \in Int /\ Size[o] \in Int
      BY <1>0, <1>3
    <3>. QED BY <3>1, CandidatesFinite
  <2>2. wruns \subseteq runs
    <3>1. \A x \in plan.cursor..(w - Size[o]) : x \in plan.cursor..(limit - Size[o])
      BY <1>0, <1>3
    <3>. QED BY <3>1 DEF UsableRuns
  <2>3. s \in plan.cursor..(w - Size[o])
    <3>. HIDE DEF e, ends, runs
    <3>. QED BY <1>0, <1>3, <1>4, <1>5, <1>6
  <2>4. s \in wruns
    BY <1>4, <2>3 DEF UsableRuns
  <2>. HIDE DEF runs, wruns
  <2>. QED BY <2>1, <2>2, <2>4, LeastOfPart DEF s
<1>8. Min(wends) = e
  <2>1. IsFiniteSet(ends) /\ ends \subseteq Int
    <3>1. s + Size[o] \in Int
      BY <1>0, <1>3, <1>4
    <3>. QED BY <3>1, CandidatesFinite
  <2>2. wends \subseteq ends
    <3>1. \A x \in (s + Size[o])..w : x \in (s + Size[o])..limit
      BY <1>0, <1>3, <1>4
    <3>. QED BY <3>1 DEF ReserveEnds
  <2>3. e \in (s + Size[o])..w
    <3>. HIDE DEF e, ends, runs
    <3>. QED BY <1>0, <1>3, <1>4, <1>5, <1>6
  <2>4. e \in wends
    <3>. HIDE DEF e
    <3>. QED BY <1>5, <2>3 DEF ReserveEnds
  <2>. HIDE DEF ends, wends
  <2>. QED BY <2>1, <2>2, <2>4, LeastOfPart
<1>9. wruns # {} /\ wends # {}
  <2>1. s \in plan.cursor..(w - Size[o]) /\ e \in (s + Size[o])..w
    <3>. HIDE DEF e, ends, runs
    <3>. QED BY <1>0, <1>3, <1>4, <1>5, <1>6
  <2>2. s \in wruns
    BY <1>4, <2>1 DEF UsableRuns
  <2>3. e \in wends
    <3>. HIDE DEF e
    <3>. QED BY <1>5, <2>1 DEF ReserveEnds
  <2>. QED BY <2>2, <2>3
<1>10. PlanStep(w, plan, o) = [fits |-> TRUE, cursor |-> e, at |-> With(plan.at, o, s)]
  <2>1. PlanStep(w, plan, o) = [fits |-> TRUE, cursor |-> Min(wends), at |-> With(plan.at, o, Min(wruns))]
    <3>. HIDE DEF wruns
    <3>. QED BY <1>1, <1>7, <1>9 DEF PlanStep, wruns
  <2>. HIDE DEF wruns, wends, e
  <2>. QED BY <1>7, <1>8, <2>1
<1>11. plan.cursor <= w
  <2>. HIDE DEF e, ends, runs
  <2>. QED BY <1>0, <1>3, <1>4, <1>5, <1>6
<1>. QED BY <1>1, <1>2, <1>10, <1>11

\* While the plan stays below w, it is the plan with w as the limit.
ShorterKept(limit, op, i, plan) ==
    /\ PlanTaken(limit, op.items, i, plan)
    /\ plan.fits /\ plan.cursor <= op.w =>
         plan = PlanFold!Iterated(op.w, op.items, EmptyPlan, op.items)[1..i]
ShorterFold == INSTANCE FoldInduction WITH Step <- LAMBDA v, op, p, x : PlanStep(v, p, x),
                                           Inv <- ShorterKept

\* A plan that ends below w is the plan made for the clusters below w.
LEMMA ShorterPlan ==
  ASSUME NEW items, Lists(items), NEW w \in Int, w <= LastCluster + 1,
         Plan(items, LastCluster + 1).fits, Plan(items, LastCluster + 1).cursor <= w
  PROVE  Plan(items, w) = Plan(items, LastCluster + 1)
<1>. DEFINE limit == LastCluster + 1
            op == [items |-> items, w |-> w]
            iter == PlanFold!Iterated(w, items, EmptyPlan, items)
<1>0. limit \in Int /\ Count \in Nat
  BY FiniteObjects, FS_CardinalityType DEF Count
<1>1. DOMAIN items = 1..Count /\ \A i \in 1..Count : items[i] \in Objects
  BY DEF Lists
<1>2. Plan(items, w) = iter[1..Count]
  <2>1. Plan(items, w) = PlanFold!PlainFold(w, items, EmptyPlan, items)
    BY DEF Plan, PlanFold!PlainFold, FoldLeft, PlanFold!FoldLeft, MapThenFoldSet,
           PlanFold!MapThenFoldSet, Max, PlanFold!Max
  <2>2. PlanFold!PlainFold(w, items, EmptyPlan, items) = iter[DOMAIN items]
    BY PlanFold!PlainFoldIsFolded
  <2>. HIDE DEF iter
  <2>. QED BY <1>1, <2>1, <2>2
<1>3. Plan(items, limit) = ShorterFold!PlainFold(limit, op, EmptyPlan, items)
  BY DEF Plan, ShorterFold!PlainFold, FoldLeft, ShorterFold!FoldLeft, MapThenFoldSet,
         ShorterFold!MapThenFoldSet, Max, ShorterFold!Max
<1>4. /\ iter[1..0] = EmptyPlan
      /\ \A i \in 1..Count : iter[1..i] = PlanStep(w, iter[1..(i - 1)], items[i])
  BY <1>0, <1>1, PlanFold!IteratedSteps
<1>5. ShorterKept(limit, op, 0, EmptyPlan)
  <2>1. PlanTaken(limit, items, 0, EmptyPlan)
    BY DEF PlanTaken, EmptyPlan, PlannedRuns
  <2>. HIDE DEF iter, limit
  <2>. QED BY <1>4, <2>1 DEF ShorterKept, iter
<1>6. ASSUME NEW i \in 1..Count, NEW p, ShorterKept(limit, op, i - 1, p)
      PROVE  ShorterKept(limit, op, i, PlanStep(limit, p, items[i]))
  <2>. DEFINE n == PlanStep(limit, p, items[i])
  <2>1. PlanTaken(limit, items, i - 1, p)
    BY <1>6 DEF ShorterKept
  <2>. HIDE DEF limit, iter
  <2>2. PlanTaken(limit, items, i, n)
    BY <1>0, <2>1, PlanStepKeeps
  <2>3. ASSUME n.fits, n.cursor <= w PROVE n = iter[1..i]
    <3>1. p.fits /\ p.cursor <= w /\ PlanStep(w, p, items[i]) = n
      BY <1>0, <1>1, <2>1, <2>3, ShorterStep DEF limit
    <3>2. p = iter[1..(i - 1)]
      BY <1>6, <3>1 DEF ShorterKept, iter
    <3>. QED BY <1>4, <3>1, <3>2
  <2>. HIDE DEF n
  <2>4. ShorterKept(limit, op, i, n)
    BY <2>2, <2>3 DEF ShorterKept, iter
  <2>. QED BY <2>4 DEF n
<1>7. ShorterKept(limit, op, Count, Plan(items, limit))
  <2>. HIDE DEF op, limit
  <2>. QED BY <1>0, <1>1, <1>3, <1>5, <1>6, ShorterFold!PlainFoldKeeps
<1>8. Plan(items, limit) = iter[1..Count]
  <2>. HIDE DEF iter
  <2>. QED BY <1>7 DEF ShorterKept, iter
<1>. QED BY <1>2, <1>8

-----------------------------------------------------------------------------
(* The strengthened invariant.                                             *)

\* The plan that the command began with ends below the workspace.
PlannedBelow == /\ Plan(order, LastCluster + 1).fits
                /\ Plan(order, LastCluster + 1).cursor <= workspace
StagedReady == \A o \in DOMAIN staged : Exact(place, o, staged[o]) /\ TargetFree(place, o)
OriginalFree == \A i \in DOMAIN original : original[i] \in Free(place)

SafeInv ==
    /\ pc = "evacuate" => PlannedBelow
    /\ pc = "unified" => OutsideWorkspace({})
    /\ pc \in {"forwardPlace", "unifiedPlace"} => StagedReady
    /\ pc \in {"unblock", "fallbackPlace"} => Exact(place, order[next], workspace)
    /\ pc = "unblock" => OriginalFree
    /\ pc = "fallbackPlace" => TargetFree(place, order[next])
    /\ NoInternalFailure

\* States in which the invariant says only that the command has not died.
Quiet == States \ {"evacuate", "unified", "forwardPlace", "unifiedPlace", "unblock",
                   "fallbackPlace", "died"}

\* Nothing to show of a step to one of those.
LEMMA QuietSafe == ASSUME pc' \in Quiet PROVE SafeInv'
BY DEF Quiet, SafeInv, NoInternalFailure

\* The command that is not refused has a plan below its workspace.
LEMMA StartSafe == ASSUME LayoutInv, Start PROVE SafeInv'
<1>. DEFINE objects == PhysicalOrder(place)
            plan == Plan(objects, LastCluster + 1)
<1>1. CASE pc' \in {"verify", "refused"}
  BY <1>1, QuietSafe DEF Quiet, States, Ended
<1>2. CASE /\ Files # {} /\ Feasible(objects, plan)
           /\ order' = objects /\ workspace' = LastCluster + 1 - WorkspaceClusters(objects, plan)
           /\ pc' = "evacuate"
  <2>1. Lists(objects)
    BY PhysicalOrderLists DEF LayoutInv
  <2>2. plan.fits
    BY <1>2 DEF Feasible
  <2>3. plan.cursor <= workspace'
    <3>. HIDE DEF objects
    <3>. QED BY <1>2, <2>1, WorkspaceFits
  <2>4. Plan(order, LastCluster + 1)' = plan
    <3>1. setup' = setup
      BY DEF Start
    <3>2. Plan(order, LastCluster + 1)' = Plan(order', LastCluster + 1)
      BY <3>1, PlanNext
    <3>. QED BY <1>2, <3>2
  <2>5. PlannedBelow'
    <3>. HIDE DEF plan
    <3>. QED BY <2>2, <2>3, <2>4 DEF PlannedBelow
  <2>. QED BY <1>2, <2>5 DEF SafeInv, NoInternalFailure
<1>. QED BY <1>1, <1>2 DEF Start

\* Where a used cluster would be if its object were at its place in at.
Mirrored(p, at, c, g) == \E o \in Objects : \E i \in 1..Size[o] : c = p[o][i] /\ g = at[o] + i - 1

\* What is used in the workspace finds room below it, where the plan has found
\* room for everything.
LEMMA RoomBelow ==
  ASSUME NEW p, Chains(p), GoodWorkspace,
         NEW at, DOMAIN at = Objects, Batch(at, (2..(workspace - 1)) \ setup.bad)
  PROVE  Cardinality(Used(p) \cap WorkspaceRange) <= Cardinality(Free(p) \ WorkspaceRange)
<1>. DEFINE G == (2..(workspace - 1)) \ setup.bad
            U == Used(p)
            S == U \cap WorkspaceRange
            L == U \cap G
            R == Free(p) \ WorkspaceRange
            f == [c \in U |-> CHOOSE g : Mirrored(p, at, c, g)]
<1>0. workspace \in 2..LastCluster /\ LastCluster \in Nat /\ \A b \in setup.bad : b < workspace
  BY FiniteObjects DEF GoodWorkspace, Clusters
<1>1. \A c \in U : Mirrored(p, at, c, f[c])
  <2>1. ASSUME NEW c \in U PROVE \E g : Mirrored(p, at, c, g)
    <3>1. PICK o \in Objects : \E i \in 1..Size[o] : c = p[o][i]
      BY UsedCells
    <3>2. PICK i \in 1..Size[o] : c = p[o][i]
      BY <3>1
    <3>. QED BY <3>2 DEF Mirrored
  <2>. QED BY <2>1
<1>. HIDE DEF f
<1>2. \A o \in Objects : \A i \in 1..Size[o] : at[o] + i - 1 \in G
  <2>. SUFFICES ASSUME NEW o \in Objects, NEW i \in 1..Size[o] PROVE at[o] + i - 1 \in G
    OBVIOUS
  <2>1. at[o] \in Int /\ Run(at[o], Size[o]) \subseteq G /\ Size[o] \in Nat
    BY SizeType DEF Batch
  <2>2. at[o] + i - 1 \in Run(at[o], Size[o])
    BY <2>1, InRun
  <2>. QED BY <2>1, <2>2
<1>3. f \in [U -> G]
  <2>1. DOMAIN f = U /\ f = [c \in U |-> f[c]]
    BY DEF f
  <2>2. \A c \in U : f[c] \in G
    BY <1>1, <1>2 DEF Mirrored
  <2>. HIDE DEF U, G
  <2>. QED BY <2>1, <2>2
<1>4. ASSUME NEW c \in U, NEW d \in U, f[c] = f[d] PROVE c = d
  <2>0. PICK o \in Objects : \E i \in 1..Size[o] : c = p[o][i] /\ f[c] = at[o] + i - 1
    BY <1>1 DEF Mirrored
  <2>1. PICK i \in 1..Size[o] : c = p[o][i] /\ f[c] = at[o] + i - 1
    BY <2>0
  <2>8. PICK q \in Objects : \E j \in 1..Size[q] : d = p[q][j] /\ f[d] = at[q] + j - 1
    BY <1>1 DEF Mirrored
  <2>2. PICK j \in 1..Size[q] : d = p[q][j] /\ f[d] = at[q] + j - 1
    BY <2>8
  <2>3. at[o] \in Int /\ at[q] \in Int /\ Size[o] \in Nat /\ Size[q] \in Nat
    BY SizeType DEF Batch
  <2>4. o # q => at[o] + Size[o] <= at[q] \/ at[q] + Size[q] <= at[o]
    BY DEF Batch, Apart
  <2>5. at[o] + i - 1 = at[q] + j - 1
    BY <1>4, <2>1, <2>2
  <2>6. o = q /\ i = j
    BY <2>3, <2>4, <2>5
  <2>. QED BY <2>1, <2>2, <2>6
<1>5. f \in Injection(U, G)
  <2>. HIDE DEF U, G
  <2>. QED BY <1>3, <1>4 DEF Injection, IsInjective
<1>6. IsFiniteSet(G)
  <2>1. IsFiniteSet(2..(workspace - 1))
    BY <1>0, FS_Interval
  <2>. QED BY <2>1, FS_Difference
<1>7. IsFiniteSet(U) /\ Cardinality(U) <= Cardinality(G)
  <2>. HIDE DEF U, G
  <2>. QED BY <1>5, <1>6, FS_Injection
<1>8. U = S \cup L /\ S \cap L = {} /\ G = R \cup L /\ R \cap L = {}
  <2>1. \A c : c \in U => c \in Clusters \ setup.bad
    BY UsedCells
  <2>2. \A c : c \in Clusters \ setup.bad => c \in WorkspaceRange \/ c \in G
    BY <1>0 DEF Clusters, WorkspaceRange
  <2>3. \A c : ~ (c \in WorkspaceRange /\ c \in G)
    BY <1>0 DEF WorkspaceRange
  <2>4. \A c : c \in G => c \in Clusters \ setup.bad
    BY <1>0 DEF Clusters
  <2>5. Free(p) = (Clusters \ setup.bad) \ U
    BY DEF Free
  <2>. HIDE DEF U, G
  <2>. QED BY <2>1, <2>2, <2>3, <2>4, <2>5
<1>9. IsFiniteSet(S) /\ IsFiniteSet(L) /\ IsFiniteSet(R)
  <2>. HIDE DEF U, G
  <2>1. IsFiniteSet(S)
    BY <1>7, FS_Intersection
  <2>2. IsFiniteSet(L)
    BY <1>7, FS_Intersection
  <2>3. R \in SUBSET G
    BY <1>8
  <2>4. IsFiniteSet(R)
    BY <1>6, <2>3, FS_Subset
  <2>. QED BY <2>1, <2>2, <2>4
<1>. HIDE DEF U, G, S, L, R
<1>10. Cardinality(U) = Cardinality(S) + Cardinality(L) - Cardinality(S \cap L)
  BY <1>8, <1>9, FS_Union
<1>11. Cardinality(G) = Cardinality(R) + Cardinality(L) - Cardinality(R \cap L)
  BY <1>8, <1>9, FS_Union
<1>12. Cardinality(S \cap L) = 0 /\ Cardinality(R \cap L) = 0
  BY <1>8, FS_EmptySet
<1>13. Cardinality(S) \in Nat /\ Cardinality(L) \in Nat /\ Cardinality(R) \in Nat
  BY <1>9, FS_CardinalityType
<1>14. Cardinality(S) <= Cardinality(R)
  BY <1>7, <1>10, <1>11, <1>12, <1>13
<1>. QED BY <1>14 DEF S, R, U

\* Evacuation finds room, and the plan fits below the workspace.
LEMMA EvacuateSafe == ASSUME LayoutInv, SafeInv, Evacuate PROVE SafeInv'
<1>. DEFINE sources == Used(place) \cap WorkspaceRange
            room == Free(place) \ WorkspaceRange
            n == Min({Cardinality(sources), setup.batch, WorkspaceSize})
            plan == Plan(order, workspace)
<1>0. pc = "evacuate" /\ UNCHANGED <<setup, order, workspace>> /\ Chains(place) /\ PlannedBelow
  BY DEF Evacuate, LayoutInv, SafeInv
<1>1. Lists(order) /\ GoodWorkspace /\ workspace \in Int /\ LastCluster \in Nat
  BY <1>0, PlacingFacts
<1>2. plan = Plan(order, LastCluster + 1) /\ plan.fits
  <2>1. workspace <= LastCluster + 1
    BY <1>1 DEF GoodWorkspace, Clusters
  <2>2. Plan(order, LastCluster + 1).fits /\ Plan(order, LastCluster + 1).cursor <= workspace
    BY <1>0 DEF PlannedBelow
  <2>3. plan = Plan(order, LastCluster + 1)
    BY <1>1, <2>1, <2>2, ShorterPlan
  <2>. HIDE DEF plan
  <2>. QED BY <2>2, <2>3
<1>3. Cardinality(sources) <= Cardinality(room)
  <2>1. DOMAIN plan.at = Objects /\ Batch(plan.at, (2..(workspace - 1)) \ setup.bad)
    BY <1>1, <1>2, PlannedBatch
  <2>. HIDE DEF plan
  <2>. QED BY <1>0, <1>1, <2>1, RoomBelow
<1>4. ~ (Cardinality(room) < n)
  <2>1. n \in Int /\ Cardinality(sources) \in Nat /\ n <= Cardinality(sources)
    BY <1>1, EvacuationBatch
  <2>2. Cardinality(room) \in Nat
    <3>1. IsFiniteSet(2..LastCluster)
      BY <1>1, FS_Interval
    <3>2. room \in SUBSET (2..LastCluster)
      BY <1>0, UsedCells DEF Clusters
    <3>. HIDE DEF room
    <3>3. IsFiniteSet(room)
      BY <3>1, <3>2, FS_Subset
    <3>. QED BY <3>3, FS_CardinalityType
  <2>. HIDE DEF n, sources, room
  <2>. QED BY <1>3, <2>1, <2>2
<1>5. \/ pc' = "evacuate" /\ UNCHANGED <<setup, order, workspace>>
      \/ pc' = "forward"
  <2>. HIDE DEF n, sources, room, plan
  <2>. QED BY <1>0, <1>2, <1>4 DEF Evacuate, n, sources, room, plan
<1>6. CASE pc' = "evacuate" /\ UNCHANGED <<setup, order, workspace>>
  <2>1. Plan(order, LastCluster + 1)' = Plan(order, LastCluster + 1)
    BY <1>6, PlanNext
  <2>2. PlannedBelow'
    BY <1>0, <1>6, <2>1 DEF PlannedBelow
  <2>. QED BY <1>6, <2>2 DEF SafeInv, NoInternalFailure
<1>7. CASE pc' = "forward"
  BY <1>7, QuietSafe DEF Quiet, States, Placing
<1>. QED BY <1>5, <1>6, <1>7

-----------------------------------------------------------------------------
(* Staging and placing.                                                    *)

\* The invariant while the staged batch is about to be placed.
LEMMA StagedSafe ==
  ASSUME pc' \in {"forwardPlace", "unifiedPlace"}, UNCHANGED <<setup, target>>,
         \A o \in DOMAIN staged' : Exact(place', o, staged'[o]) /\ TargetFree(place', o)
  PROVE  SafeInv'
<1>1. StagedReady'
  BY DEF StagedReady, Exact, TargetFree, Free, Clusters
<1>. QED BY <1>1 DEF SafeInv, NoInternalFailure

\* Objects staged in the workspace leave it free what they left, and a target
\* below it that only they were in the way of.
LEMMA StagedTargets ==
  ASSUME NEW p, Chains(p), GoodWorkspace, GoodTargets,
         NEW at, DOMAIN at \subseteq Objects, \A o \in DOMAIN at : at[o] \in Int /\ workspace <= at[o],
         Chains(Moved(p, at)),
         \A o \in DOMAIN at : \A r \in Objects \ DOMAIN at : \A j \in 1..Size[r] :
            p[r][j] \notin Run(target[o], Size[o]),
         NEW o \in DOMAIN at
  PROVE  Exact(Moved(p, at), o, at[o]) /\ TargetFree(Moved(p, at), o)
<1>. DEFINE q == Moved(p, at)
<1>0. workspace \in Int /\ o \in Objects
  BY DEF GoodWorkspace, Clusters
<1>1. \A r \in Objects : q[r] = IF r \in DOMAIN at THEN Contiguous(at[r], Size[r]) ELSE p[r]
  BY MovedCells
<1>. HIDE DEF q
<1>2. Exact(q, o, at[o])
  BY <1>0, <1>1 DEF Exact
<1>3. ASSUME NEW c \in Run(target[o], Size[o]) PROVE c \in Free(q)
  <2>1. target[o] \in Int /\ Size[o] \in Int /\ c \in (2..(workspace - 1)) \ setup.bad
    BY <1>0, SizeType DEF GoodTargets, Batch
  <2>2. c \in Clusters \ setup.bad
    BY <2>1, FiniteObjects DEF GoodWorkspace, Clusters
  <2>3. ASSUME NEW r \in Objects, NEW j \in 1..Size[r] PROVE q[r][j] # c
    <3>1. CASE r \in DOMAIN at
      <4>1. q[r][j] = at[r] + j - 1
        BY <1>1, <3>1 DEF Contiguous
      <4>2. at[r] \in Int /\ workspace <= at[r] /\ j \in Int /\ j >= 1
        BY <3>1
      <4>. QED BY <1>0, <2>1, <4>1, <4>2
    <3>2. CASE r \notin DOMAIN at
      BY <1>1, <3>2
    <3>. QED BY <3>1, <3>2
  <2>4. Chains(q)
    BY DEF q
  <2>. QED BY <2>2, <2>3, <2>4, UsedCells
<1>. QED BY <1>2, <1>3 DEF TargetFree, q

\* The forward pass stages only what frees its targets.
LEMMA ForwardSafe == ASSUME LayoutInv, SafeInv, Forward PROVE SafeInv'
<1>. DEFINE waiting == {i \in next..Len(order) : ~ InPlace(place, order[i])}
            from == Min(waiting)
            batch == ForwardBatch(place, from)
            at == batch.at
<1>0. /\ pc = "forward" /\ UNCHANGED <<setup, order, target, workspace>> /\ Chains(place)
      /\ next >= 1 /\ next \in 0..(Len(order) + 1) /\ OutsideWorkspace({}) /\ LayoutInv' /\ pc \in Placing
  BY ForwardKeeps DEF Forward, LayoutInv, TypeOK, Placing, ForwardInv
<1>1. /\ Lists(order) /\ GoodWorkspace /\ GoodTargets /\ workspace \in Int /\ Count \in Nat /\ Len(order) = Count
  BY <1>0, PlacingFacts
<1>2. CASE pc' = "verify"
  BY <1>2, QuietSafe DEF Quiet, States
<1>3. CASE pc' = "unified" /\ UNCHANGED place
  <2>1. OutsideWorkspace({})'
    BY <1>0, <1>3 DEF OutsideWorkspace
  <2>. QED BY <1>3, <2>1 DEF SafeInv, NoInternalFailure
<1>4. CASE /\ waiting # {} /\ TargetsRelease(place, DOMAIN at)
           /\ staged' = at /\ place' = Moved(place, staged') /\ pc' = "forwardPlace"
  <2>1. from \in waiting
    <3>1. IsFiniteSet(waiting) /\ waiting \subseteq Int
      <4>1. IsFiniteSet(next..Len(order))
        BY <1>0, <1>1, FS_Interval
      <4>2. waiting \in SUBSET (next..Len(order))
        OBVIOUS
      <4>. HIDE DEF waiting
      <4>3. IsFiniteSet(waiting)
        BY <4>1, <4>2, FS_Subset
      <4>. QED BY <1>0, <1>1, <4>2, <4>3
    <3>. HIDE DEF waiting
    <3>. QED BY <1>4, <3>1, MinMax
  <2>2. from \in 1..Count
    BY <1>0, <1>1, <2>1
  <2>. HIDE DEF from, waiting
  <2>3. Staging(at, batch.total)
    BY <1>1, <2>2, ForwardBatchStaging
  <2>. HIDE DEF batch
  <2>4. DOMAIN at \subseteq Objects /\ \A o \in DOMAIN at : at[o] \in Int /\ workspace <= at[o]
    BY <2>3 DEF Staging
  <2>5. ASSUME NEW o \in DOMAIN at, NEW r \in Objects \ DOMAIN at, NEW j \in 1..Size[r]
        PROVE  place[r][j] \notin Run(target[o], Size[o])
    <3>. SUFFICES ASSUME place[r][j] \in Run(target[o], Size[o]) PROVE FALSE
      OBVIOUS
    <3>2. place[r][j] \in Free(place) \cup UNION {Range(place[q]) : q \in DOMAIN at}
      BY <1>4 DEF TargetsRelease
    <3>3. place[r][j] \notin Free(place)
      BY <1>0, UsedCells
    <3>4. PICK q \in DOMAIN at : place[r][j] \in Range(place[q])
      BY <3>2, <3>3
    <3>5. q \in Objects /\ place[q] \in [1..Size[q] -> Clusters \ setup.bad]
      BY <1>0, <2>4 DEF Chains
    <3>6. PICK k \in 1..Size[q] : place[r][j] = place[q][k]
      BY <3>4, <3>5 DEF Range
    <3>7. r = q
      BY <1>0, <3>5, <3>6 DEF Chains, Disjoint
    <3>. QED BY <3>7
  <2>6. Chains(Moved(place, at))
    BY <1>0, <1>4 DEF LayoutInv, Chains, Clusters
  <2>7. \A o \in DOMAIN at : Exact(Moved(place, at), o, at[o]) /\ TargetFree(Moved(place, at), o)
    BY <1>0, <1>1, <2>4, <2>5, <2>6, StagedTargets
  <2>. QED BY <1>0, <1>4, <2>7, StagedSafe
<1>5. \/ pc' = "verify"
      \/ pc' = "unified" /\ UNCHANGED place
      \/ /\ waiting # {} /\ TargetsRelease(place, DOMAIN at)
         /\ staged' = at /\ place' = Moved(place, staged') /\ pc' = "forwardPlace"
  BY DEF Forward
<1>. HIDE DEF waiting, from, batch
<1>. QED BY <1>2, <1>3, <1>4, <1>5

\* The unified pass stages everything that is not in place.
AllStaged(p, items, i, batch) ==
    /\ DOMAIN batch = {"at", "total"}
    /\ \A j \in 1..i : ~ InPlace(p, items[j]) => items[j] \in DOMAIN batch.at
AllFold == INSTANCE FoldInduction WITH Step <- LAMBDA v, op, b, o : UnifiedStep(v, b, o),
                                       Inv <- AllStaged

\* What the unified pass leaves is in place.
LEMMA UnifiedStagesAll ==
  ASSUME NEW p, Lists(order), NEW o \in Objects, o \notin DOMAIN UnifiedBatch(p).at
  PROVE  InPlace(p, o)
<1>0. Count \in Nat /\ DOMAIN order = 1..Count
  BY FiniteObjects, FS_CardinalityType DEF Count, Lists
<1>1. UnifiedBatch(p) = AllFold!PlainFold(p, order, Nothing, order)
  BY DEF UnifiedBatch, AllFold!PlainFold, FoldLeft, AllFold!FoldLeft, MapThenFoldSet,
         AllFold!MapThenFoldSet, Max, AllFold!Max
<1>2. AllStaged(p, order, 0, Nothing)
  BY DEF AllStaged, Nothing
<1>3. ASSUME NEW i \in 1..Count, NEW b, AllStaged(p, order, i - 1, b)
      PROVE  AllStaged(p, order, i, UnifiedStep(p, b, order[i]))
  <2>0. \A j \in 1..i : j = i \/ j \in 1..(i - 1)
    BY <1>0
  <2>1. CASE InPlace(p, order[i])
    BY <1>3, <2>0, <2>1 DEF UnifiedStep, AllStaged
  <2>2. CASE ~ InPlace(p, order[i])
    <3>. DEFINE n == Joined(b, order[i], workspace + b.total)
    <3>1. UnifiedStep(p, b, order[i]) = n
      BY <2>2 DEF UnifiedStep
    <3>2. DOMAIN n = {"at", "total"} /\ n.at = With(b.at, order[i], workspace + b.total)
      BY <1>3, JoinedOne DEF AllStaged
    <3>3. DOMAIN With(b.at, order[i], workspace + b.total) = {order[i]} \cup DOMAIN b.at
      BY OneMore
    <3>. HIDE DEF n
    <3>. QED BY <1>3, <2>0, <3>1, <3>2, <3>3 DEF AllStaged
  <2>. QED BY <2>1, <2>2
<1>4. AllStaged(p, order, Count, UnifiedBatch(p))
  BY <1>0, <1>1, <1>2, <1>3, AllFold!PlainFoldKeeps
<1>5. PICK j \in 1..Count : order[j] = o
  BY DEF Lists
<1>. QED BY <1>4, <1>5 DEF AllStaged

\* The unified pass finds its part of the workspace free.
LEMMA UnifiedSafe == ASSUME LayoutInv, SafeInv, Unified PROVE SafeInv'
<1>. DEFINE moving == UnifiedBatch(place)
            at == moving.at
<1>0. /\ pc = "unified" /\ UNCHANGED <<setup, order, target, workspace>> /\ Chains(place)
      /\ OutsideWorkspace({}) /\ LayoutInv' /\ pc \in Placing
  BY UnifiedKeeps DEF Unified, LayoutInv, SafeInv, Placing
<1>1. Lists(order) /\ GoodWorkspace /\ GoodTargets /\ workspace \in Int
  BY <1>0, PlacingFacts
<1>2. Staging(at, moving.total)
  BY <1>1, UnifiedBatchStaging
<1>3. \A o \in Objects \ DOMAIN at : InPlace(place, o)
  BY <1>1, UnifiedStagesAll
<1>. HIDE DEF moving
<1>4. moving.total <= WorkspaceSize => Run(workspace, moving.total) \subseteq Free(place)
  <2>. SUFFICES ASSUME moving.total <= WorkspaceSize
                PROVE  Run(workspace, moving.total) \subseteq Free(place)
    OBVIOUS
  <2>1. Run(workspace, moving.total) \subseteq WorkspaceRange
    BY <1>1, <1>2, StagedInWorkspace
  <2>2. WorkspaceRange \subseteq Free(place)
    BY <1>0, <1>1, EmptyWorkspaceFree
  <2>. QED BY <2>1, <2>2
<1>5. CASE pc' \in {"verify", "adaptive"}
  BY <1>5, QuietSafe DEF Quiet, States, Placing
<1>6. CASE staged' = at /\ place' = Moved(place, staged') /\ pc' = "unifiedPlace"
  <2>1. DOMAIN at \subseteq Objects /\ \A o \in DOMAIN at : at[o] \in Int /\ workspace <= at[o]
    BY <1>2 DEF Staging
  <2>2. ASSUME NEW o \in DOMAIN at, NEW r \in Objects \ DOMAIN at, NEW j \in 1..Size[r]
        PROVE  place[r][j] \notin Run(target[o], Size[o])
    <3>1. place[r][j] = target[r] + j - 1
      BY <1>3 DEF InPlace, Exact, Contiguous
    <3>2. target[o] \in Int /\ target[r] \in Int /\ Size[o] \in Nat /\ Size[r] \in Nat
      BY <2>1, SizeType, <1>1 DEF GoodTargets, Batch
    <3>3. target[o] + Size[o] <= target[r] \/ target[r] + Size[r] <= target[o]
      BY <1>1, <2>1 DEF GoodTargets, Batch, Apart
    <3>. QED BY <3>1, <3>2, <3>3, InRun
  <2>3. Chains(Moved(place, at))
    BY <1>0, <1>6 DEF LayoutInv, Chains, Clusters
  <2>4. \A o \in DOMAIN at : Exact(Moved(place, at), o, at[o]) /\ TargetFree(Moved(place, at), o)
    BY <1>0, <1>1, <2>1, <2>2, <2>3, StagedTargets
  <2>. QED BY <1>0, <1>6, <2>4, StagedSafe
<1>7. \/ pc' \in {"verify", "adaptive"}
      \/ staged' = at /\ place' = Moved(place, staged') /\ pc' = "unifiedPlace"
  BY <1>4 DEF Unified, moving
<1>. QED BY <1>5, <1>6, <1>7

\* Placing a staged batch always finds it, and its targets free.
LEMMA PlaceSafe == ASSUME SafeInv, ForwardPlace \/ UnifiedPlace PROVE SafeInv'
<1>1. StagedReady
  BY DEF SafeInv, ForwardPlace, UnifiedPlace, PlaceStaged
<1>2. pc' \in {"forward", "verify"}
  BY <1>1 DEF ForwardPlace, UnifiedPlace, PlaceStaged, StagedReady
<1>. QED BY <1>2, QuietSafe DEF Quiet, States, Placing

-----------------------------------------------------------------------------
(* The one-object fallback.                                                *)

\* A staged object leaves its clusters free.
LEMMA FallbackSafe == ASSUME LayoutInv, SafeInv, Fallback PROVE SafeInv'
<1>. DEFINE object == order[next]
            at == With(<<>>, object, workspace)
<1>0. /\ pc = "fallback" /\ UNCHANGED <<setup, order, target, workspace>>
      /\ Chains(place) /\ pc \in Placing /\ next \in 0..Count /\ LayoutInv'
  BY FallbackKeeps DEF Fallback, LayoutInv, Placing, FallbackInv
<1>1. /\ Lists(order) /\ GoodWorkspace /\ Count \in Nat /\ workspace \in Int
      /\ \A i \in 1..Count : order[i] \in Objects
  BY <1>0, PlacingFacts
<1>2. CASE pc' \in {"verify", "fallback", "occupied"}
  BY <1>2, QuietSafe DEF Quiet, States, Placing, Ended
<1>3. CASE /\ next # 0 /\ Run(workspace, Size[object]) \subseteq Free(place)
           /\ original' = place[object] /\ place' = Moved(place, at)
           /\ pc' = "unblock" /\ next' = next
  <2>1. object \in Objects
    BY <1>0, <1>1, <1>3
  <2>2. DOMAIN at = {object} /\ at[object] = workspace
    <3>1. DOMAIN at = {object} \cup DOMAIN <<>>
      BY OneMore
    <3>2. at[object] = workspace
      BY OneMore
    <3>3. DOMAIN <<>> = {}
      OBVIOUS
    <3>. QED BY <3>1, <3>2, <3>3
  <2>3. \A r \in Objects : place'[r] = IF r = object THEN Contiguous(workspace, Size[object]) ELSE place[r]
    <3>. HIDE DEF at, object
    <3>. QED BY <1>3, <2>2, MovedCells
  <2>. HIDE DEF at
  <2>4. Chains(place')
    BY <1>0 DEF LayoutInv, Chains, Clusters
  <2>5. DOMAIN place[object] = 1..Size[object] /\ Size[object] \in Nat
    BY <1>0, <2>1, SizeType DEF Chains
  <2>. DEFINE n == Size[object]
  <2>. HIDE DEF object
  <2>6. ASSUME NEW i \in 1..n PROVE place[object][i] \in Free(place')
    <3>1. place[object][i] \in Clusters \ setup.bad
      BY <1>0, <2>1, UsedCells
    <3>2. ASSUME NEW r \in Objects, NEW j \in 1..Size[r] PROVE place'[r][j] # place[object][i]
      <4>1. CASE r = object
        <5>1. place'[r][j] = workspace + j - 1
          BY <2>3, <4>1 DEF Contiguous
        <5>2. place'[r][j] \in Run(workspace, n)
          BY <1>1, <2>5, <4>1, <5>1, InRun
        <5>3. place'[r][j] \in Free(place)
          BY <1>3, <5>2
        <5>. QED BY <1>0, <2>1, <5>3, UsedCells
      <4>2. CASE r # object
        <5>1. place'[r][j] = place[r][j]
          BY <2>3, <4>2
        <5>. QED BY <1>0, <2>1, <4>2, <5>1 DEF Chains, Disjoint
      <4>. QED BY <4>1, <4>2
    <3>. QED BY <2>4, <3>1, <3>2, UsedCells
  <2>7. OriginalFree'
    <3>1. DOMAIN original' = 1..n /\ \A i \in 1..n : original'[i] \in Free(place')
      BY <1>3, <2>5, <2>6
    <3>. QED BY <1>0, <3>1 DEF OriginalFree, Free, Clusters
  <2>8. Exact(place, order[next], workspace)'
    <3>1. place'[object] = Contiguous(workspace, Size[object])
      BY <2>1, <2>3
    <3>. QED BY <1>0, <1>3, <3>1 DEF Exact, object
  <2>. QED BY <1>3, <2>7, <2>8 DEF SafeInv, NoInternalFailure
<1>4. \/ pc' \in {"verify", "fallback", "occupied"}
      \/ /\ next # 0 /\ Run(workspace, Size[object]) \subseteq Free(place)
         /\ original' = place[object] /\ place' = Moved(place, at)
         /\ pc' = "unblock" /\ next' = next
  <2>1. pc = "fallback"
    BY <1>0
  <2>. QED BY <2>1 DEF Fallback
<1>. HIDE DEF at, object
<1>. QED BY <1>2, <1>3, <1>4

\* At most as many clusters of a run are in use as cells of a chain of its
\* length, all free, are outside the run.
LEMMA EnoughSlots ==
  ASSUME NEW n \in Nat, NEW start \in Int, NEW chain, DOMAIN chain = 1..n,
         \A i, j \in 1..n : chain[i] = chain[j] => i = j,
         NEW blockers, blockers \subseteq Run(start, n), \A i \in 1..n : chain[i] \notin blockers
  PROVE  Cardinality(blockers) <= Cardinality({i \in 1..n : chain[i] \notin Run(start, n)})
<1>. DEFINE W == Run(start, n)
            slots == {i \in 1..n : chain[i] \notin W}
            inside == {i \in 1..n : chain[i] \in W}
            cells == {chain[i] : i \in inside}
            f == [i \in inside |-> chain[i]]
<1>1. IsFiniteSet(1..n) /\ Cardinality(1..n) = n
  <2>1. IsFiniteSet(1..n) /\ Cardinality(1..n) = IF 1 > n THEN 0 ELSE n - 1 + 1
    BY FS_Interval
  <2>. QED BY <2>1
<1>2. IsFiniteSet(W) /\ Cardinality(W) = n
  <2>1. IsFiniteSet(start..(start + n - 1))
        /\ Cardinality(start..(start + n - 1)) = IF start > start + n - 1 THEN 0
                                                 ELSE (start + n - 1) - start + 1
    BY FS_Interval
  <2>. QED BY <2>1 DEF Run
<1>3. IsFiniteSet(slots) /\ IsFiniteSet(inside)
  <2>1. slots \in SUBSET (1..n) /\ inside \in SUBSET (1..n)
    OBVIOUS
  <2>. HIDE DEF slots, inside
  <2>2. IsFiniteSet(slots)
    BY <1>1, <2>1, FS_Subset
  <2>3. IsFiniteSet(inside)
    BY <1>1, <2>1, FS_Subset
  <2>. QED BY <2>2, <2>3
<1>4. slots \cup inside = 1..n /\ slots \cap inside = {}
  <2>. HIDE DEF W
  <2>. QED OBVIOUS
<1>5. cells \subseteq W /\ cells \cap blockers = {}
  <2>. HIDE DEF W
  <2>. QED OBVIOUS
<1>6. f \in Surjection(inside, cells) /\ f \in Injection(inside, cells)
  <2>. HIDE DEF W
  <2>1. f \in [inside -> cells] /\ \A c \in cells : \E i \in inside : f[i] = c
    OBVIOUS
  <2>2. \A i, j \in inside : f[i] = f[j] => i = j
    OBVIOUS
  <2>. HIDE DEF f, inside, cells
  <2>. QED BY <2>1, <2>2 DEF Surjection, Injection, IsInjective
<1>7. IsFiniteSet(cells) /\ Cardinality(cells) = Cardinality(inside)
  <2>. HIDE DEF f, inside, cells
  <2>. QED BY <1>3, <1>6, FS_Surjection
<1>8. IsFiniteSet(blockers)
  <2>1. blockers \in SUBSET W
    OBVIOUS
  <2>. HIDE DEF W
  <2>. QED BY <1>2, <2>1, FS_Subset
<1>. HIDE DEF slots, inside, cells, W
<1>9. n = Cardinality(slots) + Cardinality(inside)
  <2>1. Cardinality(slots \cup inside)
          = Cardinality(slots) + Cardinality(inside) - Cardinality(slots \cap inside)
    BY <1>3, FS_Union
  <2>2. Cardinality(slots \cap inside) = 0
    BY <1>4, FS_EmptySet
  <2>3. Cardinality(slots) \in Nat /\ Cardinality(inside) \in Nat
    BY <1>3, FS_CardinalityType
  <2>4. Cardinality(slots \cup inside) = n
    BY <1>1, <1>4
  <2>. QED BY <2>1, <2>2, <2>3, <2>4, <1>1
<1>10. Cardinality(blockers) + Cardinality(cells) <= n
  <2>1. Cardinality(blockers \cup cells)
          = Cardinality(blockers) + Cardinality(cells) - Cardinality(blockers \cap cells)
    BY <1>7, <1>8, FS_Union
  <2>2. Cardinality(blockers \cap cells) = 0
    BY <1>5, FS_EmptySet
  <2>3. Cardinality(blockers \cup cells) <= n
    <3>1. blockers \cup cells \in SUBSET W
      BY <1>5 DEF W
    <3>. QED BY <1>2, <3>1, FS_Subset
  <2>4. Cardinality(blockers) \in Nat /\ Cardinality(cells) \in Nat
    BY <1>7, <1>8, FS_CardinalityType
  <2>. QED BY <2>1, <2>2, <2>3, <2>4
<1>11. Cardinality(slots) \in Nat /\ Cardinality(inside) \in Nat /\ Cardinality(blockers) \in Nat
  BY <1>3, <1>8, FS_CardinalityType
<1>12. Cardinality(blockers) <= Cardinality(slots)
  BY <1>7, <1>9, <1>10, <1>11
<1>. QED BY <1>12 DEF slots, W

\* What is in the way of the staged object finds room where it was, and
\* nothing is left in the way.
LEMMA UnblockSafe == ASSUME LayoutInv, SafeInv, Unblock PROVE SafeInv'
<1>. DEFINE object == order[next]
            wanted == Run(target[object], Size[object])
            blockers == wanted \ Free(place)
            slots == {i \in DOMAIN original : original[i] \notin wanted}
            map == Unblocked(original, slots, blockers)
<1>0. /\ pc = "unblock" /\ UNCHANGED <<setup, order, target, workspace, next>>
      /\ Chains(place) /\ pc \in Placing /\ next \in 1..Count /\ LayoutInv'
      /\ original \in [1..Size[order[next]] -> Clusters \ setup.bad]
      /\ \A i, j \in DOMAIN original : original[i] = original[j] => i = j
      /\ Exact(place, order[next], workspace) /\ OriginalFree
  BY UnblockKeeps DEF Unblock, LayoutInv, Placing, FallbackInv, SafeInv
<1>1. /\ Lists(order) /\ GoodTargets /\ GoodWorkspace /\ workspace \in Int /\ LastCluster \in Nat
      /\ \A i \in 1..Count : order[i] \in Objects
  BY <1>0, PlacingFacts
<1>2. /\ object \in Objects /\ Size[object] \in Nat /\ target[object] \in Int
      /\ wanted \subseteq (2..(workspace - 1)) \ setup.bad
  BY <1>0, <1>1, SizeType DEF GoodTargets, Batch
<1>3. DOMAIN original = 1..Size[object] /\ \A i \in DOMAIN original : original[i] \in Free(place)
  BY <1>0 DEF OriginalFree
<1>. HIDE DEF object
<1>4. Cardinality(blockers) <= Cardinality(slots)
  <2>1. /\ blockers \subseteq Run(target[object], Size[object])
        /\ \A i \in 1..Size[object] : original[i] \notin blockers
        /\ \A i, j \in 1..Size[object] : original[i] = original[j] => i = j
        /\ slots = {i \in 1..Size[object] : original[i] \notin Run(target[object], Size[object])}
    BY <1>0, <1>3
  <2>. HIDE DEF blockers, slots
  <2>. QED BY <1>2, <1>3, <2>1, EnoughSlots
<1>5. place' = Remapped(place, map) /\ pc' = "fallbackPlace"
  <2>1. {original[i] : i \in slots} \subseteq Free(place)
    BY <1>3
  <2>2. Exact(place, object, workspace)
    BY <1>0 DEF object
  <2>. HIDE DEF blockers, slots, wanted
  <2>. QED BY <1>4, <2>1, <2>2 DEF Unblock, Unblocked, object, blockers, slots, wanted
<1>6. DOMAIN map = blockers /\ \A c \in blockers : map[c] \notin wanted
  <2>1. IsFiniteSet(wanted) /\ wanted \subseteq Int
    <3>1. IsFiniteSet(target[object]..(target[object] + Size[object] - 1))
      BY <1>2, FS_Interval
    <3>. QED BY <1>2, <3>1 DEF Run
  <2>2. IsFiniteSet(blockers) /\ blockers \subseteq Int
    <3>1. blockers \in SUBSET wanted
      OBVIOUS
    <3>. HIDE DEF blockers, wanted
    <3>. QED BY <2>1, <3>1, FS_Subset
  <2>3. IsFiniteSet(slots) /\ slots \subseteq Int
    <3>1. slots \in SUBSET (1..Size[object])
      BY <1>3
    <3>2. IsFiniteSet(1..Size[object])
      BY <1>2, FS_Interval
    <3>. HIDE DEF slots
    <3>3. IsFiniteSet(slots)
      BY <3>1, <3>2, FS_Subset
    <3>. QED BY <3>1, <3>3
  <2>4. DOMAIN map = blockers /\ \A c \in blockers : map[c] = original[Nth(slots, Rank(blockers, c))]
    BY DEF Unblocked
  <2>5. ASSUME NEW c \in blockers PROVE Nth(slots, Rank(blockers, c)) \in slots
    <3>. HIDE DEF slots, blockers
    <3>1. Rank(blockers, c) \in 1..Cardinality(blockers)
      BY <2>2, RankNth
    <3>2. Cardinality(blockers) \in Nat /\ Cardinality(slots) \in Nat
      BY <2>2, <2>3, FS_CardinalityType
    <3>3. Rank(blockers, c) \in 1..Cardinality(slots)
      BY <1>4, <3>1, <3>2
    <3>. QED BY <2>3, <3>3, RankNth
  <2>6. \A i \in slots : original[i] \notin wanted
    OBVIOUS
  <2>. HIDE DEF map, blockers, slots, wanted
  <2>. QED BY <2>4, <2>5, <2>6
<1>. HIDE DEF map
<1>7. ASSUME NEW o \in Objects, NEW i \in 1..Size[o]
      PROVE  place'[o][i] = IF place[o][i] \in blockers THEN map[place[o][i]] ELSE place[o][i]
  <2>1. DOMAIN place[o] = 1..Size[o]
    BY <1>0 DEF Chains
  <2>. HIDE DEF blockers
  <2>. QED BY <1>5, <1>6, <2>1 DEF Remapped
<1>8. Exact(place', object, workspace)
  <2>1. place[object] = Contiguous(workspace, Size[object])
    BY <1>0 DEF Exact, object
  <2>2. ASSUME NEW i \in 1..Size[object] PROVE place'[object][i] = workspace + i - 1
    <3>1. place[object][i] = workspace + i - 1
      BY <2>1 DEF Contiguous
    <3>2. place[object][i] \notin blockers
      BY <1>1, <1>2, <3>1
    <3>. HIDE DEF blockers
    <3>. QED BY <1>2, <1>7, <3>1, <3>2
  <2>3. place'[object] \in [1..Size[object] -> Clusters \ setup'.bad]
    BY <1>0, <1>2 DEF LayoutInv, Chains, Clusters
  <2>. QED BY <2>2, <2>3 DEF Exact, Contiguous
<1>9. wanted \subseteq Free(place')
  <2>. SUFFICES ASSUME NEW c \in wanted PROVE c \in Free(place')
    OBVIOUS
  <2>1. c \in Clusters \ setup.bad
    BY <1>1, <1>2 DEF GoodWorkspace, Clusters
  <2>2. ASSUME NEW o \in Objects, NEW i \in 1..Size[o] PROVE place'[o][i] # c
    <3>1. CASE place[o][i] \in blockers
      <4>. HIDE DEF blockers, wanted
      <4>. QED BY <1>6, <1>7, <3>1
    <3>2. CASE place[o][i] \notin blockers
      <4>1. place'[o][i] = place[o][i]
        <5>. HIDE DEF blockers
        <5>. QED BY <1>7, <3>2
      <4>2. place[o][i] \notin Free(place)
        BY <1>0, UsedCells
      <4>3. place[o][i] \notin wanted
        BY <3>2, <4>2
      <4>. QED BY <4>1, <4>3
    <3>. QED BY <3>1, <3>2
  <2>3. Chains(place')
    BY <1>0 DEF LayoutInv, Chains, Clusters
  <2>. QED BY <2>1, <2>2, <2>3, UsedCells
<1>10. Exact(place, order[next], workspace)' /\ TargetFree(place, order[next])'
  BY <1>0, <1>8, <1>9 DEF Exact, TargetFree, Free, Clusters, object
<1>. QED BY <1>5, <1>10 DEF SafeInv, NoInternalFailure

\* The staged object is where it was staged, and its target free.
LEMMA FallbackPlaceSafe == ASSUME SafeInv, FallbackPlace PROVE SafeInv'
<1>1. Exact(place, order[next], workspace) /\ TargetFree(place, order[next])
  BY DEF SafeInv, FallbackPlace
<1>2. pc' = "fallback"
  BY <1>1 DEF FallbackPlace
<1>. QED BY <1>2, QuietSafe DEF Quiet, States, Placing

-----------------------------------------------------------------------------
(* The theorem.                                                            *)

\* A step that at most sets stop.
LEMMA StopSafe ==
  ASSUME SafeInv, UNCHANGED <<setup, place, order, target, workspace, pc, next, staged, original>>
  PROVE  SafeInv'
<1>1. PlannedBelow' <=> PlannedBelow
  <2>1. Plan(order, LastCluster + 1)' = Plan(order, LastCluster + 1)
    BY PlanNext
  <2>. QED BY <2>1 DEF PlannedBelow
<1>2. StagedReady' <=> StagedReady
  BY DEF StagedReady, Exact, TargetFree, Free, Clusters
<1>3. OriginalFree' <=> OriginalFree
  BY DEF OriginalFree, Free, Clusters
<1>4. OutsideWorkspace({})' <=> OutsideWorkspace({})
  BY DEF OutsideWorkspace
<1>5. /\ Exact(place, order[next], workspace)' <=> Exact(place, order[next], workspace)
      /\ TargetFree(place, order[next])' <=> TargetFree(place, order[next])
  BY DEF Exact, TargetFree, Free, Clusters
<1>. QED BY <1>1, <1>2, <1>3, <1>4, <1>5 DEF SafeInv, NoInternalFailure

\* Every step of the scheduler keeps the strengthened invariant.
LEMMA StepSafe == LayoutInv /\ SafeInv /\ [Next]_vars => SafeInv'
<1>. SUFFICES ASSUME LayoutInv, SafeInv, [Next]_vars PROVE SafeInv'
  OBVIOUS
<1>1. CASE Start
  BY <1>1, StartSafe
<1>2. CASE Evacuate
  BY <1>2, EvacuateSafe
<1>3. CASE Forward
  BY <1>3, ForwardSafe
<1>4. CASE Unified
  BY <1>4, UnifiedSafe
<1>5. CASE ForwardPlace \/ UnifiedPlace
  BY <1>5, PlaceSafe
<1>6. CASE Adaptive
  <2>1. pc' \in {"verify", "adaptive", "fallback"}
    BY <1>6 DEF Adaptive
  <2>. QED BY <2>1, QuietSafe DEF Quiet, States, Placing
<1>7. CASE Fallback
  BY <1>7, FallbackSafe
<1>8. CASE Unblock
  BY <1>8, UnblockSafe
<1>9. CASE FallbackPlace
  BY <1>9, FallbackPlaceSafe
<1>10. CASE Verify \/ Stopped
  <2>1. pc' \in {"completed", "unverified", "stopped"}
    BY <1>10 DEF Verify, Stopped
  <2>. QED BY <2>1, QuietSafe DEF Quiet, States, Ended
<1>11. CASE Stop \/ UNCHANGED vars
  BY <1>11, StopSafe DEF Stop, vars
<1>. QED BY <1>1, <1>2, <1>3, <1>4, <1>5, <1>6, <1>7, <1>8, <1>9, <1>10, <1>11
         DEF Next, Work, Terminated

\* None of the scheduler's own consistency checks ever fails, whatever the
\* objects, the volume, the options and the stops: evacuation finds room, the
\* plan still fits, staged objects are where they were staged, and their
\* targets are free when they are placed.
THEOREM NeverDies == Spec => []NoInternalFailure
<1>1. Init => SafeInv
  BY DEF Init, SafeInv, NoInternalFailure
<1>2. LayoutInv /\ SafeInv /\ [Next]_vars => SafeInv'
  BY StepSafe
<1>3. SafeInv => NoInternalFailure
  BY DEF SafeInv
<1>. QED BY <1>1, <1>2, <1>3, LayoutInvariant, PTL DEF Spec

==============================================================================
