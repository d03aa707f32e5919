---------------------------- MODULE FoldInduction ----------------------------
(***************************************************************************)
(* An invariant of the steps of a fold holds of what the fold returns.  The *)
(* step and the invariant are constants, which a module that needs the fact *)
(* for a fold of its own replaces when it takes an instance of this one.    *)
(***************************************************************************)
EXTENDS Integers, SequencesExt, FiniteSetTheorems, WellFoundedInduction, TLAPS

CONSTANTS Step(_, _, _, _),  \* one step: the fold's two parameters, what it has, the next item
          Inv(_, _, _, _)    \* of the parameters, the items taken and what the fold has

\* A fold as StagedImage!Accumulate writes it.
Folded(v, op, base, seq) ==
    LET once(acc, x) == CHOOSE r \in {Step(v, op, y, x) : y \in {acc}} : TRUE
    IN CHOOSE r \in {FoldLeft(once, base, s) : s \in {seq}} : TRUE

-----------------------------------------------------------------------------
\* Mathematical induction, with a set for the predicate.
LEMMA NatInduct ==
  \A S : 0 \in S /\ (\A n \in Nat : n \in S => n + 1 \in S) => Nat \subseteq S
<1>. SUFFICES ASSUME NEW S, 0 \in S, \A n \in Nat : n \in S => n + 1 \in S, Nat \ S # {}
              PROVE  FALSE
  OBVIOUS
<1>1. PICK x \in Nat \ S : \A y \in Nat \ S : ~ (<<y, x>> \in OpToRel(<, Nat))
  <2>. DEFINE T == Nat \ S
  <2>1. T \subseteq Nat /\ T # {}
    OBVIOUS
  <2>. HIDE DEF T
  <2>2. IsWellFoundedOn(OpToRel(<, Nat), Nat)
    BY NatLessThanWellFounded
  <2>3. \A R, U : IsWellFoundedOn(R, U) =>
           \A V : V \subseteq U /\ V # {} => \E a \in V : \A b \in V : ~ (<<b, a>> \in R)
    BY WFMin
  <2>. QED BY <2>1, <2>2, <2>3 DEF T
<1>2. \A y \in Nat \ S : ~ (y < x)
  BY <1>1 DEF OpToRel
<1>3. x # 0 /\ x - 1 \in Nat /\ x - 1 < x
  OBVIOUS
<1>. QED BY <1>2, <1>3

\* A nonempty set of natural numbers has a least element.
LEMMA MinOfNat ==
  \A S : S \subseteq Nat /\ S # {} => Min(S) \in S /\ \A y \in S : Min(S) <= y
<1>. SUFFICES ASSUME NEW S, S \subseteq Nat, S # {}
              PROVE  \E x \in S : \A y \in S : x <= y
  BY DEF Min
<1>. DEFINE T == {n \in Nat : \A y \in S : n <= y}
<1>1. 0 \in T
  OBVIOUS
<1>2. PICK z \in S : TRUE
  OBVIOUS
<1>3. z + 1 \notin T
  BY <1>2
<1>4. ~ (\A n \in Nat : n \in T => n + 1 \in T)
  <2>. HIDE DEF T
  <2>1. ASSUME \A n \in Nat : n \in T => n + 1 \in T PROVE FALSE
    <3>1. Nat \subseteq T
      BY <1>1, <2>1, NatInduct
    <3>2. z + 1 \in Nat
      BY <1>2
    <3>. QED BY <1>3, <3>1, <3>2
  <2>. QED BY <2>1
<1>5. PICK n \in Nat : n \in T /\ n + 1 \notin T
  BY <1>4
<1>6. PICK y \in S : ~ (n + 1 <= y)
  BY <1>5
<1>7. y = n
  BY <1>5, <1>6
<1>. QED BY <1>5, <1>6, <1>7

\* The last of the first n numbers.
LEMMA MaxOfInterval ==
  \A n \in Nat : Max(1..(n + 1)) = n + 1 /\ 1..(n + 1) \ {n + 1} = 1..n
<1>. TAKE n \in Nat
<1>1. n + 1 \in 1..(n + 1) /\ \A y \in 1..(n + 1) : n + 1 >= y
  OBVIOUS
<1>2. \A x \in 1..(n + 1) : (\A y \in 1..(n + 1) : x >= y) => x = n + 1
  BY <1>1
<1>. QED BY <1>1, <1>2 DEF Max

-----------------------------------------------------------------------------
\* A singleton set holds what TLC evaluates once.
StepOnce(v, op, acc, x) == CHOOSE r \in {Step(v, op, y, x) : y \in {acc}} : TRUE

\* What the fold of the first items is, by the set of their places.
Unfolding(v, op, base, seq, S, iter) ==
    iter = [s \in SUBSET S |-> IF s = {} THEN base
                               ELSE StepOnce(v, op, iter[s \ {Max(s)}], seq[Max(s)])]
Iterated(v, op, base, seq) == CHOOSE iter : Unfolding(v, op, base, seq, DOMAIN seq, iter)

\* The singleton set is transparent.
LEMMA StepOnceIsStep == \A v, op, acc, x : StepOnce(v, op, acc, x) = Step(v, op, acc, x)
BY DEF StepOnce

\* The recursive function that the fold chooses exists.
LEMMA UnfoldingExists ==
  \A v, op, base, seq : \A n \in Nat : \E iter : Unfolding(v, op, base, seq, 1..n, iter)
<1>. TAKE v, op, base, seq
<1>. DEFINE T == {n \in Nat : \E iter : Unfolding(v, op, base, seq, 1..n, iter)}
<1>1. 0 \in T
  <2>. DEFINE g == [s \in SUBSET (1..0) |-> base]
  <2>1. \A s \in SUBSET (1..0) : s = {}
    OBVIOUS
  <2>2. Unfolding(v, op, base, seq, 1..0, g)
    BY <2>1 DEF Unfolding
  <2>. QED BY <2>2
<1>2. ASSUME NEW n \in Nat, n \in T PROVE n + 1 \in T
  <2>1. PICK iter : Unfolding(v, op, base, seq, 1..n, iter)
    BY <1>2
  <2>. DEFINE g == [s \in SUBSET (1..(n + 1)) |->
                      IF n + 1 \in s THEN StepOnce(v, op, iter[s \ {n + 1}], seq[n + 1]) ELSE iter[s]]
              body(s) == IF s = {} THEN base ELSE StepOnce(v, op, g[s \ {Max(s)}], seq[Max(s)])
  <2>2. ASSUME NEW s \in SUBSET (1..(n + 1)) PROVE g[s] = body(s)
    <3>1. CASE n + 1 \in s
      <4>1. Max(s) = n + 1
        <5>1. n + 1 \in s /\ \A y \in s : n + 1 >= y
          BY <3>1
        <5>2. \A x \in s : (\A y \in s : x >= y) => x = n + 1
          BY <5>1
        <5>. QED BY <5>1, <5>2 DEF Max
      <4>2. s \ {n + 1} \in SUBSET (1..n) /\ s \ {n + 1} \in SUBSET (1..(n + 1)) /\ n + 1 \notin s \ {n + 1}
        OBVIOUS
      <4>3. g[s \ {n + 1}] = iter[s \ {n + 1}]
        BY <4>2
      <4>4. g[s] = StepOnce(v, op, iter[s \ {n + 1}], seq[n + 1])
        BY <3>1
      <4>. HIDE DEF g
      <4>. QED BY <3>1, <4>1, <4>3, <4>4
    <3>2. CASE n + 1 \notin s
      <4>1. s \in SUBSET (1..n)
        BY <3>2
      <4>2. \A m : s \ {m} \in SUBSET (1..n) /\ s \ {m} \in SUBSET (1..(n + 1)) /\ n + 1 \notin s \ {m}
        <5>1. \A x \in s : x \in 1..n /\ x \in 1..(n + 1) /\ x # n + 1
          BY <3>2, <4>1
        <5>. QED BY <5>1
      <4>3. \A m : g[s \ {m}] = iter[s \ {m}]
        BY <4>2
      <4>4. g[s] = iter[s]
        BY <3>2
      <4>5. iter[s] = IF s = {} THEN base ELSE StepOnce(v, op, iter[s \ {Max(s)}], seq[Max(s)])
        BY <2>1, <4>1 DEF Unfolding
      <4>. HIDE DEF g
      <4>. QED BY <4>3, <4>4, <4>5
    <3>. QED BY <3>1, <3>2
  <2>3. g = [s \in SUBSET (1..(n + 1)) |-> g[s]]
    OBVIOUS
  <2>4. g = [s \in SUBSET (1..(n + 1)) |-> body(s)]
    <3>. HIDE DEF g, body
    <3>. QED BY <2>2, <2>3
  <2>5. Unfolding(v, op, base, seq, 1..(n + 1), g)
    BY <2>4 DEF Unfolding
  <2>. HIDE DEF g
  <2>. QED BY <2>5
<1>3. Nat \subseteq T
  <2>. HIDE DEF T
  <2>. QED BY <1>1, <1>2, NatInduct
<1>. QED BY <1>3

\* The fold of the community modules is the recursive function above.
LEMMA FoldedIsIterated ==
  \A v, op, base, seq : Folded(v, op, base, seq) = Iterated(v, op, base, seq)[DOMAIN seq]
<1>. TAKE v, op, base, seq
<1>1. Folded(v, op, base, seq) = CHOOSE r \in {Iterated(v, op, base, s)[DOMAIN s] : s \in {seq}} : TRUE
  BY DEF Folded, FoldLeft, MapThenFoldSet, Iterated, Unfolding, StepOnce
<1>. QED BY <1>1

\* What holds of the base, and of each step's result when it holds of what the
\* step starts from, holds of the fold.
THEOREM FoldKeeps ==
  \A v, op, base, seq : \A n \in Nat :
     /\ DOMAIN seq = 1..n
     /\ Inv(v, op, 0, base)
     /\ \A i \in 1..n : \A p : Inv(v, op, i - 1, p) => Inv(v, op, i, Step(v, op, p, seq[i]))
     => Inv(v, op, n, Folded(v, op, base, seq))
<1>. SUFFICES ASSUME NEW v, NEW op, NEW base, NEW seq, NEW n \in Nat,
                     DOMAIN seq = 1..n,
                     Inv(v, op, 0, base),
                     \A i \in 1..n : \A p : Inv(v, op, i - 1, p) => Inv(v, op, i, Step(v, op, p, seq[i]))
              PROVE  Inv(v, op, n, Folded(v, op, base, seq))
  OBVIOUS
<1>. DEFINE iter == Iterated(v, op, base, seq)
<1>1. Unfolding(v, op, base, seq, 1..n, iter)
  BY UnfoldingExists DEF Iterated
<1>. HIDE DEF iter
<1>. DEFINE T == {i \in Nat : i <= n => Inv(v, op, i, iter[1..i])}
<1>2. 0 \in T
  <2>1. iter[1..0] = base
    BY <1>1 DEF Unfolding
  <2>. QED BY <2>1
<1>3. ASSUME NEW i \in Nat, i \in T, i + 1 <= n PROVE Inv(v, op, i + 1, iter[1..(i + 1)])
  <2>1. iter[1..(i + 1)] = StepOnce(v, op, iter[1..i], seq[i + 1])
    <3>1. 1..(i + 1) \in SUBSET (1..n) /\ 1..(i + 1) # {}
      BY <1>3
    <3>2. Max(1..(i + 1)) = i + 1 /\ 1..(i + 1) \ {i + 1} = 1..i
      BY MaxOfInterval
    <3>3. \A s \in SUBSET (1..n) : s # {} => iter[s] = StepOnce(v, op, iter[s \ {Max(s)}], seq[Max(s)])
      BY <1>1 DEF Unfolding
    <3>. QED BY <3>1, <3>2, <3>3
  <2>2. iter[1..(i + 1)] = Step(v, op, iter[1..i], seq[i + 1])
    BY <2>1, StepOnceIsStep
  <2>3. Inv(v, op, i, iter[1..i]) /\ i + 1 \in 1..n /\ (i + 1) - 1 = i
    BY <1>3
  <2>. QED BY <2>2, <2>3
<1>4. Nat \subseteq T
  <2>1. \A i \in Nat : i \in T => i + 1 \in T
    BY <1>3
  <2>. HIDE DEF T
  <2>. QED BY <1>2, <2>1, NatInduct
<1>5. Inv(v, op, n, iter[1..n])
  BY <1>4
<1>. QED BY <1>5, FoldedIsIterated DEF iter
-----------------------------------------------------------------------------
\* A fold written without that detour.
PlainFold(v, op, base, seq) == FoldLeft(LAMBDA acc, x : Step(v, op, acc, x), base, seq)

\* The fold of the community modules, as the recursive function it chooses.
LEMMA PlainFoldIsFolded ==
  \A v, op, base, seq : PlainFold(v, op, base, seq) = Iterated(v, op, base, seq)[DOMAIN seq]
<1>. TAKE v, op, base, seq
<1>. DEFINE P(iter) == iter = [s \in SUBSET DOMAIN seq |->
                          IF s = {} THEN base ELSE Step(v, op, iter[s \ {Max(s)}], seq[Max(s)])]
<1>1. PlainFold(v, op, base, seq) = (CHOOSE iter : P(iter))[DOMAIN seq]
  BY DEF PlainFold, FoldLeft, MapThenFoldSet
<1>2. \A iter : P(iter) <=> Unfolding(v, op, base, seq, DOMAIN seq, iter)
  BY StepOnceIsStep DEF Unfolding
<1>3. (CHOOSE iter : P(iter)) = Iterated(v, op, base, seq)
  <2>. HIDE DEF P
  <2>. QED BY <1>2 DEF Iterated
<1>. QED BY <1>1, <1>3

\* FoldKeeps for a fold written that way.
THEOREM PlainFoldKeeps ==
  \A v, op, base, seq : \A n \in Nat :
     /\ DOMAIN seq = 1..n
     /\ Inv(v, op, 0, base)
     /\ \A i \in 1..n : \A p : Inv(v, op, i - 1, p) => Inv(v, op, i, Step(v, op, p, seq[i]))
     => Inv(v, op, n, PlainFold(v, op, base, seq))
BY FoldKeeps, PlainFoldIsFolded, FoldedIsIterated
-----------------------------------------------------------------------------
\* What the fold has after each of the items, for facts about two folds.
LEMMA IteratedSteps ==
  \A v, op, base, seq : \A n \in Nat :
     DOMAIN seq = 1..n =>
       /\ Iterated(v, op, base, seq)[1..0] = base
       /\ \A i \in 1..n : Iterated(v, op, base, seq)[1..i]
                            = Step(v, op, Iterated(v, op, base, seq)[1..(i - 1)], seq[i])
<1>. SUFFICES ASSUME NEW v, NEW op, NEW base, NEW seq, NEW n \in Nat, DOMAIN seq = 1..n
              PROVE  /\ Iterated(v, op, base, seq)[1..0] = base
                     /\ \A i \in 1..n : Iterated(v, op, base, seq)[1..i]
                            = Step(v, op, Iterated(v, op, base, seq)[1..(i - 1)], seq[i])
  OBVIOUS
<1>. DEFINE iter == Iterated(v, op, base, seq)
<1>1. Unfolding(v, op, base, seq, 1..n, iter)
  BY UnfoldingExists DEF Iterated
<1>. HIDE DEF iter
<1>2. iter[1..0] = base
  BY <1>1 DEF Unfolding
<1>3. ASSUME NEW i \in 1..n PROVE iter[1..i] = Step(v, op, iter[1..(i - 1)], seq[i])
  <2>1. 1..i \in SUBSET (1..n) /\ 1..i # {} /\ i - 1 \in Nat /\ (i - 1) + 1 = i
    OBVIOUS
  <2>2. Max(1..i) = i /\ 1..i \ {i} = 1..(i - 1)
    BY <2>1, MaxOfInterval
  <2>3. \A s \in SUBSET (1..n) : s # {} => iter[s] = StepOnce(v, op, iter[s \ {Max(s)}], seq[Max(s)])
    BY <1>1 DEF Unfolding
  <2>4. iter[1..i] = StepOnce(v, op, iter[1..(i - 1)], seq[i])
    BY <2>1, <2>2, <2>3
  <2>. QED BY <2>4, StepOnceIsStep
<1>. QED BY <1>2, <1>3 DEF iter

==============================================================================
