-------------------------- MODULE FatRelocationProofs --------------------------
(***************************************************************************)
(* Proofs about FatRelocation, for every volume, move set and crash; then, *)
(* for every tree on the volume, about FatContents: what the user reads    *)
(* does not depend on where its clusters are, so no transaction and no     *)
(* crash changes it.                                                       *)
(***************************************************************************)
EXTENDS FatContents, FiniteSetTheorems, WellFoundedInduction, TLAPS

-----------------------------------------------------------------------------
(* The transaction.                                                        *)

\* v and w agree wherever transaction j does not write.
Agree(v, w, j) == \A l \in Loc \ Written(j) : v[l] = w[l]

\* Every destination of an accepted move map is the image of a source.
LEMMA SourceOfDestination ==
  ASSUME NEW m, RelocationMap(m), NEW d \in Destinations(m)
  PROVE  SourceOf(m, d) \in DOMAIN m /\ m[SourceOf(m, d)] = d
BY DEF Destinations, SourceOf

\* and of only one: relinking a destination reads the right next link.
LEMMA SourceOfUnique ==
  ASSUME NEW m, RelocationMap(m), NEW c \in DOMAIN m
  PROVE  SourceOf(m, m[c]) = c
BY DEF SourceOf, RelocationMap

\* A location is one of six kinds.
LEMMA LocCases ==
  ASSUME NEW l \in Loc
  PROVE  \/ \E k \in Copies, c \in Clusters : l = FatEntry(k, c)
         \/ \E c \in Containers, s \in Slots : l = Body(c, s)
         \/ \E c \in Containers, s \in Slots : l = Ref(c, s)
         \/ \E b \in Boots : l = RootField(b)
         \/ \E b \in Boots : l = Hint(b)
BY DEF Loc, FatLoc, BodyLoc, RefLoc, BootLoc

\* Every entry, slot and boot field of the volume is a location.
LEMMA LocKinds ==
  /\ \A k \in Copies, c \in Clusters : FatEntry(k, c) \in Loc
  /\ \A c \in Containers, s \in Slots : Body(c, s) \in Loc /\ Ref(c, s) \in Loc
  /\ \A b \in Boots : RootField(b) \in Loc /\ Hint(b) \in Loc
BY DEF Loc, FatLoc, BodyLoc, RefLoc, BootLoc

\* How the operators read and write each kind of location.
LEMMA CopiedAt ==
  ASSUME NEW v \in Volumes, NEW j, IsJournal(j)
  PROVE  /\ \A k \in Copies, c \in Clusters : Copied(v, j)[FatEntry(k, c)] = v[FatEntry(k, c)]
         /\ \A c \in Containers, s \in Slots :
              Copied(v, j)[Body(c, s)] = IF c \in Destinations(j.moves)
                    THEN v[Body(SourceOf(j.moves, c), s)] ELSE v[Body(c, s)]
         /\ \A c \in Containers, s \in Slots :
              Copied(v, j)[Ref(c, s)] = IF c \in Destinations(j.moves)
                    THEN v[Ref(SourceOf(j.moves, c), s)] ELSE v[Ref(c, s)]
         /\ \A b \in Boots : /\ Copied(v, j)[RootField(b)] = v[RootField(b)]
                             /\ Copied(v, j)[Hint(b)] = v[Hint(b)]
<1>1. ASSUME NEW k \in Copies, NEW c \in Clusters
      PROVE  Copied(v, j)[FatEntry(k, c)] = v[FatEntry(k, c)]
  BY LocKinds DEF Copied, FatEntry
<1>2. ASSUME NEW c \in Containers, NEW s \in Slots
      PROVE  Copied(v, j)[Body(c, s)] = IF c \in Destinations(j.moves)
                    THEN v[Body(SourceOf(j.moves, c), s)] ELSE v[Body(c, s)]
  BY LocKinds DEF Copied, Body
<1>3. ASSUME NEW c \in Containers, NEW s \in Slots
      PROVE  Copied(v, j)[Ref(c, s)] = IF c \in Destinations(j.moves)
                    THEN v[Ref(SourceOf(j.moves, c), s)] ELSE v[Ref(c, s)]
  BY LocKinds DEF Copied, Ref
<1>4. ASSUME NEW b \in Boots
      PROVE  /\ Copied(v, j)[RootField(b)] = v[RootField(b)]
             /\ Copied(v, j)[Hint(b)] = v[Hint(b)]
  BY LocKinds DEF Copied, RootField, Hint
<1>. QED BY <1>1, <1>2, <1>3, <1>4

\* Freeing the sources clears their FAT entries and sets the FAT32 hint.
LEMMA FreedAt ==
  ASSUME NEW v \in Volumes, NEW j, IsJournal(j)
  PROVE  /\ \A k \in Copies, c \in Clusters :
              Freed(v, j)[FatEntry(k, c)] = IF c \in DOMAIN j.moves THEN 0 ELSE v[FatEntry(k, c)]
         /\ \A c \in Containers, s \in Slots : /\ Freed(v, j)[Body(c, s)] = v[Body(c, s)]
                                               /\ Freed(v, j)[Ref(c, s)] = v[Ref(c, s)]
         /\ \A b \in Boots :
              /\ Freed(v, j)[RootField(b)] = v[RootField(b)]
              /\ Freed(v, j)[Hint(b)] = IF FatBits = 32 THEN LowestSource(j) ELSE v[Hint(b)]
<1>1. ASSUME NEW k \in Copies, NEW c \in Clusters
      PROVE  Freed(v, j)[FatEntry(k, c)] = IF c \in DOMAIN j.moves THEN 0 ELSE v[FatEntry(k, c)]
  BY LocKinds DEF Freed, FatEntry
<1>2. ASSUME NEW c \in Containers, NEW s \in Slots
      PROVE  Freed(v, j)[Body(c, s)] = v[Body(c, s)] /\ Freed(v, j)[Ref(c, s)] = v[Ref(c, s)]
  BY LocKinds DEF Freed, Body, Ref
<1>3. ASSUME NEW b \in Boots
      PROVE  /\ Freed(v, j)[RootField(b)] = v[RootField(b)]
             /\ Freed(v, j)[Hint(b)] = IF FatBits = 32 THEN LowestSource(j) ELSE v[Hint(b)]
  BY LocKinds DEF Freed, RootField, Hint
<1>. QED BY <1>1, <1>2, <1>3

NewNext(j, d) == Mapped(j.moves, j.next[SourceOf(j.moves, d)])
NewSuccessor(j, p) == j.moves[CHOOSE c \in Rechained(j, p) : TRUE]
NewTarget(j, c, s) == (CHOOSE p \in PatchesAt(j, c, s) : TRUE)[3]

\* Linking writes new chains, external predecessors, slots and the root.
LEMMA LinkedAt ==
  ASSUME NEW v \in Volumes, NEW j, IsJournal(j)
  PROVE  /\ \A k \in Copies, c \in Clusters :
              Linked(v, j)[FatEntry(k, c)] =
                 IF c \in Destinations(j.moves) THEN NewNext(j, c)
                 ELSE IF ExternalPredecessor(j, c) THEN NewSuccessor(j, c)
                 ELSE v[FatEntry(k, c)]
         /\ \A c \in Containers, s \in Slots :
              /\ Linked(v, j)[Body(c, s)] = v[Body(c, s)]
              /\ Linked(v, j)[Ref(c, s)] =
                    IF PatchesAt(j, c, s) # {} THEN NewTarget(j, c, s) ELSE v[Ref(c, s)]
         /\ \A b \in Boots :
              /\ Linked(v, j)[RootField(b)] =
                    IF j.rootNew # j.rootOld THEN j.rootNew ELSE v[RootField(b)]
              /\ Linked(v, j)[Hint(b)] = v[Hint(b)]
<1>1. \A l \in Loc : Linked(v, j)[l] = LinkValue(v, j, l)
  BY DEF Linked
<1>2. ASSUME NEW k \in Copies, NEW c \in Clusters
      PROVE  Linked(v, j)[FatEntry(k, c)] =
                 IF c \in Destinations(j.moves) THEN NewNext(j, c)
                 ELSE IF ExternalPredecessor(j, c) THEN NewSuccessor(j, c)
                 ELSE v[FatEntry(k, c)]
  BY <1>1, LocKinds DEF LinkValue, FatEntry, NewNext, NewSuccessor
<1>3. ASSUME NEW c \in Containers, NEW s \in Slots
      PROVE  Linked(v, j)[Body(c, s)] = v[Body(c, s)]
  BY <1>1, LocKinds DEF LinkValue, Body
<1>4. ASSUME NEW c \in Containers, NEW s \in Slots
      PROVE  Linked(v, j)[Ref(c, s)] =
                    IF PatchesAt(j, c, s) # {} THEN NewTarget(j, c, s) ELSE v[Ref(c, s)]
  BY <1>1, LocKinds DEF LinkValue, Ref, NewTarget
<1>5. ASSUME NEW b \in Boots
      PROVE  /\ Linked(v, j)[RootField(b)] =
                    IF j.rootNew # j.rootOld THEN j.rootNew ELSE v[RootField(b)]
             /\ Linked(v, j)[Hint(b)] = v[Hint(b)]
  BY <1>1, LocKinds DEF LinkValue, RootField, Hint
<1>. QED BY <1>2, <1>3, <1>4, <1>5

\* Which locations of each kind the three groups of writes may touch.
LEMMA WrittenAt ==
  ASSUME NEW j
  PROVE  /\ \A k \in Copies, c \in Clusters :
              FatEntry(k, c) \in Written(j) <=> \/ c \in Destinations(j.moves) \cup DOMAIN j.moves
                                                \/ ExternalPredecessor(j, c)
         /\ \A c \in Containers, s \in Slots :
              /\ Body(c, s) \in Written(j) <=> c \in Destinations(j.moves)
              /\ Ref(c, s) \in Written(j) <=> \/ c \in Destinations(j.moves)
                                              \/ PatchesAt(j, c, s) # {}
         /\ \A b \in Boots : /\ RootField(b) \in Written(j) <=> j.rootNew # j.rootOld
                             /\ Hint(b) \in Written(j) <=> FatBits = 32
<1>1. ASSUME NEW k \in Copies, NEW c \in Clusters
      PROVE  FatEntry(k, c) \in Written(j) <=> \/ c \in Destinations(j.moves) \cup DOMAIN j.moves
                                                \/ ExternalPredecessor(j, c)
  BY LocKinds DEF Written, FatEntry
<1>2. ASSUME NEW c \in Containers, NEW s \in Slots
      PROVE  Body(c, s) \in Written(j) <=> c \in Destinations(j.moves)
  BY LocKinds DEF Written, Body
<1>3. ASSUME NEW c \in Containers, NEW s \in Slots
      PROVE  Ref(c, s) \in Written(j) <=> \/ c \in Destinations(j.moves)
                                          \/ PatchesAt(j, c, s) # {}
  BY LocKinds DEF Written, Ref
<1>4. ASSUME NEW b \in Boots
      PROVE  /\ RootField(b) \in Written(j) <=> j.rootNew # j.rootOld
             /\ Hint(b) \in Written(j) <=> FatBits = 32
  BY LocKinds DEF Written, RootField, Hint
<1>. QED BY <1>1, <1>2, <1>3, <1>4

\* A volume is a function on the locations, typed kind by kind.
LEMMA VolumeParts ==
  ASSUME NEW v
  PROVE  v \in Volumes <=>
           /\ v = [l \in Loc |-> v[l]]
           /\ \A k \in Copies, c \in Clusters : v[FatEntry(k, c)] \in FatValues
           /\ \A c \in Containers, s \in Slots : /\ v[Body(c, s)] \in Bodies
                                                 /\ v[Ref(c, s)] \in Clusters \cup {0}
           /\ \A b \in Boots : /\ v[RootField(b)] \in Clusters \cup {0}
                               /\ v[Hint(b)] \in Clusters \cup {0}
<1>1. ASSUME v \in Volumes
      PROVE  /\ v = [l \in Loc |-> v[l]]
             /\ \A k \in Copies, c \in Clusters : v[FatEntry(k, c)] \in FatValues
             /\ \A c \in Containers, s \in Slots : /\ v[Body(c, s)] \in Bodies
                                                   /\ v[Ref(c, s)] \in Clusters \cup {0}
             /\ \A b \in Boots : /\ v[RootField(b)] \in Clusters \cup {0}
                                 /\ v[Hint(b)] \in Clusters \cup {0}
  BY <1>1 DEF Volumes, FatLoc, BodyLoc, RefLoc, BootLoc
<1>2. ASSUME /\ v = [l \in Loc |-> v[l]]
             /\ \A k \in Copies, c \in Clusters : v[FatEntry(k, c)] \in FatValues
             /\ \A c \in Containers, s \in Slots : /\ v[Body(c, s)] \in Bodies
                                                   /\ v[Ref(c, s)] \in Clusters \cup {0}
             /\ \A b \in Boots : /\ v[RootField(b)] \in Clusters \cup {0}
                                 /\ v[Hint(b)] \in Clusters \cup {0}
      PROVE  v \in Volumes
  <2>1. \A l \in FatLoc : v[l] \in FatValues
    BY <1>2 DEF FatLoc
  <2>2. \A l \in BodyLoc : v[l] \in Bodies
    BY <1>2 DEF BodyLoc
  <2>3. \A l \in RefLoc \cup BootLoc : v[l] \in Clusters \cup {0}
    BY <1>2 DEF RefLoc, BootLoc
  <2>4. \A l \in Loc : v[l] \in FatValues \cup Bodies
    BY <2>1, <2>2, <2>3 DEF Loc, FatValues
  <2>5. v \in [Loc -> FatValues \cup Bodies]
    BY <1>2, <2>4
  <2>. QED BY <2>1, <2>2, <2>3, <2>5 DEF Volumes
<1>. QED BY <1>1, <1>2

\* The parts of a journal record are what IsJournal says of them.
LEMMA JournalTyped ==
  ASSUME NEW j, IsJournal(j)
  PROVE  /\ RelocationMap(j.moves)
         /\ DOMAIN j.moves \subseteq Clusters
         /\ Destinations(j.moves) \subseteq Clusters
         /\ \A c \in DOMAIN j.moves : /\ j.moves[c] \in Clusters
                                      /\ j.next[c] \in FatValues
                                      /\ j.predecessor[c] \in Clusters \cup {0}
         /\ j.patches \subseteq Containers \X Slots \X Clusters
         /\ j.rootNew \in Clusters \cup {0}
         /\ \A p \in j.patches : p[1] \notin DOMAIN j.moves
<1>. DEFINE S == DOMAIN j.moves
<1>. S \subseteq Clusters
      /\ j \in [moves : [S -> Clusters], next : [S -> FatValues],
               predecessor : [S -> Clusters \cup {0}],
               patches : SUBSET (Containers \X Slots \X Clusters),
               rootOld : Clusters \cup {0}, rootNew : Clusters \cup {0}]
  BY DEF IsJournal
<1>. QED BY DEF IsJournal, Destinations, Sources

\* Copying cluster bodies leaves a volume.
LEMMA CopiedTyped ==
  ASSUME NEW v \in Volumes, NEW j, IsJournal(j)
  PROVE  Copied(v, j) \in Volumes
<1>1. Copied(v, j) = [l \in Loc |-> Copied(v, j)[l]]
  BY DEF Copied
<1>2. \A d \in Destinations(j.moves) : SourceOf(j.moves, d) \in Containers
  BY JournalTyped, SourceOfDestination DEF Containers
<1>. QED BY <1>1, <1>2, CopiedAt, VolumeParts

\* Writing links, first clusters and the root leaves a volume.
LEMMA LinkedTyped ==
  ASSUME NEW v \in Volumes, NEW j, IsJournal(j)
  PROVE  Linked(v, j) \in Volumes
<1>1. Linked(v, j) = [l \in Loc |-> Linked(v, j)[l]]
  BY DEF Linked
<1>2. \A d \in Destinations(j.moves) : NewNext(j, d) \in FatValues
  BY JournalTyped, SourceOfDestination DEF NewNext, Mapped, FatValues
<1>3. \A p : ExternalPredecessor(j, p) => NewSuccessor(j, p) \in FatValues
  BY JournalTyped DEF ExternalPredecessor, NewSuccessor, Rechained, FatValues
<1>4. \A c, s : PatchesAt(j, c, s) # {} => NewTarget(j, c, s) \in Clusters
  BY JournalTyped DEF PatchesAt, NewTarget
<1>. QED BY <1>1, <1>2, <1>3, <1>4, LinkedAt, VolumeParts, JournalTyped

\* The hint is the lowest of a non-empty finite set of clusters.
LEMMA LowestSourceTyped ==
  ASSUME NEW j, IsJournal(j)
  PROVE  LowestSource(j) \in Clusters
<1>. DEFINE Less == OpToRel(<, Nat)
<1>1. DOMAIN j.moves # {} /\ DOMAIN j.moves \subseteq Nat /\ DOMAIN j.moves \subseteq Clusters
  BY JournalTyped, ClusterNumbers DEF RelocationMap
<1>2. \A x, y \in Nat : <<x, y>> \in Less <=> x < y
  BY DEF OpToRel
<1>3. IsWellFoundedOn(Less, Nat)
  BY NatLessThanWellFounded
<1>. HIDE DEF Less
<1>4. PICK c \in DOMAIN j.moves : \A d \in DOMAIN j.moves : ~ (<<d, c>> \in Less)
  BY <1>1, <1>3, WFMin
<1>5. ASSUME NEW d \in DOMAIN j.moves
      PROVE  c <= d
  <2>1. c \in Nat /\ d \in Nat
    BY <1>1
  <2>2. ~ (d < c)
    BY <1>2, <1>4, <2>1
  <2>. QED BY <2>1, <2>2
<1>. QED BY <1>1, <1>5 DEF LowestSource

\* Freeing sources leaves a volume.
LEMMA FreedTyped ==
  ASSUME NEW v \in Volumes, NEW j, IsJournal(j)
  PROVE  Freed(v, j) \in Volumes
<1>1. Freed(v, j) = [l \in Loc |-> Freed(v, j)[l]]
  BY DEF Freed
<1>. QED BY <1>1, FreedAt, VolumeParts, LowestSourceTyped DEF FatValues

\* A volume of which some writes were lost is still a volume.
LEMMA MixTyped ==
  ASSUME NEW v \in Volumes, NEW w \in Volumes, NEW kept
  PROVE  Mix(v, w, kept) \in Volumes
<1>1. Mix(v, w, kept) = [l \in Loc |-> Mix(v, w, kept)[l]]
  BY DEF Mix
<1>2. \A l \in Loc : Mix(v, w, kept)[l] \in {v[l], w[l]}
  BY DEF Mix
<1>. QED BY <1>1, <1>2, LocKinds, VolumeParts

\* What a transaction reads it never writes: the clusters it copies from.
LEMMA SourcesUnwritten ==
  ASSUME NEW j, IsJournal(j), NEW d \in Destinations(j.moves), NEW s \in Slots
  PROVE  LET c == SourceOf(j.moves, d) IN
           /\ c \in Containers /\ c \notin Destinations(j.moves)
           /\ Body(c, s) \in Loc \ Written(j)
           /\ Ref(c, s) \in Loc \ Written(j)
<1>. DEFINE c == SourceOf(j.moves, d)
<1>1. c \in DOMAIN j.moves /\ c \in Containers
  BY SourceOfDestination, JournalTyped DEF Containers
<1>2. c \notin Destinations(j.moves)
  BY <1>1, JournalTyped DEF RelocationMap, Sources
<1>3. PatchesAt(j, c, s) = {}
  BY <1>1, JournalTyped DEF PatchesAt
<1>. QED BY <1>1, <1>2, <1>3, WrittenAt, LocKinds

\* The heart of recovery: finishing a transaction gives the same volume from
\* any two volumes that agree outside the locations it writes, so it does
\* not matter which of its writes a crash kept, lost or tore.
LEMMA RedoAgree ==
  ASSUME NEW v \in Volumes, NEW w \in Volumes, NEW j, IsJournal(j), Agree(v, w, j)
  PROVE  Redo(v, j) = Redo(w, j)
<1>. DEFINE cv == Copied(v, j)
            cw == Copied(w, j)
            lv == Linked(cv, j)
            lw == Linked(cw, j)
<1>1. cv \in Volumes /\ cw \in Volumes /\ lv \in Volumes /\ lw \in Volumes
  BY CopiedTyped, LinkedTyped
<1>2. ASSUME NEW c \in Containers, NEW s \in Slots
      PROVE  /\ cv[Body(c, s)] = cw[Body(c, s)]
             /\ PatchesAt(j, c, s) = {} => cv[Ref(c, s)] = cw[Ref(c, s)]
  <2>1. CASE c \in Destinations(j.moves)
    BY <2>1, CopiedAt, SourcesUnwritten DEF Agree
  <2>2. CASE c \notin Destinations(j.moves)
    BY <2>2, CopiedAt, WrittenAt, LocKinds DEF Agree
  <2>. QED BY <2>1, <2>2
<1>3. ASSUME NEW k \in Copies, NEW c \in Clusters
      PROVE  Redo(v, j)[FatEntry(k, c)] = Redo(w, j)[FatEntry(k, c)]
  <2>1. CASE FatEntry(k, c) \in Written(j)
    BY <2>1, <1>1, FreedAt, LinkedAt, WrittenAt DEF Redo
  <2>2. CASE FatEntry(k, c) \notin Written(j)
    <3>1. v[FatEntry(k, c)] = w[FatEntry(k, c)]
      BY <2>2, LocKinds DEF Agree
    <3>2. cv[FatEntry(k, c)] = cw[FatEntry(k, c)]
      BY <3>1, CopiedAt
    <3>. QED BY <3>2, <1>1, FreedAt, LinkedAt DEF Redo
  <2>. QED BY <2>1, <2>2
<1>4. ASSUME NEW c \in Containers, NEW s \in Slots
      PROVE  /\ Redo(v, j)[Body(c, s)] = Redo(w, j)[Body(c, s)]
             /\ Redo(v, j)[Ref(c, s)] = Redo(w, j)[Ref(c, s)]
  BY <1>1, <1>2, FreedAt, LinkedAt DEF Redo
<1>5. ASSUME NEW b \in Boots
      PROVE  /\ Redo(v, j)[RootField(b)] = Redo(w, j)[RootField(b)]
             /\ Redo(v, j)[Hint(b)] = Redo(w, j)[Hint(b)]
  <2>1. /\ RootField(b) \notin Written(j) => v[RootField(b)] = w[RootField(b)]
        /\ Hint(b) \notin Written(j) => v[Hint(b)] = w[Hint(b)]
    BY LocKinds DEF Agree
  <2>. QED BY <2>1, <1>1, CopiedAt, FreedAt, LinkedAt, WrittenAt DEF Redo
<1>6. \A l \in Loc : Redo(v, j)[l] = Redo(w, j)[l]
  BY <1>3, <1>4, <1>5, LocCases
<1>. QED BY <1>6 DEF Redo, Freed

\* Each group of writes stays inside Written(j).
LEMMA WritesWritten ==
  ASSUME NEW v \in Volumes, NEW j, IsJournal(j)
  PROVE  /\ Agree(Copied(v, j), v, j)
         /\ Agree(Linked(v, j), v, j)
         /\ Agree(Freed(v, j), v, j)
<1>1. ASSUME NEW l \in Loc \ Written(j)
      PROVE  Copied(v, j)[l] = v[l]
  BY LocCases, CopiedAt, WrittenAt
<1>2. ASSUME NEW l \in Loc \ Written(j)
      PROVE  Linked(v, j)[l] = v[l]
  BY LocCases, LinkedAt, WrittenAt
<1>3. ASSUME NEW l \in Loc \ Written(j)
      PROVE  Freed(v, j)[l] = v[l]
  BY LocCases, FreedAt, WrittenAt
<1>. QED BY <1>1, <1>2, <1>3 DEF Agree

\* Losing some of a transaction's writes touches only what it writes.
LEMMA MixAgree ==
  ASSUME NEW v, NEW w, NEW j, NEW kept, Agree(v, w, j)
  PROVE  Agree(Mix(v, w, kept), w, j) /\ Agree(w, Mix(v, w, kept), j)
BY DEF Agree, Mix

\* Agreement outside a transaction's writes is symmetric and transitive.
LEMMA AgreeEquivalence ==
  ASSUME NEW u, NEW v, NEW w, NEW j, Agree(u, v, j)
  PROVE  Agree(v, u, j) /\ (Agree(v, w, j) => Agree(u, w, j))
BY DEF Agree

\* Copying twice is copying once: no source is a destination.
LEMMA CopiedTwice ==
  ASSUME NEW v \in Volumes, NEW j, IsJournal(j)
  PROVE  Copied(Copied(v, j), j) = Copied(v, j)
<1>. DEFINE cv == Copied(v, j)
<1>1. cv \in Volumes
  BY CopiedTyped
<1>2. ASSUME NEW c \in Containers, NEW s \in Slots
      PROVE  /\ Copied(cv, j)[Body(c, s)] = cv[Body(c, s)]
             /\ Copied(cv, j)[Ref(c, s)] = cv[Ref(c, s)]
  <2>1. CASE c \in Destinations(j.moves)
    BY <2>1, <1>1, CopiedAt, SourcesUnwritten
  <2>2. CASE c \notin Destinations(j.moves)
    BY <2>2, <1>1, CopiedAt
  <2>. QED BY <2>1, <2>2
<1>3. \A l \in Loc : Copied(cv, j)[l] = cv[l]
  BY <1>1, <1>2, CopiedAt, LocCases
<1>. QED BY <1>3 DEF Copied

\* A record of valid moves is a journal the engine can finish.
LEMMA MakeJournalTyped ==
  ASSUME NEW v \in Volumes, NEW S \in SUBSET Allocated(v), NEW m \in [S -> Free(v)],
         ValidMoves(v, m)
  PROVE  IsJournal(MakeJournal(v, m))
<1>1. RelocationMap(m) /\ S \subseteq Clusters /\ m \in [S -> Clusters]
  BY DEF ValidMoves, Allocated, Free
<1>2. \A c \in Clusters : FatValue(v, c) \in FatValues
  BY VolumeParts, ActiveCopy DEF FatValue
<1>3. [c \in DOMAIN m |-> FatValue(v, c)] \in [S -> FatValues]
  BY <1>1, <1>2
<1>4. [c \in DOMAIN m |-> Predecessor(v, c)] \in [S -> Clusters \cup {0}]
  BY <1>1 DEF Predecessor, Predecessors
<1>5. RootCluster(v) \in Clusters \cup {0} /\ Mapped(m, RootCluster(v)) \in Clusters \cup {0}
  BY <1>1, VolumeParts, PrimaryCopy DEF RootCluster, Mapped
<1>6. ASSUME NEW p \in DirPatches(v, m)
      PROVE  p \in Containers \X Slots \X Clusters /\ p[1] \notin Sources(m)
  <2>1. PICK r \in DirRefs(v) : /\ v[Ref(r[1], r[2])] \in DOMAIN m
                                /\ p = <<Mapped(m, r[1]), r[2], m[v[Ref(r[1], r[2])]]>>
    BY DEF DirPatches
  <2>2. r[1] \in Containers /\ r[2] \in Slots
    BY DEF DirRefs
  <2>3. m[v[Ref(r[1], r[2])]] \in Clusters
    BY <1>1, <2>1
  <2>4. Mapped(m, r[1]) \in Containers /\ Mapped(m, r[1]) \notin Sources(m)
    BY <1>1, <2>2 DEF Mapped, RelocationMap, Sources, Destinations, Containers
  <2>. QED BY <2>1, <2>2, <2>3, <2>4
<1>7. MakeJournal(v, m) \in [moves : [S -> Clusters], next : [S -> FatValues],
               predecessor : [S -> Clusters \cup {0}],
               patches : SUBSET (Containers \X Slots \X Clusters),
               rootOld : Clusters \cup {0}, rootNew : Clusters \cup {0}]
  BY <1>1, <1>3, <1>4, <1>5, <1>6 DEF MakeJournal
<1>. QED BY <1>1, <1>6, <1>7 DEF IsJournal, MakeJournal

-----------------------------------------------------------------------------
(* The inductive invariant.                                                *)

\* Cache and disk differ only where the pending transaction writes.
Consistent ==
    /\ pc = "ready" => journal = NoJournal
    /\ pc \notin {"down", "ready"} => journal # NoJournal
    /\ journal = NoJournal => cache = disk
    /\ journal # NoJournal => Agree(cache, disk, journal)

\* What each durable point of complete_relocation_journal has achieved.
Progress ==
    /\ pc = "syncCopy" => Copied(cache, journal) = cache
    /\ pc \in {"recordCopied", "link"} => cache = disk /\ Copied(disk, journal) = disk
    /\ pc = "syncLink" => Freed(cache, journal) = Redo(cache, journal)
    /\ pc \in {"recordSwitched", "free"} =>
          cache = disk /\ Freed(disk, journal) = Redo(disk, journal)
    /\ pc = "syncFree" => cache = Redo(cache, journal)
    /\ pc \in {"recordFreed", "remove"} => cache = disk /\ disk = Redo(disk, journal)

IInv == TypeOK /\ Consistent /\ Progress

\* An absent journal is not a record.
LEMMA NoJournalIsNone == ~ IsJournal(NoJournal)
<1>1. NoJournal.moves = << >> /\ DOMAIN << >> = {}
  BY DEF NoJournal
<1>. QED BY <1>1 DEF IsJournal, RelocationMap

\* The invariant holds before the first command.
LEMMA InitIInv == Init => IInv
<1>. SUFFICES ASSUME Init PROVE IInv
  OBVIOUS
<1>1. TypeOK
  BY InitialSound, Bounds DEF Init, TypeOK, Stages, PcValues
<1>2. Consistent /\ Progress
  BY DEF Init, Consistent, Progress
<1>. QED BY <1>1, <1>2 DEF IInv

\* Every step of the worker and every fault keeps the invariant.
LEMMA StepIInv == IInv /\ [Next]_vars => IInv'
<1>. SUFFICES ASSUME IInv, [Next]_vars PROVE IInv'
  OBVIOUS
<1>. USE DEF IInv
<1>1. CASE UNCHANGED vars
  BY <1>1 DEF vars, TypeOK, Consistent, Progress
<1>2. CASE StartDefrag
  BY <1>2 DEF StartDefrag, TypeOK, PcValues, Consistent, Progress
<1>3. CASE StartRecover
  BY <1>3 DEF StartRecover, TypeOK, PcValues, Consistent, Progress
<1>4. CASE Prepare
  <2>1. PICK S \in SUBSET Allocated(cache) : \E m \in [S -> Free(cache)] :
            ValidMoves(cache, m) /\ journal' = MakeJournal(cache, m)
    BY <1>4 DEF Prepare
  <2>2. IsJournal(journal')
    BY <2>1, MakeJournalTyped DEF TypeOK
  <2>3. cache' = disk' /\ pc' = "copy"
    BY <1>4 DEF Prepare, Consistent
  <2>4. TypeOK'
    BY <1>4, <2>2, Bounds DEF Prepare, TypeOK, PcValues, Stages
  <2>5. Consistent'
    BY <2>2, <2>3, NoJournalIsNone DEF Consistent, Agree
  <2>. QED BY <2>3, <2>4, <2>5 DEF Progress
<1>5. CASE CopyClusters
  <2>1. IsJournal(journal) /\ Agree(cache, disk, journal)
    BY <1>5 DEF CopyClusters, Write, TypeOK, Consistent
  <2>2. cache' \in Volumes /\ Agree(cache', cache, journal) /\ Copied(cache', journal) = cache'
    BY <1>5, <2>1, CopiedTyped, WritesWritten, CopiedTwice DEF CopyClusters, Write, TypeOK
  <2>3. Agree(cache', disk, journal)
    BY <2>1, <2>2, AgreeEquivalence
  <2>. QED BY <1>5, <2>2, <2>3 DEF CopyClusters, Write, TypeOK, PcValues, Consistent, Progress
<1>6. CASE LinkMetadata
  <2>1. IsJournal(journal) /\ cache = disk /\ Copied(cache, journal) = cache
    BY <1>6 DEF LinkMetadata, Write, TypeOK, Consistent, Progress
  <2>2. cache' \in Volumes /\ Agree(cache', cache, journal)
    BY <1>6, <2>1, LinkedTyped, WritesWritten DEF LinkMetadata, Write, TypeOK
  <2>3. Redo(cache', journal) = Redo(cache, journal)
    BY <2>1, <2>2, RedoAgree DEF TypeOK
  <2>4. Redo(cache, journal) = Freed(cache', journal)
    BY <1>6, <2>1 DEF Redo, LinkMetadata, Write
  <2>. QED BY <1>6, <2>1, <2>2, <2>3, <2>4
           DEF LinkMetadata, Write, TypeOK, PcValues, Consistent, Progress
<1>7. CASE FreeSources
  <2>1. IsJournal(journal) /\ cache = disk /\ Freed(cache, journal) = Redo(cache, journal)
    BY <1>7 DEF FreeSources, Write, TypeOK, Consistent, Progress
  <2>2. cache' \in Volumes /\ Agree(cache', cache, journal)
    BY <1>7, <2>1, FreedTyped, WritesWritten DEF FreeSources, Write, TypeOK
  <2>3. Redo(cache', journal) = Redo(cache, journal)
    BY <2>1, <2>2, RedoAgree DEF TypeOK
  <2>. QED BY <1>7, <2>1, <2>2, <2>3
           DEF FreeSources, Write, TypeOK, PcValues, Consistent, Progress
<1>8. CASE SyncCopy \/ SyncLink \/ SyncFree
  <2>1. disk' = cache /\ UNCHANGED <<cache, journal, stage, mode, transactions, faults>>
    BY <1>8 DEF SyncCopy, SyncLink, SyncFree, Sync
  <2>2. Consistent'
    BY <1>8, <2>1 DEF SyncCopy, SyncLink, SyncFree, Sync, Consistent, Agree
  <2>. QED BY <1>8, <2>1, <2>2 DEF SyncCopy, SyncLink, SyncFree, Sync, TypeOK, PcValues, Progress
<1>9. CASE RecordCopied \/ RecordSwitched \/ RecordFreed
  BY <1>9 DEF RecordCopied, RecordSwitched, RecordFreed, Record, TypeOK, PcValues, Stages,
              Consistent, Progress
<1>10. CASE RemoveJournal
  BY <1>10 DEF RemoveJournal, TypeOK, PcValues, Consistent, Progress
<1>11. CASE Exit
  BY <1>11 DEF Exit, TypeOK, PcValues, Consistent, Progress
<1>12. CASE Die
  <2>1. IsJournal(journal) /\ Agree(cache, disk, journal)
    BY <1>12 DEF Die, TypeOK, Consistent
  <2>. DEFINE new == CASE pc = "copy" -> Copied(cache, journal)
                       [] pc = "link" -> Linked(cache, journal)
                       [] pc = "free" -> Freed(cache, journal)
                       [] OTHER -> cache
  <2>2. new \in Volumes /\ Agree(new, cache, journal)
    BY <2>1, CopiedTyped, LinkedTyped, FreedTyped, WritesWritten DEF TypeOK, Agree
  <2>3. PICK kept : cache' = Mix(new, cache, kept)
    BY <1>12 DEF Die
  <2>. HIDE DEF new
  <2>4. cache' \in Volumes /\ Agree(cache', disk, journal)
    BY <2>1, <2>2, <2>3, MixTyped, MixAgree, AgreeEquivalence DEF TypeOK
  <2>. QED BY <1>12, <2>4, Bounds DEF Die, Fault, TypeOK, PcValues, Consistent, Progress
<1>13. CASE PowerLoss
  <2>1. PICK kept \in SUBSET Differing(cache, disk) : disk' = Mix(cache, disk, kept)
    BY <1>13 DEF PowerLoss
  <2>2. disk' \in Volumes
    BY <2>1, MixTyped DEF TypeOK
  <2>. QED BY <1>13, <2>2, Bounds
           DEF PowerLoss, Fault, TypeOK, PcValues, Consistent, Progress, Agree
<1>. QED BY <1>1, <1>2, <1>3, <1>4, <1>5, <1>6, <1>7, <1>8, <1>9, <1>10, <1>11, <1>12, <1>13
         DEF Next, Work

-----------------------------------------------------------------------------
(* A finished transaction renames clusters.                                *)

\* build_predecessor_table finds the only link that leads to a cluster.
LEMMA PredecessorLinks ==
  ASSUME NEW v \in Volumes, NEW c \in Clusters, NEW p \in Clusters
  PROVE  /\ Predecessor(v, c) = p => FatValue(v, p) = c
         /\ UniquePredecessors(v) /\ FatValue(v, p) = c => Predecessor(v, c) = p
<1>1. 0 \notin Clusters
  BY ClusterNumbers
<1>2. CASE Predecessors(v, c) = {}
  BY <1>1, <1>2 DEF Predecessor, Predecessors
<1>3. CASE Predecessors(v, c) # {}
  <2>1. Predecessor(v, c) \in Predecessors(v, c)
    BY <1>3 DEF Predecessor
  <2>2. Predecessor(v, c) \in Clusters /\ FatValue(v, Predecessor(v, c)) = c
    BY <2>1 DEF Predecessors
  <2>. QED BY <2>2 DEF UniquePredecessors
<1>. QED BY <1>2, <1>3

\* The renaming is one-to-one on what lives: destinations were free.
LEMMA MappedInjective ==
  ASSUME NEW v \in Volumes, NEW m, RelocationMap(m), Offered(v, m),
         NEW c \in Live(v), NEW d \in Live(v), Mapped(m, c) = Mapped(m, d)
  PROVE  c = d
<1>1. \A x \in DOMAIN m : m[x] \notin Live(v)
  BY ClusterNumbers DEF Offered, Destinations, Free, Live, Allocated, RelocationMap
<1>. QED BY <1>1 DEF Mapped, RelocationMap

\* Finishing the record of an accepted move map renames the moved clusters
\* everywhere and changes nothing else the volume means.
LEMMA RedoRenames ==
  ASSUME NEW v \in Volumes, Sound(v), NEW m, ValidMoves(v, m),
         IsJournal(MakeJournal(v, m))
  PROVE  Renamed(v, Redo(v, MakeJournal(v, m)), m)
<1>. DEFINE j == MakeJournal(v, m)
            cv == Copied(v, j)
            lv == Linked(cv, j)
            w == Redo(v, j)
<1>1. /\ j.moves = m
      /\ j.next = [c \in DOMAIN m |-> FatValue(v, c)]
      /\ j.predecessor = [c \in DOMAIN m |-> Predecessor(v, c)]
      /\ j.patches = DirPatches(v, m)
      /\ j.rootOld = RootCluster(v)
      /\ j.rootNew = Mapped(m, RootCluster(v))
  BY DEF MakeJournal
<1>2. IsJournal(j) /\ cv \in Volumes /\ lv \in Volumes /\ w = Freed(lv, j)
  BY CopiedTyped, LinkedTyped DEF Redo
<1>. HIDE DEF j, cv, lv, w
<1>3. /\ RelocationMap(m) /\ Offered(v, m) /\ UniquePredecessors(v)
      /\ DOMAIN m \subseteq Allocated(v) /\ Allocated(v) \subseteq Clusters
      /\ \A x \in DOMAIN m : m[x] \in Destinations(m) /\ m[x] \in Clusters
      /\ \A d \in Destinations(m) : d \in Clusters /\ FatValue(v, d) = 0
      /\ Destinations(m) \cap DOMAIN m = {}
      /\ Destinations(m) \cap Live(v) = {}
  BY ClusterNumbers DEF ValidMoves, Offered, RelocationMap, Sources, Destinations,
                        Free, Allocated, Live
<1>4. \A k \in Copies, c \in Clusters : v[FatEntry(k, c)] = FatValue(v, c)
  BY DEF Sound, MirrorsAgree
\* Which unmoved clusters are relinked, and to what.
<1>5. ASSUME NEW c \in Clusters, c \notin DOMAIN m
      PROVE  /\ ExternalPredecessor(j, c) <=> FatValue(v, c) \in DOMAIN m
             /\ FatValue(v, c) \in DOMAIN m => NewSuccessor(j, c) = m[FatValue(v, c)]
  <2>1. \A x \in DOMAIN m : x \in Rechained(j, c) <=> FatValue(v, c) = x
    BY <1>1, <1>3, PredecessorLinks DEF Rechained
  <2>2. Rechained(j, c) \subseteq DOMAIN m
    BY <1>1 DEF Rechained
  <2>. QED BY <1>1, <1>5, <2>1, <2>2 DEF ExternalPredecessor, NewSuccessor
<1>6. ASSUME NEW k \in Copies, NEW c \in Allocated(v)
      PROVE  w[FatEntry(k, Mapped(m, c))] = Mapped(m, v[FatEntry(k, c)])
  <2>1. CASE c \in DOMAIN m
    <3>1. Mapped(m, c) = m[c] /\ m[c] \in Clusters /\ m[c] \in Destinations(j.moves)
             /\ m[c] \notin DOMAIN j.moves
      BY <1>1, <1>3, <2>1 DEF Mapped
    <3>2. w[FatEntry(k, m[c])] = NewNext(j, m[c])
      BY <1>2, <3>1, FreedAt, LinkedAt DEF lv
    <3>3. NewNext(j, m[c]) = Mapped(m, FatValue(v, c))
      BY <1>1, <1>3, <2>1, SourceOfUnique DEF NewNext
    <3>. QED BY <1>3, <1>4, <3>1, <3>2, <3>3
  <2>2. CASE c \notin DOMAIN m
    <3>1. Mapped(m, c) = c /\ c \in Clusters /\ c \notin Destinations(j.moves)
             /\ c \notin DOMAIN j.moves
      BY <1>1, <1>3, <2>2 DEF Mapped, Live
    <3>2. w[FatEntry(k, c)] = IF ExternalPredecessor(j, c) THEN NewSuccessor(j, c)
                              ELSE v[FatEntry(k, c)]
      BY <1>2, <3>1, FreedAt, LinkedAt, CopiedAt DEF lv, cv
    <3>. QED BY <1>4, <1>5, <2>2, <3>1, <3>2 DEF Mapped
  <2>. QED BY <2>1, <2>2
<1>7. ASSUME NEW k \in Copies, NEW c \in Clusters \ {Mapped(m, x) : x \in Allocated(v)}
      PROVE  w[FatEntry(k, c)] = IF v[FatEntry(k, c)] = Bad THEN Bad ELSE 0
  <2>1. c \notin Destinations(m)
    BY <1>3 DEF Destinations, Mapped
  <2>2. CASE c \in DOMAIN m
    <3>1. w[FatEntry(k, c)] = 0
      BY <1>1, <1>2, <2>2, FreedAt
    <3>2. v[FatEntry(k, c)] # Bad
      BY <1>3, <1>4, <2>2 DEF Allocated
    <3>. QED BY <3>1, <3>2
  <2>3. CASE c \notin DOMAIN m
    <3>1. c \notin Allocated(v)
      BY <2>3 DEF Mapped
    <3>2. FatValue(v, c) \in {0, Bad} /\ FatValue(v, c) \notin DOMAIN m
      BY <1>3, <3>1, ClusterNumbers DEF Allocated, Bad
    <3>3. w[FatEntry(k, c)] = v[FatEntry(k, c)]
      BY <1>1, <1>2, <1>5, <2>1, <2>3, <3>2, FreedAt, LinkedAt, CopiedAt DEF lv, cv
    <3>. QED BY <1>4, <3>2, <3>3
  <2>. QED BY <2>2, <2>3
<1>8. ASSUME NEW c \in Live(v), NEW s \in Slots
      PROVE  /\ w[Body(Mapped(m, c), s)] = v[Body(c, s)]
             /\ w[Ref(Mapped(m, c), s)] = Mapped(m, v[Ref(c, s)])
  <2>1. c \in Containers /\ Mapped(m, c) \in Containers
    BY <1>3 DEF Live, Containers, Mapped
  <2>2. /\ cv[Body(Mapped(m, c), s)] = v[Body(c, s)]
        /\ cv[Ref(Mapped(m, c), s)] = v[Ref(c, s)]
    <3>1. CASE c \in DOMAIN m
      BY <1>1, <1>2, <1>3, <2>1, <3>1, CopiedAt, SourceOfUnique DEF Mapped, cv
    <3>2. CASE c \notin DOMAIN m
      BY <1>1, <1>2, <1>3, <2>1, <3>2, CopiedAt DEF Mapped, cv
    <3>. QED BY <3>1, <3>2
  <2>3. \A p \in PatchesAt(j, Mapped(m, c), s) :
            v[Ref(c, s)] \in DOMAIN m /\ p[3] = m[v[Ref(c, s)]]
    <3>1. SUFFICES ASSUME NEW p \in PatchesAt(j, Mapped(m, c), s)
                   PROVE  v[Ref(c, s)] \in DOMAIN m /\ p[3] = m[v[Ref(c, s)]]
      OBVIOUS
    <3>2. PICK r \in DirRefs(v) : /\ v[Ref(r[1], r[2])] \in DOMAIN m
                                  /\ p = <<Mapped(m, r[1]), r[2], m[v[Ref(r[1], r[2])]]>>
      BY <1>1 DEF PatchesAt, DirPatches
    <3>3. r[1] \in Live(v) /\ Mapped(m, r[1]) = Mapped(m, c) /\ r[2] = s
      BY <3>2 DEF PatchesAt, DirRefs, Live
    <3>4. r[1] = c
      BY <1>3, <3>3, MappedInjective
    <3>. QED BY <3>2, <3>3, <3>4
  <2>4. v[Ref(c, s)] \in DOMAIN m => PatchesAt(j, Mapped(m, c), s) # {}
    <3>1. SUFFICES ASSUME v[Ref(c, s)] \in DOMAIN m
                   PROVE  PatchesAt(j, Mapped(m, c), s) # {}
      OBVIOUS
    <3>2. v[Ref(c, s)] # 0
      BY <1>3, <3>1, ClusterNumbers
    <3>3. <<c, s>> \in DirRefs(v)
      BY <2>1, <3>2 DEF DirRefs, Live
    <3>4. <<Mapped(m, c), s, m[v[Ref(c, s)]]>> \in DirPatches(v, m)
      BY <3>1, <3>3 DEF DirPatches
    <3>. QED BY <1>1, <3>4 DEF PatchesAt
  <2>5. w[Body(Mapped(m, c), s)] = cv[Body(Mapped(m, c), s)]
    BY <1>2, <2>1, FreedAt, LinkedAt DEF lv
  <2>6. w[Ref(Mapped(m, c), s)] = IF PatchesAt(j, Mapped(m, c), s) # {}
                                  THEN NewTarget(j, Mapped(m, c), s)
                                  ELSE cv[Ref(Mapped(m, c), s)]
    BY <1>2, <2>1, FreedAt, LinkedAt DEF lv
  <2>7. CASE v[Ref(c, s)] \in DOMAIN m
    BY <2>2, <2>3, <2>4, <2>5, <2>6, <2>7 DEF NewTarget, Mapped
  <2>8. CASE v[Ref(c, s)] \notin DOMAIN m
    BY <2>2, <2>3, <2>5, <2>6, <2>8 DEF Mapped
  <2>. QED BY <2>7, <2>8
<1>9. ASSUME NEW b \in Boots
      PROVE  w[RootField(b)] = Mapped(m, v[RootField(b)])
  <2>1. v[RootField(b)] = RootCluster(v)
    BY DEF Sound
  <2>. QED BY <1>1, <1>2, <2>1, FreedAt, LinkedAt, CopiedAt DEF lv, cv
<1>. QED BY <1>6, <1>7, <1>8, <1>9 DEF Renamed, w, j

\* Renaming keeps a sound volume sound, so transaction can follow transaction.
LEMMA RenamedSound ==
  ASSUME NEW v \in Volumes, NEW w \in Volumes, Sound(v), NEW m, ValidMoves(v, m),
         Renamed(v, w, m)
  PROVE  Sound(w)
<1>. DEFINE Moved == {Mapped(m, x) : x \in Allocated(v)}
<1>1. /\ RelocationMap(m) /\ Offered(v, m) /\ UniquePredecessors(v)
      /\ DOMAIN m \subseteq Clusters
      /\ \A x \in DOMAIN m : m[x] \in Clusters
      /\ 0 \notin Clusters /\ Eoc \notin Clusters /\ Bad \notin Clusters
      /\ Eoc # 0 /\ Bad # 0 /\ Eoc # Bad
      /\ Allocated(v) \subseteq Clusters /\ Allocated(w) \subseteq Clusters
  BY ClusterNumbers DEF ValidMoves, RelocationMap, Allocated, Eoc, Bad
<1>2. /\ Mapped(m, 0) = 0 /\ Mapped(m, Eoc) = Eoc
      /\ \A x \in Clusters : Mapped(m, x) \in Clusters
  BY <1>1 DEF Mapped
<1>3. \A k \in Copies, c \in Clusters : v[FatEntry(k, c)] = FatValue(v, c)
  BY DEF Sound, MirrorsAgree
<1>4. \A x \in Allocated(v) : FatValue(v, x) \in Allocated(v) \cup {Eoc}
  BY DEF Sound
<1>5. ASSUME NEW k \in Copies, NEW x \in Allocated(v)
      PROVE  w[FatEntry(k, Mapped(m, x))] = Mapped(m, FatValue(v, x))
  BY <1>1, <1>3 DEF Renamed
<1>6. ASSUME NEW k \in Copies, NEW c \in Clusters \ Moved
      PROVE  w[FatEntry(k, c)] = IF FatValue(v, c) = Bad THEN Bad ELSE 0
  BY <1>3 DEF Renamed
<1>7. Moved \subseteq Clusters
  BY <1>1, <1>2
<1>8. MirrorsAgree(w)
  <2>1. SUFFICES ASSUME NEW k \in Copies, NEW c \in Clusters
                 PROVE  w[FatEntry(k, c)] = w[FatEntry(ActiveFat, c)]
    BY DEF MirrorsAgree, FatValue
  <2>2. CASE c \in Moved
    BY <1>5, <2>2, ActiveCopy
  <2>3. CASE c \notin Moved
    BY <1>6, <2>3, ActiveCopy
  <2>. QED BY <2>2, <2>3
<1>9. \A x \in Allocated(v) : FatValue(w, Mapped(m, x)) = Mapped(m, FatValue(v, x))
  BY <1>5, ActiveCopy DEF FatValue
<1>10. \A c \in Clusters \ Moved : FatValue(w, c) \in {0, Bad}
  BY <1>6, ActiveCopy DEF FatValue
<1>11. Allocated(w) = Moved
  <2>1. \A x \in Allocated(v) : FatValue(w, Mapped(m, x)) \notin {0, Bad}
    <3>1. SUFFICES ASSUME NEW x \in Allocated(v)
                   PROVE  Mapped(m, FatValue(v, x)) \notin {0, Bad}
      BY <1>9
    <3>2. FatValue(v, x) \in Clusters \/ FatValue(v, x) = Eoc
      BY <1>1, <1>4
    <3>3. Mapped(m, FatValue(v, x)) \in Clusters \cup {Eoc}
      BY <1>2, <3>2
    <3>. QED BY <1>1, <3>3
  <2>2. Moved \subseteq Allocated(w)
    BY <1>7, <2>1 DEF Allocated
  <2>3. Allocated(w) \subseteq Moved
    BY <1>10 DEF Allocated
  <2>. QED BY <2>2, <2>3
<1>12. ASSUME NEW x \in Live(v)
       PROVE  Mapped(m, x) \in Live(w)
  BY <1>2, <1>11 DEF Live
<1>13. UniquePredecessors(w)
  <2>1. SUFFICES ASSUME NEW p \in Clusters, NEW q \in Clusters,
                        FatValue(w, p) = FatValue(w, q), FatValue(w, p) \in Clusters
                 PROVE  p = q
    BY DEF UniquePredecessors
  <2>2. p \in Moved /\ q \in Moved
    BY <1>1, <1>10, <2>1
  <2>3. PICK x \in Allocated(v), y \in Allocated(v) : p = Mapped(m, x) /\ q = Mapped(m, y)
    BY <2>2
  <2>4. Mapped(m, FatValue(v, x)) = Mapped(m, FatValue(v, y))
    BY <1>9, <2>1, <2>3
  <2>5. FatValue(v, x) \in Allocated(v) /\ FatValue(v, y) \in Allocated(v)
    BY <1>1, <1>2, <1>4, <1>9, <2>1, <2>3
  <2>6. FatValue(v, x) = FatValue(v, y)
    BY <1>1, <2>4, <2>5, MappedInjective DEF Live
  <2>7. x = y
    BY <1>1, <2>5, <2>6 DEF UniquePredecessors
  <2>. QED BY <2>3, <2>7
<1>14. \A b \in Boots : w[RootField(b)] = Mapped(m, RootCluster(v))
  BY DEF Renamed, Sound
<1>15. (\A b \in Boots : w[RootField(b)] = RootCluster(w)) /\ RootCluster(w) \in Live(w)
  BY <1>12, <1>14, PrimaryCopy DEF RootCluster, Sound
<1>16. \A c \in Allocated(w) : FatValue(w, c) \in Allocated(w) \cup {Eoc}
  <2>1. SUFFICES ASSUME NEW x \in Allocated(v)
                 PROVE  FatValue(w, Mapped(m, x)) \in Allocated(w) \cup {Eoc}
    BY <1>11
  <2>. QED BY <1>2, <1>4, <1>9, <1>11
<1>17. \A c \in Live(w), s \in Slots : w[Ref(c, s)] \in Live(w)
  <2>1. SUFFICES ASSUME NEW c \in Live(w), NEW s \in Slots
                 PROVE  w[Ref(c, s)] \in Live(w)
    OBVIOUS
  <2>2. PICK x \in Live(v) : c = Mapped(m, x)
    BY <1>2, <1>11 DEF Live
  <2>3. w[Ref(c, s)] = Mapped(m, v[Ref(x, s)])
    BY <2>2 DEF Renamed
  <2>4. v[Ref(x, s)] \in Live(v)
    BY DEF Sound
  <2>. QED BY <1>12, <2>3, <2>4
<1>. QED BY <1>8, <1>13, <1>15, <1>16, <1>17 DEF Sound

-----------------------------------------------------------------------------
(* The refinement.                                                         *)

\* Locations outside a transaction's writes are all that finishing depends
\* on, so no step of the process or of a crash changes what is committed.
LEMMA CommittedStable ==
  ASSUME IInv, IInv', [Next]_vars, ~ Prepare
  PROVE  Committed' = Committed
<1>. USE DEF IInv
<1>2. CASE journal' = journal
  <2>1. CASE journal = NoJournal
    <3>1. disk' = disk
      <4>1. CASE PowerLoss
        <5>1. PICK kept : disk' = Mix(cache, disk, kept)
          BY <4>1 DEF PowerLoss
        <5>2. disk' = [l \in Loc |-> disk[l]]
          BY <2>1, <5>1 DEF Consistent, Mix
        <5>. QED BY <5>2, VolumeParts DEF TypeOK
      <4>2. CASE ~ PowerLoss
        BY <2>1, <4>2 DEF vars, Next, Work, Consistent, StartDefrag, StartRecover, Prepare,
           Exit, Die, CopyClusters, LinkMetadata, FreeSources, Write,
           SyncCopy, SyncLink, SyncFree, Sync,
           RecordCopied, RecordSwitched, RecordFreed, Record, RemoveJournal
      <4>. QED BY <4>1, <4>2
    <3>. QED BY <1>2, <2>1, <3>1 DEF Committed
  <2>2. CASE journal # NoJournal
    <3>1. IsJournal(journal) /\ disk \in Volumes /\ cache \in Volumes /\ disk' \in Volumes
      BY <2>2 DEF TypeOK
    <3>2. \/ disk' = disk
          \/ disk' = cache
          \/ \E kept : disk' = Mix(cache, disk, kept)
      BY DEF Next, Work, StartDefrag, StartRecover, Prepare, PowerLoss,
           Exit, Die, CopyClusters, LinkMetadata, FreeSources, Write,
           SyncCopy, SyncLink, SyncFree, Sync,
           RecordCopied, RecordSwitched, RecordFreed, Record, RemoveJournal, vars
    <3>3. Agree(disk', disk, journal)
      BY <2>2, <3>2 DEF Consistent, Agree, Mix
    <3>4. Redo(disk', journal) = Redo(disk, journal)
      BY <3>1, <3>3, RedoAgree
    <3>. QED BY <1>2, <2>2, <3>4 DEF Committed
  <2>. QED BY <2>1, <2>2
<1>3. CASE journal' # journal
  <2>1. RemoveJournal
    BY <1>3 DEF Next, Work, StartDefrag, StartRecover, Prepare, PowerLoss,
           Exit, Die, CopyClusters, LinkMetadata, FreeSources, Write,
           SyncCopy, SyncLink, SyncFree, Sync,
           RecordCopied, RecordSwitched, RecordFreed, Record, vars
  <2>2. journal # NoJournal /\ disk = Redo(disk, journal) /\ disk' = disk /\ journal' = NoJournal
    BY <2>1 DEF RemoveJournal, Consistent, Progress
  <2>. QED BY <2>2 DEF Committed
<1>. QED BY <1>2, <1>3

\* The instance's copies of the operators of FatVolume are those operators.
LEMMA AtomicOperators ==
  /\ Atomic!Volumes = Volumes
  /\ \A v : Atomic!Allocated(v) = Allocated(v) /\ Atomic!Free(v) = Free(v)
  /\ \A v, m : Atomic!ValidMoves(v, m) = ValidMoves(v, m)
  /\ \A v, w, m : Atomic!Renamed(v, w, m) = Renamed(v, w, m)
<1>1. /\ \A k, c : Atomic!FatEntry(k, c) = FatEntry(k, c)
      /\ \A c, s : Atomic!Body(c, s) = Body(c, s) /\ Atomic!Ref(c, s) = Ref(c, s)
      /\ \A b : Atomic!RootField(b) = RootField(b) /\ Atomic!Hint(b) = Hint(b)
      /\ Atomic!Eoc = Eoc /\ Atomic!Bad = Bad
  BY DEF Atomic!FatEntry, Atomic!Body, Atomic!Ref, Atomic!RootField, Atomic!Hint,
         FatEntry, Body, Ref, RootField, Hint, Atomic!Eoc, Eoc, Atomic!Bad, Bad
<1>2. Atomic!FatValues = FatValues /\ Atomic!Containers = Containers
  BY <1>1 DEF Atomic!FatValues, FatValues, Atomic!Containers, Containers
<1>3. Atomic!FatLoc = FatLoc /\ Atomic!BodyLoc = BodyLoc
  BY <1>1, <1>2 DEF Atomic!FatLoc, FatLoc, Atomic!BodyLoc, BodyLoc
<1>4. Atomic!RefLoc = RefLoc /\ Atomic!BootLoc = BootLoc
  BY <1>1, <1>2 DEF Atomic!RefLoc, RefLoc, Atomic!BootLoc, BootLoc
<1>5. Atomic!Loc = Loc
  BY <1>3, <1>4 DEF Atomic!Loc, Loc
<1>6. Atomic!Volumes = Volumes
  BY <1>2, <1>3, <1>4, <1>5 DEF Atomic!Volumes, Volumes
<1>7. \A v : /\ \A c : Atomic!FatValue(v, c) = FatValue(v, c)
            /\ Atomic!RootCluster(v) = RootCluster(v)
  BY <1>1 DEF Atomic!FatValue, FatValue, Atomic!RootCluster, RootCluster
<1>8. \A v : Atomic!Allocated(v) = Allocated(v) /\ Atomic!Free(v) = Free(v)
  BY <1>1, <1>7 DEF Atomic!Allocated, Allocated, Atomic!Free, Free
<1>9. \A m, c : Atomic!Mapped(m, c) = Mapped(m, c)
  BY DEF Atomic!Mapped, Mapped
<1>10. \A v : Atomic!Live(v) = Live(v) /\ Atomic!DirRefs(v) = DirRefs(v)
  BY <1>1, <1>2, <1>8 DEF Atomic!Live, Live, Atomic!DirRefs, DirRefs
<1>11. \A m : Atomic!RelocationMap(m) = RelocationMap(m)
  BY DEF Atomic!RelocationMap, RelocationMap, Atomic!Sources, Sources,
         Atomic!Destinations, Destinations
<1>12. \A v, m : Atomic!Offered(v, m) = Offered(v, m)
  BY <1>8 DEF Atomic!Offered, Offered, Atomic!Sources, Sources,
              Atomic!Destinations, Destinations
<1>13. \A v : Atomic!UniquePredecessors(v) = UniquePredecessors(v)
  BY <1>7 DEF Atomic!UniquePredecessors, UniquePredecessors
<1>14. \A v, c : Atomic!Predecessors(v, c) = Predecessors(v, c)
  BY <1>7 DEF Atomic!Predecessors, Predecessors
<1>15. \A v, m : Atomic!FirstClustersReferenced(v, m) = FirstClustersReferenced(v, m)
  BY <1>1, <1>7, <1>10, <1>14 DEF Atomic!FirstClustersReferenced, FirstClustersReferenced
<1>16. \A v, m : Atomic!ValidMoves(v, m) = ValidMoves(v, m)
  BY <1>11, <1>12, <1>13, <1>15 DEF Atomic!ValidMoves, ValidMoves
<1>17. \A v, w, m : Atomic!Renamed(v, w, m) = Renamed(v, w, m)
  BY <1>1, <1>8, <1>9, <1>10 DEF Atomic!Renamed, Renamed
<1>. QED BY <1>6, <1>8, <1>16, <1>17

\* A new record commits its moves, and at least one cluster changes.
LEMMA PrepareRelocates ==
  ASSUME IInv, IInv', Sound(Committed), Prepare
  PROVE  Atomic!Relocate /\ Sound(Committed')
<1>. USE DEF IInv
<1>0. PICK S \in SUBSET Allocated(cache) : \E m \in [S -> Free(cache)] :
           ValidMoves(cache, m) /\ journal' = MakeJournal(cache, m)
  BY DEF Prepare
<1>1. PICK m \in [S -> Free(cache)] :
           ValidMoves(cache, m) /\ journal' = MakeJournal(cache, m)
  BY <1>0
<1>2. /\ journal = NoJournal /\ Committed = disk /\ cache = disk /\ disk' = disk
      /\ disk \in Volumes
  BY DEF Prepare, Consistent, Committed, TypeOK
<1>3. IsJournal(MakeJournal(disk, m))
  BY <1>1, <1>2, MakeJournalTyped
<1>4. Committed' = Redo(disk, MakeJournal(disk, m))
  BY <1>1, <1>2, <1>3, NoJournalIsNone DEF Committed
<1>5. Committed' \in Volumes
  BY <1>2, <1>3, <1>4, CopiedTyped, LinkedTyped, FreedTyped DEF Redo
<1>6. Renamed(Committed, Committed', m) /\ ValidMoves(Committed, m)
  BY <1>1, <1>2, <1>3, <1>4, RedoRenames
<1>7. Sound(Committed')
  BY <1>2, <1>5, <1>6, RenamedSound
<1>8. Committed' # Committed
  <2>1. PICK c \in DOMAIN m : TRUE
    BY <1>6 DEF ValidMoves, RelocationMap
  <2>2. c \in Allocated(disk) /\ c \in Clusters
    BY <1>1, <1>2 DEF Allocated
  <2>3. c \notin {Mapped(m, x) : x \in Allocated(disk)}
    BY <1>6 DEF ValidMoves, RelocationMap, Sources, Destinations, Mapped
  <2>4. FatValue(Committed', c) = 0
    BY <1>2, <1>6, <2>2, <2>3, ActiveCopy DEF Renamed, FatValue, Allocated
  <2>. QED BY <1>2, <2>2, <2>4 DEF Allocated
<1>9. S \in SUBSET Allocated(Committed) /\ m \in [S -> Free(Committed)]
  BY <1>1, <1>2
<1>. QED BY <1>5, <1>6, <1>7, <1>8, <1>9, AtomicOperators DEF Atomic!Relocate

\* Type correctness of the worker, in every crash and recovery.
THEOREM TypeCorrect == Spec => []TypeOK
<1>1. IInv => TypeOK
  BY DEF IInv
<1>. QED BY <1>1, InitIInv, StepIInv, PTL DEF Spec

\* The kernel's view and the disk differ only where the pending transaction
\* writes, and each durable point has the effect the journal relies on.
THEOREM Invariance == Spec => []IInv
BY InitIInv, StepIInv, PTL DEF Spec

\* Every transaction is atomic and only renames clusters: the refinement
\* Implements, for every volume, move set and number of faults.
THEOREM Refinement == Spec => Implements
<1>. DEFINE SInv == IInv /\ Sound(Committed)
<1>1. Init => SInv /\ Atomic!Init
  BY InitIInv, InitialSound DEF Init, Committed, Atomic!Init
<1>2. SInv /\ [Next]_vars => SInv' /\ [Atomic!Relocate]_Committed
  <2>1. SUFFICES ASSUME SInv, [Next]_vars
                 PROVE  SInv' /\ [Atomic!Relocate]_Committed
    OBVIOUS
  <2>2. IInv'
    BY <2>1, StepIInv
  <2>3. CASE Prepare
    BY <2>1, <2>2, <2>3, PrepareRelocates
  <2>4. CASE ~ Prepare
    <3>1. Committed' = Committed
      BY <2>1, <2>2, <2>4, CommittedStable
    <3>. QED BY <2>1, <2>2, <3>1
  <2>. QED BY <2>3, <2>4
<1>. QED BY <1>1, <1>2, PTL DEF Spec, Implements, Atomic!Spec

-----------------------------------------------------------------------------
(* The contents.                                                           *)

\* Induction on the natural numbers.
NatFacts == INSTANCE FoldInduction WITH Step <- LAMBDA v, op, p, x : p, Inv <- LAMBDA v, op, i, p : TRUE

-----------------------------------------------------------------------------
(* The recursive functions of FatNamespace.                                *)

\* f applies step k times to base.
Iterated(f, D, base, step, k) ==
    f \in [0..k -> D] /\ f[0] = base /\ \A n \in 1..k : f[n] = step[f[n - 1]]

\* A function can be iterated any number of times.
LEMMA Iteration ==
  ASSUME NEW D, NEW base \in D, NEW step \in [D -> D]
  PROVE  \A k \in Nat : \E f : Iterated(f, D, base, step, k)
<1>. DEFINE Iterates(f, k) == Iterated(f, D, base, step, k)
            T == {k \in Nat : \E f : Iterates(f, k)}
<1>1. 0 \in T
  <2>1. Iterates([n \in 0..0 |-> base], 0)
    BY DEF Iterated
  <2>. QED BY <2>1
<1>2. ASSUME NEW k \in Nat, k \in T PROVE k + 1 \in T
  <2>1. PICK f : Iterates(f, k)
    BY <1>2
  <2>. DEFINE g == [n \in 0..(k + 1) |-> IF n = k + 1 THEN step[f[k]] ELSE f[n]]
  <2>2. f[k] \in D /\ step[f[k]] \in D
    BY <2>1 DEF Iterated
  <2>3. \A n \in 0..(k + 1) : g[n] \in D
    BY <2>1, <2>2 DEF Iterated
  <2>4. \A n \in 1..(k + 1) : g[n] = step[g[n - 1]]
    <3>1. SUFFICES ASSUME NEW n \in 1..(k + 1) PROVE g[n] = step[g[n - 1]]
      OBVIOUS
    <3>2. g[n - 1] = f[n - 1]
      OBVIOUS
    <3>. QED BY <2>1, <3>2 DEF Iterated
  <2>5. Iterates(g, k + 1)
    BY <2>1, <2>3, <2>4 DEF Iterated
  <2>. HIDE DEF g, Iterates
  <2>. QED BY <2>5
<1>3. Nat \subseteq T
  <2>1. \A k \in Nat : k \in T => k + 1 \in T
    BY <1>2
  <2>. HIDE DEF T
  <2>. QED BY <1>1, <2>1, NatFacts!NatInduct
<1>. QED BY <1>3

\* The longest chain.
K == Cardinality(Clusters)

\* There are a natural number of clusters, and their numbers are not marks.
LEMMA Numbers ==
  /\ K \in Nat
  /\ 0 \notin Clusters /\ Eoc \notin Clusters /\ Bad \notin Clusters
  /\ Eoc # 0 /\ Bad # 0 /\ Eoc # Bad
BY FiniteClusters, FS_CardinalityType, ClusterNumbers DEF K, Eoc, Bad

\* A chain with one more link is a chain.
LEMMA FollowTyped ==
  ASSUME NEW v, NEW s \in Seq(Clusters) PROVE Follow(v, s) \in Seq(Clusters)
BY DEF Follow

Walks(v, first, walk) ==
    /\ walk \in [0..K -> Seq(Clusters)]
    /\ walk[0] = <<first>>
    /\ \A n \in 1..K : walk[n] = Follow(v, walk[n - 1])
    /\ Chain(v, first) = walk[K]

\* A chain is its first cluster with as many links as there are clusters.
LEMMA ChainWalks ==
  ASSUME NEW v, NEW first \in Clusters
  PROVE  \E walk : Walks(v, first, walk)
<1>. DEFINE IsWalk(w) == w = [n \in 0..K |-> IF n = 0 THEN <<first>> ELSE Follow(v, w[n - 1])]
            step == [s \in Seq(Clusters) |-> Follow(v, s)]
<1>1. K \in Nat
  BY Numbers
<1>2. step \in [Seq(Clusters) -> Seq(Clusters)] /\ <<first>> \in Seq(Clusters)
  BY FollowTyped
<1>3. PICK f \in [0..K -> Seq(Clusters)] : f[0] = <<first>> /\ \A n \in 1..K : f[n] = step[f[n - 1]]
  <2>. DEFINE D == Seq(Clusters)
              base == <<first>>
  <2>1. base \in D /\ step \in [D -> D]
    BY <1>2
  <2>. HIDE DEF step, D, base
  <2>2. PICK f : Iterated(f, D, base, step, K)
    BY <1>1, <2>1, Iteration
  <2>. QED BY <2>2 DEF D, base, Iterated
<1>4. \A n \in 1..K : n - 1 \in 0..K /\ f[n] = Follow(v, f[n - 1])
  <2>1. \A n \in 1..K : n - 1 \in 0..K
    BY <1>1
  <2>2. \A n \in 1..K : f[n - 1] \in Seq(Clusters)
    BY <1>3, <2>1
  <2>3. \A s \in Seq(Clusters) : step[s] = Follow(v, s)
    OBVIOUS
  <2>. HIDE DEF step
  <2>. QED BY <1>3, <2>1, <2>2, <2>3
<1>5. IsWalk(f)
  <2>1. f = [n \in 0..K |-> f[n]]
    BY <1>3
  <2>2. \A n \in 0..K : f[n] = IF n = 0 THEN <<first>> ELSE Follow(v, f[n - 1])
    <3>1. \A n \in 0..K : n = 0 \/ n \in 1..K
      BY <1>1
    <3>. QED BY <1>3, <1>4, <3>1
  <2>. QED BY <2>1, <2>2
<1>. DEFINE walk == CHOOSE w : IsWalk(w)
<1>6. IsWalk(walk)
  BY <1>5
<1>7. Chain(v, first) = walk[K]
  BY DEF Chain, K
<1>. HIDE DEF walk
<1>8. /\ walk[0] = <<first>>
      /\ \A n \in 1..K : walk[n] = Follow(v, walk[n - 1])
  <2>1. \A n \in 0..K : walk[n] = IF n = 0 THEN <<first>> ELSE Follow(v, walk[n - 1])
    BY <1>6
  <2>2. 0 \in 0..K /\ \A n \in 1..K : n \in 0..K /\ n # 0
    BY <1>1
  <2>. HIDE DEF IsWalk
  <2>. QED BY <2>1, <2>2
<1>. HIDE DEF IsWalk
<1>. DEFINE T == {n \in Nat : n <= K => walk[n] = f[n]}
<1>9. \A n \in Nat : n \in T
  <2>1. 0 \in T
    BY <1>3, <1>8
  <2>2. \A n \in Nat : n \in T => n + 1 \in T
    <3>1. SUFFICES ASSUME NEW n \in Nat, n \in T, n + 1 <= K PROVE walk[n + 1] = f[n + 1]
      OBVIOUS
    <3>2. n + 1 \in 1..K /\ (n + 1) - 1 = n
      BY <1>1, <3>1
    <3>3. walk[n] = f[n]
      BY <1>1, <3>1
    <3>. QED BY <1>4, <1>8, <3>2, <3>3
  <2>. HIDE DEF T
  <2>. QED BY <2>1, <2>2, NatFacts!NatInduct
<1>10. \A n \in 0..K : f[n] \in Seq(Clusters) /\ walk[n] = f[n]
  <2>1. \A n \in 0..K : n \in Nat /\ n <= K
    BY <1>1
  <2>2. \A n \in 0..K : walk[n] = f[n]
    BY <1>9, <2>1
  <2>. QED BY <1>3, <2>2
<1>11. K \in 0..K
  BY <1>1
<1>12. Walks(v, first, f)
  BY <1>3, <1>4, <1>7, <1>10, <1>11 DEF Walks
<1>. QED BY <1>12

-----------------------------------------------------------------------------
(* Two volumes that read alike.                                            *)

\* From the clusters L, which the root, the links and the entries of v do not
\* leave, w reads as v does with every cluster renamed by f.
Reads(v, w, L, f) ==
    /\ L \subseteq Containers /\ 0 \in L
    /\ f \in [L -> Containers] /\ f[0] = 0
    /\ \A c, d \in L : f[c] = f[d] => c = d
    /\ RootCluster(v) \in L /\ RootCluster(w) = f[RootCluster(v)]
    /\ \A c \in L \ {0} : \/ FatValue(v, c) = Eoc /\ FatValue(w, f[c]) = Eoc
                          \/ FatValue(v, c) \in L \ {0} /\ FatValue(w, f[c]) = f[FatValue(v, c)]
    /\ \A c \in L, s \in Slots : /\ w[Body(f[c], s)] = v[Body(c, s)]
                                 /\ v[Ref(c, s)] \in L /\ w[Ref(f[c], s)] = f[v[Ref(c, s)]]

\* Only container 0 is renamed to container 0.
LEMMA ReadsCluster ==
  ASSUME NEW v, NEW w, NEW L, NEW f, Reads(v, w, L, f)
  PROVE  \A c \in L : /\ c # 0 <=> f[c] # 0
                      /\ c # 0 => c \in Clusters /\ f[c] \in Clusters
BY DEF Reads, Containers

\* t is s renamed.
Renames(f, L, s, t) ==
    /\ s \in Seq(L) /\ Len(t) = Len(s) /\ DOMAIN t = DOMAIN s
    /\ \A i \in DOMAIN s : s[i] \in L /\ t[i] = f[s[i]]

\* The next link of a chain is renamed with it.
LEMMA FollowRenames ==
  ASSUME NEW v, NEW w, NEW L, NEW f, Reads(v, w, L, f),
         NEW s \in Seq(L \ {0}), NEW t \in Seq(Clusters), s # <<>>, Renames(f, L, s, t)
  PROVE  /\ Follow(v, s) \in Seq(L \ {0}) /\ Follow(v, s) # <<>>
         /\ Renames(f, L, Follow(v, s), Follow(w, t))
<1>. DEFINE n == Len(s)
            last == s[n]
            next == FatValue(v, last)
<1>1. n \in Nat /\ n > 0 /\ DOMAIN s = 1..n /\ DOMAIN t = 1..n /\ Len(t) = n /\ n \in DOMAIN s
  BY DEF Renames
<1>2. last \in L \ {0} /\ t[n] = f[last]
  BY <1>1 DEF Renames
<1>. HIDE DEF last
<1>3. CASE next = Eoc
  <2>1. FatValue(w, f[last]) = Eoc
    BY <1>2, <1>3, ReadsCluster, Numbers DEF Reads, Containers
  <2>2. Follow(v, s) = s
    BY <1>3, Numbers DEF Follow, last
  <2>3. Follow(w, t) = t
    BY <1>1, <1>2, <2>1, Numbers DEF Follow
  <2>. QED BY <2>2, <2>3
<1>4. CASE next # Eoc
  <2>1. next \in L \ {0} /\ FatValue(w, f[last]) = f[next]
    BY <1>2, <1>4 DEF Reads
  <2>. HIDE DEF next
  <2>2. next \in Clusters /\ f[next] \in Clusters
    BY <2>1, ReadsCluster
  <2>3. Follow(v, s) = Append(s, next)
    BY <1>1, <2>2 DEF Follow, next, last
  <2>4. Follow(w, t) = Append(t, f[next])
    BY <1>1, <1>2, <2>1, <2>2 DEF Follow
  <2>5. Append(s, next) \in Seq(L \ {0}) /\ Append(s, next) # <<>> /\ Append(s, next) \in Seq(L)
    BY <2>1
  <2>6. /\ Len(Append(s, next)) = n + 1 /\ Len(Append(t, f[next])) = n + 1
        /\ DOMAIN Append(s, next) = 1..(n + 1) /\ DOMAIN Append(t, f[next]) = 1..(n + 1)
        /\ \A i \in 1..(n + 1) : /\ Append(s, next)[i] = IF i = n + 1 THEN next ELSE s[i]
                                 /\ Append(t, f[next])[i] = IF i = n + 1 THEN f[next] ELSE t[i]
    BY <1>1
  <2>7. \A i \in 1..(n + 1) : i = n + 1 \/ i \in DOMAIN s
    BY <1>1
  <2>8. Renames(f, L, Append(s, next), Append(t, f[next]))
    BY <2>1, <2>5, <2>6, <2>7 DEF Renames
  <2>. QED BY <2>3, <2>4, <2>5, <2>8
<1>. QED BY <1>3, <1>4

\* A chain is renamed link by link.
LEMMA ChainRenames ==
  ASSUME NEW v, NEW w, NEW L, NEW f, Reads(v, w, L, f), NEW first \in L \ {0}
  PROVE  /\ Chain(v, first) \in Seq(L \ {0}) /\ Chain(v, first) # <<>>
         /\ Chain(w, f[first]) \in Seq(Clusters)
         /\ Renames(f, L, Chain(v, first), Chain(w, f[first]))
<1>1. first \in Clusters /\ f[first] \in Clusters
  BY ReadsCluster
<1>2. PICK a : Walks(v, first, a)
  BY <1>1, ChainWalks
<1>3. PICK b : Walks(w, f[first], b)
  BY <1>1, ChainWalks
<1>. DEFINE P(n) == /\ a[n] \in Seq(L \ {0}) /\ a[n] # <<>> /\ b[n] \in Seq(Clusters)
                    /\ Renames(f, L, a[n], b[n])
            T == {n \in Nat : n <= K => P(n)}
<1>4. 0 \in T
  <2>1. a[0] = <<first>> /\ b[0] = <<f[first]>>
    BY <1>2, <1>3 DEF Walks
  <2>2. <<first>> \in Seq(L \ {0}) /\ <<first>> # <<>> /\ <<f[first]>> \in Seq(Clusters)
    BY <1>1
  <2>3. Renames(f, L, <<first>>, <<f[first]>>)
    BY DEF Renames
  <2>. QED BY <2>1, <2>2, <2>3
<1>5. ASSUME NEW n \in Nat, n \in T, n + 1 <= K PROVE P(n + 1)
  <2>1. K \in Nat /\ n <= K /\ n + 1 \in 1..K /\ (n + 1) - 1 = n /\ P(n)
    BY <1>5, Numbers
  <2>2. a[n + 1] = Follow(v, a[n]) /\ b[n + 1] = Follow(w, b[n])
    BY <1>2, <1>3, <2>1 DEF Walks
  <2>3. Follow(w, b[n]) \in Seq(Clusters)
    BY <2>1, FollowTyped
  <2>4. /\ Follow(v, a[n]) \in Seq(L \ {0}) /\ Follow(v, a[n]) # <<>>
        /\ Renames(f, L, Follow(v, a[n]), Follow(w, b[n]))
    <3>1. \A s \in Seq(L \ {0}), t \in Seq(Clusters) : s # <<>> /\ Renames(f, L, s, t)
            => /\ Follow(v, s) \in Seq(L \ {0}) /\ Follow(v, s) # <<>>
               /\ Renames(f, L, Follow(v, s), Follow(w, t))
      BY FollowRenames
    <3>. QED BY <2>1, <3>1
  <2>. QED BY <2>2, <2>3, <2>4
<1>6. Nat \subseteq T
  <2>1. \A n \in Nat : n \in T => n + 1 \in T
    BY <1>5
  <2>. HIDE DEF T
  <2>. QED BY <1>4, <2>1, NatFacts!NatInduct
<1>7. P(K)
  BY <1>6, Numbers
<1>. QED BY <1>2, <1>3, <1>7 DEF Walks

\* The clusters of a chain are renamed, and it still ends where it ended.
LEMMA ChainEndsRenamed ==
  ASSUME NEW v, NEW w, NEW L, NEW f, Reads(v, w, L, f), NEW first \in L \ {0}
  PROVE  /\ ChainSet(v, first) \subseteq L \ {0}
         /\ ChainSet(w, f[first]) = {f[c] : c \in ChainSet(v, first)}
         /\ ChainEnds(w, f[first]) <=> ChainEnds(v, first)
<1>. DEFINE s == Chain(v, first)
            t == Chain(w, f[first])
            S == Range(s)
            R == Range(t)
<1>1. /\ s \in Seq(L \ {0}) /\ s # <<>> /\ t \in Seq(Clusters) /\ Renames(f, L, s, t)
  BY ChainRenames
<1>. HIDE DEF s, t
<1>2. /\ Len(s) \in Nat /\ Len(s) > 0 /\ DOMAIN s = 1..Len(s) /\ Len(t) = Len(s) /\ DOMAIN t = DOMAIN s
      /\ Len(s) \in DOMAIN s
      /\ \A i \in DOMAIN s : s[i] \in L \ {0} /\ t[i] = f[s[i]]
  BY <1>1 DEF Renames
<1>3. S \subseteq L \ {0} /\ S \subseteq L
  BY <1>2 DEF Range
<1>4. R = {f[c] : c \in S}
  BY <1>2 DEF Range
<1>5. Cardinality(R) = Cardinality(S)
  <2>1. IsFiniteSet(S)
    <3>1. S \subseteq Clusters
      BY <1>3, ReadsCluster
    <3>. HIDE DEF S
    <3>. QED BY <3>1, FiniteClusters, FS_Subset
  <2>. DEFINE g == [c \in S |-> f[c]]
  <2>2. g \in Bijection(S, R)
    <3>1. \A c, d \in S : f[c] = f[d] => c = d
      BY <1>3 DEF Reads
    <3>. HIDE DEF S, R
    <3>2. g \in [S -> R] /\ \A c, d \in S : g[c] = g[d] => c = d
      BY <1>4, <3>1
    <3>3. \A r \in R : \E c \in S : g[c] = r
      BY <1>4
    <3>. HIDE DEF g
    <3>. QED BY <3>2, <3>3 DEF Bijection, Injection, Surjection, IsInjective
  <2>3. ExistsBijection(S, R)
    BY <2>2 DEF ExistsBijection
  <2>. HIDE DEF S, R
  <2>. QED BY <2>1, <2>3, FS_Bijection
<1>6. FatValue(w, t[Len(t)]) = Eoc <=> FatValue(v, s[Len(s)]) = Eoc
  <2>1. s[Len(s)] \in L \ {0} /\ t[Len(t)] = f[s[Len(s)]]
    BY <1>2
  <2>2. \A c \in L \ {0} : f[c] # Eoc
    BY ReadsCluster, Numbers
  <2>. QED BY <2>1, <2>2, Numbers DEF Reads, Containers
<1>7. ChainSet(v, first) = S /\ ChainSet(w, f[first]) = R
  BY DEF ChainSet, s, t
<1>8. /\ ChainEnds(v, first) <=> Cardinality(S) = Len(s) /\ FatValue(v, s[Len(s)]) = Eoc
      /\ ChainEnds(w, f[first]) <=> Cardinality(R) = Len(t) /\ FatValue(w, t[Len(t)]) = Eoc
  BY DEF ChainEnds, s, t
<1>. HIDE DEF S, R
<1>. QED BY <1>2, <1>3, <1>4, <1>5, <1>6, <1>7, <1>8

-----------------------------------------------------------------------------
(* The tree.                                                               *)

ObjectSet == [path : Seq(Bodies), first : Containers, dir : BOOLEAN]
RenameObject(f, o) == [path |-> o.path, first |-> f[o.first], dir |-> o.dir]

\* An object that is found inside L.
InTree(v, L, o) == o \in ObjectSet /\ o.first \in L

\* Where an object's bytes are is renamed unit by unit.
LEMMA UnitsRenamed ==
  ASSUME NEW v \in Volumes, NEW w \in Volumes, NEW L, NEW f, Reads(v, w, L, f),
         NEW o, InTree(v, L, o)
  PROVE  /\ RootObject(w) = RenameObject(f, RootObject(v))
         /\ Renames(f, L, Units(v, o), Units(w, RenameObject(f, o)))
<1>1. RootObject(w) = RenameObject(f, RootObject(v))
  BY DEF RootObject, RenameObject, Reads
<1>2. RenameObject(f, o).first = f[o.first] /\ (o.first # 0 <=> f[o.first] # 0) /\ f[0] = 0 /\ 0 \in L
  BY ReadsCluster DEF RenameObject, InTree, Reads
<1>3. CASE o.first # 0
  <2>1. Renames(f, L, Chain(v, o.first), Chain(w, f[o.first]))
    BY <1>3, ChainRenames DEF InTree
  <2>2. Units(v, o) = Chain(v, o.first) /\ Units(w, RenameObject(f, o)) = Chain(w, f[o.first])
    BY <1>2, <1>3 DEF Units
  <2>. QED BY <1>1, <2>1, <2>2
<1>4. CASE o.first = 0
  <2>1. o = RootObject(v) <=> RenameObject(f, o) = RootObject(w)
    <3>1. o = [path |-> o.path, first |-> o.first, dir |-> o.dir]
      BY DEF InTree, ObjectSet
    <3>2. RootCluster(v) \in L /\ RootCluster(w) = f[RootCluster(v)] /\ (RootCluster(v) # 0 <=> f[RootCluster(v)] # 0)
      BY ReadsCluster DEF Reads
    <3>3. ASSUME RenameObject(f, o) = RenameObject(f, RootObject(v)) PROVE o = RootObject(v)
      <4>1. /\ RenameObject(f, o).path = o.path /\ RenameObject(f, o).dir = o.dir
            /\ RenameObject(f, RootObject(v)).path = <<>> /\ RenameObject(f, RootObject(v)).dir = TRUE
            /\ RenameObject(f, RootObject(v)).first = f[RootCluster(v)]
        BY DEF RenameObject, RootObject
      <4>2. o.path = <<>> /\ o.dir = TRUE /\ RootCluster(v) = 0
        BY <1>2, <1>4, <3>2, <3>3, <4>1
      <4>. QED BY <1>4, <3>1, <4>2 DEF RootObject
    <3>. QED BY <1>1, <3>3
  <2>2. Renames(f, L, <<0>>, <<0>>) /\ Renames(f, L, <<>>, <<>>)
    BY <1>2 DEF Renames
  <2>3. /\ Units(v, o) = IF o = RootObject(v) THEN <<0>> ELSE <<>>
        /\ Units(w, RenameObject(f, o)) = IF RenameObject(f, o) = RootObject(w) THEN <<0>> ELSE <<>>
    BY <1>2, <1>4 DEF Units
  <2>. QED BY <1>1, <2>1, <2>2, <2>3
<1>. QED BY <1>1, <1>3, <1>4

\* The root is found, and what a directory names is found.
LEMMA FoundInTree ==
  ASSUME NEW v \in Volumes, NEW w \in Volumes, NEW L, NEW f, Reads(v, w, L, f)
  PROVE  /\ InTree(v, L, RootObject(v))
         /\ \A o : InTree(v, L, o) => \A c \in Children(v, o) : InTree(v, L, c)
<1>1. InTree(v, L, RootObject(v))
  BY DEF InTree, ObjectSet, RootObject, Reads
<1>2. ASSUME NEW o, InTree(v, L, o), NEW c \in Children(v, o) PROVE InTree(v, L, c)
  <2>1. PICK e \in Entries(v, o) : c = Child(v, o, e)
    BY <1>2 DEF Children
  <2>2. e[1] \in L /\ e[2] \in Slots
    <3>1. Renames(f, L, Units(v, o), Units(w, RenameObject(f, o)))
      BY <1>2, UnitsRenamed
    <3>2. \A u \in Range(Units(v, o)) : u \in L
      BY <3>1 DEF Renames, Range
    <3>. QED BY <3>2 DEF Entries
  <2>3. v[Body(e[1], e[2])] \in Bodies /\ v[Ref(e[1], e[2])] \in L /\ L \subseteq Containers
    BY <2>2, VolumeParts DEF Reads
  <2>4. Append(o.path, v[Body(e[1], e[2])]) \in Seq(Bodies)
    BY <1>2, <2>3 DEF InTree, ObjectSet
  <2>. QED BY <2>1, <2>3, <2>4 DEF InTree, ObjectSet, Child
<1>. QED BY <1>1, <1>2

\* What a directory names is renamed.
LEMMA ChildrenRenamed ==
  ASSUME NEW v \in Volumes, NEW w \in Volumes, NEW L, NEW f, Reads(v, w, L, f)
  PROVE  \A o : InTree(v, L, o) =>
            Children(w, RenameObject(f, o)) = {RenameObject(f, c) : c \in Children(v, o)}
<1>. SUFFICES ASSUME NEW o, InTree(v, L, o)
              PROVE  Children(w, RenameObject(f, o)) = {RenameObject(f, c) : c \in Children(v, o)}
  OBVIOUS
<1>. DEFINE r == RenameObject(f, o)
            moved(e) == <<f[e[1]], e[2]>>
<1>1. Renames(f, L, Units(v, o), Units(w, r))
  BY UnitsRenamed
<1>2. r.dir = o.dir /\ r.path = o.path
  BY DEF RenameObject
<1>. HIDE DEF r
<1>3. /\ \A u \in Range(Units(v, o)) : u \in L
      /\ Range(Units(w, r)) = {f[u] : u \in Range(Units(v, o))}
  BY <1>1 DEF Renames, Range
<1>4. ASSUME NEW e \in L \X Slots
      PROVE  /\ w[Body(moved(e)[1], moved(e)[2])] = v[Body(e[1], e[2])]
             /\ Child(w, r, moved(e)) = RenameObject(f, Child(v, o, e))
  <2>1. /\ w[Body(f[e[1]], e[2])] = v[Body(e[1], e[2])]
        /\ w[Ref(f[e[1]], e[2])] = f[v[Ref(e[1], e[2])]]
    BY DEF Reads
  <2>. QED BY <1>2, <2>1 DEF Child, RenameObject
<1>5. Entries(w, r) = {moved(e) : e \in Entries(v, o)}
  <2>1. ASSUME NEW x \in Entries(w, r) PROVE \E e \in Entries(v, o) : x = moved(e)
    <3>1. x = <<x[1], x[2]>> /\ x[1] \in Range(Units(w, r)) /\ x[2] \in Slots
          /\ w[Body(x[1], x[2])] \notin DotBodies \cup {NoBody}
      BY <2>1 DEF Entries
    <3>2. PICK u \in Range(Units(v, o)) : x[1] = f[u]
      BY <1>3, <3>1
    <3>. DEFINE e == <<u, x[2]>>
    <3>3. e \in L \X Slots /\ e[1] = u /\ e[2] = x[2] /\ moved(e) = x
      BY <1>3, <3>1, <3>2
    <3>4. v[Body(u, x[2])] = w[Body(x[1], x[2])]
      BY <1>4, <3>2, <3>3
    <3>5. e \in Entries(v, o)
      BY <3>1, <3>4 DEF Entries
    <3>. QED BY <3>3, <3>5
  <2>2. ASSUME NEW e \in Entries(v, o) PROVE moved(e) \in Entries(w, r)
    <3>1. e \in L \X Slots /\ e[1] \in Range(Units(v, o)) /\ e[2] \in Slots
          /\ v[Body(e[1], e[2])] \notin DotBodies \cup {NoBody}
      BY <1>3, <2>2 DEF Entries
    <3>2. f[e[1]] \in Range(Units(w, r))
      BY <1>3, <3>1
    <3>3. w[Body(f[e[1]], e[2])] = v[Body(e[1], e[2])]
      BY <1>4, <3>1
    <3>. QED BY <3>1, <3>2, <3>3 DEF Entries
  <2>. QED BY <2>1, <2>2
<1>6. \A e \in Entries(v, o) : Child(w, r, moved(e)) = RenameObject(f, Child(v, o, e))
  <2>1. \A e \in Entries(v, o) : e \in L \X Slots
    BY <1>3 DEF Entries
  <2>. QED BY <1>4, <2>1
<1>. HIDE DEF moved
<1>7. CASE o.dir
  <2>1. Children(w, r) = {Child(w, r, x) : x \in Entries(w, r)} /\ Children(v, o) = {Child(v, o, e) : e \in Entries(v, o)}
    BY <1>2, <1>7 DEF Children
  <2>2. {Child(w, r, x) : x \in Entries(w, r)} = {Child(w, r, moved(e)) : e \in Entries(v, o)}
    BY <1>5
  <2>3. {Child(w, r, moved(e)) : e \in Entries(v, o)} = {RenameObject(f, Child(v, o, e)) : e \in Entries(v, o)}
    BY <1>6
  <2>. QED BY <2>1, <2>2, <2>3 DEF r
<1>8. CASE ~ o.dir
  <2>1. Children(w, r) = {} /\ Children(v, o) = {}
    BY <1>2, <1>8 DEF Children
  <2>. QED BY <2>1 DEF r
<1>. QED BY <1>7, <1>8

\* What is scanned on a volume are objects of the volume.
LEMMA ScannedTyped ==
  ASSUME NEW v \in Volumes
  PROVE  \A S \in SUBSET ObjectSet : Scanned(v, S) \in SUBSET ObjectSet
<1>. SUFFICES ASSUME NEW o \in ObjectSet, NEW c \in Children(v, o) PROVE c \in ObjectSet
  BY DEF Scanned
<1>1. PICK e \in Entries(v, o) : c = Child(v, o, e)
  BY DEF Children
<1>2. Range(Units(v, o)) \subseteq Containers
  <2>1. CASE o.first # 0
    <3>1. o.first \in Clusters
      BY <2>1 DEF ObjectSet, Containers
    <3>2. PICK walk : Walks(v, o.first, walk)
      BY <3>1, ChainWalks
    <3>3. K \in 0..K
      BY Numbers
    <3>4. Units(v, o) \in Seq(Clusters)
      BY <2>1, <3>2, <3>3 DEF Walks, Units
    <3>. QED BY <3>4 DEF Range, Containers
  <2>2. CASE o.first = 0
    BY <2>2 DEF Units, Range, Containers
  <2>. QED BY <2>1, <2>2
<1>3. e[1] \in Containers /\ e[2] \in Slots
  BY <1>2 DEF Entries
<1>4. v[Body(e[1], e[2])] \in Bodies /\ v[Ref(e[1], e[2])] \in Containers
  BY <1>3, VolumeParts DEF Containers
<1>5. Append(o.path, v[Body(e[1], e[2])]) \in Seq(Bodies)
  BY <1>4 DEF ObjectSet
<1>. QED BY <1>1, <1>4, <1>5 DEF ObjectSet, Child

\* The levels scan_directory reads.
D == MaxDepth + 1

Levels(v, level) ==
    /\ level \in [0..D -> SUBSET ObjectSet]
    /\ level[0] = {RootObject(v)}
    /\ \A n \in 1..D : level[n] = Scanned(v, level[n - 1])
    /\ Objects(v) = level[D]

\* The objects are the root with as many levels as there may be.
LEMMA ObjectsLevels ==
  ASSUME NEW v \in Volumes
  PROVE  \E level : Levels(v, level)
<1>. DEFINE IsLevel(g) == g = [n \in 0..D |-> IF n = 0 THEN {RootObject(v)} ELSE Scanned(v, g[n - 1])]
            step == [S \in SUBSET ObjectSet |-> Scanned(v, S)]
<1>1. D \in Nat
  BY Depth DEF D
<1>2. step \in [SUBSET ObjectSet -> SUBSET ObjectSet] /\ {RootObject(v)} \in SUBSET ObjectSet
  <2>1. RootObject(v) \in ObjectSet
    BY VolumeParts, PrimaryCopy DEF RootObject, ObjectSet, RootCluster, Containers
  <2>. QED BY <2>1, ScannedTyped
<1>3. PICK f \in [0..D -> SUBSET ObjectSet] : f[0] = {RootObject(v)} /\ \A n \in 1..D : f[n] = step[f[n - 1]]
  <2>. DEFINE V == SUBSET ObjectSet
              base == {RootObject(v)}
  <2>1. base \in V /\ step \in [V -> V]
    BY <1>2
  <2>. HIDE DEF step, V, base
  <2>2. PICK f : Iterated(f, V, base, step, D)
    BY <1>1, <2>1, Iteration
  <2>. QED BY <2>2 DEF V, base, Iterated
<1>4. \A n \in 1..D : n - 1 \in 0..D /\ f[n] = Scanned(v, f[n - 1])
  <2>1. \A n \in 1..D : n - 1 \in 0..D
    BY <1>1
  <2>2. \A n \in 1..D : f[n - 1] \in SUBSET ObjectSet
    BY <1>3, <2>1
  <2>3. \A S \in SUBSET ObjectSet : step[S] = Scanned(v, S)
    OBVIOUS
  <2>. HIDE DEF step
  <2>. QED BY <1>3, <2>1, <2>2, <2>3
<1>5. IsLevel(f)
  <2>1. f = [n \in 0..D |-> f[n]]
    BY <1>3
  <2>2. \A n \in 0..D : f[n] = IF n = 0 THEN {RootObject(v)} ELSE Scanned(v, f[n - 1])
    <3>1. \A n \in 0..D : n = 0 \/ n \in 1..D
      BY <1>1
    <3>. QED BY <1>3, <1>4, <3>1
  <2>. QED BY <2>1, <2>2
<1>. DEFINE level == CHOOSE g : IsLevel(g)
<1>6. IsLevel(level)
  BY <1>5
<1>7. Objects(v) = level[D]
  BY DEF Objects, D
<1>. HIDE DEF level
<1>8. /\ level[0] = {RootObject(v)}
      /\ \A n \in 1..D : level[n] = Scanned(v, level[n - 1])
  <2>1. \A n \in 0..D : level[n] = IF n = 0 THEN {RootObject(v)} ELSE Scanned(v, level[n - 1])
    BY <1>6
  <2>2. 0 \in 0..D /\ \A n \in 1..D : n \in 0..D /\ n # 0
    BY <1>1
  <2>. HIDE DEF IsLevel
  <2>. QED BY <2>1, <2>2
<1>. HIDE DEF IsLevel
<1>. DEFINE T == {n \in Nat : n <= D => level[n] = f[n]}
<1>9. \A n \in Nat : n \in T
  <2>1. 0 \in T
    BY <1>3, <1>8
  <2>2. \A n \in Nat : n \in T => n + 1 \in T
    <3>1. SUFFICES ASSUME NEW n \in Nat, n \in T, n + 1 <= D PROVE level[n + 1] = f[n + 1]
      OBVIOUS
    <3>2. n + 1 \in 1..D /\ (n + 1) - 1 = n
      BY <1>1, <3>1
    <3>3. level[n] = f[n]
      BY <1>1, <3>1
    <3>. QED BY <1>4, <1>8, <3>2, <3>3
  <2>. HIDE DEF T
  <2>. QED BY <2>1, <2>2, NatFacts!NatInduct
<1>10. level[D] = f[D]
  BY <1>1, <1>9
<1>. QED BY <1>3, <1>4, <1>7, <1>10 DEF Levels

\* The same tree is found, with its clusters renamed.
LEMMA ObjectsRenamed ==
  ASSUME NEW v \in Volumes, NEW w \in Volumes, NEW L, NEW f, Reads(v, w, L, f)
  PROVE  /\ \A o \in Objects(v) : InTree(v, L, o)
         /\ Objects(w) = {RenameObject(f, o) : o \in Objects(v)}
<1>1. PICK a : Levels(v, a)
  BY ObjectsLevels
<1>2. PICK b : Levels(w, b)
  BY ObjectsLevels
<1>. DEFINE P(n) == /\ \A o \in a[n] : InTree(v, L, o)
                    /\ b[n] = {RenameObject(f, o) : o \in a[n]}
            T == {n \in Nat : n <= D => P(n)}
<1>3. 0 \in T
  <2>1. a[0] = {RootObject(v)} /\ b[0] = {RootObject(w)}
    BY <1>1, <1>2 DEF Levels
  <2>2. InTree(v, L, RootObject(v)) /\ RootObject(w) = RenameObject(f, RootObject(v))
    BY FoundInTree, UnitsRenamed
  <2>. QED BY <2>1, <2>2
<1>4. ASSUME NEW n \in Nat, n \in T, n + 1 <= D PROVE P(n + 1)
  <2>1. n <= D /\ n + 1 \in 1..D /\ (n + 1) - 1 = n /\ P(n)
    BY <1>4, Depth DEF D
  <2>2. /\ a[n + 1] = a[n] \cup UNION {Children(v, o) : o \in a[n]}
        /\ b[n + 1] = b[n] \cup UNION {Children(w, r) : r \in b[n]}
    BY <1>1, <1>2, <2>1 DEF Levels, Scanned
  <2>3. \A o \in a[n] : \A c \in Children(v, o) : InTree(v, L, c)
    BY <2>1, FoundInTree
  <2>4. \A o \in a[n] : Children(w, RenameObject(f, o)) = {RenameObject(f, c) : c \in Children(v, o)}
    BY <2>1, ChildrenRenamed
  <2>5. UNION {Children(w, r) : r \in b[n]} = {RenameObject(f, c) : c \in UNION {Children(v, o) : o \in a[n]}}
    <3>1. \A x : x \in UNION {Children(w, r) : r \in b[n]}
               <=> \E o \in a[n] : x \in Children(w, RenameObject(f, o))
      BY <2>1
    <3>2. \A x : x \in UNION {Children(w, r) : r \in b[n]}
               <=> \E o \in a[n] : \E c \in Children(v, o) : x = RenameObject(f, c)
      BY <2>4, <3>1
    <3>3. \A x : x \in {RenameObject(f, c) : c \in UNION {Children(v, o) : o \in a[n]}}
               <=> \E o \in a[n] : \E c \in Children(v, o) : x = RenameObject(f, c)
      OBVIOUS
    <3>. QED BY <3>2, <3>3
  <2>6. b[n + 1] = {RenameObject(f, c) : c \in a[n + 1]}
    <3>1. b[n] = {RenameObject(f, o) : o \in a[n]}
      BY <2>1
    <3>. HIDE DEF P, T
    <3>. QED BY <2>2, <2>5, <3>1
  <2>. QED BY <2>1, <2>2, <2>3, <2>6
<1>5. Nat \subseteq T
  <2>1. \A n \in Nat : n \in T => n + 1 \in T
    BY <1>4
  <2>. HIDE DEF T
  <2>. QED BY <1>3, <2>1, NatFacts!NatInduct
<1>6. P(D)
  BY <1>5, Depth DEF D
<1>. QED BY <1>1, <1>2, <1>6 DEF Levels

-----------------------------------------------------------------------------
(* What is read is the same.                                               *)

\* A first-cluster field leads to the same paths.
LEMMA TargetRenamed ==
  ASSUME NEW v \in Volumes, NEW w \in Volumes, NEW L, NEW f, Reads(v, w, L, f)
  PROVE  \A r \in L : Target(Objects(w), f[r]) = Target(Objects(v), r)
<1>. SUFFICES ASSUME NEW r \in L PROVE Target(Objects(w), f[r]) = Target(Objects(v), r)
  OBVIOUS
<1>1. r # 0 <=> f[r] # 0
  BY ReadsCluster
<1>2. \A o \in Objects(v) : /\ RenameObject(f, o).path = o.path
                            /\ RenameObject(f, o).first = f[r] <=> o.first = r
  <2>1. \A o \in Objects(v) : o.first \in L
    BY ObjectsRenamed DEF InTree
  <2>. QED BY <2>1 DEF RenameObject, Reads
<1>3. Objects(w) = {RenameObject(f, o) : o \in Objects(v)}
  BY ObjectsRenamed
<1>4. \A p : p \in Target(Objects(w), f[r]) <=> \E o \in Objects(v) : p = o.path /\ o.first = r /\ r # 0
  BY <1>1, <1>2, <1>3 DEF Target
<1>5. \A p : p \in Target(Objects(v), r) <=> \E o \in Objects(v) : p = o.path /\ o.first = r /\ r # 0
  BY DEF Target
<1>. QED BY <1>4, <1>5

\* Two volumes that read alike hold the same tree and the same bytes.
THEOREM SameContents ==
  ASSUME NEW v \in Volumes, NEW w \in Volumes, NEW L, NEW f, Reads(v, w, L, f)
  PROVE  Contents(w) = Contents(v)
<1>. DEFINE Shown(x, o) == <<o.path, Data(x, Objects(x), Units(x, o)), o.first = 0 \/ ChainEnds(x, o.first)>>
<1>1. \A o \in Objects(v) : InTree(v, L, o)
  BY ObjectsRenamed
<1>2. Objects(w) = {RenameObject(f, o) : o \in Objects(v)}
  BY ObjectsRenamed
<1>3. ASSUME NEW o \in Objects(v) PROVE Shown(w, RenameObject(f, o)) = Shown(v, o)
  <2>. DEFINE r == RenameObject(f, o)
              s == Units(v, o)
              t == Units(w, r)
  <2>1. Renames(f, L, s, t)
    BY <1>1, UnitsRenamed
  <2>2. r.path = o.path /\ r.first = f[o.first] /\ o.first \in L
    BY <1>1 DEF RenameObject, InTree
  <2>. HIDE DEF r, s, t
  <2>3. DOMAIN t = DOMAIN s /\ \A i \in DOMAIN s : s[i] \in L /\ t[i] = f[s[i]]
    BY <2>1 DEF Renames
  <2>4. \A c \in L, x \in Slots : /\ w[Body(f[c], x)] = v[Body(c, x)]
                                  /\ Target(Objects(w), w[Ref(f[c], x)]) = Target(Objects(v), v[Ref(c, x)])
    BY TargetRenamed DEF Reads
  <2>5. Data(w, Objects(w), t) = Data(v, Objects(v), s)
    <3>1. \A i \in DOMAIN s, x \in Slots :
              <<w[Body(t[i], x)], Target(Objects(w), w[Ref(t[i], x)])>>
              = <<v[Body(s[i], x)], Target(Objects(v), v[Ref(s[i], x)])>>
      BY <2>3, <2>4
    <3>. QED BY <2>3, <3>1 DEF Data
  <2>6. (r.first = 0 \/ ChainEnds(w, r.first)) = (o.first = 0 \/ ChainEnds(v, o.first))
    <3>1. o.first # 0 => (ChainEnds(w, f[o.first]) <=> ChainEnds(v, o.first))
      BY <2>2, ChainEndsRenamed
    <3>2. o.first = 0 <=> f[o.first] = 0
      BY <2>2, ReadsCluster
    <3>. QED BY <2>2, <3>1, <3>2
  <2>. QED BY <2>2, <2>5, <2>6 DEF r, s, t
<1>4. Contents(v) = {Shown(v, o) : o \in Objects(v)} /\ Contents(w) = {Shown(w, r) : r \in Objects(w)}
  BY DEF Contents
<1>. HIDE DEF Shown
<1>5. {Shown(w, r) : r \in Objects(w)} = {Shown(w, RenameObject(f, o)) : o \in Objects(v)}
  BY <1>2
<1>. QED BY <1>3, <1>4, <1>5

-----------------------------------------------------------------------------
(* Renaming, and the checks of scan_files.                                 *)

\* The renaming of a transaction, on what lives.
Rename(v, m) == [c \in Live(v) |-> Mapped(m, c)]

\* A volume whose live clusters are renamed reads as before.
LEMMA RenamedReads ==
  ASSUME NEW v \in Volumes, NEW w \in Volumes, Sound(v), NEW m, ValidMoves(v, m), Renamed(v, w, m)
  PROVE  Reads(v, w, Live(v), Rename(v, m))
<1>. DEFINE L == Live(v)
            f == Rename(v, m)
<1>1. /\ RelocationMap(m) /\ Offered(v, m)
      /\ DOMAIN m \subseteq Clusters
      /\ \A x \in DOMAIN m : m[x] \in Clusters
      /\ Allocated(v) \subseteq Clusters
  BY DEF ValidMoves, RelocationMap, Allocated
<1>2. L \subseteq Containers /\ 0 \in L /\ L \ {0} = Allocated(v)
  BY <1>1, Numbers DEF Live, Containers
<1>3. /\ \A c \in L : f[c] = Mapped(m, c) /\ Mapped(m, c) \in Containers
      /\ f \in [L -> Containers] /\ f[0] = 0 /\ Mapped(m, Eoc) = Eoc
  BY <1>1, <1>2, Numbers DEF Rename, Mapped, Containers
<1>4. \A c, d \in L : f[c] = f[d] => c = d
  BY <1>1, <1>3, MappedInjective
<1>5. RootCluster(v) \in L /\ RootCluster(w) = f[RootCluster(v)]
  BY <1>3, PrimaryCopy DEF Sound, Renamed, RootCluster
<1>6. ASSUME NEW c \in L \ {0}
      PROVE  \/ FatValue(v, c) = Eoc /\ FatValue(w, f[c]) = Eoc
             \/ FatValue(v, c) \in L \ {0} /\ FatValue(w, f[c]) = f[FatValue(v, c)]
  <2>1. FatValue(w, f[c]) = Mapped(m, FatValue(v, c))
    BY <1>2, <1>3, ActiveCopy DEF Renamed, FatValue
  <2>2. FatValue(v, c) \in Allocated(v) \cup {Eoc}
    BY <1>2 DEF Sound
  <2>. QED BY <1>2, <1>3, <2>1, <2>2
<1>7. ASSUME NEW c \in L, NEW s \in Slots
      PROVE  /\ w[Body(f[c], s)] = v[Body(c, s)]
             /\ v[Ref(c, s)] \in L /\ w[Ref(f[c], s)] = f[v[Ref(c, s)]]
  BY <1>3 DEF Renamed, Sound
<1>. HIDE DEF L, f
<1>8. Reads(v, w, L, f)
  BY <1>2, <1>3, <1>4, <1>5, <1>6, <1>7 DEF Reads
<1>. QED BY <1>8 DEF L, f

\* w has the links, slots and root of what lives in v.
SameLive(v, w) ==
    /\ \A c \in Allocated(v) : FatValue(w, c) = FatValue(v, c)
    /\ \A c \in Live(v), s \in Slots : /\ w[Body(c, s)] = v[Body(c, s)]
                                       /\ w[Ref(c, s)] = v[Ref(c, s)]
    /\ RootCluster(w) = RootCluster(v)

\* A volume that agrees with a sound one on the links, slots and root of its
\* live clusters reads as it does.
LEMMA SameLiveReads ==
  ASSUME NEW v \in Volumes, NEW w \in Volumes, Sound(v), SameLive(v, w)
  PROVE  Contents(w) = Contents(v)
<1>. DEFINE L == Live(v)
            f == [c \in Live(v) |-> c]
<1>1. /\ Allocated(v) \subseteq Clusters
      /\ L \subseteq Containers /\ 0 \in L /\ L \ {0} = Allocated(v)
  BY Numbers DEF Live, Containers, Allocated
<1>2. f \in [L -> Containers] /\ \A c \in L : f[c] = c
  BY <1>1
<1>3. RootCluster(v) \in L /\ RootCluster(w) = f[RootCluster(v)]
  BY <1>2 DEF Sound, SameLive
<1>4. \A c \in L \ {0} : \/ FatValue(v, c) = Eoc /\ FatValue(w, f[c]) = Eoc
                         \/ FatValue(v, c) \in L \ {0} /\ FatValue(w, f[c]) = f[FatValue(v, c)]
  BY <1>1, <1>2 DEF Sound, SameLive
<1>5. \A c \in L, s \in Slots : /\ w[Body(f[c], s)] = v[Body(c, s)]
                                /\ v[Ref(c, s)] \in L /\ w[Ref(f[c], s)] = f[v[Ref(c, s)]]
  BY <1>2 DEF Sound, SameLive
<1>. HIDE DEF L, f
<1>6. Reads(v, w, L, f)
  BY <1>1, <1>2, <1>3, <1>4, <1>5 DEF Reads
<1>. QED BY <1>6, SameContents

\* What a renaming leaves allocated, and the copies of the FAT.
LEMMA RenamedAllocates ==
  ASSUME NEW v \in Volumes, NEW w \in Volumes, Sound(v), NEW m, ValidMoves(v, m), Renamed(v, w, m)
  PROVE  MirrorsAgree(w) /\ Allocated(w) = {Rename(v, m)[c] : c \in Allocated(v)}
<1>. DEFINE f == Rename(v, m)
<1>1. Reads(v, w, Live(v), f)
  BY RenamedReads
<1>2. \A c \in Allocated(v) : c \in Live(v) \ {0} /\ f[c] = Mapped(m, c) /\ f[c] \in Clusters
  <2>1. Allocated(v) \subseteq Clusters
    BY DEF Allocated
  <2>2. \A c \in Allocated(v) : c \in Live(v) \ {0}
    BY <2>1, Numbers DEF Live
  <2>3. \A c \in Live(v) : c # 0 => f[c] \in Clusters
    BY <1>1, ReadsCluster
  <2>. QED BY <2>2, <2>3 DEF Rename
<1>3. {Mapped(m, c) : c \in Allocated(v)} = {f[c] : c \in Allocated(v)}
  BY <1>2
<1>4. \A c \in Clusters \ {f[x] : x \in Allocated(v)} : FatValue(w, c) \in {0, Bad}
  BY <1>3, ActiveCopy DEF Renamed, FatValue
<1>5. \A x \in Allocated(v) : FatValue(w, f[x]) \notin {0, Bad}
  <2>1. ASSUME NEW x \in Allocated(v) PROVE FatValue(w, f[x]) \notin {0, Bad}
    <3>1. FatValue(v, x) \in Live(v) \ {0} => f[FatValue(v, x)] \in Clusters
      BY <1>1, ReadsCluster
    <3>. QED BY <1>1, <1>2, <3>1, Numbers DEF Reads
  <2>. QED BY <2>1
<1>. HIDE DEF f
<1>6. Allocated(w) = {f[c] : c \in Allocated(v)}
  BY <1>2, <1>4, <1>5 DEF Allocated
<1>7. Sound(w)
  BY RenamedSound
<1>. QED BY <1>6, <1>7 DEF Sound, f

\* What scan_files accepts before a transaction it accepts after it.
LEMMA ScanAcceptsRenamed ==
  ASSUME NEW v \in Volumes, NEW w \in Volumes, Sound(v), NEW m, ValidMoves(v, m), Renamed(v, w, m),
         ScanAccepts(v)
  PROVE  ScanAccepts(w)
<1>. DEFINE L == Live(v)
            f == Rename(v, m)
            A == {o \in Objects(v) : o.first # 0}
            B == {o \in Objects(w) : o.first # 0}
<1>1. Reads(v, w, L, f)
  BY RenamedReads
<1>2. /\ \A o \in Objects(v) : InTree(v, L, o)
      /\ Objects(w) = {RenameObject(f, o) : o \in Objects(v)}
  BY <1>1, ObjectsRenamed
<1>3. /\ MirrorsAgree(w) /\ Allocated(w) = {f[c] : c \in Allocated(v)}
  BY RenamedAllocates
<1>4. /\ \A o \in A : o.dir => Len(o.path) <= MaxDepth
      /\ \A o \in A : ChainEnds(v, o.first)
      /\ \A o, p \in A : o # p => ChainSet(v, o.first) \cap ChainSet(v, p.first) = {}
      /\ UNION {ChainSet(v, o.first) : o \in A} = Allocated(v)
  BY DEF ScanAccepts
<1>. HIDE DEF f, L
<1>5. /\ \A o \in Objects(v) : o.first \in L
      /\ \A o \in Objects(v) : /\ RenameObject(f, o).path = o.path
                               /\ RenameObject(f, o).dir = o.dir
                               /\ RenameObject(f, o).first = f[o.first]
                               /\ RenameObject(f, o).first # 0 <=> o.first # 0
  BY <1>1, <1>2, ReadsCluster DEF InTree, RenameObject
<1>6. B = {RenameObject(f, o) : o \in A}
  <2>1. \A r : r \in B <=> \E o \in Objects(v) : r = RenameObject(f, o) /\ r.first # 0
    BY <1>2
  <2>. QED BY <1>5, <2>1
<1>7. \A o \in A : /\ ChainSet(v, o.first) \subseteq L
                   /\ ChainSet(w, f[o.first]) = {f[c] : c \in ChainSet(v, o.first)}
                   /\ ChainEnds(w, f[o.first])
  <2>1. \A o \in A : o.first \in L \ {0}
    BY <1>5
  <2>2. \A x \in L \ {0} : /\ ChainSet(v, x) \subseteq L \ {0}
                           /\ ChainSet(w, f[x]) = {f[c] : c \in ChainSet(v, x)}
                           /\ ChainEnds(w, f[x]) <=> ChainEnds(v, x)
    BY <1>1, ChainEndsRenamed
  <2>. QED BY <1>4, <2>1, <2>2
<1>8. \A r \in B : \E o \in A : r = RenameObject(f, o) /\ r.first = f[o.first] /\ r.dir = o.dir /\ r.path = o.path
  BY <1>5, <1>6
<1>9. \A r \in B : r.dir => Len(r.path) <= MaxDepth
  BY <1>4, <1>8
<1>10. \A r \in B : ChainEnds(w, r.first)
  BY <1>7, <1>8
<1>11. \A r, q \in B : r # q => ChainSet(w, r.first) \cap ChainSet(w, q.first) = {}
  <2>1. SUFFICES ASSUME NEW r \in B, NEW q \in B, r # q, NEW x \in ChainSet(w, r.first), x \in ChainSet(w, q.first)
                 PROVE  FALSE
    OBVIOUS
  <2>2. PICK o \in A : r = RenameObject(f, o) /\ r.first = f[o.first]
    BY <1>8
  <2>3. PICK p \in A : q = RenameObject(f, p) /\ q.first = f[p.first]
    BY <1>8
  <2>4. PICK c \in ChainSet(v, o.first) : x = f[c]
    BY <1>7, <2>1, <2>2
  <2>5. PICK d \in ChainSet(v, p.first) : x = f[d]
    BY <1>7, <2>1, <2>3
  <2>6. c \in L /\ d \in L
    BY <1>7
  <2>7. c = d
    BY <1>1, <2>4, <2>5, <2>6 DEF Reads
  <2>. HIDE DEF A, B
  <2>. QED BY <1>4, <2>1, <2>2, <2>3, <2>7
<1>12. UNION {ChainSet(w, r.first) : r \in B} = Allocated(w)
  <2>1. \A x : x \in UNION {ChainSet(w, r.first) : r \in B} <=> \E o \in A : x \in ChainSet(w, f[o.first])
    BY <1>5, <1>6
  <2>2. \A x : x \in UNION {ChainSet(w, r.first) : r \in B}
             <=> \E o \in A : \E c \in ChainSet(v, o.first) : x = f[c]
    BY <1>7, <2>1
  <2>3. \A x : x \in Allocated(w) <=> \E c \in UNION {ChainSet(v, o.first) : o \in A} : x = f[c]
    BY <1>3, <1>4
  <2>. HIDE DEF A, B
  <2>. QED BY <2>2, <2>3
<1>. QED BY <1>3, <1>9, <1>10, <1>11, <1>12 DEF ScanAccepts

-----------------------------------------------------------------------------
(* The worker.                                                             *)

\* What the worker keeps of the volume it will leave.
CInv == /\ IInv
        /\ Committed \in Volumes /\ Sound(Committed) /\ ScanAccepts(Committed)
        /\ Contents(Committed) \in OriginalContents

\* It holds before the first command.
LEMMA InitCInv == Init => CInv
<1>. SUFFICES ASSUME Init PROVE CInv
  OBVIOUS
<1>1. Committed = disk /\ disk \in InitialVolumes
  BY DEF Init, Committed
<1>2. Contents(disk) \in OriginalContents
  BY <1>1 DEF OriginalContents
<1>. QED BY <1>1, <1>2, InitIInv, InitialSound, InitialScans DEF CInv

\* A new record renames what is committed.
LEMMA PrepareRenames ==
  ASSUME IInv, IInv', Sound(Committed), Prepare
  PROVE  /\ Committed' \in Volumes /\ Sound(Committed')
         /\ \E m : ValidMoves(Committed, m) /\ Renamed(Committed, Committed', m)
<1>1. Atomic!Relocate /\ Sound(Committed')
  BY PrepareRelocates
<1>. QED BY <1>1, AtomicOperators DEF Atomic!Relocate

\* No step changes what the user will read, nor what scan_files will accept.
LEMMA StepCInv == CInv /\ [Next]_vars => CInv' /\ Contents(Committed') = Contents(Committed)
<1>. SUFFICES ASSUME CInv, [Next]_vars
              PROVE  CInv' /\ Contents(Committed') = Contents(Committed)
  OBVIOUS
<1>1. IInv'
  BY StepIInv DEF CInv
<1>2. CASE Prepare
  <2>1. /\ Committed \in Volumes /\ Sound(Committed) /\ ScanAccepts(Committed) /\ IInv
    BY DEF CInv
  <2>2. PICK m : /\ Committed' \in Volumes /\ Sound(Committed')
                 /\ ValidMoves(Committed, m) /\ Renamed(Committed, Committed', m)
    BY <1>1, <1>2, <2>1, PrepareRenames
  <2>3. Contents(Committed') = Contents(Committed)
    BY <2>1, <2>2, RenamedReads, SameContents
  <2>4. ScanAccepts(Committed')
    BY <2>1, <2>2, ScanAcceptsRenamed
  <2>5. (Contents(Committed) \in OriginalContents)' <=> Contents(Committed') \in OriginalContents
    BY DEF OriginalContents
  <2>. QED BY <1>1, <2>2, <2>3, <2>4, <2>5 DEF CInv
<1>3. CASE ~ Prepare
  <2>1. Committed' = Committed
    BY <1>1, <1>3, CommittedStable DEF CInv
  <2>2. Contents(Committed') = Contents(Committed)
    BY <2>1
  <2>. QED BY <1>1, <2>1, <2>2 DEF CInv
<1>. QED BY <1>2, <1>3

\* The property ContentsKept: no path, no byte and no dot entry of the user's
\* tree changes, whatever is interrupted, for every volume, tree depth, move
\* map and number of faults.
THEOREM TreeKept == Spec => []ContentsKept
<1>1. CInv => ContentsKept
  BY DEF CInv, ContentsKept
<1>2. CInv /\ [Next]_vars => CInv'
  BY StepCInv
<1>. QED BY <1>1, <1>2, InitCInv, PTL DEF Spec

\* And it stays the tree of the very volume the first command found, not
\* merely of one of the possible ones.
THEOREM TreeConstant == Spec => [][Contents(Committed') = Contents(Committed)]_vars
<1>1. CInv /\ [Next]_vars => CInv' /\ [Contents(Committed') = Contents(Committed)]_vars
  BY StepCInv
<1>. QED BY <1>1, InitCInv, PTL DEF Spec

\* The property IdleVolumeScans: without a pending journal, the next
\* command's scan_files accepts what is on the disk.
THEOREM IdleScans == Spec => []IdleVolumeScans
<1>1. CInv => IdleVolumeScans
  BY DEF CInv, IdleVolumeScans, Committed
<1>2. CInv /\ [Next]_vars => CInv'
  BY StepCInv
<1>. QED BY <1>1, <1>2, InitCInv, PTL DEF Spec

-----------------------------------------------------------------------------
(* The first attempt at a transaction.                                     *)

\* Where copying writes, where freeing writes.
CopyLoc(j) == {l \in Loc : l[1] \in {"body", "ref"} /\ l[2] \in Destinations(j.moves)}
FreeLoc(j) == {l \in Loc : \/ l[1] = "hint"
                           \/ l[1] = "fat" /\ l[3] \in DOMAIN j.moves}

\* w is v outside X.
Within(v, w, X) == \A l \in Loc \ X : w[l] = v[l]
Near(v, X) == Within(v, disk, X) /\ Within(v, cache, X)

\* The volume a record was made from, of which only free clusters are touched.
MadeFrom(v, m) == /\ Sound(v) /\ ValidMoves(v, m)
                  /\ journal = MakeJournal(v, m)
                  /\ Near(v, CopyLoc(journal))

\* Where the first attempt stands at each stage of its record.
FirstInv ==
    mode = "defrag" /\ journal # NoJournal =>
      /\ stage = "PREPARED" => /\ pc \in {"copy", "syncCopy", "recordCopied", "down"}
                               /\ \E v \in Volumes : \E m : MadeFrom(v, m)
      /\ stage = "DATA_COPIED" => pc \in {"link", "syncLink", "recordSwitched", "down"}
      /\ stage = "SWITCHED" => /\ pc \in {"free", "syncFree", "recordFreed", "down"}
                               /\ Near(Committed, FreeLoc(journal))
      /\ stage = "OLD_FREED" => /\ pc \in {"remove", "down"}
                                /\ Near(Committed, FreeLoc(journal))

\* A group of writes stays where it writes, and so does what a crash leaves.
LEMMA WithinWrites ==
  /\ \A v, j : Within(v, Copied(v, j), CopyLoc(j)) /\ Within(v, Freed(v, j), FreeLoc(j))
  /\ \A v, w, u, X : Within(v, w, X) /\ Within(w, u, X) => Within(v, u, X)
  /\ \A v, w, u, X, kept : Within(v, w, X) /\ Within(v, u, X) => Within(v, Mix(w, u, kept), X)
<1>1. ASSUME NEW v, NEW j
      PROVE  Within(v, Copied(v, j), CopyLoc(j)) /\ Within(v, Freed(v, j), FreeLoc(j))
  <2>1. ASSUME NEW l \in Loc \ CopyLoc(j) PROVE Copied(v, j)[l] = v[l]
    BY DEF Copied, CopyLoc
  <2>2. ASSUME NEW l \in Loc \ FreeLoc(j) PROVE Freed(v, j)[l] = v[l]
    BY DEF Freed, FreeLoc
  <2>. QED BY <2>1, <2>2 DEF Within
<1>2. \A v, w, u, X : Within(v, w, X) /\ Within(w, u, X) => Within(v, u, X)
  BY DEF Within
<1>3. \A v, w, u, X, kept : Within(v, w, X) /\ Within(v, u, X) => Within(v, Mix(w, u, kept), X)
  BY DEF Within, Mix
<1>. QED BY <1>1, <1>2, <1>3

\* While only the copies are being written, the disk reads as the volume the
\* record was made from, and so does what finishing the record makes of it.
LEMMA PreparedReads ==
  ASSUME IInv, journal # NoJournal, NEW v \in Volumes, NEW m, MadeFrom(v, m)
  PROVE  Contents(disk) = Contents(v) /\ Contents(Committed) = Contents(v)
<1>1. /\ disk \in Volumes /\ IsJournal(journal) /\ Sound(v) /\ ValidMoves(v, m)
      /\ journal = MakeJournal(v, m) /\ journal.moves = m
      /\ Within(v, disk, CopyLoc(journal))
  BY DEF IInv, TypeOK, MadeFrom, MakeJournal, Near
<1>2. /\ Destinations(m) \subseteq Free(v) /\ Free(v) \cap Live(v) = {}
      /\ Allocated(v) \subseteq Clusters /\ Live(v) \subseteq Containers
  BY <1>1, Numbers DEF ValidMoves, Offered, Free, Live, Allocated, Containers
<1>3. SameLive(v, disk)
  <2>1. \A c \in Allocated(v) : FatValue(disk, c) = FatValue(v, c)
    <3>1. ASSUME NEW c \in Clusters PROVE FatEntry(ActiveFat, c) \in Loc \ CopyLoc(journal)
      BY LocKinds, ActiveCopy DEF CopyLoc, FatEntry
    <3>. QED BY <1>1, <1>2, <3>1 DEF Within, FatValue
  <2>2. \A c \in Live(v), s \in Slots : /\ disk[Body(c, s)] = v[Body(c, s)]
                                        /\ disk[Ref(c, s)] = v[Ref(c, s)]
    <3>1. ASSUME NEW c \in Live(v), NEW s \in Slots
          PROVE  Body(c, s) \in Loc \ CopyLoc(journal) /\ Ref(c, s) \in Loc \ CopyLoc(journal)
      BY <1>1, <1>2, LocKinds DEF CopyLoc, Body, Ref
    <3>. QED BY <1>1, <3>1 DEF Within
  <2>3. RootCluster(disk) = RootCluster(v)
    <3>1. RootField(PrimaryBoot) \in Loc \ CopyLoc(journal)
      BY LocKinds, PrimaryCopy DEF CopyLoc, RootField
    <3>. QED BY <1>1, <3>1 DEF Within, RootCluster
  <2>. QED BY <2>1, <2>2, <2>3 DEF SameLive
<1>4. Contents(disk) = Contents(v)
  BY <1>1, <1>3, SameLiveReads
<1>5. Agree(disk, v, journal)
  <2>1. \A l \in Loc : l \in CopyLoc(journal) => l \in Written(journal)
    BY DEF CopyLoc, Written
  <2>. QED BY <1>1, <2>1 DEF Agree, Within
<1>6. Committed = Redo(v, journal) /\ Redo(v, journal) \in Volumes
  BY <1>1, <1>5, RedoAgree, CopiedTyped, LinkedTyped, FreedTyped DEF Committed, Redo
<1>7. Renamed(v, Committed, m)
  BY <1>1, <1>6, RedoRenames
<1>8. Contents(Committed) = Contents(v)
  BY <1>1, <1>6, <1>7, RenamedReads, SameContents
<1>. QED BY <1>4, <1>8

\* Once the links are durable, only clusters nobody names are left to free.
LEMMA SwitchedReads ==
  ASSUME CInv, journal # NoJournal, Near(Committed, FreeLoc(journal))
  PROVE  Contents(disk) = Contents(Committed)
<1>1. /\ disk \in Volumes /\ IsJournal(journal) /\ Committed \in Volumes /\ Sound(Committed)
      /\ Committed = Redo(disk, journal) /\ Within(Committed, disk, FreeLoc(journal))
  BY DEF CInv, IInv, TypeOK, Committed, Near
<1>2. \A c \in Clusters : c \in DOMAIN journal.moves => FatValue(Committed, c) = 0
  <2>1. Linked(Copied(disk, journal), journal) \in Volumes
    BY <1>1, CopiedTyped, LinkedTyped
  <2>. QED BY <1>1, <2>1, FreedAt, ActiveCopy DEF Redo, FatValue
<1>3. Allocated(Committed) \subseteq Clusters /\ Live(Committed) \subseteq Containers
  BY DEF Live, Allocated, Containers
<1>4. \A c \in Allocated(Committed) : FatValue(disk, c) = FatValue(Committed, c)
  <2>1. ASSUME NEW c \in Allocated(Committed) PROVE FatEntry(ActiveFat, c) \in Loc \ FreeLoc(journal)
    BY <1>2, <1>3, LocKinds, ActiveCopy DEF FreeLoc, FatEntry, Allocated
  <2>. QED BY <1>1, <2>1 DEF Within, FatValue
<1>5. \A c \in Live(Committed), s \in Slots : /\ disk[Body(c, s)] = Committed[Body(c, s)]
                                              /\ disk[Ref(c, s)] = Committed[Ref(c, s)]
  <2>1. ASSUME NEW c \in Live(Committed), NEW s \in Slots
        PROVE  Body(c, s) \in Loc \ FreeLoc(journal) /\ Ref(c, s) \in Loc \ FreeLoc(journal)
    BY <1>3, LocKinds DEF FreeLoc, Body, Ref
  <2>. QED BY <1>1, <2>1 DEF Within
<1>6. RootCluster(disk) = RootCluster(Committed)
  <2>1. RootField(PrimaryBoot) \in Loc \ FreeLoc(journal)
    BY LocKinds, PrimaryCopy DEF FreeLoc, RootField
  <2>. QED BY <1>1, <2>1 DEF Within, RootCluster
<1>7. SameLive(Committed, disk)
  BY <1>4, <1>5, <1>6 DEF SameLive
<1>. QED BY <1>1, <1>7, SameLiveReads

\* A record is made from the volume on the disk, before any write.
LEMMA PrepareFirst == CInv /\ CInv' /\ Prepare => FirstInv'
<1>. SUFFICES ASSUME CInv, CInv', Prepare PROVE FirstInv'
  OBVIOUS
<1>1. /\ journal = NoJournal /\ cache = disk /\ disk \in Volumes /\ Sound(disk)
      /\ disk' = disk /\ cache' = cache /\ stage' = "PREPARED" /\ pc' = "copy"
  BY DEF CInv, IInv, TypeOK, Consistent, Committed, Prepare
<1>2. \E m : ValidMoves(disk, m) /\ journal' = MakeJournal(disk, m)
  BY <1>1 DEF Prepare
<1>3. \A X : Near(disk, X)'
  BY <1>1 DEF Near, Within
<1>4. \E m : MadeFrom(disk, m)'
  BY <1>1, <1>2, <1>3 DEF MadeFrom
<1>. QED BY <1>1, <1>4 DEF FirstInv

\* What a step that keeps the record and the command does to the volume.
LEMMA FirstStep ==
  ASSUME CInv, CInv', FirstInv, [Next]_vars, ~ Prepare,
         mode' = "defrag", journal' # NoJournal
  PROVE  /\ mode = "defrag" /\ journal' = journal /\ Committed' = Committed
         /\ \/ pc' = "down" /\ stage' = stage
            \/ UNCHANGED vars
            \/ Work
<1>1. /\ ~ StartRecover /\ ~ RemoveJournal
  BY DEF StartRecover, RemoveJournal
<1>2. ~ StartDefrag
  BY DEF StartDefrag
<1>3. Committed' = Committed
  BY CommittedStable DEF CInv
<1>4. CASE Work
  BY <1>1, <1>3, <1>4 DEF Work, CopyClusters, LinkMetadata, FreeSources, Write,
     SyncCopy, SyncLink, SyncFree, Sync, RecordCopied, RecordSwitched, RecordFreed, Record
<1>5. CASE Exit \/ Die \/ PowerLoss
  BY <1>3, <1>5 DEF Exit, Die, PowerLoss
<1>6. CASE UNCHANGED vars
  BY <1>3, <1>6 DEF vars
<1>. QED BY <1>1, <1>2, <1>4, <1>5, <1>6 DEF Next

\* A death or a power loss leaves a volume that is as near as the two were.
LEMMA FaultNear ==
  ASSUME NEW x, NEW X, Near(x, X), Exit \/ Die \/ PowerLoss,
         \/ pc \notin {"copy", "link", "free"}
         \/ pc = "copy" /\ X = CopyLoc(journal)
         \/ pc = "free" /\ X = FreeLoc(journal)
  PROVE  Near(x, X)'
<1>1. CASE Exit
  BY <1>1 DEF Exit, Near, Within
<1>2. CASE PowerLoss
  <2>1. PICK kept : disk' = Mix(cache, disk, kept)
    BY <1>2 DEF PowerLoss
  <2>2. Within(x, disk', X)
    BY <2>1, WithinWrites DEF Near
  <2>. QED BY <1>2, <2>2 DEF PowerLoss, Near, Within
<1>3. CASE Die
  <2>. DEFINE new == CASE pc = "copy" -> Copied(cache, journal)
                       [] pc = "link" -> Linked(cache, journal)
                       [] pc = "free" -> Freed(cache, journal)
                       [] OTHER -> cache
  <2>1. PICK kept : cache' = Mix(new, cache, kept)
    BY <1>3 DEF Die
  <2>2. new = IF pc = "copy" THEN Copied(cache, journal)
              ELSE IF pc = "free" THEN Freed(cache, journal) ELSE cache
    OBVIOUS
  <2>. HIDE DEF new
  <2>3. Within(x, cache, X)
    BY DEF Near
  <2>4. Within(x, new, X)
    BY <2>2, <2>3, WithinWrites
  <2>5. Within(x, cache', X)
    BY <2>1, <2>3, <2>4, WithinWrites
  <2>. QED BY <1>3, <2>5 DEF Die, Near, Within
<1>. QED BY <1>1, <1>2, <1>3

\* An own step of the process keeps what each stage says of the volume.
LEMMA WorkFirst ==
  ASSUME CInv, FirstInv, Work, journal # NoJournal, mode = "defrag", journal' = journal,
         mode' = mode, Committed' = Committed
  PROVE  FirstInv'
<1>. USE DEF FirstInv
<1>1. CASE CopyClusters
  <2>1. stage = "PREPARED" /\ stage' = stage /\ pc' = "syncCopy"
    BY <1>1 DEF CopyClusters, Write, CInv, IInv, TypeOK, Stages
  <2>2. ASSUME NEW v \in Volumes, NEW m, MadeFrom(v, m) PROVE MadeFrom(v, m)'
    <3>1. Within(v, cache', CopyLoc(journal))
      BY <1>1, <2>2, WithinWrites DEF CopyClusters, Write, MadeFrom, Near
    <3>. QED BY <1>1, <2>2, <3>1 DEF CopyClusters, Write, MadeFrom, Near, Within
  <2>. QED BY <2>1, <2>2
<1>2. CASE SyncCopy
  <2>1. stage = "PREPARED" /\ stage' = stage /\ pc' = "recordCopied"
    BY <1>2 DEF SyncCopy, Sync, CInv, IInv, TypeOK, Stages
  <2>2. ASSUME NEW v \in Volumes, NEW m, MadeFrom(v, m) PROVE MadeFrom(v, m)'
    BY <1>2, <2>2 DEF SyncCopy, Sync, MadeFrom, Near, Within
  <2>. QED BY <2>1, <2>2
<1>3. CASE RecordCopied
  BY <1>3 DEF RecordCopied, Record
<1>4. CASE LinkMetadata
  <2>1. stage = "DATA_COPIED" /\ stage' = stage /\ pc' = "syncLink"
    BY <1>4 DEF LinkMetadata, Write, CInv, IInv, TypeOK, Stages
  <2>. QED BY <2>1
<1>5. CASE SyncLink
  <2>1. stage = "DATA_COPIED" /\ stage' = stage /\ pc' = "recordSwitched"
    BY <1>5 DEF SyncLink, Sync, CInv, IInv, TypeOK, Stages
  <2>. QED BY <2>1
<1>6. CASE RecordSwitched
  <2>1. /\ stage' = "SWITCHED" /\ pc' = "free" /\ disk' = disk /\ cache' = cache
        /\ cache = disk /\ Committed = Freed(disk, journal)
    BY <1>6 DEF RecordSwitched, Record, CInv, IInv, Progress, Committed
  <2>2. Within(Committed, disk, FreeLoc(journal))
    BY <2>1, WithinWrites DEF Within
  <2>3. Near(Committed, FreeLoc(journal))'
    BY <2>1, <2>2 DEF Near, Within
  <2>. QED BY <2>1, <2>3
<1>7. CASE FreeSources
  <2>1. stage = "SWITCHED" /\ stage' = stage /\ pc' = "syncFree"
    BY <1>7 DEF FreeSources, Write, CInv, IInv, TypeOK, Stages
  <2>2. Within(Committed, cache', FreeLoc(journal))
    BY <1>7, <2>1, WithinWrites DEF FreeSources, Write, Near
  <2>3. Near(Committed, FreeLoc(journal))'
    BY <1>7, <2>1, <2>2 DEF FreeSources, Write, Near, Within
  <2>. QED BY <2>1, <2>3
<1>8. CASE SyncFree
  <2>1. stage = "SWITCHED" /\ stage' = stage /\ pc' = "recordFreed"
    BY <1>8 DEF SyncFree, Sync, CInv, IInv, TypeOK, Stages
  <2>2. Near(Committed, FreeLoc(journal))'
    BY <1>8, <2>1 DEF SyncFree, Sync, Near, Within
  <2>. QED BY <2>1, <2>2
<1>9. CASE RecordFreed
  <2>1. stage = "SWITCHED" /\ stage' = "OLD_FREED" /\ pc' = "remove" /\ disk' = disk /\ cache' = cache
    BY <1>9 DEF RecordFreed, Record, CInv, IInv, TypeOK, Stages
  <2>2. Near(Committed, FreeLoc(journal))'
    BY <2>1 DEF Near, Within
  <2>. QED BY <2>1, <2>2
<1>10. CASE RemoveJournal
  BY <1>10 DEF RemoveJournal
<1>. QED BY <1>1, <1>2, <1>3, <1>4, <1>5, <1>6, <1>7, <1>8, <1>9, <1>10 DEF Work

\* The whole invariant is inductive.
LEMMA StepFirst == CInv /\ FirstInv /\ [Next]_vars => CInv' /\ FirstInv'
<1>. SUFFICES ASSUME CInv, FirstInv, [Next]_vars PROVE CInv' /\ FirstInv'
  OBVIOUS
<1>1. CInv'
  BY StepCInv
<1>2. CASE Prepare
  BY <1>1, <1>2, PrepareFirst
<1>3. CASE ~ Prepare /\ ~ (mode' = "defrag" /\ journal' # NoJournal)
  BY <1>1, <1>3 DEF FirstInv
<1>4. CASE ~ Prepare /\ mode' = "defrag" /\ journal' # NoJournal
  <2>1. /\ mode = "defrag" /\ journal' = journal /\ Committed' = Committed
        /\ \/ pc' = "down" /\ stage' = stage
           \/ UNCHANGED vars
           \/ Work
    BY <1>1, <1>4, FirstStep
  <2>2. CASE Work
    BY <1>1, <1>4, <2>1, <2>2, WorkFirst
  <2>3. CASE UNCHANGED vars
    <3>1. \A v, m : MadeFrom(v, m) => MadeFrom(v, m)'
      BY <2>3 DEF vars, MadeFrom, Near, Within
    <3>2. Near(Committed, FreeLoc(journal)) => Near(Committed, FreeLoc(journal))'
      BY <2>1, <2>3 DEF vars, Near, Within
    <3>. QED BY <1>1, <2>1, <2>3, <3>1, <3>2 DEF FirstInv, vars
  <2>4. CASE Exit \/ Die \/ PowerLoss
    <3>1. pc' = "down" /\ stage' = stage
      BY <2>4 DEF Exit, Die, PowerLoss
    <3>2. CASE stage = "PREPARED"
      <4>1. pc \in {"copy", "syncCopy", "recordCopied", "down"} /\ \E v \in Volumes : \E m : MadeFrom(v, m)
        BY <1>4, <2>1, <3>2 DEF FirstInv
      <4>2. ASSUME NEW v \in Volumes, NEW m, MadeFrom(v, m) PROVE MadeFrom(v, m)'
        <5>1. \A x, X : /\ Near(x, X)
                        /\ \/ pc \notin {"copy", "link", "free"}
                           \/ pc = "copy" /\ X = CopyLoc(journal)
                        => Within(x, disk', X) /\ Within(x, cache', X)
          BY <2>4, FaultNear DEF Near
        <5>2. Near(v, CopyLoc(journal))'
          BY <2>1, <4>1, <4>2, <5>1 DEF MadeFrom, Near
        <5>. QED BY <2>1, <4>2, <5>2 DEF MadeFrom
      <4>. QED BY <1>1, <3>1, <3>2, <4>1, <4>2 DEF FirstInv
    <3>3. CASE stage = "DATA_COPIED"
      BY <1>1, <3>1, <3>3 DEF FirstInv
    <3>4. CASE stage \in {"SWITCHED", "OLD_FREED"}
      <4>1. /\ pc \in {"free", "syncFree", "recordFreed", "remove", "down"}
            /\ Near(Committed, FreeLoc(journal))
        BY <1>4, <2>1, <3>4 DEF FirstInv
      <4>2. Near(Committed, FreeLoc(journal))'
        <5>1. \A x, X : /\ Near(x, X)
                        /\ \/ pc \notin {"copy", "link", "free"}
                           \/ pc = "free" /\ X = FreeLoc(journal)
                        => Within(x, disk', X) /\ Within(x, cache', X)
          BY <2>4, FaultNear DEF Near
        <5>. QED BY <2>1, <4>1, <5>1 DEF Near
      <4>. QED BY <1>1, <3>1, <3>4, <4>2 DEF FirstInv
    <3>. QED BY <3>2, <3>3, <3>4 DEF CInv, IInv, TypeOK, Stages
  <2>5. CASE StartDefrag \/ StartRecover
    BY <1>4, <2>5 DEF StartDefrag, StartRecover
  <2>. QED BY <1>4, <2>2, <2>3, <2>4, <2>5 DEF Next
<1>. QED BY <1>1, <1>2, <1>3, <1>4

\* The property FirstAttemptReadable: before a transaction is first recovered,
\* the disk needs its record only between DATA_COPIED and SWITCHED.
THEOREM ReadableUnrecovered == Spec => []FirstAttemptReadable
<1>1. Init => CInv /\ FirstInv
  BY InitCInv DEF Init, FirstInv
<1>2. CInv /\ FirstInv => FirstAttemptReadable
  <2>1. SUFFICES ASSUME CInv, FirstInv, mode = "defrag", stage # "DATA_COPIED"
                 PROVE  Contents(disk) = Contents(Committed)
    BY DEF FirstAttemptReadable
  <2>2. CASE journal = NoJournal
    BY <2>2 DEF Committed
  <2>3. CASE journal # NoJournal /\ stage = "PREPARED"
    <3>1. PICK v \in Volumes : \E m : MadeFrom(v, m)
      BY <2>1, <2>3 DEF FirstInv
    <3>2. PICK m : MadeFrom(v, m)
      BY <3>1
    <3>. QED BY <2>1, <2>3, <3>2, PreparedReads DEF CInv
  <2>4. CASE journal # NoJournal /\ stage \in {"SWITCHED", "OLD_FREED"}
    BY <2>1, <2>4, SwitchedReads DEF FirstInv
  <2>. QED BY <2>1, <2>2, <2>3, <2>4 DEF CInv, IInv, TypeOK, Stages
<1>. QED BY <1>1, <1>2, StepFirst, PTL DEF Spec
=============================================================================
