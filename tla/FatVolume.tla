------------------------------ MODULE FatVolume ------------------------------
(***************************************************************************)
(* A FAT12/FAT16/FAT32 volume as the relocation engine of                  *)
(* gui/filesystems/fat/native sees it, and the pure part of one relocation *)
(* transaction: the journal that describes it and the three groups of      *)
(* writes that carry it out.                                               *)
(*                                                                         *)
(* A volume is one function from locations to values.  A location is the   *)
(* smallest thing a crash can keep or lose on its own: one entry of one    *)
(* FAT copy, the body or the first-cluster field of one 32-byte slot of a  *)
(* cluster, the root-cluster field or the FSInfo hint of one boot copy.    *)
(***************************************************************************)
EXTENDS Integers

CONSTANTS
    Clusters,    \* data clusters, numbered as on disk
    Copies,      \* the FAT copies the volume keeps up to date
    ActiveFat,   \* the copy fat32_load reads
    Boots,       \* boot-sector copies that hold a root cluster and an FSInfo
    PrimaryBoot, \* the boot sector at sector 0
    Slots,       \* 32-byte slots of one cluster
    Bodies,      \* what a slot holds besides its first-cluster field
    FatBits      \* 12, 16 or 32

ASSUME ClusterNumbers == Clusters \subseteq Nat \ {0, 1}
ASSUME ActiveCopy == ActiveFat \in Copies
ASSUME PrimaryCopy == PrimaryBoot \in Boots
ASSUME Variant == FatBits \in {12, 16, 32}

\* Entry values that are not cluster numbers; 0 is a free entry, and as a
\* first cluster it is "none".
Eoc == -1
Bad == -2
FatValues == Clusters \cup {0, Eoc, Bad}

\* Where directory entries live: a cluster, or 0, the fixed root region of
\* FAT12 and FAT16 (scan_directory is called with first_cluster 0 for it).
Containers == Clusters \cup {0}

FatEntry(k, c) == <<"fat", k, c>>
Body(c, s) == <<"body", c, s>>
Ref(c, s) == <<"ref", c, s>>
RootField(b) == <<"root", b>>
Hint(b) == <<"hint", b>>

FatLoc == {FatEntry(k, c) : k \in Copies, c \in Clusters}
BodyLoc == {Body(c, s) : c \in Containers, s \in Slots}
RefLoc == {Ref(c, s) : c \in Containers, s \in Slots}
BootLoc == {RootField(b) : b \in Boots} \cup {Hint(b) : b \in Boots}
Loc == FatLoc \cup BodyLoc \cup RefLoc \cup BootLoc

Volumes == {v \in [Loc -> FatValues \cup Bodies] :
              /\ \A l \in FatLoc : v[l] \in FatValues
              /\ \A l \in BodyLoc : v[l] \in Bodies
              /\ \A l \in RefLoc \cup BootLoc : v[l] \in Clusters \cup {0}}

FatValue(v, c) == v[FatEntry(ActiveFat, c)]
RootCluster(v) == v[RootField(PrimaryBoot)]
Free(v) == {c \in Clusters : FatValue(v, c) = 0}
Allocated(v) == {c \in Clusters : FatValue(v, c) \notin {0, Bad}}

\* Mirrored FAT copies agree: fat32_load refuses to defragment otherwise.
MirrorsAgree(v) ==
    \A k \in Copies, c \in Clusters : v[FatEntry(k, c)] = FatValue(v, c)

\* The slots whose first-cluster field scan_files records: every live entry
\* with a target, the dot entries included.
DirRefs(v) == {r \in Containers \X Slots :
                 /\ v[Ref(r[1], r[2])] # 0
                 /\ r[1] = 0 \/ r[1] \in Allocated(v)}

Predecessors(v, c) == {p \in Clusters : FatValue(v, p) = c}
UniquePredecessors(v) ==
    \A p, q \in Clusters : /\ FatValue(v, p) = FatValue(v, q)
                           /\ FatValue(v, p) \in Clusters
                           => p = q

-----------------------------------------------------------------------------
(* Moves: a function from source clusters to destination clusters.         *)

Sources(m) == DOMAIN m
Destinations(m) == {m[c] : c \in DOMAIN m}
Mapped(m, c) == IF c \in DOMAIN m THEN m[c] ELSE c
SourceOf(m, d) == CHOOSE c \in DOMAIN m : m[c] = d

\* What build_relocation_map accepts: distinct sources and destinations, all
\* in range, the two sets disjoint.
RelocationMap(m) ==
    /\ DOMAIN m # {} /\ DOMAIN m \subseteq Clusters
    /\ \A c \in DOMAIN m : m[c] \in Clusters
    /\ \A c, d \in DOMAIN m : m[c] = m[d] => c = d
    /\ Sources(m) \cap Destinations(m) = {}

\* What the schedulers of writer.c offer: movable clusters to free ones.
Offered(v, m) == /\ Sources(m) \subseteq Allocated(v)
                 /\ Destinations(m) \subseteq Free(v)

\* A first cluster must be named by an entry or be the root.
FirstClustersReferenced(v, m) ==
    \A c \in DOMAIN m : \/ Predecessors(v, c) # {}
                        \/ c = RootCluster(v)
                        \/ \E r \in DirRefs(v) : v[Ref(r[1], r[2])] = c

ValidMoves(v, m) == /\ RelocationMap(m)
                    /\ Offered(v, m)
                    /\ UniquePredecessors(v)
                    /\ FirstClustersReferenced(v, m)

\* Everything an allocated cluster or the fixed root holds or names.
Live(v) == Allocated(v) \cup {0}

\* A volume scan_files would accept, as far as relocation depends on it:
\* copies agree, and live clusters, entries and the root name live clusters.
Sound(v) == /\ MirrorsAgree(v)
            /\ UniquePredecessors(v)
            /\ \A b \in Boots : v[RootField(b)] = RootCluster(v)
            /\ RootCluster(v) \in Live(v)
            /\ \A c \in Allocated(v) : FatValue(v, c) \in Allocated(v) \cup {Eoc}
            /\ \A c \in Live(v), s \in Slots : v[Ref(c, s)] \in Live(v)

\* w is v with every live cluster c renamed to Mapped(m, c), in every copy of
\* the FAT and of the boot sector, and nothing allocated besides.
Renamed(v, w, m) ==
    /\ \A k \in Copies, c \in Allocated(v) :
           w[FatEntry(k, Mapped(m, c))] = Mapped(m, v[FatEntry(k, c)])
    /\ \A k \in Copies, c \in Clusters \ {Mapped(m, x) : x \in Allocated(v)} :
           w[FatEntry(k, c)] = IF v[FatEntry(k, c)] = Bad THEN Bad ELSE 0
    /\ \A c \in Live(v), s \in Slots :
           /\ w[Body(Mapped(m, c), s)] = v[Body(c, s)]
           /\ w[Ref(Mapped(m, c), s)] = Mapped(m, v[Ref(c, s)])
    /\ \A b \in Boots : w[RootField(b)] = Mapped(m, v[RootField(b)])

-----------------------------------------------------------------------------
(* The journal record of one transaction.                                  *)

\* A mistaken variant: a short entry that moves itself is patched at its old place.
DirPatchesOldPlace(v, m) ==
    {<<r[1], r[2], m[v[Ref(r[1], r[2])]]>> :
        r \in {q \in DirRefs(v) : v[Ref(q[1], q[2])] \in DOMAIN m}}

\* The entries to patch, each where it will be once its container has moved.
DirPatches(v, m) ==
    {<<Mapped(m, r[1]), r[2], m[v[Ref(r[1], r[2])]]>> :
        r \in {q \in DirRefs(v) : v[Ref(q[1], q[2])] \in DOMAIN m}}

Predecessor(v, c) == IF Predecessors(v, c) = {} THEN 0
                     ELSE CHOOSE p \in Predecessors(v, c) : TRUE

MakeJournal(v, m) ==
    [moves       |-> m,
     next        |-> [c \in DOMAIN m |-> FatValue(v, c)],
     predecessor |-> [c \in DOMAIN m |-> Predecessor(v, c)],
     patches     |-> DirPatches(v, m),
     rootOld     |-> RootCluster(v),
     rootNew     |-> Mapped(m, RootCluster(v))]

\* The shape of a journal record the engine wrote: a patch never lies in a
\* cluster that is about to be copied away.
IsJournal(j) ==
    /\ DOMAIN j.moves \subseteq Clusters
    /\ LET S == DOMAIN j.moves
       IN j \in [moves : [S -> Clusters], next : [S -> FatValues],
                 predecessor : [S -> Clusters \cup {0}],
                 patches : SUBSET (Containers \X Slots \X Clusters),
                 rootOld : Clusters \cup {0}, rootNew : Clusters \cup {0}]
    /\ RelocationMap(j.moves)
    /\ \A p \in j.patches : p[1] \notin Sources(j.moves)

\* relocation_journal_read calls a record "incomplete or corrupt" without
\* moves or with a root below 2.
ReadAccepts(j) == DOMAIN j.moves # {} /\ j.rootOld >= 2 /\ j.rootNew >= 2

-----------------------------------------------------------------------------
(* The writes of one transaction, group by group.                          *)

Copied(v, j) ==
    [l \in Loc |-> IF l[1] \in {"body", "ref"} /\ l[2] \in Destinations(j.moves)
                   THEN v[<<l[1], SourceOf(j.moves, l[2]), l[3]>>]
                   ELSE v[l]]

\* Unmoved clusters whose successor moves.
Rechained(j, p) == {c \in DOMAIN j.moves : j.predecessor[c] = p}
ExternalPredecessor(j, p) == p \notin DOMAIN j.moves /\ Rechained(j, p) # {}
PatchesAt(j, c, s) == {p \in j.patches : p[1] = c /\ p[2] = s}

\* A mistaken variant: the copied chain keeps pointing at the old successor.
LinkValueOldNext(v, j, l) ==
    CASE l[1] = "fat" /\ l[3] \in Destinations(j.moves) ->
           j.next[SourceOf(j.moves, l[3])]
      [] l[1] = "fat" /\ l[3] \notin Destinations(j.moves)
                      /\ ExternalPredecessor(j, l[3]) ->
           j.moves[CHOOSE c \in Rechained(j, l[3]) : TRUE]
      [] l[1] = "ref" /\ PatchesAt(j, l[2], l[3]) # {} ->
           (CHOOSE p \in PatchesAt(j, l[2], l[3]) : TRUE)[3]
      [] l[1] = "root" /\ j.rootNew # j.rootOld -> j.rootNew
      [] OTHER -> v[l]

LinkValue(v, j, l) ==
    CASE l[1] = "fat" /\ l[3] \in Destinations(j.moves) ->
           Mapped(j.moves, j.next[SourceOf(j.moves, l[3])])
      [] l[1] = "fat" /\ l[3] \notin Destinations(j.moves)
                      /\ ExternalPredecessor(j, l[3]) ->
           j.moves[CHOOSE c \in Rechained(j, l[3]) : TRUE]
      [] l[1] = "ref" /\ PatchesAt(j, l[2], l[3]) # {} ->
           (CHOOSE p \in PatchesAt(j, l[2], l[3]) : TRUE)[3]
      [] l[1] = "root" /\ j.rootNew # j.rootOld -> j.rootNew
      [] OTHER -> v[l]
Linked(v, j) == [l \in Loc |-> LinkValue(v, j, l)]

LowestSource(j) == CHOOSE c \in DOMAIN j.moves : \A d \in DOMAIN j.moves : c <= d
\* A mistaken variant: the sources are freed in the active FAT copy only.
FreedInOneCopy(v, j) ==
    [l \in Loc |-> IF l[1] = "fat" /\ l[2] = ActiveFat /\ l[3] \in DOMAIN j.moves THEN 0
                   ELSE IF l[1] = "hint" /\ FatBits = 32 THEN LowestSource(j)
                   ELSE v[l]]
Freed(v, j) ==
    [l \in Loc |-> IF l[1] = "fat" /\ l[3] \in DOMAIN j.moves THEN 0
                   ELSE IF l[1] = "hint" /\ FatBits = 32 THEN LowestSource(j)
                   ELSE v[l]]

\* The whole transaction: what complete_relocation_journal turns a volume
\* into, from whatever stage it starts.
Redo(v, j) == Freed(Linked(Copied(v, j), j), j)

\* Every location a transaction may write.
Written(j) ==
    {l \in Loc : \/ /\ l[1] = "fat"
                    /\ \/ l[3] \in Destinations(j.moves) \cup DOMAIN j.moves
                       \/ ExternalPredecessor(j, l[3])
                 \/ l[1] \in {"body", "ref"} /\ l[2] \in Destinations(j.moves)
                 \/ l[1] = "ref" /\ PatchesAt(j, l[2], l[3]) # {}
                 \/ l[1] = "root" /\ j.rootNew # j.rootOld
                 \/ l[1] = "hint" /\ FatBits = 32}

-----------------------------------------------------------------------------
(* Writes that did not all happen.                                         *)

Differing(a, b) == {l \in Loc : a[l] # b[l]}
Mix(new, old, kept) == [l \in Loc |-> IF l \in kept THEN new[l] ELSE old[l]]
=============================================================================
