----------------------------- MODULE FatNamespace -----------------------------
(***************************************************************************)
(* What a FAT volume means: the tree scan_files reads from it, and the     *)
(* checks scan_files makes before any command touches the volume.          *)
(***************************************************************************)
EXTENDS FatVolume, FiniteSets, Functions, Sequences

CONSTANTS
    DirBodies, \* bodies of entries with the directory attribute
    DotBodies, \* the bodies of "." and ".."
    NoBody,    \* an unused slot
    MaxDepth   \* MAX_RECURSION_DEPTH: directories nested deeper are refused

ASSUME FiniteClusters == IsFiniteSet(Clusters)
ASSUME Depth == MaxDepth \in Nat

\* fat32_read_chain, for as long as the links stay inside the data region.
Follow(v, sofar) ==
    LET next == FatValue(v, sofar[Len(sofar)])
    IN IF next \in Clusters THEN Append(sofar, next) ELSE sofar
Chain(v, first) ==
    LET walk[n \in 0..Cardinality(Clusters)] ==
          IF n = 0 THEN <<first>> ELSE Follow(v, walk[n - 1])
    IN walk[Cardinality(Clusters)]

ChainSet(v, first) == Range(Chain(v, first))

\* It ends in an end mark and visits no cluster twice.
ChainEnds(v, first) ==
    LET chain == Chain(v, first)
    IN /\ Cardinality(Range(chain)) = Len(chain)
       /\ FatValue(v, chain[Len(chain)]) = Eoc

\* An object: its path, its first cluster, whether it is a directory.
RootObject(v) == [path |-> <<>>, first |-> RootCluster(v), dir |-> TRUE]

\* Where its bytes are: its chain, or the fixed root region, or nowhere.
Units(v, o) == IF o.first # 0 THEN Chain(v, o.first)
               ELSE IF o = RootObject(v) THEN <<0>> ELSE <<>>

\* The slots of a directory that name an object, and the object.
Entries(v, o) == {e \in Range(Units(v, o)) \X Slots :
                    v[Body(e[1], e[2])] \notin DotBodies \cup {NoBody}}
Child(v, o, e) == [path |-> Append(o.path, v[Body(e[1], e[2])]),
                   first |-> v[Ref(e[1], e[2])],
                   dir |-> v[Body(e[1], e[2])] \in DirBodies]
Children(v, o) == IF o.dir THEN {Child(v, o, e) : e \in Entries(v, o)} ELSE {}

\* With what a directory at the depth limit names.
Scanned(v, objects) == objects \cup UNION {Children(v, o) : o \in objects}
Objects(v) ==
    LET level[n \in 0..(MaxDepth + 1)] ==
          IF n = 0 THEN {RootObject(v)} ELSE Scanned(v, level[n - 1])
    IN level[MaxDepth + 1]

\* Every path with the slots of its chain in order; a first-cluster field
\* means the paths it leads to, wherever their first cluster is.  A chain
\* that does not end in an end mark is not readable.
Target(objects, r) == {o.path : o \in {x \in objects : x.first = r /\ r # 0}}
Data(v, objects, chain) ==
    [i \in DOMAIN chain |->
        [s \in Slots |-> <<v[Body(chain[i], s)], Target(objects, v[Ref(chain[i], s)])>>]]
Contents(v) ==
    LET objects == Objects(v)
    IN {<<o.path, Data(v, objects, Units(v, o)), o.first = 0 \/ ChainEnds(v, o.first)>> :
          o \in objects}

\* scan_files (with fat32_load) finishes: the copies agree, no directory is
\* too deep, every chain is sound, no cluster is claimed twice and none is
\* allocated but unreferenced.
ScanAccepts(v) ==
    LET objects == {o \in Objects(v) : o.first # 0}
    IN /\ MirrorsAgree(v)
       /\ \A o \in objects : o.dir => Len(o.path) <= MaxDepth
       /\ \A o \in objects : ChainEnds(v, o.first)
       /\ \A o, p \in objects : o # p => ChainSet(v, o.first) \cap ChainSet(v, p.first) = {}
       /\ UNION {ChainSet(v, o.first) : o \in objects} = Allocated(v)
=============================================================================
