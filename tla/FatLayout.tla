------------------------------ MODULE FatLayout ------------------------------
(***************************************************************************)
(* The layout scheduler of the FAT worker: fat_relayout.c plans where each *)
(* object goes, writer.c gets it there by relocation transactions.  One    *)
(* transaction is one step here; FatRelocation is what happens inside it.  *)
(* An object is a file or a directory with a cluster chain.  The scheduler *)
(* rescans the volume before each transaction, so place is what it knows.  *)
(***************************************************************************)
EXTENDS Integers, Sequences, FiniteSets, SequencesExt

CONSTANTS
    Objects,      \* files and directories that own clusters
    Directories,  \* those that are directories; they get no reserve
    Size,         \* clusters of each
    LastCluster,  \* max_cluster; clusters are numbered from 2
    Setups,       \* [percent, ram, batch, budget, bad]: the reserve asked for;
                  \* in clusters, the RAM limit, the preparation batch and the
                  \* 64 MiB that one adaptive transaction may move; bad clusters
    InitialPlaces \* the chains before the command

\* No two objects share a cluster: FatNamespace refuses a volume with cross
\* links, so none reaches the scheduler.
Disjoint(p) == \A o, q \in Objects : \A i \in 1..Size[o], j \in 1..Size[q] :
                 p[o][i] = p[q][j] => o = q /\ i = j

ASSUME FiniteObjects == IsFiniteSet(Objects) /\ LastCluster \in Nat
ASSUME Sizes == Directories \subseteq Objects /\ Size \in [Objects -> Nat \ {0}]
ASSUME SetupRecords ==
    Setups \subseteq [percent : Nat, ram : Nat \ {0}, batch : Nat \ {0}, budget : Nat,
                      bad : SUBSET (2..LastCluster)]
ASSUME ChainsGiven ==
    \A p \in InitialPlaces : /\ \A o \in Objects : p[o] \in [1..Size[o] -> 2..LastCluster]
                             /\ Disjoint(p)

VARIABLES
    setup,     \* the command's options and the volume's bad clusters
    place,     \* the chain of each object
    order,     \* the objects by lowest cluster when the command began
    target,    \* where the plan puts each object
    workspace, \* first cluster of the terminal safety workspace
    pc,
    next,      \* forward pass: first object not yet placed; fallback: the last
    staged,    \* objects of the batch in the workspace, and where each starts
    original,  \* the chain of the object the fallback has staged
    stop       \* Stop was requested
vars == <<setup, place, order, target, workspace, pc, next, staged, original, stop>>

Clusters == 2..LastCluster
Files == Objects \ Directories
Used(p) == UNION {Range(p[o]) : o \in Objects}
\* A mistaken variant: bad clusters count as free.
FreeOrBad(p) == Clusters \ Used(p)
Free(p) == (Clusters \ setup.bad) \ Used(p)
Run(start, length) == start..(start + length - 1)
Contiguous(start, length) == [i \in 1..length |-> start + i - 1]
PhysicalFirst(p, o) == Min(Range(p[o]))
Exact(p, o, start) == p[o] = Contiguous(start, Size[o])
Total(objects) == FoldLeft(LAMBDA total, o : total + Size[o], 0, objects)
Largest == Max({Size[o] : o \in Objects})
Reserve(o) == IF o \in Directories THEN 0 ELSE (Size[o] * setup.percent + 99) \div 100

\* at, with o at start.
With(at, o, start) == [q \in DOMAIN at \cup {o} |-> IF q = o THEN start ELSE at[q]]

\* The i-th lowest member, and a member's place in that order.
Nth(S, i) == CHOOSE x \in S : Cardinality({y \in S : y <= x}) = i
Rank(S, x) == Cardinality({y \in S : y <= x})

PhysicalOrder(p) ==
    [i \in 1..Cardinality(Objects) |->
        CHOOSE o \in Objects :
            Cardinality({q \in Objects : PhysicalFirst(p, q) <= PhysicalFirst(p, o)}) = i]

-----------------------------------------------------------------------------
(* The plan.                                                               *)

\* First clusters of the runs of a length that avoid bad clusters.
UsableRuns(cursor, length, limit) ==
    {s \in cursor..(limit - length) : Run(s, length) \cap setup.bad = {}}

\* Where a reserve of r usable clusters after cursor can end.
ReserveEnds(cursor, r, limit) ==
    {c \in cursor..limit : Cardinality((cursor..(c - 1)) \ setup.bad) = r}

\* A mistaken variant: no reserve is left behind a file.
PlanStepWithoutReserve(limit, plan, o) ==
    LET runs == UsableRuns(plan.cursor, Size[o], limit)
    IN IF ~ plan.fits \/ runs = {} THEN [plan EXCEPT !.fits = FALSE]
       ELSE [fits |-> TRUE, cursor |-> Min(runs) + Size[o],
             at |-> With(plan.at, o, Min(runs))]

\* The next object at the first run that holds it, a file with its reserve.
PlanStep(limit, plan, o) ==
    LET runs == UsableRuns(plan.cursor, Size[o], limit)
        ends == ReserveEnds(Min(runs) + Size[o], Reserve(o), limit)
    IN IF ~ plan.fits \/ runs = {} \/ ends = {} THEN [plan EXCEPT !.fits = FALSE]
       ELSE [fits |-> TRUE, cursor |-> Min(ends), at |-> With(plan.at, o, Min(runs))]
EmptyPlan == [fits |-> TRUE, cursor |-> 2, at |-> <<>>]
Plan(objects, limit) ==
    FoldLeft(LAMBDA plan, o : PlanStep(limit, plan, o), EmptyPlan, objects)

\* fat_relayout_preflight and fat_relayout_matches_canonical.
ReserveFree(p, o) ==
    \E c \in ReserveEnds(p[o][1] + Size[o], Reserve(o), LastCluster + 1) :
        (p[o][1] + Size[o])..(c - 1) \subseteq Free(p) \cup setup.bad
Preflight(p) == /\ \A o \in Objects : Exact(p, o, p[o][1])
                /\ \A o \in Files : ReserveFree(p, o)
MatchesCanonical(p) ==
    LET plan == Plan(PhysicalOrder(p), LastCluster + 1)
    IN plan.fits /\ \A o \in Objects : plan.at[o] = PhysicalFirst(p, o)

\* fat_analysis_verify_layout_policy, which ends every uninterrupted command.
HighWater(p) == Max(Used(p))
VerifyAccepts(p) ==
    /\ \A o \in Objects : Exact(p, o, p[o][1])
    /\ MatchesCanonical(p)
    /\ setup.percent = 0 => Free(p) \cap (2..HighWater(p)) = {}

-----------------------------------------------------------------------------
(* Transactions: whole objects, or single clusters.                        *)

Moved(p, at) == [o \in Objects |-> IF o \in DOMAIN at THEN Contiguous(at[o], Size[o])
                                   ELSE p[o]]
\* A mistaken variant: only the first cluster of an object follows its move.
RemappedFirst(p, map) == [o \in Objects |-> [i \in DOMAIN p[o] |->
                       IF i = 1 /\ p[o][i] \in DOMAIN map THEN map[p[o][i]] ELSE p[o][i]]]
Remapped(p, map) == [o \in Objects |-> [i \in DOMAIN p[o] |->
                       IF p[o][i] \in DOMAIN map THEN map[p[o][i]] ELSE p[o][i]]]

InPlace(p, o) == Exact(p, o, target[o])
\* A mistaken variant: only the first cluster of a target is tested.
TargetStartsFree(p, o) == target[o] \in Free(p)
TargetFree(p, o) == Run(target[o], Size[o]) \subseteq Free(p)
WorkspaceRange == workspace..LastCluster
WorkspaceSize == LastCluster - workspace + 1
OrderFrom(i) == SubSeq(order, i, Len(order))

\* A batch of moves: where each of its objects goes, and their clusters.
Nothing == [at |-> <<>>, total |-> 0]
Joined(batch, o, start) == [batch EXCEPT !.at = With(@, o, start), !.total = @ + Size[o]]
IndexOf(o) == CHOOSE i \in DOMAIN order : order[i] = o

-----------------------------------------------------------------------------
(* fat_relayout_volume up to its first transaction.                        *)

\* The safety workspace: all objects, within RAM, the tail that the plan
\* leaves and the clusters after the last bad one, but at least the largest.
TerminalCapacity == LastCluster - Max(setup.bad \cup {1})
WorkspaceClusters(objects, plan) ==
    Max({Largest, Min({Total(objects), setup.ram, LastCluster + 1 - plan.cursor,
                       TerminalCapacity})})

Feasible(objects, plan) ==
    LET free == Cardinality(Free(place))
        reserve == FoldFunctionOnSet(LAMBDA a, b : a + b, 0,
                                     [o \in Objects |-> Reserve(o)], Objects)
    IN /\ free > Largest
       /\ reserve <= free - Largest
       /\ plan.fits
       /\ WorkspaceClusters(objects, plan) <= Min({LastCluster + 1 - plan.cursor, TerminalCapacity})

Start ==
    /\ pc = "start"
    /\ LET objects == PhysicalOrder(place)
           plan == Plan(objects, LastCluster + 1)
       IN \/ /\ Files = {} \/ (Preflight(place) /\ MatchesCanonical(place))
             /\ pc' = "verify"
             /\ UNCHANGED <<order, workspace>>
          \/ /\ Files # {} /\ ~ (Preflight(place) /\ MatchesCanonical(place))
             /\ IF Feasible(objects, plan)
                THEN /\ order' = objects
                     /\ workspace' = LastCluster + 1 - WorkspaceClusters(objects, plan)
                     /\ pc' = "evacuate"
                ELSE /\ pc' = "refused"
                     /\ UNCHANGED <<order, workspace>>
    /\ UNCHANGED <<setup, place, target, next, staged, original, stop>>

\* prepare_terminal_workspace: a batch of clusters from the workspace to the
\* lowest free clusters below it, until none is left; then the plan again,
\* below the workspace.
Evacuate ==
    /\ pc = "evacuate"
    /\ ~ stop
    /\ LET sources == Used(place) \cap WorkspaceRange
           room == Free(place) \ WorkspaceRange
           n == Min({Cardinality(sources), setup.batch, WorkspaceSize})
           moving == {c \in sources : Rank(sources, c) <= n}
           plan == Plan(order, workspace)
       IN \/ /\ sources # {} /\ Cardinality(room) >= n
             /\ place' = Remapped(place, [c \in moving |-> Nth(room, Rank(sources, c))])
             /\ UNCHANGED <<target, next, pc>>
          \/ /\ sources # {} /\ Cardinality(room) < n
             /\ pc' = "died"
             /\ UNCHANGED <<place, target, next>>
          \/ /\ sources = {} /\ plan.fits
             /\ target' = plan.at
             /\ next' = 1
             /\ pc' = "forward"
             /\ UNCHANGED place
          \/ /\ sources = {} /\ ~ plan.fits
             /\ pc' = "died"
             /\ UNCHANGED <<place, target, next>>
    /\ UNCHANGED <<setup, order, workspace, staged, original, stop>>

-----------------------------------------------------------------------------
(* Staging a batch in the workspace and placing it: the forward pass, and  *)
(* the unified pass that stages everything that is left.                   *)

\* The objects the forward pass takes together, at successive workspace
\* clusters; it gives up on one whose target is to its right or that does
\* not fit in the workspace.
ForwardStep(p, batch, o) ==
    IF ~ batch.more THEN batch
    ELSE IF InPlace(p, o) THEN [batch EXCEPT !.more = FALSE]
    ELSE IF \/ target[o] > PhysicalFirst(p, o)
            \/ batch.at = <<>> /\ Size[o] > WorkspaceSize
         THEN [batch EXCEPT !.more = FALSE, !.possible = FALSE]
    ELSE IF /\ batch.at # <<>>
            /\ \/ batch.total + Size[o] > WorkspaceSize
               \/ batch.total + Size[o] > setup.ram
         THEN [batch EXCEPT !.more = FALSE]
    ELSE Joined(batch, o, workspace + batch.total)
ForwardBatch(p, from) ==
    FoldLeft(LAMBDA batch, o : ForwardStep(p, batch, o),
             [at |-> <<>>, total |-> 0, more |-> TRUE, possible |-> TRUE], OrderFrom(from))

\* A mistaken variant: the batch is assumed to leave its targets free.
TargetsAssumed(p, S) == TRUE

\* Every target of the batch is free once the batch has left its sources.
TargetsRelease(p, S) ==
    \A o \in S : Run(target[o], Size[o]) \subseteq Free(p) \cup UNION {Range(p[q]) : q \in S}

Forward ==
    /\ pc = "forward"
    /\ ~ stop
    /\ LET waiting == {i \in next..Len(order) : ~ InPlace(place, order[i])}
           batch == ForwardBatch(place, Min(waiting))
       IN \/ /\ waiting = {}
             /\ pc' = "verify"
             /\ UNCHANGED <<place, next, staged>>
          \/ /\ waiting # {}
             /\ IF batch.possible /\ TargetsRelease(place, DOMAIN batch.at)
                THEN /\ staged' = batch.at
                     /\ place' = Moved(place, staged')
                     /\ next' = Min(waiting)
                     /\ pc' = "forwardPlace"
                ELSE /\ pc' = "unified"
                     /\ UNCHANGED <<place, next, staged>>
    /\ UNCHANGED <<setup, order, target, workspace, original, stop>>

\* Every object that is not in place, at successive workspace clusters.
UnifiedStep(p, batch, o) ==
    IF InPlace(p, o) THEN batch ELSE Joined(batch, o, workspace + batch.total)
UnifiedBatch(p) == FoldLeft(LAMBDA batch, o : UnifiedStep(p, batch, o), Nothing, order)

Unified ==
    /\ pc = "unified"
    /\ LET moving == UnifiedBatch(place)
           fits == moving.total <= WorkspaceSize /\ moving.total <= setup.ram
       IN \/ /\ moving.at = <<>>
             /\ pc' = "verify"
             /\ UNCHANGED <<place, staged>>
          \/ /\ moving.at # <<>> /\ ~ fits
             /\ pc' = "adaptive"
             /\ UNCHANGED <<place, staged>>
          \/ /\ moving.at # <<>> /\ fits
             /\ IF Run(workspace, moving.total) \subseteq Free(place)
                THEN /\ staged' = moving.at
                     /\ place' = Moved(place, staged')
                     /\ pc' = "unifiedPlace"
                ELSE /\ pc' = "died"
                     /\ UNCHANGED <<place, staged>>
    /\ UNCHANGED <<setup, order, target, workspace, next, original, stop>>

PlaceStaged(from, to, n) ==
    /\ pc = from
    /\ ~ stop
    /\ IF \A o \in DOMAIN staged : Exact(place, o, staged[o]) /\ TargetFree(place, o)
       THEN /\ place' = Moved(place, [o \in DOMAIN staged |-> target[o]])
            /\ next' = n
            /\ staged' = <<>>
            /\ pc' = to
       ELSE /\ pc' = "died"
            /\ UNCHANGED <<place, next, staged>>
    /\ UNCHANGED <<setup, order, target, workspace, original, stop>>

ForwardPlace == PlaceStaged("forwardPlace", "forward", next + Cardinality(DOMAIN staged))
UnifiedPlace == PlaceStaged("unifiedPlace", "verify", next)

-----------------------------------------------------------------------------
(* execute_adaptive_dependency_layout.                                     *)

AdaptiveLimit == Min({setup.budget, setup.ram})
Exceeds(batch, o) == batch.at # <<>> /\ batch.total + Size[o] > AdaptiveLimit

\* A mistaken variant: the direct batch does not look whether a target is free.
DirectUnchecked(p, batch, o) ==
    IF InPlace(p, o) \/ Exceeds(batch, o) THEN batch ELSE Joined(batch, o, target[o])

\* Objects whose target is free already, from the last to the first.
DirectStep(p, batch, o) ==
    IF InPlace(p, o) \/ ~ TargetFree(p, o) \/ Exceeds(batch, o) THEN batch
    ELSE Joined(batch, o, target[o])
DirectBatch(p) == FoldLeft(LAMBDA batch, o : DirectStep(p, batch, o), Nothing, Reverse(order))

\* What an unplaced object holds of the targets still needed.
Score(p, o) ==
    Cardinality({c \in Range(p[o]) :
        \E q \in Objects : ~ InPlace(p, q) /\ c \in Run(target[q], Size[q])})

RunsIn(S, length) == {s \in S : Run(s, length) \subseteq S}

\* A mistaken variant: an object already staged, or in nobody's way, is staged.
BlockersStagedToo(p) == {o \in Objects : /\ ~ InPlace(p, o)
                                         /\ RunsIn(Free(p) \cap WorkspaceRange, Size[o]) # {}}
Blockers(p) == {o \in Objects : /\ ~ InPlace(p, o)
                                /\ ~ Range(p[o]) \subseteq WorkspaceRange
                                /\ Score(p, o) > 0
                                /\ RunsIn(Free(p) \cap WorkspaceRange, Size[o]) # {}}

\* Highest score first, then the smaller, then the earlier object.
Before(p, a, b) ==
    \/ Score(p, a) > Score(p, b)
    \/ Score(p, a) = Score(p, b) /\ Size[a] < Size[b]
    \/ Score(p, a) = Score(p, b) /\ Size[a] = Size[b] /\ IndexOf(a) < IndexOf(b)

Ranked(p) == [i \in 1..Cardinality(Blockers(p)) |-> CHOOSE o \in Blockers(p) :
                 Cardinality({q \in Blockers(p) : Before(p, q, o)}) = i - 1]

\* The blockers of one transaction, each in the lowest workspace run left.
Taken(at) == UNION {Run(at[o], Size[o]) : o \in DOMAIN at}
StageStep(p, batch, o) ==
    LET runs == RunsIn((Free(p) \cap WorkspaceRange) \ Taken(batch.at), Size[o])
    IN IF runs = {} \/ Exceeds(batch, o) THEN batch ELSE Joined(batch, o, Min(runs))
StageBatch(p) == FoldLeft(LAMBDA batch, o : StageStep(p, batch, o), Nothing, Ranked(p))

Adaptive ==
    /\ pc = "adaptive"
    /\ ~ stop
    /\ LET direct == DirectBatch(place).at
           blockers == StageBatch(place).at
       IN \/ /\ \A o \in Objects : InPlace(place, o)
             /\ pc' = "verify"
             /\ UNCHANGED <<place, next>>
          \/ /\ direct # <<>>
             /\ place' = Moved(place, direct)
             /\ UNCHANGED <<pc, next>>
          \/ /\ \E o \in Objects : ~ InPlace(place, o)
             /\ direct = <<>>
             /\ IF blockers # <<>>
                THEN place' = Moved(place, blockers) /\ UNCHANGED <<pc, next>>
                ELSE pc' = "fallback" /\ next' = Len(order) /\ UNCHANGED place
    /\ UNCHANGED <<setup, order, target, workspace, staged, original, stop>>

-----------------------------------------------------------------------------
(* The one-object fallback, from the last object to the first.             *)

\* Consecutive objects from the end that are in place or whose target is
\* free: how far it gets, and the batch it moves.
ReverseStep(p, batch, o) ==
    IF ~ batch.more THEN batch
    ELSE IF InPlace(p, o) THEN [batch EXCEPT !.next = @ - 1]
    ELSE IF \/ ~ TargetFree(p, o)
            \/ batch.at # <<>> /\ batch.total + Size[o] > setup.ram
         THEN [batch EXCEPT !.more = FALSE]
    ELSE [Joined(batch, o, target[o]) EXCEPT !.next = @ - 1,
                                             !.more = batch.total + Size[o] < setup.ram]
ReverseBatch(p, from) ==
    FoldLeft(LAMBDA batch, o : ReverseStep(p, batch, o),
             [at |-> <<>>, total |-> 0, next |-> from, more |-> TRUE],
             Reverse(SubSeq(order, 1, from)))

Fallback ==
    /\ pc = "fallback"
    /\ next # 0 => ~ stop
    /\ LET batch == ReverseBatch(place, next)
           object == order[next]
           staging == Run(workspace, Size[object])
       IN \/ /\ next = 0
             /\ pc' = "verify"
             /\ UNCHANGED <<place, next, original>>
          \/ /\ next # 0 /\ batch.next # next
             /\ place' = Moved(place, batch.at)
             /\ next' = batch.next
             /\ UNCHANGED <<pc, original>>
          \/ /\ next # 0 /\ batch.next = next
             /\ IF staging \subseteq Free(place)
                THEN /\ original' = place[object]
                     /\ place' = Moved(place, With(<<>>, object, workspace))
                     /\ pc' = "unblock"
                ELSE /\ pc' = "occupied"
                     /\ UNCHANGED <<place, original>>
             /\ UNCHANGED next
    /\ UNCHANGED <<setup, order, target, workspace, staged, stop>>

\* Whatever is still in the target moves to the clusters the staged object
\* left; these two steps and the staging have no Stop check between them.
Unblock ==
    /\ pc = "unblock"
    /\ LET object == order[next]
           wanted == Run(target[object], Size[object])
           blockers == wanted \ Free(place)
           slots == {i \in DOMAIN original : original[i] \notin wanted}
       IN IF /\ Exact(place, object, workspace)
             /\ {original[i] : i \in slots} \subseteq Free(place) \/ blockers = {}
             /\ Cardinality(blockers) <= Cardinality(slots)
          THEN /\ place' = Remapped(place, [c \in blockers |->
                               original[Nth(slots, Rank(blockers, c))]])
               /\ pc' = "fallbackPlace"
          ELSE /\ pc' = "died"
               /\ UNCHANGED place
    /\ UNCHANGED <<setup, order, target, workspace, next, staged, original, stop>>

FallbackPlace ==
    /\ pc = "fallbackPlace"
    /\ LET object == order[next]
       IN IF Exact(place, object, workspace) /\ TargetFree(place, object)
          THEN /\ place' = Moved(place, With(<<>>, object, target[object]))
               /\ next' = next - 1
               /\ pc' = "fallback"
          ELSE /\ pc' = "died"
               /\ UNCHANGED <<place, next>>
    /\ UNCHANGED <<setup, order, target, workspace, staged, original, stop>>

-----------------------------------------------------------------------------
(* The ends of the command, and Stop.                                      *)

Verify ==
    /\ pc = "verify"
    /\ pc' = IF VerifyAccepts(place) THEN "completed" ELSE "unverified"
    /\ UNCHANGED <<setup, place, order, target, workspace, next, staged, original, stop>>

\* Stop is looked at between two transactions.
Stopped ==
    /\ stop
    /\ \/ pc \in {"evacuate", "forward", "forwardPlace", "unifiedPlace", "adaptive"}
       \/ pc = "fallback" /\ next # 0
    /\ pc' = "stopped"
    /\ UNCHANGED <<setup, place, order, target, workspace, next, staged, original, stop>>

Ended == {"completed", "stopped", "refused", "unverified", "occupied", "died"}

Stop ==
    /\ pc \notin Ended
    /\ ~ stop
    /\ stop' = TRUE
    /\ UNCHANGED <<setup, place, order, target, workspace, pc, next, staged, original>>

Init ==
    /\ setup \in Setups
    /\ place \in InitialPlaces
    /\ Used(place) \cap setup.bad = {}
    /\ order = <<>>
    /\ target = <<>>
    /\ workspace = 0
    /\ pc = "start"
    /\ next = 0
    /\ staged = <<>>
    /\ original = <<>>
    /\ stop = FALSE

Work == \/ Start \/ Evacuate
        \/ Forward \/ ForwardPlace \/ Unified \/ UnifiedPlace
        \/ Adaptive
        \/ Fallback \/ Unblock \/ FallbackPlace
        \/ Verify \/ Stopped
Terminated == pc \in Ended /\ UNCHANGED vars
Next == Work \/ Stop \/ Terminated

Spec == Init /\ [][Next]_vars
Uninterrupted == Init /\ [][Work \/ Terminated]_vars

\* The worker is one sequential process that nothing blocks: weak fairness
\* of Work, with "pc \notin Ended" for ENABLED Work, whose actions cover every
\* case of their pc (evaluating ENABLED of these batches is out of TLC's
\* reach; the deadlock check of Uninterrupted confirms the equivalence).
Progress == []<>(pc \in Ended) \/ []<><<Work>>_vars
FairSpec == Spec /\ Progress
FairUninterrupted == Uninterrupted /\ Progress

-----------------------------------------------------------------------------
TypeOK == /\ setup \in Setups
          /\ \A o \in Objects : place[o] \in [1..Size[o] -> Clusters \ setup.bad]
          /\ DOMAIN target \subseteq Objects
          /\ \A o \in DOMAIN target : target[o] \in Clusters
          /\ workspace \in Clusters \cup {0}
          /\ next \in 0..(Len(order) + 1)
          /\ \A o \in DOMAIN staged : staged[o] \in WorkspaceRange
          /\ stop \in BOOLEAN

\* The transactions the scheduler asks fat_relocation_execute for are ones
\* its journal can finish: they move clusters to different, free clusters,
\* and no two objects ever share one (build_relocation_map would die, or a
\* file be lost).
OnlyFreeDestinations ==
    [][\A o, q \in Objects : \A i \in 1..Size[o], j \in 1..Size[q] :
         /\ place'[o][i] # place[o][i] => place'[o][i] \in Free(place)
         /\ place'[o][i] = place'[q][j] => o = q /\ i = j]_vars

\* None of the scheduler's own consistency checks fails: evacuation finds
\* room, the plan still fits, staged objects reopen where they were staged,
\* and targets are released (the ld_die calls of writer.c after the first
\* transaction, the fallback's occupied workspace apart).
NoInternalFailure == pc # "died"

\* An uninterrupted command leaves what the next one calls already
\* satisfied: every object contiguous, at its canonical place, and followed
\* by its reserve; Defragment and Growth Defrag are idempotent.
CompletedIsSatisfied ==
    pc = "completed" /\ Files # {} => Preflight(place) /\ MatchesCanonical(place)

\* Every command ends, whatever the layout: the passes hand over to each
\* other and the adaptive scheduler does not stage and unstage for ever.
Terminates == <>(pc \in Ended)

\* The fallback can always stage its one object: the workspace is free.
WorkspaceReleased == pc # "occupied"

\* A layout rewritten to the end passes its own final verification.
LayoutVerifies == pc # "unverified"
=============================================================================
