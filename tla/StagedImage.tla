----------------------------- MODULE StagedImage -----------------------------
(***************************************************************************)
(* What the whole-volume workers have in common: a volume, a working image *)
(* beside it and a journal that binds the two.  Each worker is a module of *)
(* its own over the variables declared here.                               *)
(*                                                                         *)
(* cache is the volume as the kernel shows it to every reader, disk what   *)
(* is on stable storage.  A worker writes cache, fsync copies it to disk,  *)
(* and a power loss leaves any subset of the unsynced blocks.  Journals    *)
(* are replaced and files removed durably (infiltratr_atomic_file_write    *)
(* and infiltratr_unlink_durable).                                         *)
(***************************************************************************)
EXTENDS Integers, SequencesExt

CONSTANTS
    N,              \* cells of the volume
    Files,          \* its movable files, 1..n in scan order
    Pinned,         \* cells of fixed metadata
    Mirrors,        \* numbers of the copies of the header
    InitialVolumes, \* volumes before the first command
    MaxFaults,      \* bound on power losses and killed workers
    MaxEdits        \* bound on the owner's changes to the mounted volume

Cells == 1..N
Junk == <<0, 0>>
Payloads == (Files \union {0}) \X Nat  \* of a file, or none; metadata in a cell has a negative number

\* The blocks of a volume: the header that identifies it (boot block, root
\* block, superblock or volume header), the block map of each file, the
\* allocation map and the data cells.
Header == <<"head", 0>>
Bitmap == <<"bitmap", 0>>
MapOf(f) == <<"map", f>>
Cell(c) == <<"cell", c>>
Mirror(m) == <<"head", m>>
Blocks == {Header, Bitmap} \union {Mirror(m) : m \in Mirrors} \union {MapOf(f) : f \in Files} \union {Cell(c) : c \in Cells}

IsVolume(v) ==
    /\ v = [b \in Blocks |-> v[b]]
    /\ v[Header] \in Nat
    /\ v[Bitmap] \in SUBSET Cells
    /\ \A f \in Files : v[MapOf(f)] \in Seq(Cells)
    /\ \A c \in Cells : v[Cell(c)] \in Payloads \/ v[Cell(c)][1] < 0

CellsOf(v, f) == Range(v[MapOf(f)])
Movable(v) == UNION {CellsOf(v, f) : f \in Files}
FreeCells(v) == Cells \ v[Bitmap]
Maps(v) == [f \in Files |-> v[MapOf(f)]]
Contents(v) == [f \in Files |-> [j \in DOMAIN v[MapOf(f)] |-> v[Cell(v[MapOf(f)][j])]]]

\* No cell belongs twice and every cell of a file is marked used.
Exclusive(v) ==
    /\ \A f \in Files : IsInjective(v[MapOf(f)]) /\ CellsOf(v, f) \subseteq v[Bitmap]
    /\ \A f, g \in Files : f # g => CellsOf(v, f) \intersect CellsOf(v, g) = {}
Sound(v) ==
    /\ Exclusive(v)
    /\ Pinned \subseteq v[Bitmap] \ Movable(v)

ASSUME CellsAssumption == N \in Nat
ASSUME FilesAssumption == IsFiniteSet(Files) /\ Files = 1..Cardinality(Files)
ASSUME VolumesAssumption == \A v \in InitialVolumes : IsVolume(v)
ASSUME Bounds == MaxFaults \in Nat /\ MaxEdits \in Nat

-----------------------------------------------------------------------------
(* Layouts.                                                                *)

Run(start, n) == [j \in 1..n |-> start + j - 1]
IsRun(s) == \A j \in 2..Len(s) : s[j] = s[j - 1] + 1

\* Ten percent of the file, rounded up, after its end.
Reserve(op, need) == IF op = "growth-defrag" THEN (need * 10 + 99) \div 100 ELSE 0
ReserveAfter(v, f, op) ==
    LET m == v[MapOf(f)] IN
    IF m = <<>> THEN {} ELSE (Last(m) + 1)..(Last(m) + Reserve(op, Len(m)))

\* The first place where span cells in a row are unclaimed, 0 if there is none.
FirstFit(claimed, span) ==
    LET fits == {s \in Cells : s + span - 1 <= N /\ claimed \intersect (s..(s + span - 1)) = {}}
    IN IF fits = {} THEN 0 ELSE Min(fits)

\* Every file in one run, and unless the operation is plain, room behind it.
LaidOut(v, op) ==
    \A f \in Files : /\ IsRun(v[MapOf(f)])
                     /\ ReserveAfter(v, f, op) \subseteq FreeCells(v)

\* op(x); the singleton set makes TLC evaluate x once.
Once(op(_), x) == CHOOSE r \in {op(y) : y \in {x}} : TRUE

Accumulate(step(_, _), base, seq) ==
    LET once(acc, x) == Once(LAMBDA a : step(a, x), acc)
    IN Once(LAMBDA s : FoldLeft(once, base, s), seq)

FileOrder == Run(1, Cardinality(Files))
Ascending(S) ==
    LET upto[c \in 0..N] == IF c = 0 THEN <<>>
                            ELSE IF c \in S THEN Append(upto[c - 1], c) ELSE upto[c - 1]
    IN upto[N]
CellOrder(S) == [i \in DOMAIN Ascending(S) |-> Cell(Ascending(S)[i])]

\* The data of file f of src, written to v in the run from start.
WriteData(v, src, f, start) ==
    LET m == src[MapOf(f)] IN
    [b \in Blocks |-> IF b[1] = "cell" /\ b[2] \in start..(start + Len(m) - 1)
                      THEN src[Cell(m[b[2] - start + 1])] ELSE v[b]]
\* The block map of f in v names the run of n cells from start.
WriteMap(v, f, start, n) == [v EXCEPT ![MapOf(f)] = Run(start, n)]

\* Only allocated cells go into a sparse working image.
CopyUsed(v) == [b \in Blocks |-> IF b[1] = "cell" /\ b[2] \in FreeCells(v) THEN Junk ELSE v[b]]

-----------------------------------------------------------------------------
(* The machine.                                                            *)

NoStage == [state |-> "none"]
Partial == [state |-> "partial"]
Whole(image) == [state |-> "whole", image |-> image]
NoJournal == [phase |-> "none"]
Idle == [pc |-> "down"]

VARIABLES
    worker,  \* the worker that the volume's filesystem selects
    disk,    \* the volume on stable storage
    cache,   \* the volume as reads see it
    stage,   \* the working image beside the journal
    journal, \* the recovery journal
    proc,    \* the running worker: its next step and what it remembers
    owner,   \* what the owner of the volume last saw in it
    faults,
    edits
files == <<stage, journal>>
world == <<worker, owner, edits>>
vars == <<worker, disk, cache, stage, journal, proc, owner, faults, edits>>

Init == /\ disk \in InitialVolumes
        /\ cache = disk
        /\ stage = NoStage
        /\ journal = NoJournal
        /\ proc = Idle
        /\ owner = Contents(disk)
        /\ faults = 0
        /\ edits = 0

At(pc) == proc.pc = pc
Goto(pc) == proc' = [proc EXCEPT !.pc = pc]
Exit == proc' = Idle

Overlay(v, image, S) == [b \in Blocks |-> IF b \in S THEN image[b] ELSE v[b]]
Differing(v, w) == {b \in Blocks : v[b] # w[b]}

\* The next block of the working image goes to the source.
CopyNext == /\ proc.todo # <<>>
            /\ cache' = [cache EXCEPT ![Head(proc.todo)] = stage.image[Head(proc.todo)]]
            /\ proc' = [proc EXCEPT !.todo = Tail(@)]
            /\ UNCHANGED <<disk, stage, journal, faults, world>>

\* fsync of the source.
Sync == disk' = cache /\ UNCHANGED <<cache, faults, world>>

\* Only a file beside the volume changes.
Aside == UNCHANGED <<disk, cache, faults, world>>

Record(phase) == journal' = [journal EXCEPT !.phase = phase] /\ UNCHANGED stage /\ Aside
Unlink(to) == stage' = NoStage /\ Goto(to) /\ UNCHANGED journal /\ Aside
Discard == stage' = NoStage /\ Exit /\ UNCHANGED journal /\ Aside
Retire == journal' = NoJournal /\ Exit /\ UNCHANGED stage /\ Aside

-----------------------------------------------------------------------------
(* Faults, and the owner.                                                  *)

Fault == faults < MaxFaults /\ faults' = faults + 1
Stopped == /\ Exit
           /\ stage' = IF proc.pc \in {"build", "arrange"} THEN Partial ELSE stage
           /\ UNCHANGED <<journal, world>>

\* The worker is killed, or an I/O error makes it give up: what it wrote
\* stays in the kernel, its files stay where they are, and a working image
\* under construction is incomplete.
Killed == ~ At("down") /\ Fault /\ Stopped /\ UNCHANGED <<disk, cache>>

\* Power loss: any subset of the unsynced writes is on the disk.
PowerLoss == /\ Fault /\ Stopped
             /\ \E kept \in SUBSET Differing(cache, disk) : disk' = Overlay(disk, cache, kept)
             /\ cache' = disk'

\* Between two commands, or while a working image is made, planned, arranged
\* or checked, the owner mounts the volume, sees what its maps show, writes to
\* a file and unmounts: the filesystem driver stamps the header.  A volume
\* with a commit to finish is left to Recover, and nobody mounts it in the
\* moment between the last look at the target and the exclusive open of the
\* commit.
Edit == /\ proc.pc \in {"down", "build", "plan", "arrange", "check"}
        /\ journal.phase \notin {"committing", "commit", "verifying-source"}
        /\ edits < MaxEdits
        /\ edits' = edits + 1
        /\ \E f \in Files : \E c \in CellsOf(cache, f) :
             cache' = [cache EXCEPT ![Header] = @ + 1, ![Cell(c)] = <<f, 9>>]
        /\ disk' = cache'
        /\ owner' = Contents(cache')
        /\ UNCHANGED <<worker, stage, journal, proc, faults>>

\* A worker refuses to start beside a working image it has no journal for,
\* and tells its user to remove it.
RemoveOrphan == /\ At("down") /\ journal = NoJournal /\ stage # NoStage
                /\ stage' = NoStage
                /\ UNCHANGED <<journal, proc>> /\ Aside
=============================================================================
