-------------------------- MODULE WorkspaceRelayout --------------------------
(***************************************************************************)
(* What the direct relayouts of the EXT, NTFS and exFAT workers have in    *)
(* common: free cells at the high end of the volume hold copies of blocks  *)
(* while these are overwritten, and a plan beside the journal says where   *)
(* every block was, is and goes.  No image of the volume is made.          *)
(*                                                                         *)
(* proc.todo is what the worker still does in its phase, in order, and     *)
(* proc.size how much it was; the plan is in journal.plan.                 *)
(***************************************************************************)
EXTENDS OffsetCommit

PlanFile == [state |-> "plan"]

Each(op(_), seq) == Once(LAMBDA s : [i \in DOMAIN s |-> op(s[i])], seq)

Copy(rows) == <<"copy", rows>>            \* one read and one write
Write(b, value) == <<"write", b, value>>
Flush == <<"flush">>

\* A block of metadata is kept in a data cell under its name.
Code(b) == CASE b = Header -> -1 [] b = Bitmap -> -2 [] OTHER -> -2 - b[2]
Carry(v, from, to) == CASE to[1] # "cell" -> v[from][2]
                        [] from[1] # "cell" -> <<Code(from), v[from]>>
                        [] OTHER -> v[from]
CopyRows(v, rows) ==
    FoldLeft(LAMBDA w, row : [w EXCEPT ![row[2]] = Carry(v, row[1], row[2])], v, rows)

\* A worker that was stopped, or whose write failed, leaves the rest undone.
Doing(kind) == /\ proc.pc \notin {"restore", "cleanup", "retire"}
               /\ "todo" \in DOMAIN proc /\ proc.todo # <<>> /\ Head(proc.todo)[1] = kind
               /\ proc' = [proc EXCEPT !.todo = Tail(@)]
               /\ UNCHANGED <<stage, journal, faults, world>>
Perform ==
    \/ Doing("copy") /\ cache' = CopyRows(cache, Head(proc.todo)[2]) /\ UNCHANGED disk
    \/ Doing("write") /\ cache' = [cache EXCEPT ![Head(proc.todo)[2]] = Head(proc.todo)[3]] /\ UNCHANGED disk
    \/ Doing("flush") /\ disk' = cache /\ UNCHANGED cache

Doer(pc, operation, todo) == [pc |-> pc, op |-> operation, todo |-> todo, size |-> Len(todo)]
Begin(pc, todo) == \E script \in {todo} : proc' = Doer(pc, proc.op, script)
Begun == Len(proc.todo) < proc.size
Due(kind) == Head(proc.todo)[1] = kind
Finished(pc) == At(pc) /\ proc.todo = <<>>
Advance(from, phase, to, todo) == Finished(from) /\ Record(phase) /\ Begin(to, todo)

-----------------------------------------------------------------------------
(* The workspace.                                                          *)

\* The highest needed cells of a free run, all below end and none in avoid;
\* 0 if there are none.
HighWorkspace(free, needed, end, avoid) ==
    LET runs == {s \in Cells : /\ s + needed - 1 <= end
                               /\ s..(s + needed - 1) \subseteq free \ avoid
                               /\ s + needed \notin free \/ s + needed > end}
    IN IF runs = {} THEN 0 ELSE Max(runs)

\* The needed cells that end with the given one, if all of them are free; or 0.
TerminalWorkspace(free, needed, end) ==
    IF needed < end /\ (end - needed + 1)..end \subseteq free THEN end - needed + 1 ELSE 0

\* The i-th block of the order is kept in the i-th cell from start.
Slots(order, start) ==
    [b \in Range(order) |-> Cell(start - 1 + CHOOSE i \in DOMAIN order : order[i] = b)]
SlotRows(order, slots) == Each(LAMBDA b : <<b, slots[b]>>, order)
Reversed(rows) == Each(LAMBDA row : <<row[2], row[1]>>, rows)

\* One row at a time, synced at the end.
RowByRow(rows) == Append(Each(LAMBDA row : Copy(<<row>>), rows), Flush)

\* The blocks as the workspace keeps them, and as it should.
Kept(v, slots) == [b \in DOMAIN slots |-> v[slots[b]]]
Originals(v, slots) == [b \in DOMAIN slots |-> Carry(v, b, slots[b])]

\* The volume with the kept blocks back in their place.
Restored(v, slots) ==
    [b \in DOMAIN v |-> IF b \in DOMAIN slots THEN Carry(v, slots[b], b) ELSE v[b]]
=============================================================================
