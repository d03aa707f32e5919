--------------------------- MODULE ExfatTransaction ---------------------------
(***************************************************************************)
(* The direct relayout of the exFAT worker: exfat_relayout.c and the plan  *)
(* of exfat_plan.c.  Every cell is a cluster of the heap.  The objects are *)
(* the allocation bitmap, the root directory and the files, each in cells; *)
(* the block map of a file is its FAT chain, which counts only as long as  *)
(* its directory entry says so.  The header and its mirror are the main    *)
(* and the backup boot region: twice the root cell, plus 1 when dirty; 0   *)
(* when it is half written.                                                *)
(***************************************************************************)
EXTENDS WorkspaceRelayout

Torn == 0
Root(boot) == boot \div 2
Clean(boot) == 2 * Root(boot)
Dirty(boot) == Clean(boot) + 1
Backup == Mirror(1)

\* The contents of the cells of the bitmap and of the root directory.
BitmapPayload(used) == <<-2, used>>
RootPayload(entries) == <<-3, entries>>

\* The volume as a scan from the root directory shows it.
Scanned(v) ==
    LET entries == v[Cell(Root(v[Header]))][2]
        map(f) == IF entries.chained[f] THEN v[MapOf(f)] ELSE Run(entries.first[f], entries.size[f])
    IN [b \in Blocks |-> CASE b[1] = "map" -> map(b[2])
                           [] b = Bitmap -> v[Cell(entries.bitmap)][2]
                           [] OTHER -> v[b]]

\* exfat_open_volume: both boot regions are valid and the main one is clean.
BootValid(v) == v[Header] # Torn /\ v[Backup] # Torn
Opens(v) == BootValid(v) /\ v[Header] = Clean(v[Header])

\* Catalogue and plan order; s is a scanned volume.
Objects(s) ==
    LET root == Root(s[Header])
    IN << <<s[Cell(root)][2].bitmap>>, <<root>> >> \o [f \in DOMAIN FileOrder |-> s[MapOf(f)]]
File(f) == f + 2

\* Every object from the first cell on, each file with its reserve.
BuildPlan(s, operation) ==
    LET objects == Objects(s)
        place(p, object) == [start |-> Append(p.start, p.cursor),
                             cursor |-> p.cursor + Len(object)
                                          + (IF Len(p.start) < 2 THEN 0 ELSE Reserve(operation, Len(object)))]
        p == Accumulate(place, [start |-> <<>>, cursor |-> 1], objects)
    IN [start |-> p.start, size |-> Each(Len, objects), final |-> p.cursor - 1, fits |-> p.cursor - 1 <= N]

Target(db, i) == Run(db.start[i], db.size[i])
Staged(db, i) == Run(db.staged[i], db.size[i])
Planned(db) == UNION {Range(Target(db, i)) : i \in DOMAIN db.start}
CanonicalLayout(s, db, operation) ==
    /\ s[Bitmap] = Planned(db)
    /\ \A i \in DOMAIN db.start : Objects(s)[i] = Target(db, i)
    /\ \A f \in Files : ReserveAfter(s, f, operation) \subseteq FreeCells(s)

\* Free cells at the end of the heap for a copy of every object.
ObjectClusterTotal(db) == FoldLeft(LAMBDA sum, n : sum + n, 0, db.size)
Workspace(s, db) ==
    LET start == TerminalWorkspace(FreeCells(s), ObjectClusterTotal(db), N)
    IN IF start > db.final THEN start ELSE 0

\* populate_manifest: where every object is staged and goes.  Where it was is
\* not in the manifest.
PopulateManifest(db, start) ==
    LET reserve(staged, n) == Append(staged, IF staged = <<>> THEN start ELSE Last(staged) + db.size[Len(staged)])
    IN db @@ [staged |-> Accumulate(reserve, <<>>, db.size)]

-----------------------------------------------------------------------------
(* What is written.                                                        *)

CopyRuns(from, to) == [j \in DOMAIN from |-> Copy(<< <<Cell(from[j]), Cell(to[j])>> >>)]
Concat(seqs) == FoldLeft(LAMBDA all, s : all \o s, <<>>, seqs)
Indices(db) == Run(1, Len(db.start))

\* A mistaken variant: the copies are not synced.
StageScriptUnsynced(old, db) == Concat(Each(LAMBDA i : CopyRuns(old[i], Staged(db, i)), Indices(db)))
StageScript(old, db) ==
    Append(Concat(Each(LAMBDA i : CopyRuns(old[i], Staged(db, i)), Indices(db))), Flush)
RollbackData(old, db) ==
    Append(Concat(Each(LAMBDA i : CopyRuns(Staged(db, i), old[i]), Indices(db))), Flush)

\* place_record: the bitmap is computed, the root directory is read from its
\* copy and names the new places, a file is copied.
PatchDirectory(entries, db) ==
    [entries EXCEPT !.bitmap = db.start[1],
                    !.first = [f \in Files |-> db.start[File(f)]],
                    !.chained = [f \in Files |-> FALSE]]
PlaceRecord(v, db, i) ==
    CASE i = 1 -> <<Write(Cell(db.start[1]), BitmapPayload(Planned(db)))>>
      [] i = 2 -> <<Write(Cell(db.start[2]), RootPayload(PatchDirectory(v[Cell(db.staged[2])][2], db)))>>
      [] OTHER -> CopyRuns(Staged(db, i), Target(db, i))
PlaceScript(v, db) == Append(Concat(Each(LAMBDA i : PlaceRecord(v, db, i), Indices(db))), Flush)

\* A boot region is half written on the way when its root changes; the dirty
\* flag is not part of its checksum.
Publish(v, b, boot) == (IF Root(v[b]) = Root(boot) THEN <<>> ELSE <<Write(b, Torn)>>) \o <<Write(b, boot), Flush>>
\* A mistaken variant: both regions before a sync.
WriteBothBoots(v, boot) == <<Write(Backup, Torn), Write(Header, Torn), Write(Backup, boot), Write(Header, boot), Flush>>
WriteBoot(v, boot) == Publish(v, Backup, boot) \o Publish(v, Header, boot)

CommitScript(v, db) ==
    Each(LAMBDA f : Write(MapOf(f), <<>>), FileOrder) \o <<Flush>> \o WriteBoot(v, 2 * db.start[2])

\* One torn region is copied from the other.
RepairScript(v) ==
    CASE v[Header] = Torn -> <<Write(Header, v[Backup]), Flush>>
      [] v[Backup] = Torn -> <<Write(Backup, v[Header]), Flush>>
      [] OTHER -> <<>>

-----------------------------------------------------------------------------
(* exfat_relayout_in_place.                                                *)

Continue(pc, todo) ==
    \E script \in {todo} : proc' = [proc EXCEPT !.pc = pc, !.todo = script, !.size = Len(script)]
Proceed(from, to, todo) == Finished(from) /\ Continue(to, todo) /\ UNCHANGED files /\ Aside

Preflight == /\ At("down") /\ journal = NoJournal
             /\ Opens(cache)
             /\ \E operation \in Operations : proc' = Doer("plan", operation, <<>>)
             /\ UNCHANGED files /\ Aside

\* What does not fit, is in order or has no workspace ends the command here.
PlanRelayout ==
    /\ At("plan") /\ UNCHANGED files /\ Aside
    /\ \E s \in {Scanned(cache)} : \E db \in {BuildPlan(s, proc.op)} :
         LET start == Workspace(s, db)
         IN \/ (~ db.fits \/ CanonicalLayout(s, db, proc.op) \/ start = 0) /\ Exit
            \/ /\ db.fits /\ ~ CanonicalLayout(s, db, proc.op) /\ start # 0
               /\ \E manifest \in {PopulateManifest(db, start)} :
                     proc' = Doer("staging", proc.op, StageScript(Objects(s), manifest))
                               @@ [db |-> manifest, old |-> Objects(s)]

\* The manifest is there when the copies are synced.
SaveManifest == /\ Finished("staging")
                /\ journal' = [phase |-> "relayout", op |-> proc.op, plan |-> proc.db]
                /\ Goto("staged")
                /\ UNCHANGED stage /\ Aside

WriteDirtyFlag == /\ At("staged")
                  /\ Continue("marking", <<Write(Backup, Dirty(cache[Backup])), Flush,
                                           Write(Header, Dirty(cache[Header])), Flush>>)
                  /\ UNCHANGED files /\ Aside
BeginPlacing == Proceed("marking", "placing", PlaceScript(cache, journal.plan))

\* Stop is seen after a copy; nothing is recorded before the manifest.
AfterCopy == Begun /\ proc.todo # <<>>
StopStaging == At("staging") /\ AfterCopy /\ Exit /\ UNCHANGED files /\ Aside
StopStaged == At("staged") /\ Retire

\* The boot regions go back to what they were when the volume was opened.
StopPlacing == /\ At("placing") /\ AfterCopy
               /\ Continue("rollback", RollbackData(proc.old, journal.plan) \o WriteBoot(cache, Clean(cache[Header])))
               /\ UNCHANGED files /\ Aside
FinishRollback == Finished("rollback") /\ Retire

CommitFinalMetadata == \E pc \in {"placing", "replacing"} :
                          Proceed(pc, "committing", CommitScript(cache, journal.plan))
VerifiesFinal(v, operation) ==
    /\ Opens(v)
    /\ \A s \in {Scanned(v)} : CanonicalLayout(s, BuildPlan(s, operation), operation)
VerifyFinalLayout == /\ Finished("committing")
                     /\ VerifiesFinal(cache, proc.op)
                     /\ Goto("verified")
                     /\ UNCHANGED files /\ Aside
RemoveManifest == At("verified") /\ Retire

-----------------------------------------------------------------------------
(* exfat_relayout_recover: whatever the command had done, the new layout   *)
(* is placed from the copies.                                              *)

\* A mistaken variant: only what is marked dirty is taken for unfinished.
RecoverDirty == /\ At("down") /\ journal # NoJournal
                /\ cache[Header] = Dirty(cache[Header])
                /\ proc' = Doer("repairing", journal.op, RepairScript(cache))
                /\ UNCHANGED files /\ Aside
Recover == /\ At("down") /\ journal # NoJournal
           /\ cache[Header] # Torn \/ cache[Backup] # Torn
           /\ proc' = Doer("repairing", journal.op, RepairScript(cache))
           /\ UNCHANGED files /\ Aside
BeginReplacing == BootValid(cache) /\ Proceed("repairing", "replacing", PlaceScript(cache, journal.plan))

Work == \/ PlanRelayout \/ SaveManifest \/ WriteDirtyFlag \/ BeginPlacing \/ FinishRollback
        \/ CommitFinalMetadata \/ VerifyFinalLayout \/ RemoveManifest \/ BeginReplacing \/ Perform
Stop == StopStaging \/ StopStaged \/ StopPlacing
Next == Preflight \/ Work \/ Recover \/ Stop
=============================================================================
