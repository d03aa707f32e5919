------------------------------ MODULE FatContents ------------------------------
(***************************************************************************)
(* What the worker's volume means to its user while clusters move: the     *)
(* tree of FatNamespace, read from what FatRelocation leaves on the disk.  *)
(***************************************************************************)
EXTENDS FatRelocation, FatNamespace

\* Every command begins with a scan and ends on a volume it refuses.
ASSUME InitialScans == \A v \in InitialVolumes : ScanAccepts(v)

OriginalContents == {Contents(v) : v \in InitialVolumes}

\* No path, no byte and no dot entry of the user's tree changes, whatever
\* was interrupted: what the journal will finish means what the volume
\* meant before the first command (fat_relocation_execute and its recovery).
ContentsKept == Committed \in Volumes /\ Contents(Committed) \in OriginalContents

\* When no journal is pending, the next command's scan_files accepts what is
\* on the disk: no lost or doubly claimed cluster, equal FAT copies.
IdleVolumeScans == journal = NoJournal => ScanAccepts(disk)

\* Until a transaction is first recovered, the disk needs the journal only
\* between DATA_COPIED and SWITCHED: outside that window a power loss leaves
\* a volume that reads as before without any recovery.
FirstAttemptReadable ==
    mode = "defrag" /\ stage # "DATA_COPIED" => Contents(disk) = Contents(Committed)
=============================================================================
