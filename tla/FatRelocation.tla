---------------------------- MODULE FatRelocation ----------------------------
(***************************************************************************)
(* The FAT worker between two of its durable points: fat_relocation.c and  *)
(* the part of writer.c that starts a defragmentation or a recovery.       *)
(*                                                                         *)
(* cache is the volume as the kernel shows it to every reader, disk what   *)
(* is on stable storage.  A step of the process changes cache only; fsync  *)
(* copies it to disk; a power loss leaves any subset of the unsynced       *)
(* writes.  The journal file is replaced and removed atomically and        *)
(* durably (Common's atomic file write and durable unlink).                *)
(***************************************************************************)
EXTENDS FatVolume, FiniteSets

CONSTANTS
    InitialVolumes,  \* volumes before the first command
    MaxMoves,        \* clusters of one transaction (the batch limit)
    MaxTransactions, \* bound on the transactions of a behaviour
    MaxFaults        \* bound on power losses and on deaths of a writing process

ASSUME InitialSound == \A v \in InitialVolumes : v \in Volumes /\ Sound(v)
ASSUME Bounds == MaxMoves \in Nat /\ MaxTransactions \in Nat /\ MaxFaults \in Nat

NoJournal == [moves |-> <<>>]

VARIABLES
    disk,         \* the volume on stable storage
    cache,        \* the volume as reads see it
    journal,      \* the journal file, or NoJournal
    stage,        \* its stage field
    pc,           \* next step of the running process, "down" if none runs
    mode,         \* the command it runs: "defrag" or "recover"
    transactions, \* transactions begun
    faults        \* faults so far
vars == <<disk, cache, journal, stage, pc, mode, transactions, faults>>

Stages == {"PREPARED", "DATA_COPIED", "SWITCHED", "OLD_FREED"}
PcValues == {"down", "ready", "copy", "syncCopy", "recordCopied", "link", "syncLink",
             "recordSwitched", "free", "syncFree", "recordFreed", "remove"}

TypeOK == /\ disk \in Volumes /\ cache \in Volumes
          /\ journal = NoJournal \/ IsJournal(journal)
          /\ stage \in Stages
          /\ pc \in PcValues
          /\ mode \in {"defrag", "recover"}
          /\ transactions \in 0..MaxTransactions
          /\ faults \in 0..MaxFaults

Init == /\ disk \in InitialVolumes
        /\ cache = disk
        /\ journal = NoJournal
        /\ stage = "PREPARED"
        /\ pc = "down"
        /\ mode = "defrag"
        /\ transactions = 0
        /\ faults = 0

-----------------------------------------------------------------------------
(* Commands.                                                               *)

\* defrag and growth-defrag refuse a pending journal and disagreeing mirrors.
StartDefrag ==
    /\ pc = "down"
    /\ journal = NoJournal
    /\ MirrorsAgree(cache)
    /\ pc' = "ready"
    /\ mode' = "defrag"
    /\ UNCHANGED <<disk, cache, journal, stage, transactions, faults>>

\* A mistaken variant: recovery declines a record that has reached its last stage.
StartRecoverUnlessFreed ==
    /\ pc = "down"
    /\ journal # NoJournal /\ stage # "OLD_FREED"
    /\ ReadAccepts(journal)
    /\ pc' = "copy"
    /\ mode' = "recover"
    /\ UNCHANGED <<disk, cache, journal, stage, transactions, faults>>

\* recover needs a journal it can read; it runs the transaction from its
\* first group of writes whatever the recorded stage is.
StartRecover ==
    /\ pc = "down"
    /\ journal # NoJournal
    /\ ReadAccepts(journal)
    /\ pc' = "copy"
    /\ mode' = "recover"
    /\ UNCHANGED <<disk, cache, journal, stage, transactions, faults>>

\* One transaction begins: its record is durable before anything else.
Prepare ==
    /\ pc = "ready"
    /\ transactions < MaxTransactions
    /\ \E S \in SUBSET Allocated(cache) :
         /\ Cardinality(S) <= MaxMoves
         /\ \E m \in [S -> Free(cache)] :
              /\ ValidMoves(cache, m)
              /\ journal' = MakeJournal(cache, m)
    /\ stage' = "PREPARED"
    /\ pc' = "copy"
    /\ transactions' = transactions + 1
    /\ UNCHANGED <<disk, cache, mode, faults>>

-----------------------------------------------------------------------------
(* complete_relocation_journal.                                            *)

Write(from, new, to) ==
    /\ pc = from
    /\ cache' = new
    /\ pc' = to
    /\ UNCHANGED <<disk, journal, stage, mode, transactions, faults>>

CopyClusters == Write("copy", Copied(cache, journal), "syncCopy")
LinkMetadata == Write("link", Linked(cache, journal), "syncLink")
FreeSources == Write("free", Freed(cache, journal), "syncFree")

Sync(from, to) ==
    /\ pc = from
    /\ disk' = cache
    /\ pc' = to
    /\ UNCHANGED <<cache, journal, stage, mode, transactions, faults>>

Unsynced(from, to) ==
    /\ pc = from
    /\ pc' = to
    /\ UNCHANGED <<disk, cache, journal, stage, mode, transactions, faults>>
\* A mistaken variant: the barrier after the link, and the one before the
\* journal goes, are left out.
SyncLinkLost == Unsynced("syncLink", "recordSwitched")
SyncFreeLost == Unsynced("syncFree", "recordFreed")

SyncCopy == Sync("syncCopy", "recordCopied")
SyncLink == Sync("syncLink", "recordSwitched")
SyncFree == Sync("syncFree", "recordFreed")

Record(from, reached, to) ==
    /\ pc = from
    /\ stage' = reached
    /\ pc' = to
    /\ UNCHANGED <<disk, cache, journal, mode, transactions, faults>>

RecordCopied == Record("recordCopied", "DATA_COPIED", "link")
RecordSwitched == Record("recordSwitched", "SWITCHED", "free")
RecordFreed == Record("recordFreed", "OLD_FREED", "remove")

\* The defragmenter goes on to its next transaction; recover is done.
RemoveJournal ==
    /\ pc = "remove"
    /\ journal' = NoJournal
    /\ pc' = IF mode = "defrag" THEN "ready" ELSE "down"
    /\ UNCHANGED <<disk, cache, stage, mode, transactions, faults>>

-----------------------------------------------------------------------------
(* Faults.                                                                 *)

Fault == faults < MaxFaults /\ faults' = faults + 1

\* The command ends between two transactions: done, or asked to stop.
Exit == /\ pc = "ready"
        /\ pc' = "down"
        /\ UNCHANGED <<disk, cache, journal, stage, mode, transactions, faults>>

\* A write of the current group fails and ld_die ends the process, or the
\* process is killed: some of the group's writes have been made.
Die == /\ pc \notin {"down", "ready"}
       /\ Fault
       /\ LET new == CASE pc = "copy" -> Copied(cache, journal)
                       [] pc = "link" -> Linked(cache, journal)
                       [] pc = "free" -> Freed(cache, journal)
                       [] OTHER -> cache
          IN \E kept \in SUBSET Differing(new, cache) : cache' = Mix(new, cache, kept)
       /\ pc' = "down"
       /\ UNCHANGED <<disk, journal, stage, mode, transactions>>

\* Power loss: any subset of the unsynced writes is on the disk.
PowerLoss == /\ Fault
             /\ \E kept \in SUBSET Differing(cache, disk) : disk' = Mix(cache, disk, kept)
             /\ cache' = disk'
             /\ pc' = "down"
             /\ UNCHANGED <<journal, stage, mode, transactions>>

Work == \/ CopyClusters \/ SyncCopy \/ RecordCopied
        \/ LinkMetadata \/ SyncLink \/ RecordSwitched
        \/ FreeSources \/ SyncFree \/ RecordFreed
        \/ RemoveJournal

Next == \/ StartDefrag \/ StartRecover \/ Prepare
        \/ Work
        \/ Exit \/ Die \/ PowerLoss

Spec == Init /\ [][Next]_vars

\* A running process goes on; a pending journal is eventually recovered by
\* its user, who is told to run recover by every other command.
FairSpec == Spec /\ WF_vars(Work) /\ WF_vars(StartRecover)

-----------------------------------------------------------------------------
(* The volume the user owns: what the disk is, or, once a journal is       *)
(* durable, what finishing the journal makes of it.                        *)
Committed == IF journal = NoJournal THEN disk ELSE Redo(disk, journal)

Atomic == INSTANCE AtomicRelocation WITH vol <- Committed

\* A transaction is atomic: the committed volume changes only by renaming
\* clusters, however the transaction was interrupted and finished.
Implements == Atomic!Spec

\* complete_relocation_journal removes its journal: an interrupted
\* transaction does not stay pending for ever.
EventuallyRetired == (journal # NoJournal) ~> (journal = NoJournal)

\* What fat_journal.c writes, it reads back: a pending journal is one that
\* recover accepts.
JournalReadable == journal # NoJournal => ReadAccepts(journal)

StageRank == [s \in Stages |-> CASE s = "PREPARED" -> 0 [] s = "DATA_COPIED" -> 1
                                 [] s = "SWITCHED" -> 2 [] s = "OLD_FREED" -> 3]

\* The stage of one journal never goes back.
StageMonotonic ==
    [][journal # NoJournal /\ journal' = journal
         => StageRank[stage'] >= StageRank[stage]]_vars
=============================================================================
