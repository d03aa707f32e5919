--------------------------- MODULE AtomicRelocation ---------------------------
(***************************************************************************)
(* What one FAT relocation transaction promises: whatever crashes between  *)
(* its first and its last write, the volume changes in one step, and the   *)
(* new volume is the old one with its clusters renamed by the moves.       *)
(***************************************************************************)
EXTENDS FatVolume

CONSTANT InitialVolumes
VARIABLE vol

Init == vol \in InitialVolumes

Relocate == /\ vol' # vol
            /\ vol' \in Volumes
            /\ \E S \in SUBSET Allocated(vol) : \E m \in [S -> Free(vol)] :
                 /\ ValidMoves(vol, m)
                 /\ Renamed(vol, vol', m)

Spec == Init /\ [][Relocate]_vol
=============================================================================
