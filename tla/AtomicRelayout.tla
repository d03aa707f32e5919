---------------------------- MODULE AtomicRelayout ----------------------------
(***************************************************************************)
(* What a whole-volume worker promises: with what Recover still has to     *)
(* write counted in, the volume changes its layout in one step, no cell    *)
(* belongs twice in the new layout, and the files hold afterwards what     *)
(* they held when the worker copied them.  copy is that; of a worker that  *)
(* makes sure before it commits that its copy is still right, it is always *)
(* what the files hold.                                                    *)
(***************************************************************************)
EXTENDS Integers, SequencesExt

CONSTANTS Files, InitialLayouts
VARIABLES layout, contents, copy, edits

Begin == layout \in InitialLayouts /\ copy = contents /\ edits = 0

Copy == copy' = contents /\ UNCHANGED <<layout, contents, edits>>

Relayout ==
    /\ \A f \in Files : IsInjective(layout'[f]) /\ Len(layout'[f]) = Len(layout[f])
    /\ \A f, g \in Files : f # g => Range(layout'[f]) \intersect Range(layout'[g]) = {}
    /\ contents' = copy
    /\ UNCHANGED <<copy, edits>>

\* A worker that compares its copy with the volume follows the owner.
OwnerWrites == /\ edits' = edits + 1
               /\ copy' \in {copy, contents'}
               /\ UNCHANGED layout

Atomic == Begin /\ [][Copy \/ Relayout \/ OwnerWrites]_<<layout, contents, copy, edits>>
=============================================================================
