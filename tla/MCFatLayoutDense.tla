--------------------------- MODULE MCFatLayoutDense ---------------------------
(***************************************************************************)
(* FatLayout on four files so tangled that the workspace cannot hold what  *)
(* must be staged, and on every layout that differs by a swap of two       *)
(* clusters.  The adaptive scheduler stages F and G, places F, and is left *)
(* with a free run shorter than H, which blocks all others; I blocks none. *)
(***************************************************************************)
EXTENDS FatLayout

CONSTANTS F, G, H, I

MCSize == [o \in {F, G, H, I} |-> CASE o = F -> 3 [] o = I -> 2 [] OTHER -> 4]

Tangled == [o \in {F, G, H, I} |-> CASE o = F -> <<2, 3, 5>>
                                    [] o = G -> <<4, 6, 7, 15>>
                                    [] o = H -> <<8, 9, 13, 16>>
                                    [] o = I -> <<17, 18>>]

Swapped(c, d) == [o \in Objects |-> [i \in 1..Size[o] |->
                    CASE Tangled[o][i] = c -> d [] Tangled[o][i] = d -> c
                      [] OTHER -> Tangled[o][i]]]
MCPlaces == {Swapped(c, d) : c, d \in Clusters}

Option(percent, ram, bad) ==
    [percent |-> percent, ram |-> ram, batch |-> ram, budget |-> 7, bad |-> bad]
MCSetups == {Option(p, r, {}) : p \in {0, 10}, r \in {1, 5, 7, 13}} \cup {Option(0, 7, {19})}
=============================================================================
