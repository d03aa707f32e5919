----------------------------- MODULE MCFatLayout -----------------------------
(***************************************************************************)
(* FatLayout on every placement of a directory and two files.              *)
(***************************************************************************)
EXTENDS FatLayout

CONSTANTS D, F, G

MCSize == [o \in {D, F, G} |-> IF o = D THEN 1 ELSE 2]

Injective(f) == \A i, j \in DOMAIN f : f[i] = f[j] => i = j
Flat(p) == p[D] \o p[F] \o p[G]

\* Every placement in which the chains of F and G ascend and F starts first.
MCPlaces ==
    {p \in {[o \in {D, F, G} |-> CASE o = D -> <<a>> [] o = F -> <<b, c>> [] OTHER -> <<d, e>>] :
              a, b, c, d, e \in 2..LastCluster} :
        /\ Injective(Flat(p))
        /\ p[F][1] < p[F][2] /\ p[G][1] < p[G][2] /\ p[F][1] < p[G][1]}

Option(percent, ram, bad) ==
    [percent |-> percent, ram |-> ram, batch |-> ram, budget |-> 4, bad |-> bad]
MCSetups == {Option(0, 1, {}), Option(0, 3, {}), Option(0, 5, {}),
             Option(10, 2, {}), Option(0, 5, {4})}
=============================================================================
