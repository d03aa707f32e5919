--------------------------- MODULE MCFatRelocation ---------------------------
(***************************************************************************)
(* FatRelocation on one small FAT32 volume with two FAT copies and two     *)
(* boot sectors: a root directory, a subdirectory with its dot entries and *)
(* a fragmented file.                                                      *)
(***************************************************************************)
EXTENDS FatContents, TLC

CONSTANTS Dot, DotDot, DirA, FileF, Data1, Data2

MCClusters == 2..7
MCBodies == {NoBody, Dot, DotDot, DirA, FileF, Data1, Data2}

\* root = 2, A = 4, f = 3 -> 5; 6 and 7 are free, and 6 still
\* holds an entry from before it was freed.
Links == (2 :> Eoc) @@ (3 :> 5) @@ (4 :> Eoc) @@ (5 :> Eoc)
         @@ [c \in Clusters |-> 0]
SlotsUsed == (<<2, 1>> :> <<DirA, 4>>) @@ (<<2, 2>> :> <<FileF, 3>>)
           @@ (<<4, 1>> :> <<Dot, 4>>) @@ (<<4, 2>> :> <<DotDot, 0>>)
           @@ (<<3, 1>> :> <<Data1, 0>>) @@ (<<5, 1>> :> <<Data2, 0>>)
           @@ (<<6, 1>> :> <<FileF, 3>>)
           @@ [e \in Containers \X Slots |-> <<NoBody, 0>>]

MCVolume == [l \in Loc |-> CASE l[1] = "fat" -> Links[l[3]]
                             [] l[1] = "body" -> SlotsUsed[<<l[2], l[3]>>][1]
                             [] l[1] = "ref" -> SlotsUsed[<<l[2], l[3]>>][2]
                             [] l[1] = "root" -> 2
                             [] l[1] = "hint" -> 6]
MCInitialVolumes == {MCVolume}

\* A FAT16 volume: the root is the fixed region, container 0, and no boot
\* sector names it; f = 3 -> 5, and 4 is free.
MC16Clusters == 3..5
Links16 == (3 :> 5) @@ (5 :> Eoc) @@ (4 :> 0)
Slots16 == (<<0, 1>> :> <<FileF, 3>>)
             @@ (<<3, 1>> :> <<Data1, 0>>) @@ (<<5, 1>> :> <<Data2, 0>>)
             @@ [e \in Containers \X Slots |-> <<NoBody, 0>>]
MC16Volume == [l \in Loc |-> CASE l[1] = "fat" -> Links16[l[3]]
                               [] l[1] = "body" -> Slots16[<<l[2], l[3]>>][1]
                               [] l[1] = "ref" -> Slots16[<<l[2], l[3]>>][2]
                               [] OTHER -> 0]
MC16InitialVolumes == {MC16Volume}
=============================================================================
