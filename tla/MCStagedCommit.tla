---------------------------- MODULE MCStagedCommit ----------------------------
(***************************************************************************)
(* Nine cells, a fixed one in the middle, a file of two cells and two of   *)
(* one: fragmented, as a cycle, and damaged.                               *)
(***************************************************************************)
EXTENDS StagedCommit, TLC

MCFiles == 1..3
MCPinned == {4}

Volume(maps, used) ==
    [b \in Blocks |->
        CASE b = Header -> 1
          [] b = Bitmap -> used
          [] b[1] = "map" -> maps[b[2]]
          [] b[2] \in MCPinned -> <<0, b[2]>>
          [] \E f \in Files : b[2] \in Range(maps[f]) ->
               (LET f == CHOOSE f \in Files : b[2] \in Range(maps[f])
                IN <<f, CHOOSE j \in DOMAIN maps[f] : maps[f][j] = b[2]>>)
          [] OTHER -> Junk]

Fragmented == Volume(<< <<2, 7>>, <<3>>, <<8>> >>, {2, 3, 4, 7, 8})
Cyclic == Volume(<< <<2, 3>>, <<1>>, <<9>> >>, {1, 2, 3, 4, 9})
\* Files 1 and 2 share a cell; in the second volume, the cell of file 3 is
\* marked free as well.
Shared == Volume(<< <<2, 6>>, <<6>>, <<8>> >>, {2, 4, 6, 8})
Stale == Volume(<< <<2, 6>>, <<6>>, <<8>> >>, {2, 4, 6})

MCInitialVolumes == {Fragmented, Cyclic, Shared, Stale}
MCStarts == {<<"hfsplus", Fragmented>>, <<"hfsplus", Shared>>, <<"hfsplus", Stale>>,
             <<"affs", Fragmented>>, <<"affs", Stale>>,
             <<"sfs", Fragmented>>, <<"sfs", Stale>>,
             <<"xfs", Fragmented>>, <<"xfs", Cyclic>>}
=============================================================================
