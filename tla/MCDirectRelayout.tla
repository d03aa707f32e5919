--------------------------- MODULE MCDirectRelayout ---------------------------
EXTENDS DirectRelayout, TLC

MCFiles == 1..2
MCPinned == {1, 4}

Volume(maps, used) ==
    [b \in Blocks |->
        CASE b[1] = "head" -> 1
          [] b = Bitmap -> used
          [] b[1] = "map" -> maps[b[2]]
          [] b[2] \in MCPinned -> <<0, b[2]>>
          [] \E f \in Files : b[2] \in Range(maps[f]) ->
               (LET f == CHOOSE f \in Files : b[2] \in Range(maps[f])
                IN <<f, CHOOSE j \in DOMAIN maps[f] : maps[f][j] = b[2]>>)
          [] OTHER -> Junk]

Fragmented == Volume(<< <<2, 5>>, <<3>> >>, {1, 2, 3, 4, 5})
Spread == Volume(<< <<2, 5>>, <<3>> >>, {1, 2, 3, 4, 5, N})
Packed == Volume(<< <<2, 5>>, <<N - 1>> >>, {1, 2, 4, 5, N - 1, N})

Crowded == Volume(<< <<2, 3, 5>>, Run(6, N - 7)>>, (1..(N - 2)) \union {N})

\* The bitmap in cell 1, the root directory in cell 3.
Heap == [b \in Blocks |->
            CASE b[1] = "head" -> 2 * 3
              [] b = Bitmap -> {}
              [] b[1] = "map" -> << <<2, 5>>, <<4>> >>[b[2]]
              [] b = Cell(1) -> <<-2, 1..5>>
              [] b = Cell(3) -> <<-3, [bitmap |-> 1, first |-> <<2, 4>>, size |-> <<2, 1>>,
                                       chained |-> <<TRUE, TRUE>>]>>
              [] b = Cell(2) -> <<1, 1>>
              [] b = Cell(5) -> <<1, 2>>
              [] b = Cell(4) -> <<2, 1>>
              [] OTHER -> Junk]

MCInitialVolumes == {Fragmented, Spread, Packed, Crowded, Heap}
MCStarts == {<<"ext", Fragmented>>, <<"ext", Packed>>, <<"ntfs", Spread>>, <<"ntfs", Packed>>,
             <<"ntfs", Crowded>>, <<"exfat", Heap>>}
NtfsStarts == {s \in MCStarts : s[1] = "ntfs"}
=============================================================================
