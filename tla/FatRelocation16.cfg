CONSTANTS
    Clusters <- MC16Clusters
    Copies = {0, 1}
    ActiveFat = 0
    Boots = {0}
    PrimaryBoot = 0
    Slots = {1, 2}
    Bodies <- MCBodies
    FatBits = 16
    NoBody = NoBody
    Dot = Dot
    DotDot = DotDot
    DirA = DirA
    FileF = FileF
    Data1 = Data1
    Data2 = Data2
    DirBodies = {DirA}
    DotBodies = {Dot, DotDot}
    InitialVolumes <- MC16InitialVolumes
    MaxDepth = 1
    MaxMoves = 2
    MaxTransactions = 1
    MaxFaults = 2
SPECIFICATION Spec
INVARIANTS JournalReadable
