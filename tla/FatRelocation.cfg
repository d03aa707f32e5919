CONSTANTS
    Clusters <- MCClusters
    Copies = {0, 1}
    ActiveFat = 0
    Boots = {0, 6}
    PrimaryBoot = 0
    Slots = {1, 2}
    Bodies <- MCBodies
    FatBits = 32
    NoBody = NoBody
    Dot = Dot
    DotDot = DotDot
    DirA = DirA
    FileF = FileF
    Data1 = Data1
    Data2 = Data2
    DirBodies = {DirA}
    DotBodies = {Dot, DotDot}
    InitialVolumes <- MCInitialVolumes
    MaxDepth = 1
    MaxMoves = 2
    MaxTransactions = 1
    MaxFaults = 2
SPECIFICATION FairSpec
INVARIANTS TypeOK ContentsKept IdleVolumeScans FirstAttemptReadable
PROPERTIES Implements EventuallyRetired
