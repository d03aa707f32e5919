CONSTANTS
    N = 9
    Files <- MCFiles
    Pinned <- MCPinned
    Mirrors = {}
    InitialVolumes <- MCInitialVolumes
    Starts <- MCStarts
    Protected = {3}
    Interval = 3
    RecordsPerBlock = 2
    TreePool = {4}
    MaxFaults = 1
    MaxEdits = 1
SPECIFICATION FairSpec
INVARIANTS TypeOK ContentsKept StageReady PlacedIsVerified Recoverable
PROPERTIES WriteAhead CompletedDurable Implements Resolves
CHECK_DEADLOCK FALSE
