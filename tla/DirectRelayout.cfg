CONSTANTS
    N = 16
    Files <- MCFiles
    Pinned <- MCPinned
    Mirrors = {1}
    InitialVolumes <- MCInitialVolumes
    Starts <- MCStarts
    Interval = 3
    MaxFaults = 2
    MaxEdits = 0
SPECIFICATION FairSpec
INVARIANTS TypeOK ContentsKept Recoverable
PROPERTIES WriteAhead PlacedVerifies Undone CompletedDurable Implements Resolves
CHECK_DEADLOCK FALSE
