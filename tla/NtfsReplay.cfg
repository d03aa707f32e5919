CONSTANTS
    N = 16
    Files <- MCFiles
    Pinned <- MCPinned
    Mirrors = {1}
    InitialVolumes <- MCInitialVolumes
    Starts <- NtfsStarts
    Interval = 3
    MaxFaults = 1
    MaxEdits = 0
SPECIFICATION Spec
INVARIANT Replayable
CHECK_DEADLOCK FALSE
