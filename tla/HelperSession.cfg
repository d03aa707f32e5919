CONSTANTS
    MaxRuns = 2
    PipeLines = 1
SPECIFICATION FairSpec
INVARIANTS TypeOK NoOrphan OneChild EventOrder FinishedMeansIdle StopWaitsForHandler
PROPERTIES StopReachesChild ShutdownEnds
