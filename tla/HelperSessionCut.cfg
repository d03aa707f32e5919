CONSTANTS
    MaxRuns = 2
    PipeLines = 1
SPECIFICATION Spec
INVARIANT EngineStopsAtBoundary
