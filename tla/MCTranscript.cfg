SPECIFICATION Spec
CONSTANTS
    Processes = {"p1"}
    MaxDepth = 1
    MaxSteps = 1
    MaxChildren = 1
    MaxOutput = 2
    MaxLines = 20
    MaxRuns = 2
    Faults = {"io", "crash"}
CHECK_DEADLOCK FALSE
INVARIANT TranscriptVerifies
