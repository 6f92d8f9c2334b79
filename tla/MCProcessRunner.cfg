\* Two deliveries of one task to a worker with gentle-shell, or one to a worker with Pi.
CONSTANTS
    None = None
    Runs = {r1, r2}
    DeadlineRuns = {r1}
    PiRuns = {r1}
    MaxToolCalls = 1
    PipeCap = 1
    ChanCap = 1
    MaxLines = 2
    MaxFaults = 1
SPECIFICATION FairSpec
INVARIANTS TypeOK CompletionWhole 
PROPERTY RunEnds
CHECK_DEADLOCK FALSE
