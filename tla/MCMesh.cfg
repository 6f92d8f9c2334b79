\* Two tasks, two workers, one disturbance of any kind.
CONSTANTS
    a = a
    b = b
    None = None
    Tasks = {a, b}
    Nodes = {1, 2}
    Supports <- MCSupports
    MaxConcurrency <- MCOne
    Concurrency <- MCOne
    QueueSize <- MCOne
    meshDispatchAttempts = 2
    MaxRetries <- MCMaxRetries
    Deadlines = {a}
    Fallback = TRUE
    MaxFaults = 1
SPECIFICATION FairSpec
INVARIANTS TypeOK SlotsBalance OneAcceptPerRun
PROPERTY RunEnds
