\* Two contracts of one emitter, one lease, two settle requests, the reaper,
\* one ruling and one failure.
CONSTANTS
    c1 = c1
    c2 = c2
    s1 = s1
    s2 = s2
    a = a
    None = None
    Reaper = Reaper
    Contracts = {c1, c2}
    EmitterOf <- MCEmitterOf
    LeaseIds = {l1}
    LeaseFor <- MCLeaseFor
    Settlers = {s1, s2}
    Deciders = {d1}
    Evaluations <- MCEvaluations
    MaxAttempts = 2
    MaxFaults = 1
SPECIFICATION FairSpec
INVARIANTS TypeOK ChainVerifies SettleIdempotent SomeWriterWins
PROPERTY ExpiredSettles
CHECK_DEADLOCK FALSE
