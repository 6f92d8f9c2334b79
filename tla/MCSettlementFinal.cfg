\* Two rulings on one receipt at the same time.
CONSTANTS
    c1 = c1
    c2 = c2
    s1 = s1
    s2 = s2
    a = a
    None = None
    Reaper = Reaper
    Contracts = {c1, c2}
    EmitterOf <- MCEmitterOf
    LeaseIds = {l1}
    LeaseFor <- MCLeaseFor
    Settlers = {s1}
    Deciders = {d1, d2}
    Evaluations <- MCEvaluations
    MaxAttempts = 2
    MaxFaults = 0
SPECIFICATION Spec
PROPERTY AcceptedIsFinal
CHECK_DEADLOCK FALSE
