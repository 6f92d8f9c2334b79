\* Two clients of any kinds; a channel that one slow reading overflows.
CONSTANTS
    None = None
    c1 = c1
    c2 = c2
    Clients = {c1, c2}
    Kinds <- MCKinds
    ShortTTL = TRUE
    BaseCap = 2
    LiveRoom = 1
    MaxEvents = 2
    MaxFaults = 1
SPECIFICATION FairSpec
INVARIANTS TypeOK StreamWhole OneTaskPerKey
PROPERTY ClientsEnd
CHECK_DEADLOCK FALSE
