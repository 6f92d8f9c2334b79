\* Two workers, one of which joins twice, channels of one event, one disturbance.
CONSTANTS
    w1 = w1
    w2 = w2
    None = None
    Workers = {w1, w2}
    MaxJoins <- MCMaxJoins
    BufMin = 1
    BufExtra = 1
    MaxFaults = 1
SPECIFICATION FairSpec
INVARIANTS TypeOK JoinsSerialize AnchorContinuity
PROPERTIES FeedSpec Rejoins
CHECK_DEADLOCK FALSE
