\* Every thread on one task, two stops of the coordinator, one failed log write.
CONSTANTS
    Failers = {"offline", "revoked"}
    MaxEvents = 3
    MaxStops = 2
    MaxKills = 2
    MaxLogFaults = 1
SPECIFICATION FairSpec
INVARIANTS TypeOK RowOutcomeReal LogIdsIncrease StreamEnds
PROPERTIES TerminalImmutable RestartSettles
