\* A node, three requests that race for its identity and a token for two uses, and a
\* neighbour with a certificate made by hand, which may beat for it: one revocation, one
\* join, and a failure or a restart.
CONSTANTS
    None = None
    Nodes = {n1, n2}
    Tokens = {t1}
    Requests = {r1, r2, r3}
    ByHand = {n2}
    Rotations = {i1}
    Revokers = {v1}
    Joins = {j1}
    MaxUses = 2
    MaxFaults = 1
SPECIFICATION FairSpec
INVARIANTS TypeOK OneIdentity TokenAccounting RevocationAuthoritative
PROPERTY RevokedFades
CHECK_DEADLOCK FALSE
