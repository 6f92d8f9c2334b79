\* One enrollment, one revocation and one join, nothing fails.
CONSTANTS
    None = None
    Nodes = {n1}
    Tokens = {t1}
    Requests = {r1}
    Rotations = {}
    ByHand = {}
    Revokers = {v1}
    Joins = {j1}
    MaxUses = 2
    MaxFaults = 0
SPECIFICATION Spec
INVARIANT RevocationEvicts
CHECK_DEADLOCK FALSE
