\* Every mode, two tasks that may be canceled.
CONSTANTS
    a = a
    b = b
    c = c
    login = login
    api = api
    docs = docs
    None = None
    Tasks = {a, b, c}
    Surfaces = {login}
    Modes = {"queue", "strict", "warn", "disabled"}
    Cancelable = {a, b}
    Request <- MCRequestModes
    Fold <- MCFold
    Overlap <- MCOverlap
    PeerTerritories = {}
SPECIFICATION Spec
INVARIANTS TypeOK LockHolderTracked RunningHoldsLock RunningDeclaredDisjoint NoStrandedTask QueueOrdered
