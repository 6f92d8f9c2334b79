\* Queue mode under fairness, one cancellation, a peer on another repository.
CONSTANTS
    a = a
    b = b
    c = c
    login = login
    api = api
    docs = docs
    None = None
    Tasks = {a, b, c}
    Surfaces = {login}
    Modes = {"queue"}
    Cancelable = {a}
    Request <- MCRequest
    Fold <- MCFoldModes
    Overlap <- MCOverlap
    PeerTerritories <- MCUnrelatedPeer
SPECIFICATION FairSpec
PROPERTY QueueDrains
