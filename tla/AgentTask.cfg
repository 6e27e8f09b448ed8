CONSTANTS
    Workers = {w1, w2}
    Requests = {}
    Calls = {c1, c2}
    Keys = {k1, k2, k3}
    NoWorker = NoWorker
    NoKey = NoKey
    MaxCrashes = 1
SPECIFICATION Spec
SYMMETRY Symmetry
CHECK_DEADLOCK FALSE
INVARIANTS TypeOK
PROPERTIES ImplementsLifecycle LeaseRespected EachRequestMovesOnce
