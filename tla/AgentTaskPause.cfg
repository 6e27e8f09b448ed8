CONSTANTS
    Workers = {w1}
    Requests = {}
    Calls = {c1}
    Keys = {k1, k2}
    NoWorker = NoWorker
    NoKey = NoKey
    MaxCrashes = 0
SPECIFICATION Spec
CHECK_DEADLOCK FALSE
PROPERTIES PausedAtSafePoint
