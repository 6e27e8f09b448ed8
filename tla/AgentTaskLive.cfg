CONSTANTS
    Workers = {w1, w2}
    Requests = {r1}
    Calls = {}
    Keys = {k1}
    NoWorker = NoWorker
    NoKey = NoKey
    MaxCrashes = 2
SPECIFICATION FairSpec
CHECK_DEADLOCK FALSE
PROPERTIES DeadWorkersTaskGoesOn
