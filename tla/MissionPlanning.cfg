CONSTANTS
    s1 = s1
    s2 = s2
    Workers = {w1, w2}
    NoWorker = NoWorker
    Steps = {s1}
    Contents = {c1}
    MaxPlanVersions = 2
    Runners = {}
    Terminals = {}
    Operators = {}
    Commands = {}
    Needs <- ChainNeeds
    NoStep = NoStep
    MaxAttempts = 2
    MaxClaims = 2
    MaxCrashes = 1
    MaxStalls = 0
    MaxCommands = 0
SPECIFICATION FairSpec
CHECK_DEADLOCK FALSE
PROPERTIES PlanningEnds
