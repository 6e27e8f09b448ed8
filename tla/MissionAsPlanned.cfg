CONSTANTS
    s1 = s1
    s2 = s2
    Workers = {w1}
    NoWorker = NoWorker
    Steps = {s1}
    Contents = {c1, c2}
    MaxPlanVersions = 2
    Runners = {}
    Terminals = {}
    Operators = {o1}
    Commands = {"steer"}
    Needs <- ChainNeeds
    NoStep = NoStep
    MaxAttempts = 2
    MaxClaims = 2
    MaxCrashes = 0
    MaxStalls = 0
    MaxCommands = 1
SPECIFICATION Spec
CHECK_DEADLOCK FALSE
INVARIANTS CompletedAsPlanned
