CONSTANTS
    s1 = s1
    s2 = s2
    Workers = {w1}
    NoWorker = NoWorker
    Steps = {s1}
    Contents = {c1}
    MaxPlanVersions = 2
    Runners = {r1, r2}
    Terminals = {}
    Operators = {}
    Commands = {"pause", "cancel", "resume", "steer"}
    Needs <- ChainNeeds
    NoStep = NoStep
    MaxAttempts = 2
    MaxClaims = 0
    MaxCrashes = 0
    MaxStalls = 0
    MaxCommands = 2
SPECIFICATION Spec
CHECK_DEADLOCK FALSE
INVARIANTS AttemptsWithinBudget
