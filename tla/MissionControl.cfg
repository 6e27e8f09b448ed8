CONSTANTS
    s1 = s1
    s2 = s2
    Workers = {w1}
    NoWorker = NoWorker
    Steps = {s1}
    Contents = {c1, c2}
    MaxPlanVersions = 2
    Runners = {r1}
    Terminals = {}
    Operators = {o1}
    Commands = {"pause", "cancel", "resume", "steer"}
    Needs <- ChainNeeds
    NoStep = NoStep
    MaxAttempts = 2
    MaxClaims = 2
    MaxCrashes = 1
    MaxStalls = 0
    MaxCommands = 2
SPECIFICATION Spec
CHECK_DEADLOCK FALSE
INVARIANTS TypeOK
PROPERTIES CompletesOnlyDone PlansAppendOnly ImplementsLifecycle
