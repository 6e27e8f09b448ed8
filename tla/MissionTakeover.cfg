CONSTANTS
    s1 = s1
    s2 = s2
    Workers = {w1, w2}
    NoWorker = NoWorker
    Steps = {s1}
    Contents = {c1}
    MaxPlanVersions = 2
    Runners = {}
    Terminals = {}
    Operators = {o1}
    Commands = {"pause", "cancel"}
    Needs <- ChainNeeds
    NoStep = NoStep
    MaxAttempts = 2
    MaxClaims = 2
    MaxCrashes = 1
    MaxStalls = 1
    MaxCommands = 1
SPECIFICATION Spec
SYMMETRY WorkerSymmetry
CHECK_DEADLOCK FALSE
INVARIANTS OneFencedWriter AttemptsWithinBudget
PROPERTIES StaleWorkerWritesNothing NoDispatchWhenStopped
