CONSTANTS
    Researchers = {l1}
    Reviewers = {r1}
    Reconcilers = {q1}
    Observers = {o1}
    Modes = {"arc"}
    MaxFaults = 1
    MaxContinues = 1
    LoopsOverlap = FALSE
SPECIFICATION Spec
CHECK_DEADLOCK FALSE
INVARIANT UnknownStaysParked
