CONSTANTS
    Researchers = {l1, l2}
    Reviewers = {r1, r2}
    Reconcilers = {q1}
    Observers = {o1}
    Modes = {"arc"}
    MaxFaults = 0
    MaxContinues = 1
    LoopsOverlap = TRUE
SPECIFICATION Spec
CHECK_DEADLOCK FALSE
INVARIANT StartedOnce
