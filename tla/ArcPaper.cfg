CONSTANTS
    Researchers = {l1, l2}
    Reviewers = {r1, r2}
    Reconcilers = {q1}
    Observers = {o1, o2}
    Modes = {"avo", "arc"}
    MaxFaults = 3
    MaxContinues = 2
    LoopsOverlap = FALSE
SPECIFICATION Spec
CHECK_DEADLOCK FALSE
INVARIANTS TypeOK StartedOnce MissionTellsTheTruth
PROPERTIES UnknownStartAdopted EndedSessionNoticed
