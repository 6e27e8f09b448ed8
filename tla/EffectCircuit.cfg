CONSTANTS
    Executors = {e1, e2}
    Reconcilers = {c1}
    Operators = {o1}
    Threshold = 2
    MaxFailures = 2
    MaxCrashes = 1
    MaxOverrides = 1
SPECIFICATION FairSpec
INVARIANTS TypeOK
PROPERTIES FailuresAddUp CooldownRespected Recovers
