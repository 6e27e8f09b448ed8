CONSTANTS
    Intents = {i1, i2}
    Executors = {e1, e2}
    Reconcilers = {r1, r2}
    ManualOnly = {i2}
    NoIntent = NoIntent
SPECIFICATION Spec
SYMMETRY ProcessSymmetry
CHECK_DEADLOCK FALSE
INVARIANTS
    TypeOK
    SettledTruth
    RowsAgree
PROPERTIES
    ImplementsOneShotWrite
