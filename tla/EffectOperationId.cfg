CONSTANTS
    Intents = {i1}
    Executors = {e1}
    Reconcilers = {r1}
    ManualOnly = {}
    NoIntent = NoIntent
SPECIFICATION Spec
CHECK_DEADLOCK FALSE
INVARIANT IntentKeepsOperationId
