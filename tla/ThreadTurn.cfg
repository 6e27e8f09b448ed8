CONSTANTS
    Processes = {p1, p2}
    Turns = {t1}
    Calls = {c1}
    Attempts = {a1}
    NoTurn = NoTurn
    Nobody = Nobody
    MaxCuts = 1
    MaxControls = 2
SPECIFICATION FairSpec
CHECK_DEADLOCK FALSE
INVARIANTS TypeOK AnswerOfCompletedMission
PROPERTIES FailsForCause ImplementsProtocol TurnSettles
