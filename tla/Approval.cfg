CONSTANTS
    Decisions = {d1, d2}
    Requests = {r1}
    Keys = {k1, k2}
    Operations = {x, y}
    Approvers = {a1, a2}
    Preparers = {p1, p2}
    NoRequest = NoRequest
    NoKey = NoKey
    NoDecision = NoDecision
    MaxFence = 0
SPECIFICATION Spec
SYMMETRY IdSymmetry
CHECK_DEADLOCK FALSE
INVARIANTS TypeOK OneTimeApproval
PROPERTY ImplementsLedger
