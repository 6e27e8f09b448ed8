CONSTANTS
    Decisions = {d1}
    Requests = {r1}
    Keys = {k1, k2}
    Operations = {x}
    Approvers = {a1}
    Preparers = {p1, p2}
    NoRequest = NoRequest
    NoKey = NoKey
    NoDecision = NoDecision
    MaxFence = 1
SPECIFICATION Spec
CHECK_DEADLOCK FALSE
PROPERTY FencesAdvance
