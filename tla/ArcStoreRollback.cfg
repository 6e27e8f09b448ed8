CONSTANTS
    Holders = {h1, h2}
    MaxEvents = 3
    MaxFaults = 0
    MaxLegacy = 0
    Quiet = FALSE
SPECIFICATION Spec
INVARIANTS AcknowledgedStays
