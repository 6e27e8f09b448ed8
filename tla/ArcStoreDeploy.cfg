CONSTANTS
    Holders = {h1, h2}
    MaxEvents = 4
    MaxFaults = 1
    MaxLegacy = 1
    Quiet = FALSE
SPECIFICATION Spec
INVARIANTS AcknowledgedStays
