CONSTANTS
    Holders = {h1, h2}
    MaxEvents = 5
    MaxFaults = 2
    MaxLegacy = 1
    Quiet = TRUE
SPECIFICATION Spec
SYMMETRY Symmetry
INVARIANTS TypeOK SnapshotIsReplay CleanCopyIsCommitted
PROPERTIES ImplementsJournal
