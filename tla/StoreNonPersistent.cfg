SPECIFICATION FairSpec
CONSTANTS
    r1 = r1
    r2 = r2
    Ranks = {r1, r2}
    TrainIters = 5
    SaveInterval = 5
    NonPersistentInterval = 1
    AsyncSave = TRUE
    MostRecentK = 1
    NestedNonPersistent = FALSE
    Energon = FALSE
    ExitSignals = FALSE
    TornTracker = FALSE
    MaxFaults = 1
INVARIANTS
    ResumePointWhole
    InFlightNotRemoved
    NonPersistentBounded
PROPERTIES
    SavesBecomeDurable
    JobFinishes
