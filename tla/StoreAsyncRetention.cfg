SPECIFICATION Spec
CONSTANTS
    r1 = r1
    r2 = r2
    Ranks = {r1, r2}
    TrainIters = 3
    SaveInterval = 1
    NonPersistentInterval = 0
    AsyncSave = TRUE
    MostRecentK = 1
    NestedNonPersistent = TRUE
    Energon = FALSE
    ExitSignals = FALSE
    TornTracker = FALSE
    MaxFaults = 0
INVARIANT ResumePointWhole
