SPECIFICATION Spec
CONSTANTS
    r1 = r1
    r2 = r2
    Ranks = {r1, r2}
    TrainIters = 6
    SaveInterval = 3
    NonPersistentInterval = 2
    AsyncSave = FALSE
    MostRecentK = 1
    NestedNonPersistent = TRUE
    Energon = FALSE
    ExitSignals = FALSE
    TornTracker = TRUE
    MaxFaults = 2
SYMMETRY RankSymmetry
INVARIANTS
    ResumePointWhole
CHECK_DEADLOCK FALSE
