SPECIFICATION Spec
CONSTANTS
    r1 = r1
    r2 = r2
    Ranks = {r1, r2}
    TrainIters = 4
    SaveInterval = 2
    NonPersistentInterval = 1
    AsyncSave = TRUE
    MostRecentK <- KeepAll
    NestedNonPersistent = TRUE
    Energon = TRUE
    ExitSignals = TRUE
    TornTracker = FALSE
    MaxFaults = 2
SYMMETRY RankSymmetry
INVARIANTS
    TrackersWhole
    TypeOK
    LegacyTrackerWhole
PROPERTIES
    ResumesNewest
    ImplementsDurableProgress
