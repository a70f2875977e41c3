SPECIFICATION FairSpec
CONSTANTS
    TrainIters = 6
    SaveInterval = 4
    NonPersistentInterval = 0
    EvalInterval = 0
    HashInterval = 0
    ExitInterval = 0
    IterationsToSkip = {1, 2, 4, 5}
    RampAt = 3
    ToggleHook = FALSE
    MxFp8 = FALSE
    Fp16 = TRUE
    EarlyExit = FALSE
    Rerun = TRUE
    MaxFaults = 2
INVARIANTS
    CountersFollowSchedule
    SignalStopsTraining
PROPERTIES
    SignalEndsRun
