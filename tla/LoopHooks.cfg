SPECIFICATION Spec
CONSTANTS
    TrainIters = 6
    SaveInterval = 4
    NonPersistentInterval = 2
    EvalInterval = 2
    HashInterval = 3
    ExitInterval = 5
    IterationsToSkip = {}
    RampAt = 2
    ToggleHook = TRUE
    MxFp8 = TRUE
    Fp16 = TRUE
    EarlyExit = TRUE
    Rerun = TRUE
    MaxFaults = 2
INVARIANTS
    TypeOK
    CompletedRunPersisted
    ExitKeepsProgress
    HooksToggledInTurn
    ForwardUsesHook
