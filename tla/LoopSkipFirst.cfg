SPECIFICATION Spec
CONSTANTS
    TrainIters = 4
    SaveInterval = 0
    NonPersistentInterval = 0
    EvalInterval = 0
    HashInterval = 0
    ExitInterval = 0
    IterationsToSkip = {1}
    RampAt = 9
    ToggleHook = TRUE
    MxFp8 = FALSE
    Fp16 = FALSE
    EarlyExit = FALSE
    Rerun = FALSE
    MaxFaults = 0
INVARIANTS
    ForwardUsesHook
