SPECIFICATION Spec
CONSTANTS
    Layouts <- MimoJobs
    MicroBatch = 4
    Microbatches = 2
    LossTokens <- Tokens
    TrainIters = 3
    SaveInterval = 2
    MaxFaults = 1
INVARIANTS
    EmbeddingsMeetTokens
    GradientsOfOneLoss
    StepsFollowSchedule
PROPERTIES
    StepsComplete
CHECK_DEADLOCK FALSE
