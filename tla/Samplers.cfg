SPECIFICATION Spec
CONSTANTS
    Configs <- EvenJobs
    Perm <- Rotation
    MaxDP = 2
    Prefetch = 2
    MaxRestarts = 2
INVARIANTS
    TypeOK
    SamplerTracksTrainer
    NoSampleTwice
    EpochsTrainEverySample
PROPERTIES
    RunsRepeat
    TrainingEnds
CHECK_DEADLOCK FALSE
