SPECIFICATION Spec
CONSTANTS
    Configs <- UnevenJobs
    Perm <- Rotation
    MaxDP = 2
    Prefetch = 2
    MaxRestarts = 2
PROPERTIES
    RunsRepeat
CHECK_DEADLOCK FALSE
