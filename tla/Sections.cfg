SPECIFICATION FairSpec
CONSTANTS
    TrainIters = 6
    SaveInterval = 4
    EvalInterval = 2
    EvalIters = 2
    IterationsToSkip = {1, 3}
    MinStepIters = 2
    AsyncSave = FALSE
    DoTest = TRUE
    TimeLimit = TRUE
    MaxFaults = 2
INVARIANTS
    SectionsInTurn
    IterationsTimedAlone
    EvaluationLeavesNoTrace
    TimeoutsFromSeenSections
PROPERTIES
    SectionsEnd
