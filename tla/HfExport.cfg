SPECIFICATION Spec
CONSTANTS
    Jobs <- ExportJobs
    Heads = 4
    Groups = 2
    Inner = 4
    Hidden = 2
    Vocab = 3
    Layers = 2
    Files = {0, 1, 2}
    FileOf <- ShardOf
INVARIANTS
    ShardsComputeAlone
    PeersMeet
    TensorsRoundTrip
    TiedCopiesAgree
    IndexNamesSaved
PROPERTIES
    ExportEnds
CHECK_DEADLOCK FALSE
