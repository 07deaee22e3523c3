CONSTANTS
    NumBlocks = 4
    BlockSize = 3
    SeqIds = {1, 2, 3}
    MaxBatchSize = 2
    MaxTotalTokens = 4
    MaxNumSeqs = 3
    MaxModelLen = 6
    ThresholdNum = 3
    ThresholdDen = 4
    Requests <- MixedRequests
    PartialOutputs = TRUE
SPECIFICATION Spec
INVARIANTS
    TypeOK
    ExactlyOnePlace
    TablesMatchActive
    BatchSound
    ActiveAlwaysScheduled
    OvertakenOnlyByLess
