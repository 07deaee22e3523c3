CONSTANTS
    NumBlocks = 3
    BlockSize = 2
    SeqIds = {1, 2, 3}
    MaxBatchSize = 2
    MaxTotalTokens = 4
    MaxNumSeqs = 3
    MaxModelLen = 8
    ThresholdNum = 1
    ThresholdDen = 1
    Requests <- MixedRequests
    PartialOutputs = FALSE
    MaxSeqs = 1
    DecodeReserve = 2
    AllocFloor = 4
SPECIFICATION BackendsSpec
PROPERTIES
    DeletionIsSafe
