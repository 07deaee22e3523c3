CONSTANTS
    NumBlocks = 5
    BlockSize = 2
    SeqIds = {1, 2, 3}
    MaxBatchSize = 2
    MaxTotalTokens = 9
    MaxNumSeqs = 3
    MaxModelLen = 10
    ThresholdNum = 4
    ThresholdDen = 5
    Requests <- EndingRequests
    PartialOutputs = FALSE
SPECIFICATION FairSpec
INVARIANTS
    KVInv
    GrowthReserved
    DeferredMeansWaiting
PROPERTIES
    LifecycleSpec
    OwnershipSpec
    EventuallyReported
