CONSTANTS
    NumBlocks = 6
    BlockSize = 2
    SeqIds = {1, 2, 3}
    MaxBatchSize = 3
    MaxTotalTokens = 4
    MaxNumSeqs = 3
    MaxModelLen = 8
    ThresholdNum = 1
    ThresholdDen = 1
    Requests <- MixedRequests
    PartialOutputs = FALSE
    MaxSeqs = 2
    DecodeReserve = 2
    AllocFloor = 4
SPECIFICATION BackendsSpec
INVARIANTS
    NothingLeaks
    CpuReadsOwnWrites
    SlotsReturned
    ReserveSuffices
    SlotForEveryBatch
PROPERTIES
    NoForeignRead
