CONSTANTS
    SeqIds = {1, 2}
    PromptLengths = {0, 3}
    MaxGenerated = 2
    BlockSize = 2
    MaxRetryAttempts = 2
SPECIFICATION FairSpec
INVARIANTS
    ContinuesContext
    WrittenOnce
    AttemptsUsedUp
PROPERTIES
    AllOrNothing
    Returns
CHECK_DEADLOCK FALSE
