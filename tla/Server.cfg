CONSTANTS
    one = one
    other = other
    Clients = {one, other}
    MaxCandidates = 2
    Bodies <- SmallBodies
    Capacity = 1
    MaxTokens = 2
    Buffered = FALSE
    StallLimit = 2
SPECIFICATION FairSpec
INVARIANTS
    TypeOK
    RoutesExact
    NeverCutOff
    StopsForTheDeaf
PROPERTIES
    EveryoneAnswered
CHECK_DEADLOCK FALSE
