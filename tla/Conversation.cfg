CONSTANTS
    MaxCandidates = 3
    MaxStops = 4
    MaxLogprobs = 5
    CommandLines <- MCCommandLines
    Defaults <- MCDefaults
    Bodies <- MCBodies
    ServerKinds <- MCServerKinds
    Pieces = {"a", "b", ""}
    MaxChunks = 2
    MaxComments = 1
SPECIFICATION Spec
INVARIANTS
    StatusTruthful
    RecordTruthful
CHECK_DEADLOCK FALSE
