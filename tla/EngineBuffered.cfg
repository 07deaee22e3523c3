CONSTANTS
    Ids = {1, 2}
    Tokens <- Pieces
    TextOf <- PieceText
    EOS = "eos"
    Undecodable = {}
    Buffered = TRUE
    Params <- PieceParams
    StallLimit = 2
SPECIFICATION FairSpec
INVARIANTS
    StreamedText
PROPERTIES
    RunReturns
