CONSTANTS
    Ids = {1, 2}
    Tokens <- Pieces
    TextOf <- PieceText
    EOS = "eos"
    Undecodable = {}
    Buffered = TRUE
    Params <- PieceParams
    StallLimit = 1
SPECIFICATION Spec
INVARIANTS
    StreamIsText
