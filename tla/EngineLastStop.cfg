CONSTANTS
    Ids = {1, 2}
    Tokens <- Letters
    TextOf <- LetterText
    EOS = "eos"
    Undecodable = {"bad"}
    Buffered = FALSE
    Params <- LetterParams
    StallLimit = 1
SPECIFICATION Spec
INVARIANTS
    StopRespected
