CONSTANTS
    Ids = {1, 2}
    Tokens <- Letters
    TextOf <- LetterText
    EOS = "eos"
    Undecodable = {"bad"}
    Buffered = FALSE
    Params <- LetterParams
    StallLimit = 2
SPECIFICATION Spec
INVARIANTS
    DecodersLive
    EndsOnce
    ResultsTruthful
    StopNeverStreamed
    StopCutClean
PROPERTIES
    RunReturnsAll
