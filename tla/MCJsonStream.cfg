CONSTANTS
    AllowComments = TRUE
    AllowNonfinite = TRUE
    AllowSingleQuotes = TRUE
    AllowControls = FALSE
    AllowBom = TRUE
    Texts <- AllTexts
    JsonLexemes <- Lexemes
    MaxDepth = 3
    MaxElems = 4
    MaxTotal = 24
    Refuses = TRUE
SPECIFICATION Spec
VIEW MCView
INVARIANTS CompleteTextRead HeldBytesAreFed FinishedIsComplete
PROPERTIES EventsFollowProtocol LoopsAdvance
CHECK_DEADLOCK FALSE
