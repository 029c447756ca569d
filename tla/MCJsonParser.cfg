CONSTANTS
    AllowComments = TRUE
    AllowNonfinite = TRUE
    AllowSingleQuotes = FALSE
    AllowControls = FALSE
    AllowBom = TRUE
    Texts <- AllTexts
    JsonLexemes <- Lexemes
    Options <- AllOptions
    MaxDepth = 3
    MaxElems = 3
    MaxString = 2
    Starves = TRUE
SPECIFICATION Spec
INVARIANTS ParseFollowsText DuplicatesFollowPolicy MultipleReadsAll NothingLeaks
PROPERTY ParseAdvances
CHECK_DEADLOCK FALSE
