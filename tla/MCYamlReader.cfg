CONSTANTS
    MaxContext = 32
    MaxDepth = 2
    MaxAliases = 2
    MaxTotal = 18
    RetainComments = TRUE
    Enough = 99
    Shortages = {0, 1}
    Nothing = Nothing
    FirstCapacity = 2
    Texts <- MCTexts
SPECIFICATION Spec
CONSTRAINT Few
INVARIANTS EventsMatchText DocumentsBalanced LimitsHold
PROPERTY QueueIsFifo
CHECK_DEADLOCK FALSE
