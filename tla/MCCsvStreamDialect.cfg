CONSTANTS
    Alphabet = {"n", "quote", "bslash", "lf", "cr", "delim"}
    Escape = "backslash"
    AcceptLf = TRUE
    AcceptCrlf = TRUE
    AcceptCr = FALSE
    AllowUnquotedQuotes = TRUE
    AllowUnquotedNewlines = FALSE
    CommentPrefix <- LetterN
    KeepBom = FALSE
    MaxCols = 2
    MaxFieldBytes = 2
    MaxRecordBytes = 3
    MaxTotalBytes = 4
    KeepInput = FALSE
    FeedsOn = FALSE
    InputBound = 5
    ChunkBound = 5
SPECIFICATION Spec
INVARIANT LimitsHold
PROPERTY FeedReturns
CHECK_DEADLOCK FALSE
