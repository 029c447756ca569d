CONSTANTS
    Alphabet = {"a", "quote", "delim", "lf"}
    Escape = "doubled"
    AcceptLf = TRUE
    AcceptCrlf = TRUE
    AcceptCr = FALSE
    AllowUnquotedQuotes = FALSE
    AllowUnquotedNewlines = FALSE
    CommentPrefix <- NoPrefix
    KeepBom = FALSE
    MaxCols = 100
    MaxFieldBytes = 100
    MaxRecordBytes = 100
    MaxTotalBytes = 100
    KeepInput = TRUE
    FeedsOn = FALSE
    InputBound = 7
    ChunkBound = 7
SPECIFICATION Spec
INVARIANTS RecordsMatchText  EventsWellFormed HeldFieldBuffered
CHECK_DEADLOCK FALSE
