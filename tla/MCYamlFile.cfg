CONSTANTS
    Procs = {p1, p2}
    Letters <- MCLetters
    Docs <- MCDocs
    Options <- MCOptions
    NoNewline = NoNewline
    NoDoc = NoDoc
    MaxFiles = 3
SPECIFICATION Spec
SYMMETRY MCSymmetry
INVARIANT TempsAccountedFor
PROPERTY FileIsAtomic
CHECK_DEADLOCK FALSE
