CONSTANTS
    Byte <- Tokens
    SinkSizes = {6}
    InitialSize = 3
    OutBound = 14
    Options <- SomeOptions
    StackCapacity = 1
    MaxCapacity = 2
VIEW MCView
SPECIFICATION Spec
INVARIANT StrictText
CHECK_DEADLOCK FALSE
