CONSTANTS
    Byte <- Tokens
    SinkSizes = {1, 6, 15}
    InitialSize = 3
    OutBound = 24
    Options <- SomeOptions
    StackCapacity = 1
    MaxCapacity = 4
VIEW MCView
SPECIFICATION Spec
INVARIANTS TypeOK TextMatchesStack
PROPERTY TornOutputIsFinal
CHECK_DEADLOCK FALSE
