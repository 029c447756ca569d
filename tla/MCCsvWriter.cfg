CONSTANTS
    Byte = {"a", "delim", "quote", "bslash", "lf", "cr"}
    Fields <- SomeFields
    Tables <- SomeTables
    Options <- SomeOptions
    SinkSizes = {1, 5}
    InitialSize = 2
    StackBuffer = 3
    OutBound = 7
VIEW MCView
SPECIFICATION Spec
INVARIANTS RoomForTerminator FixedKeepsPrefix RoundTrip
CHECK_DEADLOCK FALSE
