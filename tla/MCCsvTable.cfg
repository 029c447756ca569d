CONSTANTS
    Names = {e, a}
    Empty = e
    InitCapacity = 1
    MaxRows = 2
    MaxCols = 2
    MaxEntries = 2
VIEW MCView
SPECIFICATION Spec
INVARIANTS TypeOK StructureValid
PROPERTIES StrictStaysRectangular CountKeepsCovering HeaderMapStaysConsistent
    UniqueHeadersKept ColumnsStayAligned
