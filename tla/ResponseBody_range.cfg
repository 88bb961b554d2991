SPECIFICATION Spec
CONSTANTS
    IntMax = 11
    SizeofInt = 1
    Sizes = {0, 5, 9, 13, 101}
    Bounds = {0, 4, 5, 9, 11}
    Chunk = 4
    MaxResizes = 0
    MaxPartial = 0
INVARIANT BodyHasSizeOfRange
\* the response ends
CHECK_DEADLOCK FALSE
