SPECIFICATION FairSpec
CONSTANTS
    IntMax = 11
    SizeofInt = 1
    Sizes = {0, 5, 9, 13, 101}
    Bounds = {0, 4, 5, 9, 11}
    Chunk = 4
    MaxResizes = 2
    MaxPartial = 1
INVARIANT TypeOK
INVARIANT BodyIsContiguous
INVARIANT BodyIsComplete
INVARIANT NoMoreThanAnnounced
PROPERTY ResponseEnds
\* the response ends
CHECK_DEADLOCK FALSE
