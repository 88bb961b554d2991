SPECIFICATION CgiSpec
CONSTANTS
    IntMax = 32767
    SizeofInt = 2
    Numbers <- MCNumbers
    Dates = {0, 1, 32768}
    MaxLines = 2
    Sizes = {91, 1000}
    Times = {0, 1, 32770}
INVARIANT CgiTypeOK
INVARIANT LastRangeDecides
INVARIANT OpenRangeStatus
INVARIANT ConditionalGet
INVARIANT ContentRangeIff206
INVARIANT HeaderLinesAreWhole
INVARIANT LogTellsStatus
INVARIANT OutputIsClean
INVARIANT ScriptIsReaped
PROPERTY ChildEndsWithScript
\* the child ends
CHECK_DEADLOCK FALSE
