SPECIFICATION CgiSpec
CONSTANTS
    IntMax = 32767
    SizeofInt = 2
    Numbers <- MCNumbers
    Dates = {}
    MaxLines = 0
    Sizes = {91}
    Times = {0}
INVARIANT ScriptOutputHasHeader
CHECK_DEADLOCK FALSE
