SPECIFICATION CgiSpec
CONSTANTS
    IntMax = 32767
    SizeofInt = 2
    Numbers <- MCNumbers
    Dates = {}
    MaxLines = 1
    Sizes = {91, 1000}
    Times = {0}
INVARIANT ContentLengthOfRange
CHECK_DEADLOCK FALSE
