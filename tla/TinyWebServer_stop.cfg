SPECIFICATION FairSpec
CONSTANTS
    Clients = {c1, c2}
    NoClient = NoClient
    Qlen = 2
    FdLimit = 2
    MaxForkFail = 0
    MaxSigint = 1
PROPERTY StopTerminates
CHECK_DEADLOCK FALSE
