SPECIFICATION BootSpec
CONSTANTS
    Clients = {c1, c2, c3}
    NoClient = NoClient
    Qlen = 2
    FdLimit = 2
    MaxForkFail = 2
    MaxSigint = 2
INVARIANT TypeOK
INVARIANT NoLostChild
INVARIANT AtMostOneLateClient
INVARIANT ConnectionClosedWithChild
INVARIANT ServerIsSetUp
PROPERTY ZombiesAreReaped
PROPERTY NoConnectionStuckInBacklog
PROPERTY StoppedServerEndsWithNextClient
PROPERTY NoSocketNoServer
\* main may sleep in accept() for ever, and ends for good
CHECK_DEADLOCK FALSE
