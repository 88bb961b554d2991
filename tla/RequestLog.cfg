SPECIFICATION FairSpec
CONSTANTS
    Children = {k1, k2}
    MaxServers = 3
INVARIANT TypeOK
INVARIANT SemaphoreAccounting
INVARIANT OnePrinter
INVARIANT LogIsAppendOnly
PROPERTY LoggerIsNotBlocked
\* each child serves one request
CHECK_DEADLOCK FALSE
