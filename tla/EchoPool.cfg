SPECIFICATION FairSpec
CONSTANTS
    Threads = {t1, t2, t3, t4}
    NoOne = NoOne
    Acceptor = Acceptor
    MaxActive = 3
    AcceptInterruptible = TRUE
INVARIANT TypeOK
INVARIANT SlotAccounting
INVARIANT PoolBound
INVARIANT NoLostWakeup
INVARIANT MutexDiscipline
PROPERTY EndingThreadAdmitsNext
PROPERTY PoolSpec
\* the process ends
CHECK_DEADLOCK FALSE
