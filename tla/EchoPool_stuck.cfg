SPECIFICATION Spec
CONSTANTS
    Threads = {t1, t2, t3, t4}
    NoOne = NoOne
    Acceptor = Acceptor
    MaxActive = 3
    AcceptInterruptible = FALSE
SYMMETRY ThreadSymmetry
INVARIANT WaitsForActiveThread
\* the process ends
CHECK_DEADLOCK FALSE
