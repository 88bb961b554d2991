SPECIFICATION Spec
CONSTANTS
    Children = {k1, k2}
    MaxServers = 1
SYMMETRY ChildSymmetry
INVARIANT WrittenWhenLogged
\* each child serves one request
CHECK_DEADLOCK FALSE
