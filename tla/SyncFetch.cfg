CONSTANTS
    p1 = p1
    p2 = p2
    f1 = f1
    s1 = s1
    s2 = s2
    NoProc = NoProc
    Procs = {p1, p2, f1}
    Applies = {p1, p2}
    Schemas = {s1, s2}
    Decls <- SharedDecls
    Cache <- CacheOne
    MaxAge = 1
    Faults <- AllFaults
SPECIFICATION Spec
PROPERTIES
    StableWhileRead
\* The processes end, or wait for each other's locks.
CHECK_DEADLOCK FALSE
