SPECIFICATION Spec
CONSTANTS
    p1 = p1  p2 = p2  p3 = p3
    t1 = t1  t2 = t2  t3 = t3  t4 = t4
    Procs <- TwoProcs
    Threads <- PairThreads
    Owner <- PairOwners
    MaxCalls = 3
    MaxEvents = 5
    Clients <- PairThreads
    Blocking = FALSE
    None = None
CHECK_DEADLOCK FALSE
INVARIANTS
    PopsTop
