SPECIFICATION FairSpec
CONSTANTS
    p1 = p1  p2 = p2  p3 = p3
    t1 = t1  t2 = t2  t3 = t3  t4 = t4
    Procs <- ThreeProcs
    Threads <- ThreeThreads
    Owner <- ThreeOwners
    MaxCalls = 2
    MaxEvents = 3
    Clients <- OneClient
    Blocking = TRUE
    None = None
CHECK_DEADLOCK FALSE
PROPERTIES
    StacksRefined
    CallsEnd
