SPECIFICATION Spec
CONSTANTS
    p1 = p1  p2 = p2  p3 = p3
    t1 = t1  t2 = t2  t3 = t3  t4 = t4
    Procs <- ThreeProcs
    Threads <- FourThreads
    Owner <- PoolOwners
    MaxCalls = 3
    MaxEvents = 4
    Clients <- OneClient
    Blocking = TRUE
    None = None
SYMMETRY Symm
CONSTRAINT PoolBound
CHECK_DEADLOCK FALSE
INVARIANTS
    TransactionOwned
    StacksSound
    PopsTop
    NoUseAfterFree
    FreedWhenUnused
