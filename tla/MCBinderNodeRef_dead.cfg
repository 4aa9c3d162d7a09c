SPECIFICATION Spec
CONSTANTS
    Server = Server
    None = None
    c1 = c1  c2 = c2
    th1 = th1  th2 = th2
    x1 = x1
    k1 = k1
    Clients <- OneClient
    Threads <- OneThread
    Parcels <- OneParcel
    Calls <- OneCall
    MaxCount = 1
    MaxLeft = 2
CHECK_DEADLOCK FALSE
INVARIANTS
    DeadNodeHasNoLocalRefs
