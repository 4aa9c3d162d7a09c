SPECIFICATION Spec
CONSTANTS
    n1 = n1  n2 = n2
    th1 = th1  th2 = th2
    t1 = t1  t2 = t2  t3 = t3
    Nodes <- TwoNodes
    Threads <- TwoThreads
    Txns <- ThreeTxns
    AsyncSpace = 3
    None = None
SYMMETRY Symm
CONSTRAINT SendersBound
CHECK_DEADLOCK FALSE
INVARIANTS
    OneInProgress
    GateClosed
    GateHasHolder
    BufferOutlivesTransaction
    FreedWhenDone
    NoLostWakeup
PROPERTIES
    ImplementsQueue
