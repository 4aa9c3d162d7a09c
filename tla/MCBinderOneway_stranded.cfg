SPECIFICATION Spec
CONSTANTS
    n1 = n1  n2 = n2
    th1 = th1  th2 = th2
    t1 = t1  t2 = t2  t3 = t3
    Nodes <- OneNode
    Threads <- TwoThreads
    Txns <- TwoTxns
    AsyncSpace = 2
    None = None
CHECK_DEADLOCK FALSE
INVARIANTS
    GateMeansInProgress
