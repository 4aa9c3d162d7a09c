SPECIFICATION Spec
CONSTANTS
    th1 = th1  th2 = th2  n1 = n1  d1 = d1  d2 = d2  c1 = c1
    Threads <- TwoThreads
    Work <- TwoDeaths
    Limits <- OneLimit
    Registering <- Second
    Entering <- First
    Polling <- Second
    Nodes <- OneNode
    Cookies <- OneCookie
    None = None
SYMMETRY Symm
CHECK_DEADLOCK FALSE
INVARIANTS
    DeathsAccounted
    NoDeathMissed
    ToldOnce
    ClearIsAnswered
    SpawnBounded
    NoLostWakeup
    ReturnsWhenTold
