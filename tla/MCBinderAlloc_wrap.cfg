SPECIFICATION Spec
CONSTANTS
    Word = 2
    Limit = 64
    PageSize = 4
    NPages = 3
    Hdr = 2
    Requests <- NoRequests
    AsyncRequests <- AllRequests
CHECK_DEADLOCK FALSE
INVARIANTS
    AsyncWithinHalf
