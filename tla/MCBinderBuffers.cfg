SPECIFICATION BuffersSpec
CONSTANTS
    Word = 4
    Limit = 128
    PageSize = 12
    NPages = 2
    Hdr = 4
    Requests <- PaddedRequests
    AsyncRequests <- SolidRequests
    Extra = 28
    CtxSize = 4
    FdSize = 2
    Fds <- TheFds
    Lengths <- TheLengths
    Offsets <- TheOffsets
    Nums <- TheNums
    MaxObjs = 4
    MaxOwn = 1
CHECK_DEADLOCK FALSE
INVARIANTS
    AsyncSpaceAddsUp
    PagesFollowBuffers
    Coalesced
    SizeMatchesRequest
    FixupsStay
    FdsAccounted
PROPERTIES
    BufferUndisturbed
