SPECIFICATION Spec
CONSTANTS
    MaxTotal = 5
    Requests <- MCRequests
INVARIANTS
    TypeOK
    NothingLost
    InOrder
    HasMoreExact
PROPERTIES
    PageWellSized
    PromiseKept
    FetchEnds
    ImplementsPagedResult
