SPECIFICATION Spec
CONSTANTS
    Namespaces = {n1, n2}
    Readers = {r1, r2}
    Indexers = {i1}
    None = None
    MaxLoads = 3
    MaxRefreshes = 2
    Allowed <- Sequential
SYMMETRY Interchangeable
CHECK_DEADLOCK FALSE
INVARIANTS
    TypeOK
    FailureForgotten
    FreshAfterInvalidate
    IndexHonest
