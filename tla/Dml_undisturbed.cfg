SPECIFICATION Spec
CONSTANTS
    Tabs = {t1, t2}
    Conns = {c1, c2}
    Batches = {b1, b2}
    Applies = {a1, a2}
    Size = 2
    None = None
    Reader = Reader
    Allowed <- Undisturbed
SYMMETRY Symmetry
CHECK_DEADLOCK FALSE
INVARIANTS
    TypeOK
    Atomic
    AppliedIsDurable
    FailedIsUndone
    RightConnection
    CleanSession
PROPERTIES
    ImplementsBatchStore
