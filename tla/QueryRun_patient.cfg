SPECIFICATION Spec
CONSTANTS
    Tabs = {t1, t2}
    Runs = {r1, r2}
    Loads = {l1, l2}
    None = None
    MaxPages = 3
    Allowed <- Patient
CHECK_DEADLOCK FALSE
INVARIANTS
    TypeOK
    NoOrphan
    HasMoreHonest
    DisplayMatches
    OneFetch
    RowsInOrder
PROPERTIES
    DisconnectReleases
    StopWorks

