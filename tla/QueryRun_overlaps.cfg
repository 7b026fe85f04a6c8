SPECIFICATION Spec
CONSTANTS
    Tabs = {t1, t2}
    Runs = {r1, r2}
    Loads = {l1, l2}
    None = None
    MaxPages = 2
    Allowed <- OneRunAtATime
SYMMETRY Symmetry
CHECK_DEADLOCK FALSE
INVARIANTS
    SameResult
    EditsMatchResult
    StopReaches
    NoDangling
PROPERTIES
    FetchesAlive
