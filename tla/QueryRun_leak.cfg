SPECIFICATION Spec
CONSTANTS
    Tabs = {t1, t2}
    Runs = {r1, r2}
    Loads = {l1}
    None = None
    MaxPages = 2
    Allowed <- CloseWhileBusy
SYMMETRY Symmetry
CHECK_DEADLOCK FALSE
INVARIANTS
    NoOrphan
