SPECIFICATION Spec
CONSTANTS
    Tabs = {t1}
    Conns = {c1, c2}
    Batches = {b1}
    Applies = {a1}
    Size = 1
    None = None
    Reader = Reader
    Allowed <- EditElsewhere
SYMMETRY Symmetry
CHECK_DEADLOCK FALSE
INVARIANTS
    RightConnection
