SPECIFICATION Spec
CONSTANTS
    Tabs = {t1}
    Conns = {c1}
    Batches = {b1, b2}
    Applies = {a1, a2}
    Size = 2
    None = None
    Reader = Reader
    Allowed <- ReadMeanwhile
SYMMETRY Symmetry
CHECK_DEADLOCK FALSE
INVARIANTS
    Atomic
