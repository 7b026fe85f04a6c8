SPECIFICATION Spec
CONSTANTS
    Tabs = {t1, t2}
    Contents = {x}
    Ops = {o1, o2}
    Blank = Blank
    None = None
    Allowed <- Careful
CHECK_DEADLOCK FALSE
INVARIANTS
    TypeOK
    TextKept
    CleanIsSaved
PROPERTIES
    ClosePrompts
    EditorComes
