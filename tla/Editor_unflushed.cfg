SPECIFICATION Spec
CONSTANTS
    Tabs = {t1, t2}
    Contents = {x}
    Ops = {o1}
    Blank = Blank
    None = None
    Allowed <- OpensUnflushed
CHECK_DEADLOCK FALSE
PROPERTIES
    ClosePrompts
