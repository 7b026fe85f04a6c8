SPECIFICATION Spec
CONSTANTS
    T1 = T1
    T2 = T2
    Id = Id
    Name = Name
    Tabs <- MCTabs
    Columns <- MCColumns
    KeyColumns <- MCKey
    Result <- MCResult
    PageSize = 2
    Typed <- MCTyped
    Empty = Empty
    Exact = 4
    MaxInserts = 1
    NoTab = NoTab
    Conflict = Conflict
CHECK_DEADLOCK FALSE
INVARIANT
    PreviewAnswers
