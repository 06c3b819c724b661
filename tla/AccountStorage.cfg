\* One OpenCode process and one command at a time; people log in
\* to a third account, once or twice.
SPECIFICATION Spec
CONSTANTS
    Id = {a, b, c, d}
    Person = {a, b, c}
    a = a
    b = b
    c = c
    d = d
    NoFile = NoFile
    Plugin = {p1}
    Command = {cmd}
    InitialIds <- TwoRows
    AccountOf <- AllDifferent
    Logins = {c}
    MaxChanges = 2
INVARIANTS
    NoDuplicateRows
    TokensStayWithAccount
PROPERTIES
    RowsLostOnPurpose
    CollapsedRowsStayOut
    ActiveAccountSurvivesMerge
    SyncLeavesUsableAccount
CHECK_DEADLOCK FALSE
