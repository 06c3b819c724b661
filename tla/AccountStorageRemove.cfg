\* No OpenCode process at all: one remove command and the file.
SPECIFICATION Spec
CONSTANTS
    Id = {a, b, c, d}
    Person = {a, b}
    a = a
    b = b
    c = c
    d = d
    NoFile = NoFile
    Plugin = {}
    Command = {cmd}
    InitialIds <- TwoRows
    AccountOf <- AllDifferent
    Logins = {}
    MaxChanges = 1
PROPERTIES
    RemoveRemoves
CHECK_DEADLOCK FALSE
