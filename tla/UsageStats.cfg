\* Two processes with two saves each, three requests, two failures or commands.
SPECIFICATION StatsSpec
CONSTANTS
    Proc = {p1, p2}
    Slot = {s1, s2}
    MaxRecords = 3
    MaxSaves = 1
    MaxFailures = 2
SYMMETRY Symmetry
INVARIANTS
    NothingCountedTwice
    UsageLostOnlyWithCause
CHECK_DEADLOCK FALSE
