\* Two processes, one rotation, one 401, one fault.
SPECIFICATION FairSpec
CONSTANTS
    Proc = {p1, p2}
    MaxGen = 2
    MaxSaves = 0
    MaxStamps = 1
    MaxFaults = 1
PROPERTIES
    RefreshEnds
CHECK_DEADLOCK FALSE
