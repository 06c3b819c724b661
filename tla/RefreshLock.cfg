\* Three processes, a live holder may outlast staleMs, one crash or I/O error.
SPECIFICATION FairSpec
CONSTANTS
    Proc = {p1, p2, p3}
    Inode = {i1, i2}
    NoFile = NoFile
    NoInode = NoInode
    SlowHolders = TRUE
    MaxAcquires = 3
    MaxFaults = 1
INVARIANTS
    ExclusiveUntilBroken
    LapsesPaidByBreaks
PROPERTIES
    ImplementsLeaseLock
    WaiterIsServed
CHECK_DEADLOCK FALSE
