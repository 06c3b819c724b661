\* Every live holder is quick; one of the processes crashes and leaves its file.
SPECIFICATION Spec
CONSTANTS
    Proc = {p1, p2, p3}
    Inode = {i1, i2}
    NoFile = NoFile
    NoInode = NoInode
    SlowHolders = FALSE
    MaxAcquires = 3
    MaxFaults = 1
SYMMETRY Processes
PROPERTIES
    ReaperSparesFreshLocks
CHECK_DEADLOCK FALSE
