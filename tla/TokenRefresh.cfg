\* Two processes, two rotations, two unrelated saves, one 401, one fault.
SPECIFICATION Spec
CONSTANTS
    Proc = {p1, p2}
    MaxGen = 3
    MaxSaves = 2
    MaxStamps = 1
    MaxFaults = 1
SYMMETRY Processes
CONSTRAINT BeforeAnyCause
INVARIANTS
    RequestCarriesCurrentToken
    DisabledOnlyWithCause
    CurrentTokenSurvives
PROPERTIES
    DiskGoesBackOnlyWithCause
CHECK_DEADLOCK FALSE
