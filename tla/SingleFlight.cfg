\* Two requests and the idle refresh, one reload, two rotations, and one fault or
\* unrelated save.
SPECIFICATION FairSpec
CONSTANTS
    Request = {r1, r2}
    Idle = Idle
    Slot = {s1, s2}
    NoFlight = NoFlight
    MaxManagers = 2
    MaxGen = 3
    MaxEvents = 1
INVARIANTS
    OneRefreshAtATime
    WaitersHaveFlight
    SharedRefreshIsCurrent
PROPERTIES
    DisabledOnlyWhenTokenLost
    CallersAnswered
CHECK_DEADLOCK FALSE
