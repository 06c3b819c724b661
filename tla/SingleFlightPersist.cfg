\* Two requests, the idle refresh, one rotation, a sync or a reload of the manager;
\* nothing fails.
SPECIFICATION Spec
CONSTANTS
    Request = {r1, r2}
    Idle = Idle
    Slot = {s1, s2}
    NoFlight = NoFlight
    MaxManagers = 2
    MaxGen = 2
    MaxEvents = 0
SYMMETRY Requests
PROPERTIES
    PersistedBeforeRelease
CHECK_DEADLOCK FALSE
