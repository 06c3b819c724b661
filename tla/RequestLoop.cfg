\* Two requests over two accounts and a third that may come, two faults, and one
\* write of another process or one rate limit that ends.
SPECIFICATION Spec
CONSTANTS
    a1 = a1
    a2 = a2
    a3 = a3
    Account = {a1, a2, a3}
    Id = {a1, a2, a3}
    Person = {a1, a2, a3}
    NoAccount = NoAccount
    NoFile = NoFile
    FirstRows <- Two
    FirstTokens = {a2}
    UploadedAt = 2
    Request = {r1, r2}
    Answers <- Representative
    Strategies = {"sticky", "round-robin", "hybrid"}
    MaxRetries = 2
    MaxBetas = 2
    MaxEvents = 1
    MaxFaults = 2
    MaxScore = 2
    InitialScore = 2
    SuccessReward = 1
    RateLimitPenalty = 2
    FailurePenalty = 1
    MinUsable = 1
    MaxTokens = 1
    InitialTokens = 1
INVARIANTS
    AccountsTriedOnce
    TrackersFollowAccounts
    PenaltiesAreEarned
PROPERTIES
    GivesUpForReason
    FilePinFollowsOwner
    LongContextRetryDropsNext
    RequestAdvances
SYMMETRY Requests
CHECK_DEADLOCK FALSE
