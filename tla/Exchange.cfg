\* Two or three requests of a conversation, two accounts, one fault.
SPECIFICATION Spec
CONSTANTS
    Stem = {"lookup", "advisor", "tool"}
    NoStem = "none"
    PRESERVED_WIRE_NAMES = {"advisor"}
    NoAccount = NoAccount
    Texts = {"", "billing", "identity", "instructions", "title", "quota", "task", "more", "said", "agent", "project"}
    Account = {"account1", "account2"}
    Settings <- Conversations
    Answers <- MCAnswers
    Profile <- NoManifest
    Candidates <- None
    MaxAttempts = 2
    MaxRetries = 2
    MaxExclusions = 2
    MaxFaults = 1
INVARIANTS
    CallsComeBackByName
    HistoryAsSpoken
    CacheBreakpointsBounded
    BetasCoverBody
    StarvedOnlyByEmptyBlocks
PROPERTIES
    AttemptsDifferOnlyInAccount
    ImplementsResponseStream
CHECK_DEADLOCK FALSE
