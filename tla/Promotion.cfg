\* Three scheduled runs and a reviewer, two versions of Claude Code, two releases of
\* the plugin, two reports; of new candidates, reviews, releases, signals and other
\* faults two.
SPECIFICATION Spec
CONSTANTS
    Field <- MCField
    Version = {1, 2}
    Scenario <- MCScenario
    Required <- MCRequired
    Plan <- MCPlan
    OgSends <- MCOgSends
    Releases <- MCReleases
    Extracted <- MCExtracted
    Installed = {1, 2}
    Asked = {2}
    Verifier = {s1, s2, s3}
    Reviewer = {h1}
    NoBetas = NoBetas
    NoFile = NoFile
    Torn = Torn
    Unread = Unread
    MaxReports = 2
    MaxEvents = 2
SYMMETRY Runs
INVARIANTS
    PromotedAsSeen
    PromotionsKept
    WireNeedsVerification
    RunsPaidByRemovals
CHECK_DEADLOCK FALSE
