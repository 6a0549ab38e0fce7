SPECIFICATION Spec
CONSTANTS
    Null = Null
    Day = 4
    Hours <- ThreePlans
    Interval = 2
    FailuresBeforeDown = 2
    MaxActs = 2
    Profiles = {p1, p2}
    Instances = {i1, i2}
    MaxMishaps = 1
    Administrators = {ann}
    Restricted = {bob}
    Panels = {p, q, r}
    FirstPanels = {p, q}
    PrivatePanels = {p}
    Saves = {1, 2}
    MaxChanges = 1
    LowerCase <- Lowered
    FoldCase <- Folded
    Globs <- Stars
    LiveGlobs <- LiveStars
    Hash <- Hashes
    Bits = 16
    SearchTokens <- SomeTokens
    MaxTokens = 2
    AllSettings <- SomeSettings
    LogRows <- SomeLogs
    Multiline <- TwoLines
INVARIANTS
    OnlyAtItsHours
    OneInstanceEach
    PrunedHoldsNoMatch
    LiveAgreesWithSearch
PROPERTIES
    GoesOn
    RequestEnds
    HiddenPanelsKept
CHECK_DEADLOCK FALSE
