SPECIFICATION Spec
CONSTANTS
    Null = Null
    Threads = {t1, t2}
    Commands = {command}
    Ids = {a, b}
    Kept = 1
    MaxCalls = 3
    MaxTroubles = 1
    Clients = {c1, c2}
    MaxWrites = 4
    Mailboxes = {m1, m2}
    Apps = {x, y}
    Flows = {f1, f2}
    Editors = {e1}
    Checks = {k1, k2}
    MaxGiven = 3
    MaxEdits = 2
    MaxDay = 2
    MaxSalts = 3
    MaxSetbacks = 1
    Requests = {r1, r2}
    Names = {admin, upn}
    FirstName = admin
    DirectoryNames = {upn}
    MaxAsked = 3
    Processes = {1, 2, 3}
    MaxFailures = 2
    Logs <- PageLogs
    Matching <- PageMatching
    Precision = 2
    FirstQuery = "all"
    PageSize = 1
    MaxItems = 2
    MaxLive = 2
    ChannelSize = 2
    BatchSize = 2
    MaxSegments = 1
    MaxActs = 3
    Paths = {home, shop}
    Entry = home
    MaxMoves = 3
    MaxWaiting = 3
    Folders = {h1, h2}
    Lots = {l1, l2}
    Delay = 1
    MaxFiles = 3
    MaxEnds = 1
INVARIANTS
    TypeOK
    ChangesKept
    CopiesTrusted
    TokenOfAccount
    OneSaltPerDay
    AnAdminRemains
    OneAccountPerName
    EachEndReportedOnce
    ListFollowsQuery
    PagesCountedOnce
    ArchiveComplete
VIEW ActivePart
CHECK_DEADLOCK FALSE
