SPECIFICATION OperationsSpec
CONSTANTS
    Operator = {o1, o2}
    Pid = {p1, p2}
    NoPid = NoPid
    TunnelOption = {"yes", "no"}
    MaxCommands = 2
    MaxEvents = 2
    OverlapCost = 2
    Publish = {g1, g2}
    Branch = {"main", "trunk", "notes"}
    DefaultBranch = "trunk"
    NoCommit = NoCommit
    MaxPublishes = 2
    MaxPushes = 1
    MaxEventsOnGithub = 2
    IssueWrites = 1
    Root = {a, b}
    FirstRoot = a
    Rewriter = {w1, w2}
    MaxRewrites = 3
    MaxSearches = 2
    Backup = {b1, b2}
    RetentionCount = 1
    MaxBackups = 2
    MaxSaves = 2
INVARIANTS
    OperationsTypeOK
    StartedServersAreManaged
    PushesSurvive
    ConfiguredStoreHoldsAll
    LatestIsNewestSnapshot
PROPERTY
    ActiveUnitRecovers
CHECK_DEADLOCK FALSE
