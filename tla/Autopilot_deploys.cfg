SPECIFICATION FairSpec
CONSTANTS
    Alerts = {a1}
    Commits = {c1, c2}
    None = None
    KeepDeploys = 1
    Lasting = {}
    MaxInbox = 1
    MaxRuns = 2
    MaxCrashes = 1
INVARIANTS
    TypeOK
    HistoryIsOfRunningImage
PROPERTIES
    NoDoubleCount
    DeployEnds
CHECK_DEADLOCK FALSE
