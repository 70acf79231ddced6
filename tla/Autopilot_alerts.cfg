SPECIFICATION FairSpec
CONSTANTS
    Alerts = {a1, a2}
    Commits = {c1}
    None = None
    KeepDeploys = 2
    Lasting = {a1}
    MaxInbox = 1
    MaxRuns = 0
    MaxCrashes = 1
PROPERTIES
    NotifiedMeansAttempted
    FiringIsAttempted
    RecoveryIsRecorded
CHECK_DEADLOCK FALSE
