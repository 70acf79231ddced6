SPECIFICATION Spec
CONSTANTS
    Alerts = {a1}
    Commits = {c1, c2}
    None = None
    KeepDeploys = 2
    Lasting = {}
    MaxInbox = 2
    MaxRuns = 2
    MaxCrashes = 0
INVARIANT
    DashboardCountsDeployments
CHECK_DEADLOCK FALSE
