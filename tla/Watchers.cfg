SPECIFICATION FairSpec
CONSTANTS
    Calls <- MCCalls
    EventName <- MCEventName
    ByTerraform = {"byTerraform"}
    Unseen = {"toIam"}
    RulePattern = {"DeleteTable", "CreateRole"}
    WatchedEvents = {"DeleteTable", "CreateRole"}
    Copies = 2
    Attempts = 3
    Checks = 2
    CheckTicks = 1
    Pause = 4
    SlackTicks = 2
    Limit = 12
INVARIANT TypeOK
PROPERTIES
    ReportedAtLeastOnce
    ErrorsMeanOutage
CHECK_DEADLOCK FALSE
