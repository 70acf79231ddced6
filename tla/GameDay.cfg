SPECIFICATION Spec
CONSTANTS
    Scenarios <- MCScenarios
    Services <- MCServices
    Inject <- MCInject
    Restore <- MCRestore
    Override = {"config"}
    Hints = 3
INVARIANTS
    TypeOK
    BrokenIsRecorded
PROPERTY ScoredMeansRestored
