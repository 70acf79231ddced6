SPECIFICATION Spec
CONSTANTS
    Tags = {t1, t2}
    Local = Local
    NoImage = NoImage
    Blank = Blank
    NoFile = NoFile
    Faults = {"kill", "reboot", "crash"}
SYMMETRY Symmetry
INVARIANTS
    TypeOK
    RollbackTargetWasHealthy
    RunningIsWhatEnvNames
    RollbackNeedsNoPull
PROPERTIES
    SuccessMeansServing
    AutomaticRollbackUndoes
