SPECIFICATION Spec
CONSTANTS
    ScrapeEvery = 3
    EvalEvery = 3
    For <- MCFor
    AlertTimeout <- MCAlertTimeout
    Latest <- MCLatest
    InjectTicks = 2
    Settle = 4
INVARIANT TypeOK
PROPERTIES
    AlertVerdictIsRight
    SilentMeansNoPage
    FaultIsRemoved
