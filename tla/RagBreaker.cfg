SPECIFICATION FairSpec
CONSTANTS
    Threads = {q1, q2, q3}
    FailMax = 2
    ResetTimeout = 2
    MaxAttempts = 2
    RequestTime = 1
    ClientRetries = 1
    ClientWait = 0
    Backoff = 1
    Horizon = 11
    NoThread = NoThread
INVARIANTS
    TypeOK
    CallIsBounded
    OutageIsCutShort
PROPERTIES
    CircuitIsRight
    RecoversOnceGroqIsBack
