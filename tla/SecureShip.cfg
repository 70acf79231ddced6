SPECIFICATION FairSpec
CONSTANTS
    Ships = {s1}
    Fields = {"status", "cargo"}
    Values = {v1, v2}
    Keep = Keep
    NoShip = NoShip
    r1 = r1
    r2 = r2
    v1 = v1
    v2 = v2
    Requests = {r1, r2}
    MayDo <- TwoClients
    Created <- MCCreated
    Updates <- MCUpdates
    Storages = {"dynamodb", "local"}
    Sample <- SameSample
    MaxScanPages = 2
    MaxAttempts = 1
    Probers = {r1, r2}
    TTL = 2
    LoadTicks = 4
INVARIANTS
    TypeOK
    ReadyIsRecent
PROPERTIES
    AnswersAreTrue
    LoneWritesAreExact
    EveryRequestAnswered
