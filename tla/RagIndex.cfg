SPECIFICATION IndexSpec
CONSTANTS
    Chunks = {c1, c2}
    Runbooks = Runbooks
    Seed = Seed
    NoChunk = NoChunk
    Ingesters = {i1, i2}
    Queriers = {q1}
    MaxVectors = 4
SYMMETRY Symmetry
INVARIANTS
    IndexTypeOK
    IndexAgrees
PROPERTY
    AnsweredFromTheNearestChunk
