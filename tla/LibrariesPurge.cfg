SPECIFICATION FairSpec
CONSTANTS
    a = a
    b = b
    c = c
    d = d
    none = none
    r1 = r1
    r2 = r2
    r3 = r3
    c1 = c1
    c2 = c2
    nobody = nobody
    op = op
    Name = {a, b, c}
    NoName = none
    NoClient = nobody
    Operator = {op}
    Client = {c1, c2}
    InitialEntries = {a, b, c}
    InitialDefault = {a}
    Primaries = {a}
    OfflineVerbs <- Purging
    MaySkip = TRUE
    MaxRequests = 3
    MaxOffline = 2
    MaxStarts = 2
    Root <- DistinctRoots
    Reranker <- OtherStage
    Lockable <- AllRoots
    Requests <- Reading
INVARIANTS
    PurgeWorksAlone
    ServedSetAgrees
PROPERTIES
    RootsComeFree
CHECK_DEADLOCK FALSE
