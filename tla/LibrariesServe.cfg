SPECIFICATION Spec
CONSTANTS
    a = a
    b = b
    c = c
    d = d
    none = none
    r1 = r1
    r2 = r2
    r3 = r3
    c1 = c1
    c2 = c2
    nobody = nobody
    op = op
    Name = {a, b, c, d}
    NoName = none
    NoClient = nobody
    Operator = {op}
    Client = {c1, c2}
    InitialEntries = {a, b, c}
    InitialDefault = {a, none}
    Primaries = {a, c}
    OfflineVerbs <- Editing
    MaySkip = TRUE
    MaxRequests = 3
    MaxOffline = 1
    MaxStarts = 2
    Root <- AliasRoots
    Reranker <- SameStage
    Lockable <- AllRoots
    Requests <- Everything
INVARIANTS
    RegistryStands
    OneNamePerRoot
SYMMETRY ClientSymmetry
CHECK_DEADLOCK FALSE
