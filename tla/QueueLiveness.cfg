SPECIFICATION FairSpec
CONSTANTS
    lib1 = lib1
    lib2 = lib2
    c1 = c1
    c2 = c2
    unnamed = unnamed
    Unnamed = unnamed
    PinTarget = lib1
    Client = {c1, c2}
    Library <- OneLibrary
    StartPlans <- RegistryPlans
    InitialJobs <- NoRows
    SubmitPriorities <- TwoPriorities
    MaxJobs = 1
    MaxRequests = 4
    MaxRestarts = 1
    SaveFailures = FALSE
    ProcessFailures = TRUE
INVARIANTS
    DegradedMeansPaused
PROPERTIES
    WaitingRowsMove
    WorkerStops
CHECK_DEADLOCK FALSE
