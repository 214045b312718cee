SPECIFICATION Spec
CONSTANTS
    lib1 = lib1
    lib2 = lib2
    c1 = c1
    c2 = c2
    unnamed = unnamed
    Unnamed = unnamed
    PinTarget = lib1
    Client = {c1}
    Library <- TwoLibraries
    StartPlans <- RegistryPlans
    InitialJobs <- LegacyRows
    SubmitPriorities <- OnePriority
    MaxJobs = 2
    MaxRequests = 3
    MaxRestarts = 1
    SaveFailures = TRUE
    ProcessFailures = FALSE
INVARIANTS
    RunningRowIsTheWorkers
    RowsConsistent
    NoStrandedRows
    OnlyWorkerChangesAreUnsaved
    PauseIsOnDisk
PROPERTIES
    NoPickupWhilePaused
    KeepsTheLedger
CHECK_DEADLOCK FALSE
