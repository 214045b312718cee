SPECIFICATION Spec
CONSTANTS
    lib1 = lib1
    lib2 = lib2
    c1 = c1
    c2 = c2
    unnamed = unnamed
    Unnamed = unnamed
    PinTarget = lib1
    Client = {c1}
    Library <- OneLibrary
    StartPlans <- RegistryPlans
    InitialJobs <- NoRows
    SubmitPriorities <- OnePriority
    MaxJobs = 2
    MaxRequests = 3
    MaxRestarts = 1
    SaveFailures = FALSE
    ProcessFailures = FALSE
PROPERTIES
    PendingRowsAreRunOrCancelled
CHECK_DEADLOCK FALSE
