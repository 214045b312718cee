SPECIFICATION FairSpec
CONSTANTS
    j1 = j1
    j2 = j2
    Job = {j1, j2}
    InitialRows <- Queues
    NoJob = nojob
    Capacity = 2
    Stall = 2
    MaxRequests = 1
INVARIANTS
    ReportsAddUp
    ReportsAreTrue
    EndsAreInTheStream
PROPERTIES
    WaitsEnd
CHECK_DEADLOCK FALSE
