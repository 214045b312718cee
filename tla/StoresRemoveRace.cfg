SPECIFICATION Spec
CONSTANTS
    b1 = b1
    b2 = b2
    x = x
    y = y
    z = z
    m1 = m1
    m2 = m2
    ContentOf <- Readings
    Size <- TwoChunks
    Book = {b1, b2}
    Content = {x, y, z}
    Model = {m1, m2}
    NoModel = nomodel
    NoContent = nothing
    MaxVersion = 2
    MaxIntakes = 2
    MaxRuns = 3
    MaxRestarts = 1
    Passes = {"ingest", "remove"}
    FaultyPasses = {}
    LostStates = {}
    EnvelopeFaults = {"removed"}
    Overlap = TRUE
    CarefulAdvance = TRUE
INVARIANTS
    RemovedLeavesNothing
SYMMETRY Models
CHECK_DEADLOCK FALSE
