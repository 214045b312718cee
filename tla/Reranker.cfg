SPECIFICATION FairSpec
CONSTANTS
    p1 = p1
    p2 = p2
    p3 = p3
    nopid = nopid
    Pid = {p1, p2, p3}
    NoPid = nopid
    RERANK_CRASHLOOP_ATTEMPTS = 3
    MaxAttempts = 4
    MaxRuns = 2
INVARIANTS
    ServersAreAccountedFor
    DegradedTracksTheOutage
PROPERTIES
    StrangersAreSpared
    ServerComesBack
    ShutdownEnds
CHECK_DEADLOCK FALSE
