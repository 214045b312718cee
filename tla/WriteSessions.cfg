SPECIFICATION FairSpec
CONSTANTS
    c1 = c1
    c2 = c2
    f1 = f1
    nobody = nobody
    NoClient = nobody
    Client = {c1, c2}
    Follower = {f1}
    Library = {"main", "papers"}
    Kind = {"remove"}
    Cause = {"rerank"}
    Capacity = 2
    MaxPlans = 2
    MaxRequests = 3
INVARIANTS
    SessionsAreExclusive
    SubscribersKnow
PROPERTIES
    PlansAreKept
    SessionsEnd
CHECK_DEADLOCK FALSE
