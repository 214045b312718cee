SPECIFICATION FairSpec
CONSTANTS
    c1 = c1
    c2 = c2
    nobody = nobody
    Caller = {c1, c2}
    Timed = {c1}
    NoCaller = nobody
    MaxCalls = 3
    MaxEvents = 1
INVARIANTS
    CallsAreMatched
    SubscriptionHolds
PROPERTIES
    CallsEnd
CHECK_DEADLOCK FALSE
