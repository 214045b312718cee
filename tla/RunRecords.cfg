SPECIFICATION FairSpec
CONSTANTS
    r1 = r1
    r2 = r2
    Run = {r1, r2}
    Overlap = FALSE
    MaxStarts = 2
    MaxUpsets = 2
INVARIANTS
    LiveRunsAreLeftAlone
    UnclosedRunsAreProvable
PROPERTIES
    OutcomesStand
    DeadRunsAreClosed
CHECK_DEADLOCK FALSE
