SPECIFICATION FairSpec
CONSTANTS
    p1 = p1
    p2 = p2
    Inline = Inline
    Plan <- TwoPlans
    MaxRuns = 3
INVARIANTS NoOrphanLog PointerIsNewest
PROPERTIES InterruptedSettles
CHECK_DEADLOCK FALSE
