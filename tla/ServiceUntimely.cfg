SPECIFICATION Spec
CONSTANTS
    r1 = r1
    r2 = r2
    r3 = r3
    c1 = c1
    c2 = c2
    None = None
    Free = Free
    Applied = Applied
    Requests <- MCRequests
    Commands <- MCCommands
    CommandOf <- MCCommandOf
    KindOf <- RewriteTwinsStream
    PreparationIsTimely = FALSE
    CancelIsTimely = FALSE
    LeaseOutlivesWork = TRUE
    MaxCrashes = 1
INVARIANTS
    TwinExclusion
    NoRepeat
CHECK_DEADLOCK FALSE
