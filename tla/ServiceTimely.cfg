SPECIFICATION FairSpec
CONSTANTS
    r1 = r1
    r2 = r2
    r3 = r3
    c1 = c1
    c2 = c2
    None = None
    Free = Free
    Applied = Applied
    Requests <- MCRequests
    Commands <- MCCommands
    CommandOf <- MCCommandOf
    KindOf <- StreamInvokeEdit
    PreparationIsTimely = TRUE
    CancelIsTimely = TRUE
    LeaseOutlivesWork = FALSE
    MaxCrashes = 1
INVARIANTS
    MutualExclusion
    HeldForSomebody
    NoLostGate
    Stoppable
    TruthfulRefusal
PROPERTIES
    GateReopens
    StreamsEnd
    StoreSpec
CHECK_DEADLOCK FALSE
