SPECIFICATION Spec
CONSTANTS
    Total = 2
    None = None
    p1 = p1
    Pollers <- OnePoller
    StartIsInformed = FALSE
    RestartIsClean = FALSE
    Operations = {"edit", "rewrite", "delete"}
INVARIANTS
    RequestIsCurrent
PROPERTIES
    NoBlindStart
