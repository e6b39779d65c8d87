SPECIFICATION Spec
CONSTANTS
    Total = 2
    None = None
    p1 = p1
    Pollers <- NoPoller
    StartIsInformed = FALSE
    RestartIsClean = TRUE
    Operations = {"edit", "rewrite", "delete"}
INVARIANTS
    ReviewedOnly
