SPECIFICATION Spec
CONSTANTS
    Total = 3
    None = None
    p1 = p1
    Pollers <- NoPoller
    StartIsInformed = TRUE
    RestartIsClean = FALSE
    Operations = {"edit", "rewrite", "delete"}
INVARIANTS
    InStep
PROPERTIES
    EditsSurvive
    RewindIsConfirmed
