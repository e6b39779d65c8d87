SPECIFICATION Spec
CONSTANTS
    Total = 3
    None = None
    p1 = p1
    Pollers <- NoPoller
    StartIsInformed = TRUE
    RestartIsClean = TRUE
    Operations = {"edit", "rewrite", "delete"}
PROPERTIES
    RewritesSurvive
    ManuscriptSpec
