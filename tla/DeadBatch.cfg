SPECIFICATION Spec
CONSTANTS
    Total = 2
    LockWindow = 0
    MaxRevisions = 1
    MaxRestarts = 1
    MaxPlanVersion = 2
    MaxWindowVersion = 2
    MidChapterRestarts = TRUE
INVARIANTS
    BatchIsResumable
CHECK_DEADLOCK FALSE
