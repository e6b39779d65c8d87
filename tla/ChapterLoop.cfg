SPECIFICATION FairSpec
CONSTANTS
    Total = 2
    LockWindow = 0
    MaxRevisions = 1
    MaxRestarts = 1
    MaxPlanVersion = 2
    MaxWindowVersion = 2
    MidChapterRestarts = FALSE
INVARIANTS
    TypeOK
    ReviewIsOfTheDraft
    DecidedOnTheDraftInHand
    Informed
    WrittenToAcceptedPlan
    PaidBeforehand
    AcceptedOnce
PROPERTIES
    FulfilmentIsOfTheChapter
    NoSilentReplan
    RunsSettle

CHECK_DEADLOCK FALSE
