SPECIFICATION Spec
CONSTANTS
    Total = 3
    Recent = 1
    Editors = {e1, e2}
    None = None
    MidChapterRewrites = FALSE
    MaxTexts = 5
INVARIANTS
    TypeOK
    MemoriesFollowTheText
    StateIsOfTheBook
    ExecutionsFollowTheText
PROPERTIES
    ContextIsCurrent
    EditsReplaceWhatTheyRead
CHECK_DEADLOCK FALSE
