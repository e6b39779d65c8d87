SPECIFICATION Spec
CONSTANTS
    Sizes = {2, 4}
    Averages = {5}
    MinWords = 3
    MaxWords = 7
    MaxVolume = 3
    LockWindow = 1
    Weights = {1, 3}
    MaxHeavy = 1
    Arcs = {a}
    Hooks = {h}
    MaxPlotted = 2
    MaxReferring = 2
    MaxVersion = 3
INVARIANTS
    TypeOK
    AllocationIsExact
    LockIsKept
    
PROPERTIES
    WordsStable
