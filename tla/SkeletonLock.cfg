SPECIFICATION Spec
CONSTANTS
    Sizes = {2, 3, 4}
    Averages = {5}
    MinWords = 3
    MaxWords = 7
    MaxVolume = 3
    LockWindow = 1
    Weights = {1, 3}
    MaxHeavy = 1
    Arcs = {}
    Hooks = {}
    MaxPlotted = 0
    MaxReferring = 0
    MaxVersion = 3
INVARIANTS
    DetailedWhenEntered
