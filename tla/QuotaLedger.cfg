SPECIFICATION Spec
CONSTANTS
    Requests = {r1, r2}
    Charges = {a, b, c}
    None = None
    Limits = {0, 1, 2}
    MaxPeriod = 1
    MaxUpdates = 1
PROPERTIES
    ChargesAreAllowed
    RepeatIsFree
