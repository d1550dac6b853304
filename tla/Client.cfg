SPECIFICATION Spec
CONSTANTS
    Ids = {1, 2, 3}
    Old = {1, 2}
    Limit = 1
    MaxClock = 3
    MaxGen = 3
    MaxInputs = 6
INVARIANTS
    TypeOK
    PagesTile
    MicUnderControl
PROPERTY
    DraftClearedOnlyIfSent
CHECK_DEADLOCK FALSE
