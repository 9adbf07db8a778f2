CONSTANTS
    MaxRuns = 7
    PageSize = 2
    MaxTries = 2
    Damaged <- AllDamaged
SPECIFICATION Spec
CHECK_DEADLOCK FALSE
INVARIANTS NoGapNoRepeat
PROPERTIES KeepsPromise Ends
