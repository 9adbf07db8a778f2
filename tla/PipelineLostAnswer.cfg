CONSTANTS
    c1 = c1
    c2 = c2
    alice = alice
    bob = bob
    changes = changes
    Calls = {c1, c2}
    Logins = {alice, bob}
    Changes = changes
    LoginOf <- DistinctLogins
    OtherRuns <- MaterialChange
    Codes <- ScheduleCodes
    PageSize = 2
    Attempts = 1
    MaxTries = 1
    MaxRuns = 2
SPECIFICATION Spec
CHECK_DEADLOCK FALSE
INVARIANTS ErrorsOnlyBeforeScheduling
