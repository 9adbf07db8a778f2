CONSTANTS
    c1 = c1
    c2 = c2
    alice = alice
    bob = bob
    changes = changes
    Calls = {c1, c2}
    Logins = {alice, bob}
    Changes = changes
    LoginOf <- SharedLogin
    OtherRuns <- MaterialChange
    Codes <- ScheduleCodes
    PageSize = 2
    Attempts = 2
    MaxTries = 1
    MaxRuns = 2
SPECIFICATION FairSpec
CHECK_DEADLOCK FALSE
PROPERTIES CallReturns
