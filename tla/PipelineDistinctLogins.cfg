CONSTANTS
    c1 = c1
    c2 = c2
    alice = alice
    bob = bob
    changes = changes
    Calls = {c1, c2}
    Logins = {alice, bob}
    Changes = changes
    LoginOf <- DistinctLogins
    OtherRuns <- Strangers
    Codes <- ScheduleCodes
    PageSize = 2
    Attempts = 2
    MaxTries = 2
    MaxRuns = 3
SPECIFICATION Spec
CHECK_DEADLOCK FALSE
INVARIANTS ConfirmedIsOwn ErrorMeansUnscheduled NoDoubleRun
PROPERTIES NoVisibleRunMissed KeepsPromise
