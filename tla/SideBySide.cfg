CONSTANTS
    r1 = r1
    r2 = r2
    Requests = {r1, r2}
    Users = {"ann", "ben"}
    Asked <- Sample
    Flaws = {"blank"}
    Codes <- FewCodes
    Toolset = "actions"
    LogLevel = "info"
    Panics = TRUE
SPECIFICATION Spec
CHECK_DEADLOCK FALSE
INVARIANTS OneIdentity ToolsetKept
