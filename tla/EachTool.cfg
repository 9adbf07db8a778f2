CONSTANTS
    r1 = r1
    Requests = {r1}
    Users = {"ann"}
    Asked <- Everything
    Flaws = {"blank", "odd", "dots"}
    Codes <- AllCodes
    Toolset = "full"
    LogLevel = "info"
    Panics = TRUE
SPECIFICATION Spec
CHECK_DEADLOCK FALSE
INVARIANTS AuditedFirst SegmentsKept OkMeansDone
INVARIANTS ErrorMeansNotAccepted CallLogged RequestAccounted
PROPERTIES Answered
