CONSTANTS
    r1 = r1
    r2 = r2
    Requests = {r1, r2}
    Sources <- MCSources
SPECIFICATION Spec
CHECK_DEADLOCK FALSE
INVARIANTS ZeroMeansGraceful TimeToFinish Precedence PlainOnlyIfMeant
PROPERTIES Stops
