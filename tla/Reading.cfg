SPECIFICATION ReadSpec
CONSTANTS
  MaxConsoleBytes = 6
  DefaultLines = 2
  ReadLimit = 12
  TextLimit = 8
  Depth = 3
  Logs <- MCLogs
  TailValues <- MCTailValues
  StatusCodes = {404, 409, 412, 422}
  Bodies <- MCBodies
INVARIANTS TailOfKept EveryFieldNamed RunesKept
CHECK_DEADLOCK FALSE
