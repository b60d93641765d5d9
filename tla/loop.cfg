SPECIFICATION LSpec
CONSTANTS
  Jobs = {1, 2}
  Dests = {"a", "b"}
  HomeDest = "a"
  Skeletons = {2}
  MaxQuestions = 2
  MaxLaunches = 1
  ResendDone = 1
  ResendFailed = 1
  TickInterval = 1
  Fits = 1
  ForkMayFail = {TRUE, FALSE}
  Movable = {2}
  MaxFifo = 2
  MaxLate = 1
  MaxCount = 2
INVARIANTS
  LTypeOK
  DeathIsKnown
  ReapedInTime
  KnownDeaths
  OneAsker
  OutstandingCovers
PROPERTY TickAsks
CHECK_DEADLOCK FALSE
