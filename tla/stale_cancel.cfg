SPECIFICATION Spec
CONSTANTS
  NumPrinters = 2
  Groups = {10}
  Members <- MCMembers
  Rotating = {}
  Jobs = {1, 2}
  JobDest <- MCPrinterAndGroup
  JobPriority <- MCPriority
  JobSeq <- MCSeq
  JobMedia <- MCNoMedia
  MediaIds = {}
  Bins <- MCNoBins
  AutoSelect = {}
  MaxActive = 2
  QueueMax = 2
  TickInterval = 1
  RetryMultiplier = 1
  MaxDelay = 1
  EngagedRetry = 1
  Ops = {"hold", "cancel"}
  Arrivals <- MCWaiting
  ExitsSeen = {"signal", "incapable"}
  ForkFailures <- MCNoForkFails
  MaxRetry = 0
  MaxSkew = 1
INVARIANTS
  NothingLost
CHECK_DEADLOCK FALSE
