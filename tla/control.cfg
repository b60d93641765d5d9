SPECIFICATION Spec
CONSTANTS
  NumPrinters = 2
  Groups = {10}
  Members <- MCMembers
  Rotating = {10}
  Jobs = {1, 2}
  JobDest <- MCPrinterAndGroup
  JobPriority <- MCPriority
  JobSeq <- MCSeq
  JobMedia <- MCNoMedia
  MediaIds = {}
  Bins <- MCNoBins
  AutoSelect = {}
  MaxActive = 1
  QueueMax = 2
  TickInterval = 1
  RetryMultiplier = 1
  MaxDelay = 1
  EngagedRetry = 1
  Ops = {"start", "stop", "wstop", "halt", "cancel"}
  Arrivals <- MCWaiting
  ExitsSeen = {"printed", "incapable", "starved", "signal", "prnerr", "noretry"}
  ForkFailures <- MCForkFails
  MaxRetry = 1
  MaxSkew = 1
INVARIANTS
  TypeOK
  ActiveCount
  StarvingCovered
  CancelFlagBelongs
  NothingLost
  WaiterWillHear
  NoFatal
