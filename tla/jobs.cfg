SPECIFICATION Spec
CONSTANTS
  NumPrinters = 2
  Groups = {}
  Members <- MCNoMembers
  Rotating = {}
  Jobs = {1, 2}
  JobDest <- MCOnePrinter
  JobPriority <- MCPriority
  JobSeq <- MCSeq
  JobMedia <- MCNoMedia
  MediaIds = {}
  Bins <- MCNoBins
  AutoSelect = {}
  MaxActive = 2
  QueueMax = 2
  TickInterval = 1
  RetryMultiplier = 1
  MaxDelay = 1
  EngagedRetry = 1
  Ops = {"hold", "release", "cancel", "move", "moveall", "pause", "resume"}
  Arrivals <- MCWaitingOrReceiving
  ExitsSeen = {"printed", "signal"}
  ForkFailures <- MCNoForkFails
  MaxRetry = 0
  MaxSkew = 1
INVARIANTS
  DriverMatchesStatus
  ExclusivePrinting
  ReceivedFirst
CHECK_DEADLOCK FALSE
