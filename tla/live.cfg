SPECIFICATION FairSpec
CONSTANTS
  NumPrinters = 2
  Groups = {}
  Members <- MCNoMembers
  Rotating = {}
  Jobs = {1, 2}
  JobDest <- MCOnePerPrinter
  JobPriority <- MCPriority
  JobSeq <- MCSeq
  JobMedia <- MCNoMedia
  MediaIds = {}
  Bins <- MCNoBins
  AutoSelect = {}
  MaxActive = 1
  QueueMax = 2
  TickInterval = 1
  RetryMultiplier = 2
  MaxDelay = 2
  EngagedRetry = 2
  Ops = {"start", "wstop", "cancel"}
  Arrivals <- MCWaiting
  ExitsSeen = {"printed", "engaged", "prnerr"}
  ForkFailures <- MCNoForkFails
  MaxRetry = 1
  MaxSkew = 1
PROPERTIES
  StarvedIsFed
  RetryHappens
  CancelCompletes
  WaiterIsTold
