SPECIFICATION Spec
CONSTANTS
  NumPrinters = 2
  Groups = {10}
  Members <- MCMembers
  Rotating = {}
  Jobs = {1, 2}
  JobDest <- MCPrinterAndGroup
  JobPriority <- MCPriority
  JobSeq <- MCSeq
  JobMedia <- MCMedia
  MediaIds = {7, 8}
  Bins <- MCBins
  AutoSelect = {}
  MaxActive = 2
  QueueMax = 2
  TickInterval = 1
  RetryMultiplier = 1
  MaxDelay = 1
  EngagedRetry = 1
  Ops = {"mount", "stop", "start", "release", "pausegroup", "resumegroup"}
  Arrivals <- MCWaitingOrHeld
  ExitsSeen = {"printed", "incapable", "joberr"}
  ForkFailures <- MCNoForkFails
  MaxRetry = 0
  MaxSkew = 1
INVARIANTS
  NotNowFresh
  WorkConserving
  StrandedByAll
