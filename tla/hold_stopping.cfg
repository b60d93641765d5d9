SPECIFICATION Spec
CONSTANTS
  NumPrinters = 2
  Groups = {}
  Members <- MCNoMembers
  Rotating = {}
  Jobs = {1, 2}
  JobDest <- MCOnePrinter
  JobPriority <- MCPriority
  JobSeq <- MCSeq
  JobMedia <- MCNoMedia
  MediaIds = {}
  Bins <- MCNoBins
  AutoSelect = {}
  MaxActive = 2
  QueueMax = 2
  TickInterval = 1
  RetryMultiplier = 1
  MaxDelay = 1
  EngagedRetry = 1
  Ops = {"stop", "hold"}
  Arrivals <- MCWaiting
  ExitsSeen = {"printed", "signal"}
  ForkFailures <- MCNoForkFails
  MaxRetry = 0
  MaxSkew = 1
PROPERTIES
  StoppingOnlyStops
