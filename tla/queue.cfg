SPECIFICATION Spec
CONSTANTS
  NumPrinters = 1
  Groups = {10}
  Members <- MCOnlyMember
  Rotating = {}
  Jobs = {1, 2, 3, 4}
  JobDest <- MCPrinterAndGroup4
  JobPriority <- MCPriority4
  JobSeq <- MCSeq4
  JobMedia <- MCNoMedia4
  MediaIds = {}
  Bins <- MCNoBins1
  AutoSelect = {}
  MaxActive = 1
  QueueMax = 3
  TickInterval = 1
  RetryMultiplier = 1
  MaxDelay = 1
  EngagedRetry = 1
  Ops = {"stop", "rush", "last", "accept", "reject", "cancel", "purge"}
  Arrivals <- MCWaitingOrHeld
  ExitsSeen = {"printed"}
  ForkFailures <- MCNoForkFails
  MaxRetry = 0
  MaxSkew = 1
INVARIANTS
  QueueOrder
  JobCounts
  FilesMatchQueue
