SPECIFICATION RSpec
CONSTANTS
  NumPrinters = 2
  Groups = {10}
  Members <- MCMembers
  Rotating = {}
  Jobs = {1, 2}
  JobDest <- MCJobDest
  JobPriority <- MCPriority
  JobSeq <- MCSeq
  JobMedia <- MCNoMedia
  MediaIds = {}
  Bins <- MCNoBins
  AutoSelect = {}
  MaxActive = 1
  QueueMax = 2
  TickInterval = 1
  RetryMultiplier = 1
  MaxDelay = 1
  EngagedRetry = 1
  Ops = {"start", "stop", "cancel"}
  Arrivals <- MCWaiting
  ExitsSeen = {"printed"}
  ForkFailures <- MCNoForkFails
  MaxRetry = 0
  MaxSkew = 2
  MaxCrashes = 1
  MaxReloads = 1
INVARIANTS
  RTypeOK
  JobsSurvive
  PrintedOnce
  StopSurvives
  HandsMatch
  ShortfallBounded
  RestartsWork
  QueueOrder
