SPECIFICATION DSpec
CONSTANTS
  Orders <- MCOrders
  PipeSize = 1
  MaxFeedback = 2
  MaxPaper = 40
INVARIANTS
  ProgramDelivers
  Blame
  NothingLeft
PROPERTIES
  KeepsContract
  Ends
CHECK_DEADLOCK FALSE
