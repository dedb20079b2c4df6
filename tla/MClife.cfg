SPECIFICATION FairSpec
CONSTANTS
  MAX_CHILD = 2
  Watches = {1, 2}
INVARIANTS
  TypeOK
  ChildrenCounted
  StopLeavesNothing
  SameQueues
  CleanQueues
PROPERTIES
  StopEndsWatch
CHECK_DEADLOCK FALSE
