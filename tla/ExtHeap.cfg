CONSTANTS
  NumberOfClasses = 2
  PartitionSize = 4
  Sites = {1, 2}
  Padding <- MCPadding
  Extension <- MCExtension
  StaleCounts = {0, 2}
  Environments <- MCEnvironments
  PQUEUE_SIZE = 2
  Sizes = {1, 2}
  LastPage = 4
  PagesPerIndex = 2
  MaxAllocs = 3
  MaxErrors = 1
  MaxDoubleFrees = 1
  NULL = NULL
SPECIFICATION Spec
INVARIANTS  LiveIntact NoFalseAlarm DeferredKept
CHECK_DEADLOCK FALSE
