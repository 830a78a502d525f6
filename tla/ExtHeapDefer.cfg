CONSTANTS
  NumberOfClasses = 2
  PartitionSize = 4
  Sites = {1, 2}
  Padding <- MCPadding
  Extension <- MCExtension
  StaleCounts = {0}
  Environments <- MCEnvironments
  PQUEUE_SIZE = 2
  Sizes = {1, 2}
  LastPage = 5
  PagesPerIndex = 2
  MaxAllocs = 3
  MaxErrors = 0
  MaxDoubleFrees = 0
  NULL = NULL
SPECIFICATION Spec
PROPERTIES DeferredFreesOnTime
CHECK_DEADLOCK FALSE
