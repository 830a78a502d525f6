SPECIFICATION FairSpec
CONSTANTS
  Threads = {A, B}
  Slot = {s1}
  Fallback = Fallback
  None = None
  MAX_THREADS = 2
  Capacity = 1
  Batch = 1
  Interval = 2
  MapMayFail = FALSE
  DoubleFrees = FALSE
PROPERTIES BacklogDrained
CHECK_DEADLOCK FALSE
