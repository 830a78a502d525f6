SPECIFICATION Spec
CONSTANTS
  Threads = {A, B}
  Slot = {s1}
  Fallback = Fallback
  None = None
  MAX_THREADS = 2
  Capacity = 2
  Batch = 1
  Interval = 1
  MapMayFail = FALSE
  DoubleFrees = TRUE
SYMMETRY Sym
PROPERTIES NoAllocationOfPending
CHECK_DEADLOCK FALSE
