SPECIFICATION Spec
CONSTANTS
  Threads = {A, B}
  Slot = {s1, s2}
  Fallback = Fallback
  None = None
  MAX_THREADS = 2
  Capacity = 1
  Batch = 1
  Interval = 2
  MapMayFail = TRUE
  DoubleFrees = FALSE
SYMMETRY Sym
INVARIANTS LiveStaysAllocated   OneKey
CHECK_DEADLOCK FALSE
