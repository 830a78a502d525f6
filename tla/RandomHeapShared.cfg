SPECIFICATION Spec
CONSTANTS
  Threads = {t1, t2}
  MinObjects = 1
  MaxMiniHeaps = 3
  Numerator = 2
  Denominator = 1
  MaxLive = 4
  DoubleFrees = FALSE
SYMMETRY Sym
INVARIANTS CountersAgree NoDoubleAllocation LoadFactor
