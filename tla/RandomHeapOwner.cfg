SPECIFICATION FairSpec
CONSTANTS
  Threads = {t1}
  MinObjects = 2
  MaxMiniHeaps = 3
  Numerator = 8
  Denominator = 7
  MaxLive = 6
  DoubleFrees = TRUE
INVARIANTS LiveIsFindable
 
