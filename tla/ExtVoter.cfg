SPECIFICATION Spec
CONSTANTS
  N = 3
  Output <- MCOutput
  MaxFaults = 1
INVARIANTS OutputVouched 
CHECK_DEADLOCK FALSE
 
