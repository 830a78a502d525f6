SPECIFICATION Spec
CONSTANTS
  NumReplicas = 3
  Elements = 3
  Words = 2
  Locations <- MCLocations
  FreeLocation <- MCFreeLocation
  ContentAt <- MCContentAt
  Lengths = {1, 6}
  HASH_SIZE = 5
  ShiftBits = 2
  SiteModulus = 64
  STACK_DEPTH = 3
  Sure = {}
  SureStatic <- MCSureStatic
  Schedules <- MCSchedules
  MaxObjects = 2
  MaxErrors = 1
  MaxFrees = 1
INVARIANTS NoFalsePatch ErrorsPatched InForce
CHECK_DEADLOCK FALSE
PROPERTIES PatchesGrow
