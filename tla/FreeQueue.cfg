SPECIFICATION FairSpec
CONSTANTS
  Producers = {p1, p2}
  Ptr = {o1, o2}
  NULL = NULL
  Capacity = 2
  SizeMod = 16
  MaxPush = 4
INVARIANTS IInv FreedOnceInOrder
PROPERTIES NoLostSlot RefinesPendingFrees EveryFreePerformed
