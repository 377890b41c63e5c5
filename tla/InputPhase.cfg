SPECIFICATION FairSpec
CONSTANTS
  Inputs = {i1, i2}
  Capacity = 2
INVARIANTS
  OkIsStored
PROPERTIES
  StoreSettled
  ReturnsAfterLanes
