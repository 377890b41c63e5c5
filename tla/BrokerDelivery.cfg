SPECIFICATION FairSpec
CONSTANTS
  Entities = {e1, e2, e3}
  Strangers = {s1}
  MaxRepeats = 2
  Workers = {w1, w2}
  PanicWorkers = {w1, w2}
  Capacity = 1
  BatchSizes = {1, 3}
  MaxRetries = 2
INVARIANTS
  EveryEntityCounted
  NeverOverReports
  NothingDeliveredFails
  DeliveredOnce
PROPERTY
  DeliveryTerminates
