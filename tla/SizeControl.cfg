SPECIFICATION ControlSpec
CONSTANTS
  Workers = {1, 2}
  Payloads = {11, 20}
  Sizes = {3}
  Latencies = {1, 3}
  MinBytes = 10
  MaxBytes = 12
  InitialBytes = 11
  MinBatch = 3
  MaxBatch = 6
  InitialBatch = 4
  FastMs = 2
  SlowMs = 2
  GrowThreshold = 1
  ShrinkThreshold = 2
INVARIANTS
  AveragesAreObserved
PROPERTIES
  CeilingIsARejection
  OverloadShrinks
