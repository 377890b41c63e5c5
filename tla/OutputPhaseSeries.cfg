SPECIFICATION FairSpec
CONSTANTS
  Units = {u1, u2}
  NumStages = 4
  Skipping = {}
  Validating = {2}
  Folding = {3}
  PanicStages = {1, 2, 3, 4}
  Capacity = 1
  BatchSize = 1
INVARIANTS
  WriteFailureIsReported
  ChainNeverJams
PROPERTY
  PhaseTerminates
