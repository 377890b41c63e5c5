SPECIFICATION Spec
CONSTANTS
  Units = {u1, u2, u3}
  NumStages = 4
  Skipping = {2}
  Validating = {3}
  Folding = {}
  PanicStages = {}
  Capacity = 1
  BatchSize = 2
SYMMETRY UnitSymmetry
INVARIANTS
  TypeOK
  CommitIsComplete
  OkIsDelivered
