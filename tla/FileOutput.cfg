SPECIFICATION Spec
CONSTANTS
  EntityCount = 3
  TypeOf <- MCTypeOf
  HandOff = 2
  BatchSize = 2
  MaxAttempts = 2
  Destinations = {"File", "Atomic"}
  Framings = {"Array", "LineDelimited"}
INVARIANTS
  OkFileIsExact
  WrappedInOrder
PROPERTIES
  OkIsFinal
