SPECIFICATION Spec
CONSTANTS
  EntityCount = 3
  TypeOf <- MCTypeOf
  HandOff = 2
  BatchSize = 2
  MaxAttempts = 2
  Destinations = {"File"}
  Framings = {"Array"}
INVARIANT RetryRecreatesFiles
