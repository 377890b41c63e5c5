SPECIFICATION FairSpec
CONSTANTS
  Settings <- SmallSettings
  MaxRepeat = 2
  MaxAttempts = 2
  RunBound = 3
INVARIANTS
  ExitTellsFailure
  ShutdownStopsCycles
  ExpiryStopsRuns
PROPERTIES
  AbortIsLast
  ShutdownTerminates
  ExpiryTerminates
