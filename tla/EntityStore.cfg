SPECIFICATION Spec
CONSTANTS
  Fragments <- MCFragments
  Workloads <- MCWorkloads
  Content <- MCContent
  Ids = {1, 2}
  Mappings = {1, 2, 3}
  TemporalMappings = {2}
  SyntheticMappings = {3}
  Reads <- MCReads
  EntityTypeOf <- MCTypes
  BatchSize = 3
  Kinds = {"DashMap", "Redb"}
  Modes = {"latest", "series"}
INVARIANTS
  NoRecordLost
  SlotIsFaithful
  ReportIsOrderFree
  EmittedIsComplete
  DiscardsReportedOnce
