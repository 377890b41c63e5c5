SPECIFICATION FairSpec
CONSTANTS
  Urls = {u1, u2}
  Locals = {f1}
  Types = {t1, t2}
  NumLanes = 2
  Settings <- SmallSettings
  u1 = u1
  u2 = u2
  f1 = f1
  t1 = t1
  t2 = t2
  NoSource = NoSource
  NoPath = NoPath
  NoFile = NoFile
  Torn = Torn
  MaxAttempts = 3
  MaxBackoff = 4
  Asked = {0, 3}
INVARIANTS
  UncontestedSchemaIsItsSource
  HandedOverIsWhole
  StopEndsRetries
PROPERTY
  DownloadsEnd
