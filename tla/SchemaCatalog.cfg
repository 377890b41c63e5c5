SPECIFICATION FairCatalogSpec
CONSTANTS
  Models = {m1}
  Extras = {x1}
  Shared = {s1}
  Attempts = 2
  Concurrency = 2
  MaxRuns = 3
INVARIANT
  ListedIsOnDisk
PROPERTY
  RunEnds
