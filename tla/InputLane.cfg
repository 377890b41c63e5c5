SPECIFICATION FairSpec
CONSTANTS
  Payloads = {p1, p2}
  Formats = {csv, json}
  Capacity = 1
INVARIANT
  LaneNeverJams
PROPERTIES
  KeepsContract
  LaneTerminates
