SPECIFICATION FairSpec
CONSTANTS
  p1 = p1
  p2 = p2
  d0 = d0
  d1 = d1
  Processes = {p1, p2}
  Values = {d0, d1}
  Default = d0
  Editors = {p1}
  MaxSaves = 2
  MaxDisturbances = 1
INVARIANTS
  OneContentPerVersion
PROPERTIES
  UpdateArrives
  NoWayBackBeforeFlush
CHECK_DEADLOCK FALSE
