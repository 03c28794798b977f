SPECIFICATION Spec
CONSTANTS
  p1 = p1
  p2 = p2
  v1 = v1
  v2 = v2
  bad = bad
  rejected = rejected
  unknown = unknown
  i1 = i1
  i2 = i2
  i3 = i3
  i4 = i4
  Partitions = {p1}
  Msgs = {v1, bad}
  EventIds = {i1, i2}
  Malformed = {bad}
  Unstorable = {}
  Unnamed = {}
  NoRow = NoRow
  Id <- MCId
  Home <- MCHome
  MaxRetries = 1
  MaxRecords = 2
  MaxLog = 2
  MaxCrashes = 1
  MaxRebalances = 0
INVARIANT ExhaustedStaysUncommitted
