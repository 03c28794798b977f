SPECIFICATION Spec
CONSTANTS
  p1 = p1
  p2 = p2
  v1 = v1
  v2 = v2
  bad = bad
  rejected = rejected
  unknown = unknown
  i1 = i1
  i2 = i2
  i3 = i3
  i4 = i4
  Partitions = {p1}
  Msgs = {v1}
  EventIds = {i1}
  Malformed = {}
  Unstorable = {}
  Unnamed = {}
  NoRow = NoRow
  Id <- MCId
  Home <- MCHome
  MaxRetries = 1
  MaxRecords = 1
  MaxLog = 1
  MaxCrashes = 0
  MaxRebalances = 1
PROPERTY ExhaustionPauses
