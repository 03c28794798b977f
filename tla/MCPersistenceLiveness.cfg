SPECIFICATION FairSpec
CONSTANTS
  p1 = p1
  p2 = p2
  v1 = v1
  v2 = v2
  bad = bad
  rejected = rejected
  unknown = unknown
  i1 = i1
  i2 = i2
  i3 = i3
  i4 = i4
  Partitions = {p1, p2}
  Msgs = {v1, bad, unknown}
  EventIds = {i1, i2, i4}
  Malformed = {bad}
  Unstorable = {}
  Unnamed = {unknown}
  NoRow = NoRow
  Id <- MCId
  Home <- MCHome
  MaxRetries = 1
  MaxRecords = 2
  MaxLog = 2
  MaxCrashes = 1
  MaxRebalances = 1
PROPERTY EventuallyAccounted
PROPERTY CatchesUp
