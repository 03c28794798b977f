SPECIFICATION Spec
CONSTANTS
  p1 = p1
  p2 = p2
  g1 = g1
  g2 = g2
  full = full
  part = part
  other = other
  bad = bad
  inning = inning
  outs = outs
  Partitions = {p1}
  Games = {g1}
  Msgs = {full, part}
  Unreadable = {}
  Fields = {inning, outs}
  Values = {0, 1, 2}
  Zero = 0
  Unset = Unset
  Home <- MCOneHome
  GameOf <- MCOneGame
  Carries <- MCCarries
  MaxRecords = 2
  MaxLog = 2
  MaxCrashes = 1
  MaxRebalances = 1
  MaxLosses = 0
INVARIANT HotStateCurrent
