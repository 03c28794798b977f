SPECIFICATION FairSpec
CONSTANTS
  p1 = p1
  p2 = p2
  g1 = g1
  g2 = g2
  full = full
  part = part
  other = other
  bad = bad
  inning = inning
  outs = outs
  Partitions = {p1,p2}
  Games = {g1, g2}
  Msgs = {full, part, other, bad}
  Unreadable = {bad}
  Fields = {inning, outs}
  Values = {0, 1, 2}
  Zero = 0
  Unset = Unset
  Home <- MCHome
  GameOf <- MCGameOf
  Carries <- MCCarries
  MaxRecords = 2
  MaxLog = 2
  MaxCrashes = 1
  MaxRebalances = 1
  MaxLosses = 1
INVARIANT TypeOK
INVARIANT CommittedEnriched
INVARIANT EnrichedInOrder
INVARIANT EnrichedOnceUndisturbed
INVARIANT HotStateFollowsLog
PROPERTY AtLeastOnceConsumer
PROPERTY EventuallyEnriched
