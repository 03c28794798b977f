SPECIFICATION FairPipelineSpec
CONSTANTS
  g1 = g1
  Games = {g1}
  Pitches <- MCPitches
  NoCursor = NoCursor
  MaxFaults = 1
  MaxCrashes = 1
  MaxLate = 1
  MaxReplays = 1
INVARIANT PipelineTypeOK
INVARIANT DealtInFeedOrder
INVARIANT NoLagNoLoss
PROPERTY ListedIsDealtWith
