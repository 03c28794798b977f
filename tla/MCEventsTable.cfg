SPECIFICATION Spec
CONSTANTS
  Pitches <- MCPitches
  Builds <- MCBuilds
  Missing = Missing
  None = None
  Null = Null
  MaxTime = 3
  MaxRecords = 2
INVARIANT TypeOK
INVARIANT DisplacedOnlyByFeedTime
INVARIANT ReadersAgree
INVARIANT ReplayKeepsContract
PROPERTY LatestMovesOn
