SPECIFICATION FairSpec
CONSTANTS
  g1 = g1
  Games = {g1}
  Pitches <- MCPitches
  NoCursor = NoCursor
  MaxFaults = 2
  MaxCrashes = 1
  MaxLate = 1
INVARIANT TypeOK
INVARIANT CursorCovers
INVARIANT NothingSkipped
INVARIANT CleanRunNoDuplicates
PROPERTY LostOnlyIfUndiscoverable
PROPERTY ShownWhileActive
