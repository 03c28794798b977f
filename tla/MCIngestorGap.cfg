SPECIFICATION FairSpec
CONSTANTS
  g1 = g1
  Games = {g1}
  Pitches <- MCOnePitch
  NoCursor = NoCursor
  MaxFaults = 0
  MaxCrashes = 1
  MaxLate = 0
PROPERTY EveryPitchPublished
