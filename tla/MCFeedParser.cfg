SPECIFICATION FairSpec
CONSTANTS
  NoCursor = NoCursor
  MaxPlays = 2
  MaxEvents = 3
  MaxFlaws = 1
INVARIANT TypeOK
INVARIANT RecordsFollowFeed
INVARIANT SkippedOnlyIfLateOrGuessed
PROPERTY ReadableGetsThrough
CHECK_DEADLOCK FALSE
