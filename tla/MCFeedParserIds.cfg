SPECIFICATION Spec
CONSTANTS
  NoCursor = NoCursor
  MaxPlays = 1
  MaxEvents = 3
  MaxFlaws = 1
INVARIANT IdsAreDistinct
CHECK_DEADLOCK FALSE
