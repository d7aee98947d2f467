SPECIFICATION GpuSpec
CONSTANTS
  Lines <- FewLines
  Time <- Times
  WRAP = 16
  ResetArea <- After
  Areas <- SomeAreas
  Displays <- AllDisplays
  MaxGp1Stores = 4
  WIDTH = 8
  HEIGHT = 4
  TEXEL = 2
  COORD = 8
  FILL = 2
  Mixed = Mixed
  Colors = {0, 1}
  FirstVram <- Pictures
  Repertoire <- Guests_
  MaxDraws <- Draws
  MaxWords = 3
CHECK_DEADLOCK FALSE
INVARIANT DrawnIsTheShape
INVARIANT TexturedAsStored
INVARIANT ImageInPlace
PROPERTY VBlankKeepsComing
