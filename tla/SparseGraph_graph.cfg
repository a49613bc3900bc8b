SPECIFICATION Spec
CONSTANTS
  MaxNodes = 2
  MaxArcs = 2
  MaxPoints = 3
  MaxItems = 6
  LongBits = 32
  Careful = {"arcs", "points"}
INVARIANTS
  ListsAreSound
  CallsActOnTheMap
CHECK_DEADLOCK FALSE
