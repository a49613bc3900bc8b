SPECIFICATION Spec
CONSTANTS
  QSize = 3
  MaxPieces = 6
  Concurrent = TRUE
  SweepAnyTime = TRUE
INVARIANTS
  ListLinked
PROPERTIES
  ImplementsQueue
  UndisturbedPass
