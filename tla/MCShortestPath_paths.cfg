SPECIFICATION Spec
CONSTANTS
  N = 4
  Arcs <- MCArcs
  From <- MCFrom
  To <- MCTo
  Calls <- MCCalls
  Epsilon = 1
  Potentials <- MCPotentials
INVARIANTS
  ResultIsExact
  NoLabelIsTooShort
  SettledIsFinal
PROPERTY
  SearchEnds
CHECK_DEADLOCK FALSE
