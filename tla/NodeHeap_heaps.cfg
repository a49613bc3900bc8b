SPECIFICATION Spec
CONSTANTS
  Items = {1, 2, 3, 4, 5, 6, 7, 8, 9}
  MaxLow = 3
  Few = {1, 2, 3, 4}
  Keys = {1, 2, 3}
  InfFloat = 4
  NoItem = NoItem
  Unset = Unset
  Methods = {0, 1, 2}
  Careful = TRUE
INVARIANTS
  InOrder
PROPERTIES
  ImplementsQueue
