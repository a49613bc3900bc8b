SPECIFICATION Spec
CONSTANTS
  Items = {1, 2}
  MaxLow = 3
  Few = {}
  Keys = {1, 2}
  InfFloat = 3
  NoItem = NoItem
  Unset = Unset
  Methods = {2}
  Careful = FALSE
INVARIANTS
  NextIsMinimal
