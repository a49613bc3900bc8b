SPECIFICATION ContainerSpec
CONSTANTS
  N = 4
  MethDSU = 1
  LogWarn = TRUE
  n = 3
  Slaves = {"a", "b"}
  Tokens = {0, 4, 7}
  Keys = {1, 2}
  defaultKey = 0
  Sizes = {1, 2, 3}
  MaxSize = 4
  Unset = Unset
  Cautious = TRUE
INVARIANTS
  RanksIncrease
PROPERTIES
  ImplementsPartition
  ImplementsLists
  ImplementsTable
