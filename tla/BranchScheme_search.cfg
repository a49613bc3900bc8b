SPECIFICATION FairSpec
CONSTANTS
  MaxObj = 1
  MaxUnfixed = 3
  Addresses = {1, 2, 3, 4, 5}
  Clients <- CarefulClients
INVARIANTS
  NodesAreReferenced
  NothingIsLost
  BoundsEnclose
PROPERTIES
  SearchEnds
