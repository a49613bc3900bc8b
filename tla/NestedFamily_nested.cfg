SPECIFICATION Spec
CONSTANTS
  N = 2
  M = 3
INVARIANTS
  ForestMatchesLists
PROPERTY
  ImplementsNestedSets
