SPECIFICATION Spec
CONSTANTS
  N = 4
  Arcs <- MCArcs
  From <- MCFrom
  To <- MCTo
  r = 0
  Lengths <- MCLengths
  Missing <- MCMissing
  Mandatory <- MCMandatory
  MaxFixed = 1
  Calls <- MCCalls
INVARIANTS
  TreeIsOptimal
  NoOptimumIsLost
CHECK_DEADLOCK FALSE
