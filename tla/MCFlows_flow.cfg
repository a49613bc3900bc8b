SPECIFICATION FlowSpec
CONSTANTS
  N = 4
  Arcs <- MCArcs
  From <- MCFrom
  To <- MCTo
  LongBits = 64
  s = 0
  t = 3
  Caps <- MCCaps
  LowCaps = {0}
  Methods = {"FIFO", "HIGH", "SCALE", "SAP", "SAP_SCALE", "DINIC"}
  Tasks <- MCTasks
  Orders <- MCOrders
  InfFloat <- MCInf
  tolerance <- MCTolerance
  Absent = Absent
  Stoppable = {"CYCLE", "MEAN", "COST", "TIGHT", "SIMPLEX"}
INVARIANTS
  SourceIsCutOff
  NothingIsForgotten
  FlowIsMaximum
  ValuesAreEnclosed
  FlowIsCheapest
  SlacknessIsKept
PROPERTY
  SolversEnd

