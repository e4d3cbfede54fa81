SPECIFICATION Spec
CONSTANTS
  c1 = c1
  c2 = c2
  f1 = f1
  None = None
  Conns <- MCConns
  Flows <- MCFlows
  MaxCount = 1
  RejectPeriod = 2
  MaxCarried = 2
  MaxJiffies = 0
  JiffiesRange = 16
  Unloads = TRUE
SYMMETRY Symmetry
INVARIANTS NoPacketUnaccounted AssuredOnceReplied
CHECK_DEADLOCK FALSE
