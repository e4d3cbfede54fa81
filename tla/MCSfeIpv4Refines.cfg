SPECIFICATION Spec
CONSTANTS
  c1 = c1
  c2 = c2
  lan = lan
  t1 = t1
  n1 = n1
  None = None
  AllDevs = AllDevs
  Conns <- MCConns
  Devs <- MCDevs
  Tuples <- MCTuples
  Rules <- MCRules
  SyncShare = 1
  MaxCount = 1
  MaxOwed = 2
  MaxJiffies = 1
  JiffiesRange = 4
  MaxCreating = 1
  DebugReads = FALSE
SYMMETRY Symmetry
INVARIANTS CountedIsQueued ToldOnce IncrementsAddUp
PROPERTY Implements
CHECK_DEADLOCK FALSE
