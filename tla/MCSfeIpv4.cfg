SPECIFICATION Spec
CONSTANTS
  c1 = c1
  c2 = c2
  lan = lan
  wan = wan
  t1 = t1
  t2 = t2
  n1 = n1
  None = None
  AllDevs = AllDevs
  Conns <- MCConns
  Devs <- MCDevs2
  Tuples <- MCTuples
  Rules <- MCRules2
  SyncShare = 64
  MaxCount = 1
  MaxOwed = 1
  MaxJiffies = 0
  JiffiesRange = 16
  MaxCreating = 1
  DebugReads = TRUE
SYMMETRY Symmetry
INVARIANTS TypeOK TablesAgree OneConnectionPerTuple RefsExact
CHECK_DEADLOCK FALSE
