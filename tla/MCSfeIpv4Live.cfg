SPECIFICATION FairSpec
CONSTANTS
  c1 = c1
  c2 = c2
  lan = lan
  wan = wan
  t1 = t1
  t2 = t2
  n1 = n1
  None = None
  AllDevs = AllDevs
  Conns <- MCConns
  Devs <- MCDevs1
  Tuples <- MCTuples
  Rules <- MCRulesHairpin
  SyncShare = 64
  MaxCount = 1
  MaxOwed = 1
  MaxJiffies = 0
  JiffiesRange = 16
  MaxCreating = 1
  DebugReads = FALSE
PROPERTY ActiveIsSynced TeardownEnds
CHECK_DEADLOCK FALSE
