SPECIFICATION Spec
CONSTANTS
  Flows <- MCFlows
  None = None
  Objs = {o1, o2}
  Cpus = {p1, p2}
  OffloadAt = 2
  MaxOpen = 2
  Original <- MCOriginal
  Translated <- MCTranslated
  Reverse <- MCReverse
  Bucket <- MCBucket
  Reuse = FALSE
SYMMETRY Symmetry
INVARIANTS TypeOK TableExact DoneFollowsOffloaded RequestFindsPlainFlow
CHECK_DEADLOCK FALSE
