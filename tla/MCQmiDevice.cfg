SPECIFICATION Spec
CONSTANTS
  Users = {t1, t2}
  Dereg = Dereg
  ReadCb = ReadCb
  Files = {f1, f2}
  Ids = {id1, id2}
  Ctl = Ctl
  Wds = Wds
  Async = Async
  None = None
  TidRange = 256
  MaxTid = 4
  MaxUnread = 1
  Overlap = FALSE
  CleanSignals = TRUE
SYMMETRY Symmetry
INVARIANTS TypeOK  OwnAnswer  WdsStaysArmed
CHECK_DEADLOCK FALSE
