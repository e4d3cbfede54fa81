SPECIFICATION PmSpec
CONSTANTS
  NoURB = NoURB
  Done = Done
  Idle = Idle
  TxQueueLength = 2
  MaxPackets = 4
  MaxSuspends = 2
  MaxOpens = 2
  MaxTimeouts = 1
  MaxErrors = 1
  LateSuspend = FALSE
  CleanReopen = TRUE
INVARIANTS PmTypeOK OneInFlight PmExact SentInOrder
PROPERTY PacketsLeave
CHECK_DEADLOCK FALSE
