CONSTANTS
  Targets = {"a", "b"}
  NoTarget = "none"
  QueueSize = 2
  MaxCalls = 4
  MaxPanics = 2
  PanicMidNote = TRUE
SPECIFICATION Spec
INVARIANT NoHangingNote
CHECK_DEADLOCK FALSE
