CONSTANTS
  Names = {a, b}
  MaxSize = 4
  MaxRounds = 2
  Forms = {"while", "loopMove"}
SPECIFICATION Spec
INVARIANT AcceptedIsLive
CHECK_DEADLOCK FALSE
