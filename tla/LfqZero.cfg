CONSTANTS
  Values = {v1, v2}
  Empty = Empty
  Null = Null
  Capacity = 2
  IndexMod = 4
  MaxSend = 2
  Closers = {"producer"}
SPECIFICATION Spec
INVARIANT
  ZeroMeansDrained
CHECK_DEADLOCK FALSE
