CONSTANTS
  Senders = {s1, s2}
  Receivers = {r1, r2}
  AllocFails = FALSE
  MaxSend = 4
  IndexMod = 4
  MaxMessages = 5
  Closers = {"producer", "any"}
  Values = {v1, v2}
  Event = v1
  Empty = Empty
  Null = Null
  NoValue = NoValue
  Capacity = 2
  MaxPush = 4
SPECIFICATION QFairSpec
INVARIANTS
  TypeOK
  NoDataRace
  RefusalsExact
  SlotOwnership
  SecondZeroIsFinal
  StopIsFinal
  NoLostWakeup
  ClosedMeansDrained
PROPERTIES
  ImplementsFifo
  Delivered
  QueueIsFifo
  ChannelIsFifo
  BlockedReturn
CHECK_DEADLOCK FALSE
