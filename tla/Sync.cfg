CONSTANTS
  t1 = t1
  t2 = t2
  t3 = t3
  t4 = t4
  Threads = {t1, t2, t3}
  Creator = t1
  Worker = t2
  MaxRefs = 4
  LatchThreads = {t1, t2, t3, t4}
  Expected = 3
  MaxUpdate = 2
  Weight <- MCWeight
  PhaseMax = 3
  Initial = 1
  Maximum = 2
  MaxAcquire = 2
  Workers = 4
  GroupSize = 3
  Coordinators = {t1, t2}
  Writers = {t1, t2}
  Waiters = {t3, t4}
  NarrowMod = 2
  WordMod = 4
  MaxOps = 2
SPECIFICATION MFairSpec
INVARIANTS
  OpensExactly
  PhasesInStep
  PermitsExact
  GateAndGroup
  WordExact
  HandlesExact
  ReturnsCleanly
PROPERTIES
  SleepersReturn
  ImpossibleIsFinal
CHECK_DEADLOCK FALSE
