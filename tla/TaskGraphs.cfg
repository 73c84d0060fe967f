CONSTANTS
  a = a
  b = b
  c = c
  NoPhase = NoPhase
  compile = compile
  Tasks <- Three
  Manifests <- GraphsChecked
SPECIFICATION FairSpec
INVARIANTS
  OnceAfterPrerequisites
  ExitIsExact
  PlanIsFollowed
PROPERTIES
  FinalStatus
  Terminates
CHECK_DEADLOCK FALSE
