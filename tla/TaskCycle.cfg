CONSTANTS
  a = a
  b = b
  c = c
  NoPhase = NoPhase
  compile = compile
  Tasks <- Three
  Manifests <- ParallelCycle
SPECIFICATION FairSpec
PROPERTY
  Terminates
CHECK_DEADLOCK FALSE
