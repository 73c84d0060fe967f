CONSTANTS
  Names = {a, b}
  MaxSize = 6
  MaxRounds = 2
  Forms = {"block", "if", "while"}
  None = None
  NFiles = 3
  Library = {3}
  Contents <- LsContents
  Initial <- LsInitial
  MaxSends = 3
  MaxWrites = 1
  MaxInbox = 2
SPECIFICATION CSpec
INVARIANTS
  AcceptedIsLive
  CleanedUpOnce
  EditorIsFollowed
  TablesAgree
  CachesExact
CHECK_DEADLOCK FALSE
SYMMETRY NameSymmetry
