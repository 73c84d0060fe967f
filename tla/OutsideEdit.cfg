CONSTANTS
  Names = {a}
  MaxSize = 0
  MaxRounds = 0
  Forms = {}
  None = None
  NFiles = 3
  Library = {3}
  Contents <- LsContents
  Initial <- LsInitial
  MaxSends = 3
  MaxWrites = 1
  MaxInbox = 2
SPECIFICATION CSpec
INVARIANT OutsideEditsAreSeen
CHECK_DEADLOCK FALSE
