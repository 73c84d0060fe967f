CONSTANTS
  Missing = Missing
  Torn = Torn
  GitDeps = {"git"}
  ArchiveDeps = {"archive"}
  PathDeps = {"path"}
  MaxVersion = 2
  Manifests <- MCManifests
  CutShort = {}
SPECIFICATION Spec
INVARIANT SourcesMatchLock
PROPERTIES
  LockReplacedForCause
  StrictIsReadOnly
