CONSTANTS
  Missing = Missing
  Torn = Torn
  GitDeps = {"git"}
  ArchiveDeps = {"archive"}
  PathDeps = {"path"}
  MaxVersion = 2
  Manifests <- MCManifests
  CutShort = {"removal"}
SPECIFICATION Spec
INVARIANT SourcesMatchLock
