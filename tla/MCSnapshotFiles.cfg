\* One reader and three builds of one kind, killed anywhere.  Readers do not
\* influence anybody, so one is enough.  It stops when the builds of the bound
\* are over.
CONSTANTS
  MaxBuilds = 3
  Identities = {i, j}
  Readers = {r}
  Modes = {"directory", "aliases"}
SPECIFICATION Spec
INVARIANTS
  OpenedIsRelease
  ArtifactsAgree
PROPERTIES
  ViewsImplemented
  ReleaseOutlivesBadBuild
CHECK_DEADLOCK FALSE
