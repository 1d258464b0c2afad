SPECIFICATION Spec
CONSTANTS
  DefaultConfig = default
  OtherConfig = other
  ConfigLinks = {default}
  Paths = {p}
  Actions = {GET, POST}
  Uris = {u1}
  Null = Null
  Absent = Absent
  Nodes = {n1}
  MaxRestarts = 1
  ConfigBodies <- MCConfigBodies
  PathBodies <- MCPathBodies
  MaxVersions <- MCPathMaxVersions
INVARIANTS
  DeletedPathsConverge
CHECK_DEADLOCK FALSE
