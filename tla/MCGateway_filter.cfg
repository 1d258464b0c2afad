SPECIFICATION Spec
CONSTANTS
  DefaultConfig = default
  OtherConfig = other
  ConfigLinks = {default, other}
  Paths = {}
  Actions = {GET}
  Uris = {u1}
  Null = Null
  Absent = Absent
  Nodes = {n1}
  MaxRestarts = 1
  ConfigBodies <- MCConfigBodies
  PathBodies <- MCPathBodies
  MaxVersions <- MCConfigMaxVersions
PROPERTIES
  UpdateKeepsFilter
CHECK_DEADLOCK FALSE
