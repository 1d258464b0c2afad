SPECIFICATION Spec
CONSTANTS
  Starts = {s1, s2}
  MaxStops = 2
  Factories = {configFactory, pathFactory}
  None = None
INVARIANTS
  StopsBothHosts
CHECK_DEADLOCK FALSE
