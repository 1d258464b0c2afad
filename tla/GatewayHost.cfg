SPECIFICATION Spec
CONSTANTS
  Starts = {s1, s2}
  MaxStops = 2
  Factories = {configFactory, pathFactory}
  None = None
INVARIANTS
  TypeOK
  DispatchAfterCallbacks
  FirstReportIsTrue
  CleanStop
PROPERTIES
  StartsReturn
CHECK_DEADLOCK FALSE
