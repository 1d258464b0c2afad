SPECIFICATION Spec
CONSTANTS
  Docs = {d1, d2}
  Gets = {g1, g2}
  Counters = {1, 2, 5}
  MaxInt = 3
  Threads = 2
  MaxPuts = 3
  None = None
INVARIANTS
  TypeOK
  CounterIsHighest
  TotalIsOfTheHighest
PROPERTIES
  EveryGetAnswered
CHECK_DEADLOCK FALSE
