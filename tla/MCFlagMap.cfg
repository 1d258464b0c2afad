SPECIFICATION Spec
CONSTANTS
  a = a
  b = b
  Names = {a, b}
  Keys <- MCKeys
  Texts = {x, y}
  MaxArgs = 3
INVARIANTS
  TypeOK
  ResultIsFirstFlags
  OrderIsIrrelevant
PROPERTIES
  KeepsEarlierFlags
CHECK_DEADLOCK FALSE
