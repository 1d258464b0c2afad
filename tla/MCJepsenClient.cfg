SPECIFICATION Spec
SYMMETRY Symmetry
CONSTANTS
  Ops = {o1, o2, o3}
  Values = {a, b}
  Null = Null
INVARIANTS
  TypeOK
  FailureIsReliable
  PatchMeetsWhatItRead
PROPERTIES
  ImplementsRegister
CHECK_DEADLOCK FALSE
