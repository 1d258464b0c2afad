SPECIFICATION Spec
CONSTANTS
  ConfigLinks = {default}
  DefaultConfig = default
  factory = factory
  child = child
  Paths = {factory, child}
  Actions = {"GET", "DELETE"}
  Uris = {u1, u2}
  Null = Null
  Absent = Absent
  Requests = {r}
  SelfLink = self
  Responses = {200, 500}
  Operations <- MCOperations
  ParentPath <- MCParentPath
  ConfigStates <- MCConfigStates
  PathStates <- MCPathStates
  MaxUpdates = 4
INVARIANTS
  TypeOK
  SteadyRequestsGetTheirVerdict
  ForwardedOnGrounds
  RefusedOnGrounds
PROPERTIES
  EveryRequestAnswered
CHECK_DEADLOCK FALSE
