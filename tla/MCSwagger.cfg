SPECIFICATION Spec
CONSTANTS
  Gets = {g1, g2}
  com = com
  org = org
  Car = Car
  Bus = Bus
  s1 = s1
  s2 = s2
  s3 = s3
  self = self
  None = None
  Segments <- MCSegments
  Uris <- MCUris
  Lists <- MCLists
  Skipped = {self}
  Describes <- MCDescribes
  Kinds <- MCKinds
  Fields <- MCFields
  StripPrefixes <- MCPrefixes
INVARIANTS
  TypeOK
  SameTemplatesSameDocument
  ModelsAreOfTheirKind
  PathsAreOfTheTemplates
PROPERTIES
  EveryGetAnswered
CHECK_DEADLOCK FALSE
