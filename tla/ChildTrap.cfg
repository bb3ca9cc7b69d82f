SPECIFICATION Spec
CONSTANTS
  c1 = c1
  c2 = c2
  c3 = c3
  None = None
  Children <- MCChildren
  Settings = {"command"}
  MaxDepth = 6
INVARIANTS ChildTypeOK OneFiringPerChild SpawnKeepsChild
PROPERTIES MissedOnlyInExchange AllFired
