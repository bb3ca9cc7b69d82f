CONSTANTS
  Shell = Shell
  Children = {c1}
  None = None
  Tables <- MCTables
  MaxDepth = 2
SPECIFICATION Spec
INVARIANTS StageTypeOK EveryCallbackAsked RefusalDecides FlagsClear
