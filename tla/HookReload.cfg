\* One file name, a command starts under at most two frames.
SPECIFICATION Spec
CONSTANTS
  FileCount = 1
  FileStates <- MCFileStates
  Absent = Absent
  NoDir = NoDir
  ReloadBuiltin = TRUE
  StringsAtTop = FALSE
  LuaStates = {1, 2, 3, 4}
  MaxDepth = 3
INVARIANTS ReloadTypeOK HookTablesMatch HookStateOpen NothingPending OutermostIsFresh
