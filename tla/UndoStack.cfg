\* One process, no faults: the store is a stack.
SPECIFICATION Spec
CONSTANTS
  Paths = {f, g}
  Contents = {a, b}
  Empty = Empty
  Absent = Absent
  None = None
  p1 = p1
  p2 = p2
  Procs = {p1}
  Undoers = {p1}
  UndoAlone = TRUE
  Faults = {}
  Crashes = FALSE
  MaxSeq = 3
INVARIANT UndoTypeOK
PROPERTY IsAStack
