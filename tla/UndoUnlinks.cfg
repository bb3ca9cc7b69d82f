\* A snapshot that fails to copy, then an undo.
SPECIFICATION Spec
CONSTANTS
  Paths = {f}
  Contents = {a, b}
  Empty = Empty
  Absent = Absent
  None = None
  p1 = p1
  p2 = p2
  Procs = {p1}
  Undoers = {p1}
  UndoAlone = TRUE
  Faults = {"copy"}
  Crashes = FALSE
  MaxSeq = 2
INVARIANT UndoUnlinksOnlyCreated
