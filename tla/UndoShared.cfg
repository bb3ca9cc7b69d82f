\* Two processes in one directory, which may fail or die anywhere.
SPECIFICATION Spec
CONSTANTS
  Paths = {f}
  Contents = {a, b}
  Empty = Empty
  Absent = Absent
  None = None
  p1 = p1
  p2 = p2
  Procs = {p1, p2}
  Undoers = {p1, p2}
  UndoAlone = TRUE
  Faults = {"entry", "copy", "close", "restore"}
  Crashes = TRUE
  MaxSeq = 2
SYMMETRY ProcSymmetry
INVARIANTS AckedKept SnapshotsExclusive
