----------------------------- MODULE UndoStack -----------------------------
(***************************************************************************)
(* What rash.snapshot_file and rash.undo_last promise together: a stack of  *)
(* preimages.  A snapshot pushes a path with what it holds now (or that it  *)
(* does not exist); an undo pops the last one and puts that back.           *)
(***************************************************************************)
EXTENDS Naturals, Sequences, SequencesExt

CONSTANTS
  Paths,      \* files a redirect may write to
  Contents,   \* what a file may hold
  Absent      \* "holds" nothing: there is no such file

VARIABLES file, stack

vars == <<file, stack>>

Init ==
  /\ file \in [Paths -> Contents \union {Absent}]
  /\ stack = <<>>

\* A command writes or removes a file.
Write(q, c) ==
  /\ file' = [file EXCEPT ![q] = c]
  /\ UNCHANGED stack

Snapshot(q) ==
  /\ stack' = Append(stack, [path |-> q, preimage |-> file[q]])
  /\ UNCHANGED file

UndoLast ==
  /\ stack # <<>>
  /\ file' = [file EXCEPT ![Last(stack).path] = Last(stack).preimage]
  /\ stack' = Front(stack)

Next ==
  \/ \E q \in Paths, c \in Contents \union {Absent} : Write(q, c)
  \/ \E q \in Paths : Snapshot(q)
  \/ UndoLast

Spec == Init /\ [][Next]_vars
=============================================================================
