--------------------------- MODULE MCRedirections ---------------------------
(* Redirections on three script descriptors and two files. *)
EXTENDS Redirections

CONSTANTS f1, f2

MCFiles == {f1, f2}

R(ri, to, from) == [ri |-> ri, to |-> to, from |-> from]

\* n>file on an open and on a closed number, 2>&1, 1>&2-, a close, &>file and 2>&2.
MCRedirects ==
  {R("open", 1, f1), R("open", 3, f2), R("dup", 2, 1), R("move", 1, 2),
   R("close", 1, 1), R("both", 1, f2), R("dup", 2, 2)}

\* Nothing is said of a tangled shell.
Untangled == ~tangled
=============================================================================
