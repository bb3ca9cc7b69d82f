---------------------------- MODULE MCChildTrap ----------------------------
(* Three children, a C stack of up to six frames. *)
EXTENDS ChildTrap

CONSTANTS c1, c2, c3

MCChildren == {c1, c2, c3}
=============================================================================
