------------------------------- MODULE MCRack -------------------------------
(***************************************************************************)
(* Instances of Rack for TLC: every assignment of enforcing and advisory    *)
(* files to a few layers, any number of commands, MaxNexts calls of next()  *)
(* in each.                                                                 *)
(***************************************************************************)
EXTENDS Rack
=============================================================================
