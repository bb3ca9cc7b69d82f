---------------------------- MODULE MCHookChain ----------------------------
(***************************************************************************)
(* Instances of HookChain for TLC: three hooks, every assignment of         *)
(* enforcing and advisory files to them, any number of commands.            *)
(***************************************************************************)
EXTENDS HookChain
=============================================================================
