---------------------------- MODULE MCHookReload ----------------------------
(***************************************************************************)
(* Instances of HookReload for TLC: what a file may be.                     *)
(***************************************************************************)
EXTENDS HookReload

\* A trusted hook, a layer that needs RASH_ALLOW_UNOWNED_HOOKS=1, and a trusted
\* layer whose file fails after it has registered it.
Hook == [registers |-> "hook", ok |-> TRUE, trusted |-> TRUE]
UnownedLayer == [registers |-> "rack", ok |-> TRUE, trusted |-> FALSE]
BrokenLayer == [registers |-> "rack", ok |-> FALSE, trusted |-> TRUE]
MCFileStates == {Hook, UnownedLayer, BrokenLayer}
=============================================================================
