-------------------------------- MODULE Rack --------------------------------
(***************************************************************************)
(* The Rack of Rash (hooks.c): rash_rack_execute wraps an outermost command *)
(* in the layers registered with rash.use.  Layer i receives next(), which   *)
(* continues with layer i+1 and, past the last one, with the command itself *)
(* (execute_command_internal, here the body).                               *)
(*                                                                          *)
(* Unlike the runners of HookChain, next() has no memory: it may be called   *)
(* any number of times, by any layer of the command that got hold of it.    *)
(* MaxNexts bounds that number per command.                                 *)
(***************************************************************************)
EXTENDS Naturals, Sequences, SequencesExt

CONSTANTS
  RackCount,   \* rack_count: layers registered with rash.use
  MaxNexts     \* bound: calls of next() in one command

ASSUME RackCountAssumption == RackCount \in Nat \ {0}
ASSUME MaxNextsAssumption == MaxNexts \in Nat

EXECUTION_SUCCESS == 0
EXECUTION_FAILURE == 1
Status == {EXECUTION_SUCCESS, EXECUTION_FAILURE}

Layers == 1 .. RackCount
Calls == 1 .. RackCount + 1   \* arguments of rash_rack_invoke

VARIABLES
  rack_enforcing,          \* which layers come from an enforcing file
  rack_depth,
  rack_denied,
  current_hook_enforcing,
  rash_lua_call_depth,
  result,                  \* what the last rash_rack_invoke or body returned
  \* control: the C stack of rash_rack_invoke frames, each with its layer and
  \* its saved_enforcing; index is the argument of the call about to start
  pc, index, frames,
  \* history of the command, read by the properties only
  runs,                    \* executions of the body
  nexts,                   \* calls of next()
  asked,                   \* layers called
  standing,                \* a layer has called rash.deny, and next() not since
  ended                    \* how the command ended

mode == <<rack_denied, current_hook_enforcing>>
depths == <<rack_depth, rash_lua_call_depth>>
control == <<pc, index, frames>>
history == <<runs, nexts, asked, standing, ended>>
vars == <<rack_enforcing, mode, depths, result, control, history>>

Frames == [layer: Layers, saved_enforcing: BOOLEAN]

RackTypeOK ==
  /\ rack_enforcing \in [Layers -> BOOLEAN]
  /\ rack_depth \in Nat
  /\ rack_denied \in BOOLEAN
  /\ current_hook_enforcing \in BOOLEAN
  /\ rash_lua_call_depth \in Nat
  /\ result \in Status
  /\ pc \in {"idle", "invoke", "lua", "body"}
  /\ index \in Calls
  /\ frames \in Seq(Frames)
  /\ runs \in Nat
  /\ nexts \in Nat
  /\ asked \in SUBSET Layers
  /\ standing \in BOOLEAN
  /\ ended \in {"no", "direct", "returned", "unwound"}

Init ==
  /\ rack_enforcing \in [Layers -> BOOLEAN]
  /\ rack_depth = 0
  /\ rack_denied = FALSE
  /\ current_hook_enforcing = FALSE
  /\ rash_lua_call_depth = 0
  /\ result = EXECUTION_SUCCESS
  /\ pc = "idle"
  /\ index = 1
  /\ frames = <<>>
  /\ runs = 0
  /\ nexts = 0
  /\ asked = {}
  /\ standing = FALSE
  /\ ended = "no"

-----------------------------------------------------------------------------
(* Helpers.  A definition named *_Mutant is the definition after it with a   *)
(* plausible mistake; no property or action uses it.                        *)

\* Does not count the command in progress.
DepthUp_Mutant == UNCHANGED rack_depth

\* rack_depth++ around the outermost rash_rack_invoke.
DepthUp == rack_depth' = rack_depth + 1

\* Leaves the depth raised.
DepthDown_Mutant == UNCHANGED rack_depth

\* rack_depth-- once it has returned.
DepthDown == rack_depth' = rack_depth - 1

\* Returns without putting the caller's flag back.
RestoreMode_Mutant(f) == UNCHANGED current_hook_enforcing

\* current_hook_enforcing = saved_enforcing.
RestoreMode(f) == current_hook_enforcing' = f.saved_enforcing

\* Looks at the layer's failure before it looks at the denial.
DenialFirst_Mutant == FALSE

\* Is the layer's outcome decided by rack_denied, whatever else happened.
DenialFirst == rack_denied

\* Off by one in the layer the proxy leads to.
NextLayer_Mutant(i) == i + 2

\* The index stored with the proxy of layer i.
NextLayer(i) == i + 1

\* rash_rack_invoke returns status s to the next() of the layer below, or to
\* rash_rack_execute, which ends the command.
ReturnTo(fs, s) ==
  /\ frames' = fs
  /\ result' = s
  /\ IF fs = <<>>
     THEN pc' = "idle" /\ ended' = "returned" /\ DepthDown
     ELSE pc' = "lua" /\ UNCHANGED <<ended, rack_depth>>

\* Proxies the layers called so far have been given.
Proxies == {NextLayer(i) : i \in asked}

-----------------------------------------------------------------------------
(* rash_rack_execute.                                                       *)

\* RASH_EXEC=c, or a Rack that is already open: the command runs unwrapped.
\* At top level the second happens only when rack_depth was left raised; the
\* callbacks inside the command then still take the Rack for open.
DirectExecute ==
  /\ pc = "idle"
  /\ result' \in Status
  /\ ended' = "direct"
  /\ \/ UNCHANGED mode
     \/ /\ current_hook_enforcing' = FALSE
        /\ rack_denied' \in {rack_denied, rack_denied \/ rack_depth > 0}
  /\ UNCHANGED <<rack_enforcing, depths, control, runs, nexts, asked, standing>>

\* A command may arrive at top level, or from the body of a wrapped one (eval,
\* source); the second is what rack_depth excludes.
RackExecute ==
  /\ pc \in {"idle", "body"}
  /\ rack_depth = 0
  /\ DepthUp
  /\ pc' = "invoke"
  /\ index' = 1
  /\ runs' = 0
  /\ nexts' = 0
  /\ asked' = {}
  /\ standing' = FALSE
  /\ ended' = "no"
  /\ UNCHANGED <<rack_enforcing, mode, rash_lua_call_depth, result, frames>>

-----------------------------------------------------------------------------
(* rash_rack_invoke.                                                        *)

InvokeLayer ==
  /\ pc = "invoke"
  /\ index <= RackCount
  /\ frames' = Append(frames, [layer |-> index,
                               saved_enforcing |-> current_hook_enforcing])
  /\ current_hook_enforcing' = rack_enforcing[index]
  /\ rack_denied' = FALSE
  /\ rash_lua_call_depth' = rash_lua_call_depth + 1
  /\ pc' = "lua"
  /\ asked' = asked \union {index}
  /\ UNCHANGED <<rack_enforcing, rack_depth, result, index,
                 runs, nexts, standing, ended>>

InvokeBody ==
  /\ pc = "invoke"
  /\ index > RackCount
  /\ pc' = "body"
  /\ runs' = runs + 1
  /\ UNCHANGED <<rack_enforcing, mode, depths, result, index, frames,
                 nexts, asked, standing, ended>>

\* A callback of rash.after or rash.on_stdio_bundle that an enforcing file
\* registered runs inside the command, with no stage flag and, outside a chain
\* of rash.hook, no active context: its rash.deny is taken for one of the Rack,
\* whatever layers are on the stack.  The callbacks leave the flag at 0.
BodyDenies ==
  /\ pc = "body"
  /\ rack_denied' = TRUE
  /\ current_hook_enforcing' = FALSE
  /\ UNCHANGED <<rack_enforcing, depths, result, control, history>>

\* The command ends with some status.  Callbacks that ran inside it leave
\* current_hook_enforcing at 0; if there were none, the flag is as before.
BodyReturns ==
  /\ pc = "body"
  /\ \E s \in Status : ReturnTo(frames, s)
  /\ current_hook_enforcing' \in {current_hook_enforcing, FALSE}
  /\ UNCHANGED <<rack_enforcing, rack_denied, rash_lua_call_depth, index,
                 runs, nexts, asked, standing>>

\* The command jumps to the shell's top level.  The Rack registers nothing to
\* be unwound; a hook chain inside it, if there was one, resets the call depth.
BodyUnwinds ==
  /\ pc = "body"
  /\ frames' = <<>>
  /\ pc' = "idle"
  /\ ended' = "unwound"
  /\ rash_lua_call_depth' \in {rash_lua_call_depth, 0}
  /\ UNCHANGED <<rack_enforcing, mode, rack_depth, result, index,
                 runs, nexts, asked, standing>>

-----------------------------------------------------------------------------
(* What a layer can do while it is on top of the stack.                     *)

\* next(): its own, or one an earlier layer of the command left in a global.
RackNext ==
  /\ pc = "lua"
  /\ nexts < MaxNexts
  /\ index' \in Proxies
  /\ pc' = "invoke"
  /\ nexts' = nexts + 1
  /\ standing' = FALSE
  /\ UNCHANGED <<rack_enforcing, mode, depths, result, frames,
                 runs, asked, ended>>

\* rash.deny where it takes effect; from an advisory layer it is ignored.
LayerDenies ==
  /\ pc = "lua"
  /\ current_hook_enforcing
  /\ rack_denied' = TRUE
  /\ standing' = TRUE
  /\ UNCHANGED <<rack_enforcing, current_hook_enforcing, depths, result,
                 control, runs, nexts, asked, ended>>

\* What every end of a layer does to the flags.
LeaveLayer ==
  /\ RestoreMode(Last(frames))
  /\ rash_lua_call_depth' = rash_lua_call_depth - 1
  /\ UNCHANGED <<rack_enforcing, rack_denied, index,
                 nexts, asked, standing>>

\* The layer raises an error or exhausts its instruction allowance.  An
\* advisory layer that fails is replaced by the command itself.
LayerFails ==
  /\ pc = "lua"
  /\ LeaveLayer
  /\ IF DenialFirst \/ rack_enforcing[Last(frames).layer]
     THEN ReturnTo(Front(frames), EXECUTION_FAILURE) /\ UNCHANGED runs
     ELSE /\ frames' = Front(frames)
          /\ pc' = "body"
          /\ runs' = runs + 1
          /\ UNCHANGED <<result, rack_depth, ended>>

\* The layer returns: a number is its status, anything else is a failure, and
\* a denial overrides both.
LayerReturns ==
  /\ pc = "lua"
  /\ LeaveLayer
  /\ \E s \in Status : ReturnTo(Front(frames),
                                IF rack_denied THEN EXECUTION_FAILURE ELSE s)
  /\ UNCHANGED runs

-----------------------------------------------------------------------------

Next ==
  \/ DirectExecute \/ RackExecute
  \/ InvokeLayer \/ InvokeBody \/ BodyDenies \/ BodyReturns \/ BodyUnwinds
  \/ RackNext \/ LayerDenies \/ LayerFails \/ LayerReturns

Spec == Init /\ [][Next]_vars

-----------------------------------------------------------------------------
(* Properties.                                                              *)

\* HOOK_SEAMS.md: "rash.deny aborts without next".  Once an enforcing layer has
\* denied, and until next() is called again, the command does not run and the
\* Rack can only end in failure, whatever the layers outside it do.
DenyAbortsWithoutNext ==
  [][(standing /\ standing') =>
       /\ runs' = runs
       /\ (pc # "idle" /\ pc' = "idle") => result' = EXECUTION_FAILURE]_vars

\* A Rack that returns leaves no depth behind.
BalancedOnReturn ==
  ended = "returned" => rack_depth = 0 /\ rash_lua_call_depth = 0

\* Of the layers, only one from an enforcing file can deny, also after layers
\* and callbacks inside it have come and gone: while a layer is on top of the
\* stack, rack_denied is set only if that layer is an enforcing one.  It is not
\* so while the command itself runs (BodyDenies): an after or stdio-bundle
\* callback then denies under whatever layers there are.
OnlyEnforcingLayersDeny ==
  [][(pc = "lua" /\ ~rack_denied /\ rack_denied')
       => rack_enforcing[Last(frames).layer]]_vars

\* The body runs under next() only after all the layers before it were asked.
OuterLayersAsked ==
  pc = "invoke" => 1 .. index - 1 \subseteq asked
=============================================================================
