----------------------------- MODULE HookChain -----------------------------
(***************************************************************************)
(* The parse-stage hook chain of Rash (hooks.c): rash_hooks_execute wraps   *)
(* one command in the callbacks registered with rash.hook, Rack style.      *)
(* Hook i receives run(), which continues with hook i+1 and, after the last *)
(* one, with the command itself (the body).                                 *)
(*                                                                          *)
(* What a Lua callback does is the environment's choice; what C does about  *)
(* it is the model.  One command is followed at a time: the C stack of      *)
(* rash_invoke_hook frames is `frames`, `index` is the argument of the call *)
(* of rash_invoke_hook that is about to start.                              *)
(***************************************************************************)
EXTENDS Naturals, Sequences, SequencesExt, FiniteSets

CONSTANTS
  HookCount,   \* hook_count: callbacks registered with rash.hook
  MaxKept      \* bound: runners kept beyond their command

ASSUME HookCountAssumption == HookCount \in Nat
ASSUME MaxKeptAssumption == MaxKept \in Nat

EXECUTION_SUCCESS == 0
EXECUTION_FAILURE == 1
Status == {EXECUTION_SUCCESS, EXECUTION_FAILURE}

Hooks == 1 .. HookCount
Calls == 1 .. HookCount + 1   \* arguments of rash_invoke_hook

\* RASH_HOOK_CONTEXT, without the command it carries.
Contexts == [active: BOOLEAN, executed: BOOLEAN, denied: BOOLEAN,
             result: Status]

VARIABLES
  \* state of the program
  hook_enforcing,          \* which hooks come from an enforcing file
  context,                 \* the RASH_HOOK_CONTEXT of the command
  fresh,                   \* unused runners of this command, by next_hook
  stale,                   \* next_hook of unused runners of earlier commands
  current_hook_enforcing,
  active_hook_context,     \* FALSE: the null pointer
  hook_execution_depth,
  rash_lua_call_depth,
  \* control
  pc, index, frames,
  \* history of the command, read by the properties only
  runs,                    \* executions of the body
  invoked,                 \* hooks called
  refused,                 \* denied before the body had run
  replaced,                \* a hook's status stood in for the body
  reused,                  \* a runner of an earlier command has been used
  ended                    \* how the command ended

chain == <<context, fresh, stale>>
mode == <<current_hook_enforcing, active_hook_context>>
depths == <<hook_execution_depth, rash_lua_call_depth>>
control == <<pc, index, frames>>
history == <<runs, invoked, refused, replaced, reused, ended>>
vars == <<hook_enforcing, chain, mode, depths, control, history>>

TypeOK ==
  /\ hook_enforcing \in [Hooks -> BOOLEAN]
  /\ context \in Contexts
  /\ fresh \in [Calls -> Nat]
  /\ stale \in SUBSET Calls
  /\ current_hook_enforcing \in BOOLEAN
  /\ active_hook_context \in BOOLEAN
  /\ hook_execution_depth \in Nat
  /\ rash_lua_call_depth \in Nat
  /\ pc \in {"idle", "invoke", "lua", "body"}
  /\ index \in Calls
  /\ frames \in Seq(Hooks)
  /\ runs \in Nat
  /\ invoked \in SUBSET Hooks
  /\ refused \in BOOLEAN
  /\ replaced \in BOOLEAN
  /\ reused \in BOOLEAN
  /\ ended \in {"no", "returned", "unwound"}

NoContext == [active |-> FALSE, executed |-> FALSE, denied |-> FALSE,
              result |-> EXECUTION_FAILURE]

Init ==
  /\ hook_enforcing \in [Hooks -> BOOLEAN]
  /\ context = NoContext
  /\ fresh = [i \in Calls |-> 0]
  /\ stale = {}
  /\ current_hook_enforcing = FALSE
  /\ active_hook_context = FALSE
  /\ hook_execution_depth = 0
  /\ rash_lua_call_depth = 0
  /\ pc = "idle"
  /\ index = 1
  /\ frames = <<>>
  /\ runs = 0
  /\ invoked = {}
  /\ refused = FALSE
  /\ replaced = FALSE
  /\ reused = FALSE
  /\ ended = "no"

-----------------------------------------------------------------------------
(* Helpers.  A definition named *_Mutant is the definition after it with a   *)
(* plausible mistake; no property or action uses it.                        *)

\* Forgets both flags: the denial only sets the status.
MarkDenied_Mutant(c) == [c EXCEPT !.result = EXECUTION_FAILURE]

\* rash_mark_denied: only the first denial counts, and it also blocks the body.
MarkDenied(c) ==
  IF c.denied
  THEN c
  ELSE [c EXCEPT !.denied = TRUE, !.executed = TRUE,
                 !.result = EXECUTION_FAILURE]

\* Forgets context->executed = 1.
MarkExecuted_Mutant(c) == c

\* rash_execute_original records that the body is no longer available.
MarkExecuted(c) == [c EXCEPT !.executed = TRUE]

\* Indexes the zero-based array with the one-based index.
Enforcing_Mutant(i) == i < HookCount /\ hook_enforcing[i + 1]

\* Does hook i come from an enforcing file.
Enforcing(i) == hook_enforcing[i]

\* Skips a hook.
NextHook_Mutant(i) == i + 2

\* What follows hook i: its runner's next_hook, and the fall through.
NextHook(i) == i + 1

\* Marks a runner used only if it leads to another hook.
UseRunner_Mutant(i) == [fresh EXCEPT ![i] = IF i > HookCount THEN @ ELSE @ - 1]

\* runner->called = 1.
UseRunner(i) == [fresh EXCEPT ![i] = @ - 1]

\* Takes a hook that returns as the end of the command.
Decided_Mutant(c) == TRUE

\* Is the command settled, so that no further hook is called.
Decided(c) == c.denied \/ c.executed

\* Unused runners the callbacks may hold on to when the command ends.
Kept == {s \in SUBSET (stale \union {i \in Calls : fresh[i] > 0}) :
           Cardinality(s) <= MaxKept}

\* rash_invoke_hook returns context->result: to the run() of the hook below,
\* or to rash_hooks_execute, which ends the command.
ReturnTo(fs, c) ==
  /\ frames' = fs
  /\ context' = [c EXCEPT !.active = fs # <<>>]
  /\ pc' = IF fs = <<>> THEN "idle" ELSE "lua"
  /\ ended' = IF fs = <<>> THEN "returned" ELSE ended
  /\ stale' \in IF fs = <<>> THEN Kept ELSE {stale}

\* Forgets to restore hook_execution_depth.
UnwindDepths_Mutant ==
  /\ rash_lua_call_depth' = 0
  /\ UNCHANGED hook_execution_depth

\* The unwind frame of rash_hooks_execute restores the depths it was entered
\* with, which rash_hooks_active had found to be zero.
UnwindDepths ==
  /\ hook_execution_depth' = 0
  /\ rash_lua_call_depth' = 0

\* Hooks every command.
HooksActive_Mutant == TRUE

\* rash_hooks_active.  Commands of a trap handler never get here.
HooksActive == hook_execution_depth = 0

-----------------------------------------------------------------------------
(* Entry: rash_hooks_execute.  A command may reach it at top level, or from  *)
(* the body of another command; the second is what the depth excludes.      *)

HooksExecute ==
  /\ pc \in {"idle", "body"}
  /\ HooksActive
  /\ context' = [NoContext EXCEPT !.active = TRUE]
  /\ fresh' = [i \in Calls |-> 0]
  /\ pc' = "invoke"
  /\ index' = 1
  /\ runs' = 0
  /\ invoked' = {}
  /\ refused' = FALSE
  /\ replaced' = FALSE
  /\ reused' = FALSE
  /\ ended' = "no"
  /\ UNCHANGED <<hook_enforcing, stale, mode, depths, frames>>

-----------------------------------------------------------------------------
(* rash_invoke_hook and rash_execute_original.                              *)

\* Either way out of a call that has nothing left to start: the command is
\* denied, or the chain is at its end and the command has already executed.
InvokeReturns ==
  /\ pc = "invoke"
  /\ context.denied \/ (index > HookCount /\ context.executed)
  /\ ReturnTo(frames, context)
  /\ UNCHANGED <<hook_enforcing, fresh, mode, depths, index,
                 runs, invoked, refused, replaced, reused>>

InvokeHook ==
  /\ pc = "invoke"
  /\ ~context.denied
  /\ index <= HookCount
  /\ current_hook_enforcing' = Enforcing(index)
  /\ active_hook_context' = TRUE
  /\ fresh' = [fresh EXCEPT ![NextHook(index)] = @ + 1]
  /\ rash_lua_call_depth' = rash_lua_call_depth + 1
  /\ frames' = Append(frames, index)
  /\ pc' = "lua"
  /\ invoked' = invoked \union {index}
  /\ UNCHANGED <<hook_enforcing, context, stale, hook_execution_depth, index,
                 runs, refused, replaced, reused, ended>>

ExecuteOriginal ==
  /\ pc = "invoke"
  /\ ~context.denied
  /\ index > HookCount
  /\ ~context.executed
  /\ context' = MarkExecuted(context)
  /\ hook_execution_depth' = hook_execution_depth + 1
  /\ pc' = "body"
  /\ runs' = runs + 1
  /\ UNCHANGED <<hook_enforcing, fresh, stale, mode, rash_lua_call_depth,
                 index, frames, invoked, refused, replaced, reused, ended>>

\* The body ends with some status.  Stage callbacks it ran have left
\* current_hook_enforcing at 0; if it ran none, the flag is as before.
BodyReturns ==
  /\ pc = "body"
  /\ \E s \in Status : ReturnTo(frames, [context EXCEPT !.result = s])
  /\ hook_execution_depth' = hook_execution_depth - 1
  /\ current_hook_enforcing' \in {current_hook_enforcing, FALSE}
  /\ UNCHANGED <<hook_enforcing, fresh, active_hook_context,
                 rash_lua_call_depth, index,
                 runs, invoked, refused, replaced, reused>>

\* The body jumps to the shell's top level (a DISCARD, say).  The unwind frame
\* restores the two depths and rash_unwind_hook_context retires the context;
\* the two mode variables keep what they had.
BodyUnwinds ==
  /\ pc = "body"
  /\ UnwindDepths
  /\ context' = [context EXCEPT !.active = FALSE]
  /\ frames' = <<>>
  /\ pc' = "idle"
  /\ ended' = "unwound"
  /\ stale' \in Kept
  /\ UNCHANGED <<hook_enforcing, fresh, mode, index,
                 runs, invoked, refused, replaced, reused>>

-----------------------------------------------------------------------------
(* What a callback can do while it is the hook on top of the stack.         *)

\* run(), of its own runner or of one an earlier hook of the command left in a
\* Lua global.  A used runner, or an inactive context, is a Lua error: see
\* HookFails.
HookRun ==
  /\ pc = "lua"
  /\ context.active
  /\ \E i \in Calls :
       /\ fresh[i] > 0
       /\ fresh' = UseRunner(i)
       /\ index' = i
  /\ pc' = "invoke"
  /\ UNCHANGED <<hook_enforcing, context, stale, mode, depths, frames, history>>

\* run() of a runner of an earlier command.  Its context pointer refers to
\* userdata that Lua may have collected and reused: when the memory still holds
\* the old context this is a Lua error, when the allocator has given it to the
\* present command's context the runner continues that command.
HookRunStale ==
  /\ pc = "lua"
  /\ \E i \in stale :
       /\ stale' = stale \ {i}
       /\ index' = i
  /\ pc' = "invoke"
  /\ reused' = TRUE
  /\ UNCHANGED <<hook_enforcing, context, fresh, mode, depths, frames,
                 runs, invoked, refused, replaced, ended>>

\* rash.deny where it takes effect.  Without current_hook_enforcing it is
\* ignored; after the command executed it is a Lua error (HookFails).
HookDenies ==
  /\ pc = "lua"
  /\ current_hook_enforcing
  /\ active_hook_context /\ context.active
  /\ ~context.executed
  /\ context' = MarkDenied(context)
  /\ refused' = TRUE
  /\ UNCHANGED <<hook_enforcing, fresh, stale, mode, depths, control,
                 runs, invoked, replaced, reused, ended>>

\* The end of every call of a hook with context c: pop the frame, clear the
\* mode, and either return or fall through to the next hook.
LeaveHook(c) ==
  /\ rash_lua_call_depth' = rash_lua_call_depth - 1
  /\ current_hook_enforcing' = FALSE
  /\ active_hook_context' = FALSE
  /\ IF Decided(c)
     THEN ReturnTo(Front(frames), c) /\ index' = index
     ELSE /\ frames' = Front(frames)
          /\ context' = c
          /\ pc' = "invoke"
          /\ index' = NextHook(Last(frames))
          /\ UNCHANGED <<ended, stale>>
  /\ UNCHANGED <<hook_enforcing, fresh, hook_execution_depth, runs, invoked,
                 reused>>

\* The callback raises an error or exhausts its instruction allowance.
HookFails ==
  /\ pc = "lua"
  /\ LET enforcing == Enforcing(Last(frames)) IN
     /\ LeaveHook(IF enforcing THEN MarkDenied(context) ELSE context)
     /\ refused' = (refused \/ (enforcing /\ runs = 0))
  /\ UNCHANGED replaced

\* The callback returns a number: that is the command's status from now on.
HookReturnsStatus ==
  /\ pc = "lua"
  /\ \E s \in Status :
       LeaveHook([context EXCEPT !.executed = TRUE, !.result = s])
  /\ replaced' = (replaced \/ ~context.executed)
  /\ UNCHANGED refused

\* The callback returns no number.
HookReturns ==
  /\ pc = "lua"
  /\ LeaveHook(context)
  /\ UNCHANGED <<refused, replaced>>

-----------------------------------------------------------------------------

Step ==
  \/ InvokeReturns \/ InvokeHook \/ ExecuteOriginal \/ BodyReturns \/ BodyUnwinds
  \/ HookRun \/ HookRunStale \/ HookDenies
  \/ HookFails \/ HookReturnsStatus \/ HookReturns

Next == HooksExecute \/ Step

Spec == Init /\ [][Next]_vars

\* A callback's Lua code is cut off by the instruction allowance, and a body is
\* assumed to end: a command that has started keeps taking steps.
FairSpec == Spec /\ WF_vars(Step)

-----------------------------------------------------------------------------
(* Properties.                                                              *)

\* The original command runs at most once, whatever the hooks do with their
\* runners (rash_execute_original's `executed`, rash_hook_run's `called`).
BodyAtMostOnce == runs <= 1

\* Once an enforcing hook has denied a command or failed, before it ran, the
\* command never runs: neither a retained runner nor an outer hook revives it.
RefusalIsFinal == refused => runs = 0

\* The command runs only after every hook has been asked, unless a hook has
\* used a runner it kept from an earlier command.
NoHookBypassed == (runs > 0 /\ ~reused) => invoked = Hooks

\* A command that ended normally was either refused, or answered by a hook's
\* own status, or executed: it is never silently dropped.
NeverDropped ==
  (ended = "returned" /\ ~refused /\ ~replaced) => runs = 1

\* Between commands the depths are zero, also after a nonlocal exit from the
\* body, so that the next command is hooked and gets a full allowance.
DepthsRestored ==
  pc = "idle" => /\ hook_execution_depth = 0
                 /\ rash_lua_call_depth = 0
                 /\ ~context.active

\* A command nested in the body of a hooked command is not hooked again.
NoReentry == [][pc = "body" => pc' # "invoke"]_vars

\* Only a hook from an enforcing file can deny the command.
OnlyEnforcingDenies ==
  [][(~context.denied /\ context'.denied) => hook_enforcing[Last(frames)]]_vars

\* Every command that enters the chain leaves it.
CommandEnds == (pc # "idle") ~> (pc = "idle")
=============================================================================
