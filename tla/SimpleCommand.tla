--------------------------- MODULE SimpleCommand ---------------------------
(***************************************************************************)
(* The stages of a simple command: execute_simple_command and what it calls  *)
(* (execute_cmd.c), with the callbacks registered for each stage (hooks.c),  *)
(* in the shell and in the children it forks for background commands,        *)
(* pipelines and programs.                                                  *)
(*                                                                          *)
(* A process has the stack of its commands and its copy of the globals of    *)
(* the stages; a child starts with a copy of its parent's.  A callback does  *)
(* nothing, calls rash.deny or fails; it runs no command of the shell, as a  *)
(* kept next() of the Rack could.  Compound commands, job control words      *)
(* (%1, auto_resume), autocd, lastpipe, the child that redirects standard     *)
(* input for a null command and the capture of output are left out (the       *)
(* capture is in Redirections), and a pipeline has two commands.  A stage      *)
(* that no callback is registered for is no step of its own.                *)
(***************************************************************************)
EXTENDS Naturals, Sequences, SequencesExt, FiniteSets

CONSTANTS
  Shell, Children, None,
  Tables,      \* the callbacks hook files may register: for each stage, the
               \* sequence of their enforcing bits
  MaxDepth     \* bound: the commands in execution below which one is started

\* The stages in which rash.deny is recorded, and the two that only observe.
Denying == {"pipeline", "expand", "before", "dispatch", "policy", "redirect", "clobber",
            "builtin", "function", "exec"}
Observing == {"after", "bundle"}
Stages == Denying \union Observing

ASSUME TablesAssumption == Tables \subseteq [Stages -> Seq(BOOLEAN)]
ASSUME ProcessAssumption ==
  /\ IsFiniteSet(Children) /\ Shell \notin Children /\ None \notin Children \union {Shell}
  /\ MaxDepth \in Nat

Procs == Children \union {Shell}

VARIABLES
  hooks,    \* the callbacks loaded
  live,     \* the processes that have not exited
  stack,    \* of each process, outermost command first
  globals   \* of each process: stage_denied, the in_*_stage flags that are set,
            \* and current_hook_enforcing

vars == <<hooks, live, stack, globals>>

(* A command in execution.  at: the stage whose callback i runs; "left" and   *)
(* "right" (a pipeline about to fork a command), "fork" (about to fork for a  *)
(* program), "start" and "parent" (after a fork), "body", "program" (after    *)
(* execve), "wait"; or how it ends.  run: what is executed, once it is known. *)
(* redirs: the redirections, once they matter.  forked: already_forked.       *)
(* nofork: CMD_NO_FORK on the last command of a -c string.  exits: the        *)
(* process exits with the command.  subshell: subshell_environment.  trap:    *)
(* running_trap.  asked, refused, stopped and ran are history: the callbacks   *)
(* called, whether an enforcing one refused the command, whether a stage       *)
(* stopped it, and whether it was executed.                                 *)
Runs == {"none", "null", "builtin", "function", "disk", "exec", "pipeline", "trap"}
Redirs == {"none", "open", "clobber"}
Frames ==
  [at: Stages \union {"left", "right", "fork", "start", "parent", "body", "program", "wait"},
   i: Nat, run: Runs, redirs: {"unknown"} \union Redirs,
   forked: BOOLEAN, nofork: BOOLEAN, exits: BOOLEAN, subshell: BOOLEAN, trap: BOOLEAN,
   child: Children \union {None},
   asked: SUBSET (Stages \X (Nat \ {0})), refused: BOOLEAN, stopped: BOOLEAN, ran: BOOLEAN]

StageTypeOK ==
  /\ hooks \in Tables
  /\ live \subseteq Procs
  /\ DOMAIN stack = Procs
  /\ \A p \in Procs : /\ \A k \in 1 .. Len(stack[p]) : stack[p][k] \in Frames
                      /\ p \notin live => stack[p] = <<>>
  /\ globals \in [Procs -> [stage_denied: BOOLEAN, in_stage: SUBSET Denying, enforcing: BOOLEAN]]

Fresh == [stage_denied |-> FALSE, in_stage |-> {}, enforcing |-> FALSE]

\* A shell that has loaded its hooks.
Init ==
  /\ hooks \in Tables
  /\ live = {Shell}
  /\ stack = [p \in Procs |-> <<>>]
  /\ globals = [p \in Procs |-> Fresh]

-----------------------------------------------------------------------------
(* A definition named *_Mutant is the definition after it with a plausible   *)
(* mistake; no property or action uses it.                                  *)

Busy(p) == stack[p] # <<>>
Top(p) == Last(stack[p])
RunningTrap(p) == \E k \in 1 .. Len(stack[p]) : stack[p][k].run = "trap"

Frame(p, at, run) ==
  [at |-> at, i |-> 0, run |-> run, redirs |-> "unknown",
   forked |-> FALSE, nofork |-> FALSE, exits |-> FALSE, subshell |-> p # Shell,
   trap |-> RunningTrap(p), child |-> None,
   asked |-> {}, refused |-> FALSE, stopped |-> FALSE, ran |-> FALSE]

\* The callbacks of a stage.  Those that do not look at running_trap are asked
\* in traps too.
Asked(f) == IF f.trap /\ f.at \notin {"expand", "dispatch", "policy"} THEN <<>> ELSE hooks[f.at]

\* The command comes to a stage: its first callback is called, or the command
\* goes on at once with what follows the stage, rest; here and below,
\* a set of frames holds the ways in which a command may go on.
Stage(f, at, rest) ==
  LET g == [f EXCEPT !.at = at, !.i = 1, !.asked = @ \union {<<at, 1>>}]
  IN IF Asked(g) = <<>> THEN rest ELSE {g}

To(f, at) == {[f EXCEPT !.at = at]}

-----------------------------------------------------------------------------
(* execute_simple_command, from its end to its beginning.                   *)

LeaveBundle(f, denied) == IF f.child = None THEN To(f, "return") ELSE To(f, "wait")
LeaveAfter(f, denied) == Stage(f, "bundle", LeaveBundle(f, FALSE))

\* The end of a command that was dispatched, whatever became of it: a child
\* exits, and the shell calls the observers.
Finish(f) == IF f.exits THEN To(f, "exit") ELSE Stage(f, "after", LeaveAfter(f, FALSE))

LeaveBuiltinOrFunction(f, denied) ==
  IF denied THEN Finish(f) ELSE To([f EXCEPT !.ran = TRUE], "body")

\* shell_execve.  exec in an interactive shell outlives a refusal.
LeaveExec(f, denied) ==
  IF ~denied THEN To([f EXCEPT !.ran = TRUE], "program")
  ELSE To(f, "exit") \union IF f.run = "exec" /\ ~f.subshell THEN Finish(f) ELSE {}

\* A program that is not found: the child exits or runs command_not_found_handle.
Missing(f) ==
  LET g == [f EXCEPT !.run = "function"]
  IN To(f, "exit") \union Stage(g, "function", LeaveBuiltinOrFunction(g, FALSE))

Run(f) ==
  IF f.run \in {"builtin", "function"}
  THEN Stage(f, f.run, LeaveBuiltinOrFunction(f, FALSE))
  ELSE Stage(f, "exec", LeaveExec(f, FALSE)) \union IF f.run = "disk" THEN Missing(f) ELSE {}

\* The redirections are made, or one was refused or failed.
Redirected(f) == IF f.run # "null" THEN Run(f) ELSE To(f, IF f.exits THEN "exit" ELSE "return")
NotRedirected(f) == IF f.run # "null" THEN Finish(f) ELSE To(f, IF f.exits THEN "exit" ELSE "return")

LeaveClobber(f, denied) ==
  IF denied THEN NotRedirected(f) ELSE Redirected(f) \union NotRedirected(f)
LeaveRedirect(f, denied) ==
  IF ~denied /\ f.redirs = "clobber" THEN Stage(f, "clobber", LeaveClobber(f, FALSE))
  ELSE LeaveClobber(f, denied)
LeavePolicy(f, denied) ==
  IF denied THEN NotRedirected(f) ELSE Stage(f, "redirect", LeaveRedirect(f, FALSE))

\* What the list of redirections may be; a command that is not to fork has none.
WithRedirs(f) ==
  LET redirs == IF f.nofork THEN {"none"} ELSE IF f.redirs = "unknown" THEN Redirs ELSE {f.redirs}
  IN {[f EXCEPT !.redirs = r] : r \in redirs}

\* Asks the policy only in the shell.
FirstStage_Mutant(f) ==
  IF f.exits THEN LeavePolicy(f, FALSE) ELSE Stage(f, "policy", LeavePolicy(f, FALSE))

FirstStage(f) == Stage(f, "policy", LeavePolicy(f, FALSE))

\* rash_stage_apply_simple_redirects and what follows it.
Redirecting(f) ==
  UNION {IF g.redirs = "none" THEN Run(g) ELSE FirstStage(g) : g \in WithRedirs(f)}

\* A command whose words expand to nothing: its redirections are made, without
\* asking the redirect policy.
NullCommand(f) ==
  UNION {IF g.redirs = "none" THEN Redirected(g)
         ELSE Stage(g, "redirect", LeaveRedirect(g, FALSE)) :
           g \in WithRedirs([f EXCEPT !.run = "null", !.exits = f.forked])}

\* What the command's name may stand for, after the choice of the dispatch
\* callbacks: a function unless they want none, a builtin unless they want a
\* program, a program.
Resolve(choice) ==
  CASE choice = "disk" -> {"disk"}
    [] choice = "builtin" -> {"builtin", "disk"}
    [] OTHER -> {"function", "builtin", "disk"}

\* rash_stage_dispatch_simple.
Dispatch(f, run) ==
  LET exits == f.forked \/ (run = "disk" /\ f.nofork)
      g == [f EXCEPT !.run = run, !.exits = exits]
  IN IF run = "disk" /\ ~exits THEN To(g, "fork") ELSE Redirecting(g)

\* A refusal in a child that was forked for the command returns from
\* execute_simple_command.
LeaveDispatch(f, denied) ==
  IF ~denied
  THEN UNION {Dispatch(f, run) :
                run \in UNION {Resolve(choice) :
                   choice \in IF hooks["dispatch"] = <<>> THEN {"C"} ELSE {"C", "disk", "builtin"}}}
  ELSE IF f.forked THEN To(f, "return") ELSE Stage(f, "after", LeaveAfter(f, FALSE))

LeaveBefore(f, denied) ==
  IF denied THEN To(f, "return") ELSE Stage(f, "dispatch", LeaveDispatch(f, FALSE))

LeaveExpand(f, denied) ==
  NullCommand(f) \union
    (IF denied THEN {}
     ELSE IF f.forked THEN LeaveBefore(f, FALSE)
     ELSE Stage(f, "before", LeaveBefore(f, FALSE)))

ExecuteSimple(f) == Stage(f, "expand", LeaveExpand(f, FALSE))

\* execute_pipeline, up to its first fork.
LeavePipeline(f, denied) == IF denied THEN To(f, "return") ELSE To(f, "left")

\* What follows the last callback of a stage.
Leave(f, denied) ==
  CASE f.at = "pipeline" -> LeavePipeline(f, denied)
    [] f.at = "expand" -> LeaveExpand(f, denied)
    [] f.at = "before" -> LeaveBefore(f, denied)
    [] f.at = "dispatch" -> LeaveDispatch(f, denied)
    [] f.at = "policy" -> LeavePolicy(f, denied)
    [] f.at = "redirect" -> LeaveRedirect(f, denied)
    [] f.at = "clobber" -> LeaveClobber(f, denied)
    [] f.at \in {"builtin", "function"} -> LeaveBuiltinOrFunction(f, denied)
    [] f.at = "exec" -> LeaveExec(f, denied)
    [] f.at = "after" -> LeaveAfter(f, denied)
    [] f.at = "bundle" -> LeaveBundle(f, denied)

-----------------------------------------------------------------------------
(* Stages and their callbacks.                                              *)

\* The observers have a flag as well.
Flag_Mutant(at) == {at}

\* The in_*_stage flag of a stage; on_clobber runs under that of on_redirect.
Flag(at) == (IF at = "clobber" THEN {"redirect"} ELSE {at}) \intersect Denying

\* Takes an error of an enforcing callback for an answer.
Refuses_Mutant(outcome) == outcome = "deny"

\* An enforcing callback refuses the command by rash.deny and by failing.
Refuses(outcome) == outcome \in {"deny", "error"}

\* Returns early on a denial.
Cleared_Mutant(flags, at, denied) == IF denied THEN flags ELSE flags \ Flag(at)

\* The flags after a stage.
Cleared(flags, at, denied) == flags \ Flag(at)

\* The globals when the command comes to where f is: a callback is called.
Arrive(f, g) ==
  IF f.at \notin Stages THEN g
  ELSE [stage_denied |-> g.stage_denied /\ (f.at \in Observing \/ f.i > 1),
        in_stage |-> g.in_stage \union Flag(f.at),
        enforcing |-> Asked(f)[f.i]]

\* Process p goes on as f on top of the frames s, with the globals g.
Continue(p, f, s, g) ==
  /\ CASE f.at = "exit" -> /\ live' = live \ {p}
                           /\ stack' = [stack EXCEPT ![p] = <<>>]
                           /\ globals' = [globals EXCEPT ![p] = Fresh]
       [] f.at = "return" -> /\ stack' = [stack EXCEPT ![p] = s]
                             /\ globals' = [globals EXCEPT ![p] = g]
                             /\ UNCHANGED live
       [] OTHER -> /\ stack' = [stack EXCEPT ![p] = Append(s, f)]
                   /\ globals' = [globals EXCEPT ![p] = Arrive(f, g)]
                   /\ UNCHANGED live
  /\ UNCHANGED hooks

GoOn(p, f) == Continue(p, f, Front(stack[p]), globals[p])
Push(p, f) == Continue(p, f, stack[p], globals[p])

\* A callback ends, having returned, denied or failed: the next one is called,
\* or the stage is over.
CallbackEnds(p) ==
  \E outcome \in {"return", "deny", "error"} :
    LET f == Top(p)
        g == globals[p]
        s == Front(stack[p])
        denied == g.stage_denied \/ (g.in_stage # {} /\ g.enforcing /\ Refuses(outcome))
        stop == f.at \in Denying /\ denied
        refused == f.at \in Denying /\ hooks[f.at][f.i] /\ outcome # "return"
        h == [f EXCEPT !.refused = @ \/ refused, !.stopped = @ \/ stop]
        over == [stage_denied |-> denied, enforcing |-> FALSE,
                 in_stage |-> Cleared(g.in_stage, f.at, denied)]
    IN /\ Busy(p) /\ f.at \in Stages
       /\ IF stop \/ f.i = Len(Asked(f))
          THEN \E k \in Leave([h EXCEPT !.i = 0], stop) : Continue(p, k, s, over)
          ELSE Continue(p, [h EXCEPT !.i = @ + 1, !.asked = @ \union {<<f.at, f.i + 1>>}],
                        s, [g EXCEPT !.stage_denied = denied])

-----------------------------------------------------------------------------
(* Commands and processes.                                                  *)

\* Between two commands of the reader's loop, of a function or of a trap.  A
\* child that has come back to the reader's loop starts no command (a bound).
Between(p) ==
  /\ p \in live /\ Len(stack[p]) < MaxDepth
  /\ IF Busy(p) THEN Top(p).at = "body" /\ Top(p).run \in {"function", "trap"} ELSE p = Shell

\* A command of the reader's loop, of a function or of a trap.
StartSimple(p) ==
  /\ Between(p)
  /\ \E nofork \in BOOLEAN :
       /\ nofork => ~Busy(p)
       /\ \E f \in ExecuteSimple([Frame(p, "expand", "none") EXCEPT !.nofork = nofork]) :
            Push(p, f)

StartPipeline(p) ==
  /\ Between(p)
  /\ \E f \in LET g == Frame(p, "pipeline", "pipeline")
              IN Stage(g, "pipeline", LeavePipeline(g, FALSE)) :
       Push(p, f)

\* A trap, between two commands; the children do not run the shell's.
StartTrap(p) ==
  /\ Between(p) /\ p = Shell /\ ~RunningTrap(p)
  /\ Push(p, Frame(p, "body", "trap"))

\* No process waits for c, and none has its number.
Free(c) == c \notin live /\ \A p \in Procs : \A k \in 1 .. Len(stack[p]) : stack[p][k].child # c

\* make_child: c starts as f on top of the frames s, with p's globals, and p
\* goes on with t.
Fork(p, c, s, f, t) ==
  /\ Free(c)
  /\ live' = live \union {c}
  /\ stack' = [stack EXCEPT ![c] = Append(s, [f EXCEPT !.at = "start", !.subshell = TRUE]),
                            ![p] = t]
  /\ globals' = [globals EXCEPT ![c] = globals[p]]
  /\ UNCHANGED hooks

\* jump_to_top_level: an interactive shell reads the next command, a script and
\* a child exit.
ToTopLevel(p) ==
  /\ stack' = [stack EXCEPT ![p] = <<>>]
  /\ \/ p = Shell /\ UNCHANGED <<live, globals>>
     \/ live' = live \ {p} /\ globals' = [globals EXCEPT ![p] = Fresh]
  /\ UNCHANGED hooks

\* make_child fails for a command of a pipeline, a program or a background
\* command: there are as many processes as there may be.
ForkFails(p) ==
  /\ Between(p) \/ (Busy(p) /\ Top(p).at \in {"left", "right", "fork"})
  /\ \A c \in Children : ~Free(c)
  /\ ToTopLevel(p)

\* A background command is forked before it is expanded.
StartAsync(p) ==
  /\ Between(p)
  /\ \E c \in Children :
       Fork(p, c, stack[p], [Frame(p, "start", "none") EXCEPT !.forked = TRUE], stack[p])

\* The two commands of a pipeline.
ForkPipeline(p) ==
  /\ Busy(p) /\ Top(p).at \in {"left", "right"}
  /\ \E c \in Children :
       LET left == Top(p).at = "left"
           f == [Top(p) EXCEPT !.at = IF left THEN "right" ELSE "wait"]
           s == Front(stack[p])
       IN Fork(p, c, Append(s, f), [Frame(p, "start", "none") EXCEPT !.forked = TRUE],
               Append(s, IF left THEN f ELSE [f EXCEPT !.child = c]))

\* execute_disk_command: the child makes the redirections and runs the
\* program, and the parent goes on to the observers.
ForkProgram(p) ==
  /\ Busy(p) /\ Top(p).at = "fork"
  /\ \E c \in Children :
       LET s == Front(stack[p]) IN
       Fork(p, c, s, [Top(p) EXCEPT !.exits = TRUE],
            Append(s, [Top(p) EXCEPT !.at = "parent", !.child = c]))

\* The child of a fork, and the parent of a program's.
AfterFork(p) ==
  /\ Busy(p) /\ Top(p).at \in {"start", "parent"}
  /\ \E f \in CASE Top(p).at = "parent" -> Finish(Top(p))
                [] Top(p).at = "start" /\ Top(p).run = "disk" -> Redirecting(Top(p))
                [] OTHER -> ExecuteSimple(Top(p)) :
       GoOn(p, f)

\* wait_for.
Waited(c) == c \notin live

WaitEnds(p) ==
  /\ Busy(p) /\ Top(p).at = "wait"
  /\ Waited(Top(p).child)
  /\ \E f \in To(Top(p), "return") : GoOn(p, f)

\* A builtin, a function or a trap returns.
BodyEnds(p) ==
  /\ Busy(p) /\ Top(p).at = "body"
  /\ \E f \in IF Top(p).run = "trap" THEN To(Top(p), "return") ELSE Finish(Top(p)) : GoOn(p, f)

\* A builtin asks for the program of its name instead (EX_DISKFALLBACK).  In a
\* child its redirections stay; in the shell they were undone and are made again.
FallBack(p) ==
  LET f == [Top(p) EXCEPT !.run = "disk", !.ran = FALSE] IN
  /\ Busy(p) /\ Top(p).at = "body" /\ Top(p).run = "builtin"
  /\ \E g \in IF f.exits THEN Run(f) ELSE Dispatch(f, "disk") : GoOn(p, g)

\* The exec builtin with a program.
ExecBuiltin(p) ==
  /\ Busy(p) /\ Top(p).at = "body" /\ Top(p).run = "builtin"
  /\ \E f \in Run([Top(p) EXCEPT !.run = "exec", !.ran = FALSE]) : GoOn(p, f)

\* An error or an interrupt in a builtin, a function or a trap.
Jump(p) == Busy(p) /\ Top(p).at = "body" /\ ToTopLevel(p)

\* A program ends, or a child that returned to the reader's loop comes to the
\* end of the script.
ProcessEnds(p) ==
  /\ p \in live
  /\ IF Busy(p) THEN Top(p).at = "program" ELSE p # Shell
  /\ live' = live \ {p}
  /\ stack' = [stack EXCEPT ![p] = <<>>]
  /\ globals' = [globals EXCEPT ![p] = Fresh]
  /\ UNCHANGED hooks

\* The shell executed a program in its place, or exec failed, and all is over.
Over == live = {} /\ UNCHANGED vars

Step(p) ==
  \/ StartSimple(p) \/ StartPipeline(p) \/ StartTrap(p) \/ StartAsync(p)
  \/ CallbackEnds(p)
  \/ ForkPipeline(p) \/ ForkProgram(p) \/ ForkFails(p) \/ AfterFork(p) \/ WaitEnds(p)
  \/ BodyEnds(p) \/ FallBack(p) \/ ExecBuiltin(p) \/ Jump(p) \/ ProcessEnds(p)

Next == Over \/ \E p \in Procs : Step(p)

Spec == Init /\ [][Next]_vars

-----------------------------------------------------------------------------

CommandsOf(p) == {stack[p][k] : k \in 1 .. Len(stack[p])}

\* The callbacks that must be asked before f is executed: those of the stages
\* it passes, in its own process or in the one that forked it.
Due(f) ==
  LET stages ==
        {"expand", "dispatch"}
          \union (IF f.trap THEN {} ELSE {IF f.run \in {"builtin", "function"} THEN f.run ELSE "exec"})
          \union (IF f.trap \/ f.forked THEN {} ELSE {"before"})
          \union (IF f.redirs = "none" THEN {} ELSE {"policy"})
          \union (IF f.trap \/ f.redirs = "none" THEN {} ELSE {"redirect"})
          \union (IF f.trap \/ f.redirs # "clobber" THEN {} ELSE {"clobber"})
  IN UNION {{<<s, i>> : i \in DOMAIN hooks[s]} : s \in stages}

\* A command is executed, as a builtin, a function or a program, in the shell or
\* in a child, only after every callback of every stage it passes was asked
\* (execute_simple_command, execute_builtin_or_function, execute_disk_command,
\* shell_execve), whatever dispatch callbacks chose.
EveryCallbackAsked == \A p \in Procs : \A f \in CommandsOf(p) : f.ran => Due(f) \subseteq f.asked

\* A command that an enforcing callback refused, by rash.deny or by failing, is
\* not executed, in the process that asked or in a child, and nothing but such a
\* refusal stops a command (stage_denied and current_hook_enforcing are globals
\* that every stage and every nested command reuses).
RefusalDecides ==
  \A p \in Procs : \A f \in CommandsOf(p) :
    (f.ran => ~f.refused) /\ (f.stopped => f.refused)

\* While no callback runs, none of the in_*_stage flags is set and no right to
\* deny is left over: rash.deny of a later callback is recorded where it belongs
\* (rash_lua_deny looks at the flags first).
FlagsClear ==
  \A p \in live : (Busy(p) => Top(p).at \notin Stages) =>
    globals[p].in_stage = {} /\ ~globals[p].enforcing

\* A child executes the command it was forked for, and no other: it does not
\* return into the loop that forked it (every path of execute_simple_command
\* with already_forked set should exit).
ChildrenStay == \A c \in Children \intersect live : \E f \in CommandsOf(c) : f.forked \/ f.exits
=============================================================================
