----------------------------- MODULE ChildTrap -----------------------------
(***************************************************************************)
(* Children, SIGCHLD and the SIGCHLD trap: sigchld_handler, waitchld and     *)
(* wait_for (jobs.c), the queued firings and run_pending_traps (trap.c), and *)
(* the children rash.spawn waits for itself (hooks.c).                      *)
(*                                                                          *)
(* The shell is one thread: `stack` is its C stack, and the signal handler   *)
(* runs between any two of its steps unless SIGCHLD is blocked.  With an     *)
(* empty stack, or with a trap body on top, the shell is between commands.   *)
(* A job has one process.  Stopped jobs, interrupts and terminating signals, *)
(* posix mode and ^C are left out, and so are the traps of other signals.   *)
(***************************************************************************)
EXTENDS Naturals, Sequences, SequencesExt, FiniteSets, FiniteSetsExt

CONSTANTS
  Children,     \* bound: the children the shell may fork
  None,
  Settings,     \* what `trap ... CHLD` may set: a subset of Traps
  MaxDepth      \* bound: the C stack below which commands are started

\* trap_list[SIGCHLD].
Traps == {"command", "default", "ignore", "impossible"}

ASSUME ChildAssumption == IsFiniteSet(Children) /\ None \notin Children
ASSUME SettingsAssumption == Settings \subseteq Traps \ {"impossible"} /\ MaxDepth \in Nat

VARIABLES
  child,          \* "unborn", "running", "zombie" or "reaped"
  signalled,      \* is a SIGCHLD pending in the kernel
  blocked,        \* is SIGCHLD blocked
  stack,
  sigchld, queue_sigchld,
  pending_traps, catch_flag, running_trap,
  trap_list, trapped, in_progress,   \* SIG_TRAPPED and SIG_INPROGRESS
  in_wait,        \* this_shell_builtin == wait_builtin
  installed,      \* history: is the trap the user last set a command
  owed,           \* history: children reaped with a trap installed
  fired,          \* history: times the trap ran
  missed,         \* history: children whose firing waitchld did not count
  dropped,        \* history: firings a return from the trap has given up
  left            \* history: has a trap body been left by such a return

signals == <<signalled, blocked, sigchld, queue_sigchld>>
traps == <<pending_traps, catch_flag, running_trap, trap_list, trapped, in_progress>>
left_behind == <<dropped, left>>
counters == <<installed, owed, fired, missed>>
history == <<counters, left_behind>>
vars == <<child, signals, stack, traps, in_wait, history>>

(* Frames.  at: "wait" and "spawn" wait for pid; "queue" and "reap" are the   *)
(* two halves of a section that defers reaping (n is its os), "notify" is     *)
(* another; "handler" is                                                    *)
(* sigchld_handler; "read" and "clear" take the queued firings, in            *)
(* run_pending_traps or, if direct, for waitchld (n is x); the others are     *)
(* run_sigchld_trap, with n firings left; a direct "restore" belongs to a     *)
(* return that leaves the trap.  mask and was are the signal mask and the     *)
(* builtin to restore; the was of a wait says it has been in waitchld.        *)
TrapAts == {"save", "swap", "body", "restore", "restored"}
Frames == [at: {"wait", "spawn", "queue", "reap", "notify", "handler", "read", "clear"} \union TrapAts,
           pid: Children \union {None}, n: 0 .. Cardinality(Children) + 1,
           direct: BOOLEAN, mask: BOOLEAN, was: BOOLEAN]

ChildTypeOK ==
  /\ child \in [Children -> {"unborn", "running", "zombie", "reaped"}]
  /\ {signalled, blocked, catch_flag, running_trap, trapped, in_progress, in_wait, installed,
      left} \subseteq BOOLEAN
  /\ stack \in Seq(Frames)
  /\ {sigchld, queue_sigchld} \subseteq 0 .. Cardinality(Children) + 1
  /\ {pending_traps, owed, fired, missed, dropped} \subseteq 0 .. Cardinality(Children)
  /\ trap_list \in Traps

\* A shell that has just executed `trap command CHLD`.
Init ==
  /\ child = [c \in Children |-> "unborn"]
  /\ signalled = FALSE /\ blocked = FALSE
  /\ stack = <<>>
  /\ sigchld = 0 /\ queue_sigchld = 0
  /\ pending_traps = 0 /\ catch_flag = FALSE /\ running_trap = FALSE
  /\ trap_list = "command" /\ trapped = TRUE /\ in_progress = FALSE
  /\ in_wait = FALSE
  /\ installed = TRUE /\ owed = 0 /\ fired = 0 /\ missed = 0
  /\ dropped = 0 /\ left = FALSE

-----------------------------------------------------------------------------
(* A definition named *_Mutant is the definition after it with a plausible   *)
(* mistake; no property or action uses it.                                  *)

Frame(at) == [at |-> at, pid |-> None, n |-> 0, direct |-> FALSE,
              mask |-> FALSE, was |-> FALSE]
Top == Last(stack)
At(at) == stack # <<>> /\ Top.at = at
Push(f) == stack' = Append(stack, f)
Pop == stack' = Front(stack)
Become(f) == stack' = Append(Front(stack), f)

Zombies == {c \in Children : child[c] = "zombie"}
BetweenCommands == stack # <<>> => At("body")
MayStart == BetweenCommands /\ Len(stack) < MaxDepth

\* Forgets the children reaped while the trap runs.
Counts_Mutant == trapped /\ trap_list # "ignore"

\* Whether waitchld counts the children it reaps for the trap.
Counts == (trapped \/ trap_list = "impossible") /\ trap_list # "ignore"

\* Whether it runs the trap itself: in the wait builtin, with no SIGCHLD
\* (chld) outstanding and no trap running.
Direct(chld) ==
  /\ chld = 0 /\ ~in_progress /\ trap_list # "impossible" /\ ~running_trap
  /\ in_wait

\* Forgets what was queued during the trap, as before the fix.
RunDeferred_Mutant == <<>>

\* run_deferred_sigchld_traps, called when the trap returns.
RunDeferred == <<[Frame("read") EXCEPT !.direct = TRUE]>>

\* waitchld: reaps the set R, leaves sigchld at chld and dispatches the trap
\* on top of the frames s.
WaitChld(R, chld, s) ==
  LET n == Cardinality(R)
      run == n > 0 /\ Counts /\ Direct(chld)
      queue == n > 0 /\ Counts /\ ~Direct(chld)
  IN /\ child' = [c \in Children |-> IF c \in R THEN "reaped" ELSE child[c]]
     /\ sigchld' = chld
     /\ stack' = IF run
                 THEN s \o RunDeferred \o <<[Frame("save") EXCEPT !.n = n, !.was = in_wait]>>
                 ELSE s
     /\ pending_traps' = IF queue THEN pending_traps + n ELSE pending_traps
     /\ catch_flag' = (catch_flag \/ queue)
     /\ owed' = IF installed THEN owed + n ELSE owed
     /\ missed' = IF installed /\ ~Counts THEN missed + n ELSE missed
     /\ UNCHANGED <<running_trap, trap_list, trapped, in_progress, in_wait, installed, fired,
                    left_behind>>

\* Counts below zero.
AfterAll_Mutant(chld) == chld - Cardinality(Zombies) - 1

\* sigchld after a waitchld that does not block and calls waitpid until no
\* child is left.
AfterAll(chld) == Max({0, chld - Cardinality(Zombies) - 1})

\* UNBLOCK_CHILD.
Unmask(f) == f.mask

-----------------------------------------------------------------------------
(* Children and the signal handler.                                         *)

\* A child exits.
ChildExits ==
  \E c \in Children :
    /\ child[c] = "running"
    /\ child' = [child EXCEPT ![c] = "zombie"]
    /\ signalled' = TRUE
    /\ UNCHANGED <<blocked, sigchld, queue_sigchld, stack, traps, in_wait, history>>

\* sigchld_handler, while the shell has not asked to queue.  SIGCHLD stays
\* blocked for as long as the trap runs on top of it.
HandlerReaps ==
  /\ signalled /\ ~blocked /\ queue_sigchld = 0
  /\ signalled' = FALSE
  /\ LET direct == Zombies # {} /\ Counts /\ Direct(AfterAll(sigchld + 1))
     IN /\ blocked' = direct
        /\ WaitChld(Zombies, AfterAll(sigchld + 1),
                    IF direct THEN Append(stack, Frame("handler")) ELSE stack)
  /\ UNCHANGED queue_sigchld

\* sigchld_handler, while it has.
HandlerQueues ==
  /\ signalled /\ ~blocked /\ queue_sigchld > 0
  /\ signalled' = FALSE
  /\ sigchld' = sigchld + 1
  /\ UNCHANGED <<blocked, queue_sigchld, child, stack, traps, in_wait, history>>

HandlerReturns ==
  /\ At("handler")
  /\ Pop
  /\ blocked' = FALSE
  /\ UNCHANGED <<signalled, sigchld, queue_sigchld, child, traps, in_wait, history>>

-----------------------------------------------------------------------------
(* Commands.  One that is not a wait resets this_shell_builtin.             *)

\* make_child.
Fork ==
  /\ MayStart
  /\ \E c \in Children :
       /\ child[c] = "unborn"
       /\ child' = [child EXCEPT ![c] = "running"]
  /\ in_wait' = FALSE
  /\ UNCHANGED <<signals, stack, traps, history>>

\* wait_for, called to wait for a foreground command or by the wait builtin.
Wait ==
  /\ MayStart
  /\ \E c \in Children, builtin \in BOOLEAN :
       /\ child[c] # "unborn"
       /\ Push([Frame("wait") EXCEPT !.pid = c, !.mask = blocked])
       /\ in_wait' = builtin
  /\ blocked' = TRUE
  /\ UNCHANGED <<signalled, sigchld, queue_sigchld, child, traps, history>>

\* Its loop: waitchld with block and queue_sigchld set.  It reaps as many
\* children as SIGCHLDs are outstanding, or blocks until it has reaped one.
WaitBlocks ==
  /\ At("wait") /\ child[Top.pid] # "reaped"
  /\ LET n == Cardinality(Zombies)
         entered == Append(Front(stack), [Top EXCEPT !.was = TRUE])
     IN /\ \E R \in SUBSET Zombies :
             /\ Cardinality(R) = IF sigchld > 0 THEN Min({sigchld, n}) ELSE 1
             /\ WaitChld(R, IF n < sigchld THEN sigchld - n - 1 ELSE 0, entered)
        /\ queue_sigchld' = IF stack' = entered THEN 0 ELSE 1
  /\ UNCHANGED <<signalled, blocked>>

\* Its end.
WaitReturns ==
  /\ At("wait") /\ child[Top.pid] = "reaped"
  /\ Pop
  /\ blocked' = Unmask(Top)
  /\ queue_sigchld' = IF Top.was THEN 0 ELSE queue_sigchld
  /\ UNCHANGED <<signalled, sigchld, child, traps, in_wait, history>>

\* Leaves SIGCHLD as it is.
SpawnMask_Mutant == blocked

\* sigprocmask in rash_lua_spawn.
SpawnMask == TRUE

\* rash.spawn: blocks SIGCHLD and forks.  A download's producer and its
\* interpreter are waited for in the same way.
Spawn ==
  /\ MayStart
  /\ \E c \in Children :
       /\ child[c] = "unborn"
       /\ child' = [child EXCEPT ![c] = "running"]
       /\ Push([Frame("spawn") EXCEPT !.pid = c, !.mask = blocked])
  /\ blocked' = SpawnMask
  /\ in_wait' = FALSE
  /\ UNCHANGED <<signalled, sigchld, queue_sigchld, traps, history>>

\* waitpid on that child alone.
SpawnReturns ==
  /\ At("spawn") /\ child[Top.pid] = "zombie"
  /\ child' = [child EXCEPT ![Top.pid] = "reaped"]
  /\ Pop
  /\ blocked' = Unmask(Top)
  /\ UNCHANGED <<signalled, sigchld, queue_sigchld, traps, in_wait, history>>

\* QUEUE_SIGCHLD, in cleanup_dead_jobs and procsub_reap.
Queue ==
  /\ MayStart
  /\ Push([Frame("queue") EXCEPT !.n = sigchld])
  /\ queue_sigchld' = queue_sigchld + 1
  /\ UNCHANGED <<signalled, blocked, sigchld, child, traps, in_wait, history>>

\* UNQUEUE_SIGCHLD: if a SIGCHLD came in between ...
Unqueue ==
  /\ At("queue")
  /\ IF queue_sigchld = 1 /\ Top.n # sigchld
     THEN queue_sigchld' = 1 /\ Become(Frame("reap"))
     ELSE queue_sigchld' = queue_sigchld - 1 /\ Pop
  /\ UNCHANGED <<signalled, blocked, sigchld, child, traps, in_wait, history>>

\* ... its children are reaped.
UnqueueReaps ==
  /\ At("reap")
  /\ WaitChld(Zombies, AfterAll(sigchld), Front(stack))
  /\ queue_sigchld' = 0
  /\ UNCHANGED <<signalled, blocked>>

\* notify_of_job_status without job control: what comes in between is left
\* for whoever reaps next.
Notify ==
  /\ MayStart
  /\ Push(Frame("notify"))
  /\ queue_sigchld' = queue_sigchld + 1
  /\ UNCHANGED <<signalled, blocked, sigchld, child, traps, in_wait, history>>

NotifyReturns ==
  /\ At("notify")
  /\ Pop
  /\ queue_sigchld' = queue_sigchld - 1
  /\ UNCHANGED <<signalled, blocked, sigchld, child, traps, in_wait, history>>

\* The trap builtin: set_signal, ignore_signal or restore_default_signal, which
\* leaves alone a signal that is not trapped, unless its trap is in progress.
\* In one step: the exchange that can miss a child is the one of the trap.
SetTrap ==
  /\ BetweenCommands
  /\ in_wait' = FALSE
  /\ \E value \in Settings :
       LET same == value = "default" /\ ~trapped /\ ~(in_progress /\ trap_list = "impossible")
       IN /\ trap_list' = IF same THEN trap_list ELSE value
          /\ trapped' = IF same THEN trapped ELSE value # "default"
          /\ installed' = (value = "command")
  /\ UNCHANGED <<child, signals, stack, pending_traps, catch_flag, running_trap,
                 in_progress, owed, fired, missed, left_behind>>

-----------------------------------------------------------------------------
(* The trap.                                                                *)

Firings(f) == IF f.at \in TrapAts THEN f.n ELSE 0

\* The firings due in all the frames of s.
Due(s) ==
  LET sum[k \in 0 .. Len(s)] == IF k = 0 THEN 0 ELSE sum[k - 1] + Firings(s[k])
  IN sum[Len(s)]

\* Whether firings queued while the trap runs are left for later.
KeepsFirings == trap_list = "impossible" \/ in_progress

\* run_pending_traps, called before and after every command: it starts the
\* trap, or leaves the firings to the trap that is running.
RunPendingTraps ==
  /\ BetweenCommands /\ catch_flag
  /\ catch_flag' = FALSE
  /\ LET start == pending_traps > 0 /\ trap_list # "impossible" /\ ~in_progress
     IN /\ IF start THEN Push(Frame("read")) ELSE UNCHANGED stack
        /\ in_progress' = (in_progress \/ start)
        /\ running_trap' = IF pending_traps > 0 THEN start ELSE running_trap
        /\ pending_traps' = IF start \/ KeepsFirings THEN pending_traps ELSE 0
  /\ UNCHANGED <<child, signals, trap_list, trapped, in_wait, history>>

\* Does not block SIGCHLD, as before the fix.
DrainMask_Mutant == blocked

\* BLOCK_CHILD in the drain loops.
DrainMask == TRUE

\* The loop of run_pending_traps, and run_deferred_sigchld_traps: x is read ...
DrainRead ==
  /\ At("read")
  /\ Become([Top EXCEPT !.at = "clear", !.n = pending_traps, !.mask = blocked])
  /\ blocked' = DrainMask
  /\ UNCHANGED <<signalled, sigchld, queue_sigchld, child, traps, in_wait, history>>

\* ... the counter is cleared, and the trap run for x children or the loop left.
DrainClear ==
  /\ At("clear")
  /\ pending_traps' = 0
  /\ blocked' = Unmask(Top)
  /\ LET again == [Top EXCEPT !.at = "read", !.n = 0]
     IN IF Top.n > 0
        THEN /\ stack' = Front(stack) \o
                         <<again, [Frame("save") EXCEPT !.n = Top.n, !.was = in_wait]>>
             /\ UNCHANGED <<running_trap, in_progress>>
        ELSE /\ Pop
             /\ running_trap' = (running_trap /\ Top.direct)
             /\ in_progress' = (in_progress /\ Top.direct)
  /\ UNCHANGED <<signalled, sigchld, queue_sigchld, child, catch_flag, trap_list, trapped,
                 in_wait, history>>

\* run_sigchld_trap: it copies the command, which must be one, ...
TrapSaves ==
  /\ At("save") /\ trap_list = "command"
  /\ running_trap' = TRUE
  /\ trap_list' = "default"
  /\ trapped' = FALSE
  /\ Become([Top EXCEPT !.at = "swap"])
  /\ UNCHANGED <<child, signals, pending_traps, catch_flag, in_progress, in_wait, history>>

\* ... puts a sentinel in its place, ...
TrapSwaps ==
  /\ At("swap")
  /\ trap_list' = "impossible"
  /\ fired' = fired + 1
  /\ Become([Top EXCEPT !.at = "body", !.n = @ - 1])
  /\ UNCHANGED <<child, signals, pending_traps, catch_flag, running_trap, trapped, in_progress,
                 in_wait, installed, owed, missed, left_behind>>

\* ... runs the command once for each child ...
BodyAgain ==
  /\ At("body") /\ Top.n > 0
  /\ fired' = fired + 1
  /\ Become([Top EXCEPT !.n = @ - 1])
  /\ UNCHANGED <<child, signals, traps, in_wait, installed, owed, missed, left_behind>>

\* ... and puts the command back, unless the body set another: the string
\* first, then the flag.
BodyEnds ==
  /\ At("body") /\ Top.n = 0
  /\ LET put == trap_list = "impossible" /\ ~trapped
     IN /\ trap_list' = IF put THEN "command" ELSE trap_list
        /\ Become([Top EXCEPT !.at = IF put THEN "restore" ELSE "restored"])
  /\ UNCHANGED <<child, signals, pending_traps, catch_flag, running_trap, trapped, in_progress,
                 in_wait, history>>

TrapRestores ==
  /\ At("restore")
  /\ trapped' = TRUE
  /\ IF Top.direct THEN Pop ELSE Become([Top EXCEPT !.at = "restored"])
  /\ UNCHANGED <<child, signals, pending_traps, catch_flag, running_trap, trap_list, in_progress,
                 in_wait, history>>

TrapReturns ==
  /\ At("restored")
  /\ Pop
  /\ running_trap' = FALSE
  /\ in_wait' = Top.was
  /\ UNCHANGED <<child, signals, pending_traps, catch_flag, trap_list, trapped, in_progress,
                 history>>

\* The trap runs in a function and its command is a `return`, which jumps to
\* the end of the innermost function: one that the commands above the empty
\* stack, or those of an outer body, are in.  execute_function unwinds the
\* frames of run_sigchld_trap, which puts the command back, but not what the
\* calls in between would have done on their way: firings left are given up,
\* running_trap, SIG_INPROGRESS, queue_sigchld and the signal mask stay.
BodyLeaves ==
  /\ At("body")
  /\ \E k \in {0} \union {i \in 1 .. Len(stack) - 1 : stack[i].at = "body"} :
       LET kept == SubSeq(stack, 1, k)
           put == trap_list = "impossible" /\ ~trapped
           outermost == Min({i \in k + 1 .. Len(stack) : stack[i].at \in TrapAts})
       IN /\ stack' = IF put THEN Append(kept, [Frame("restore") EXCEPT !.direct = TRUE])
                      ELSE kept
          /\ trap_list' = IF put THEN "command" ELSE trap_list
          /\ in_wait' = stack[outermost].was
          /\ dropped' = dropped + (Due(stack) - Due(kept))
  /\ left' = TRUE
  /\ UNCHANGED <<child, signals, pending_traps, catch_flag, running_trap, trapped, in_progress,
                 counters>>

-----------------------------------------------------------------------------

Trap ==
  \/ DrainRead \/ DrainClear \/ TrapSaves \/ TrapSwaps \/ BodyAgain \/ BodyEnds
  \/ TrapRestores \/ TrapReturns

Next ==
  \/ ChildExits \/ HandlerReaps \/ HandlerQueues \/ HandlerReturns
  \/ Fork \/ Wait \/ WaitBlocks \/ WaitReturns \/ Spawn \/ SpawnReturns
  \/ Queue \/ Unqueue \/ UnqueueReaps \/ Notify \/ NotifyReturns \/ SetTrap
  \/ RunPendingTraps \/ Trap \/ BodyLeaves

\* Children exit, signals are delivered, calls return, trap bodies end, and a
\* shell that keeps executing commands keeps calling run_pending_traps.
Fairness ==
  /\ WF_vars(ChildExits)
  /\ WF_vars(HandlerReaps \/ HandlerQueues \/ HandlerReturns)
  /\ WF_vars(WaitBlocks \/ WaitReturns \/ SpawnReturns \/ Unqueue \/ UnqueueReaps
             \/ NotifyReturns)
  /\ SF_vars(Trap)
  /\ SF_vars(RunPendingTraps)

Spec == Init /\ [][Next]_vars /\ Fairness

-----------------------------------------------------------------------------
(* Properties.                                                              *)

\* Every child reaped while a trap is installed is accounted for, whoever
\* reaped it, the handler, wait_for or the end of a queueing section: its
\* firing has run, is queued, is due in a trap that is running, was given up by
\* a `return` in the trap, or waitchld did not count it.
OneFiringPerChild ==
  owed = fired + missed + dropped + pending_traps + Due(stack)

\* waitchld fails to count a child only if it is reaped while run_sigchld_trap
\* exchanges the command and the sentinel.
MissedOnlyInExchange ==
  [][missed' # missed => stack # <<>> /\ Top.at \in {"swap", "restore"}]_vars

\* No firing stays queued for ever, also not one queued during a trap, unless
\* the trap is one day left by a `return`: what it leaves set can keep later
\* firings in the queue.
AllFired == <>[](left \/ owed = fired + missed)

\* rash.spawn gets the status of its child: nobody else reaps it.
SpawnKeepsChild ==
  \A i \in DOMAIN stack : stack[i].at = "spawn" => child[stack[i].pid] # "reaped"
=============================================================================
