---------------------------- MODULE Redirections ----------------------------
(***************************************************************************)
(* The descriptors of the shell process: redirections done and undone        *)
(* (redir.c), by compound commands, builtins and functions, null commands    *)
(* and exec (execute_cmd.c, exec.def), and the output capture Rash lays      *)
(* around every simple command once rash.after is registered.               *)
(*                                                                          *)
(* `frames` is the C stack of commands that own redirections.  A list of     *)
(* redirections is done one step at a time, each with its redirector chosen *)
(* when its turn comes, since a hook may stop or an expansion may abandon    *)
(* the list after any of them.  Redirectors are numbers a script may use,    *)
(* below SHELL_FD_BASE; here-documents, {var} redirections and the children *)
(* of the shell are left out, and descriptor 0 is always open.  A capture    *)
(* takes two descriptors, those of standard output; standard error has the  *)
(* same two.                                                                *)
(***************************************************************************)
EXTENDS Naturals, Sequences, SequencesExt, FiniteSets, FiniteSetsExt

CONSTANTS
  MaxFd,          \* the limit on descriptors
  SHELL_FD_BASE,  \* first number for copies the shell keeps
  Files,          \* what a script may open
  Tty, Cap,       \* what descriptors 1 and 2 start as; a capture file
  Closed,
  Redirects,      \* bound: the redirections a command may carry
  MaxRedirects,   \* bound: redirections on the commands in progress
  MaxDepth,       \* bound: nesting of commands
  MaxExecs,       \* bound: times exec changes the shell's descriptors
  Captures        \* may rash.after be registered: a subset of BOOLEAN

ASSUME FdAssumption ==
  MaxFd \in Nat /\ SHELL_FD_BASE \in 3 .. MaxFd /\ MaxRedirects \in Nat /\ MaxDepth \in Nat /\ MaxExecs \in Nat
ASSUME FilesAssumption == Closed \notin Files \union {Tty, Cap}

FDs == 1 .. MaxFd
UserFds == 1 .. SHELL_FD_BASE - 1

\* n>file, n>&m and n>&m-, n>&-, &>file.
RedirectKinds ==
  [ri: {"open"}, to: UserFds, from: Files] \union
  [ri: {"dup", "move"}, to: UserFds, from: UserFds] \union
  [ri: {"close"}, to: UserFds, from: UserFds] \union
  [ri: {"both"}, to: {1}, from: Files]

ASSUME RedirectsAssumption == Redirects \subseteq RedirectKinds /\ Captures \subseteq BOOLEAN

VARIABLES
  fds,                         \* descriptor -> open file
  clexec,                      \* descriptors with the close-on-exec flag
  redirection_undo_list,
  exec_redirection_undo_list,
  frames,
  pc,                          \* "run": between commands; "apply": in do_redirections;
                               \* "exec": in exec_builtin
  capture,                     \* is rash.after registered
  execs,                       \* history: times exec kept its redirections
  tangled                      \* history: a capture met exec, a jump, a resumed job or a
                               \* redirection that closed its copy for good, done or
                               \* failed, or at the descriptor limit a copy took a
                               \* script's number

lists == <<redirection_undo_list, exec_redirection_undo_list>>
vars == <<fds, clexec, lists, frames, pc, capture, execs, tangled>>

\* open: the descriptor had no close-on-exec flag (RX_SAVCLEXEC).
Undos == [op: {"dup"}, to: FDs, from: FDs, open: BOOLEAN] \union
         [op: {"close"}, to: FDs]
Kinds == {"group", "simple", "exec", "null"}

\* undo: what its unwind-protect holds; cap and saved: the capture's
\* descriptors, 0 for -1.  History: the descriptors as it began, the ones its
\* redirections assigned, and the ones they changed without a way back.
Frames == [kind: Kinds, undo: Seq(Undos), cap: FDs \union {0}, saved: FDs \union {0},
           done: 0 .. MaxRedirects,
           before: [FDs -> Files \union {Tty, Cap, Closed}],
           touched: SUBSET UserFds, besides: SUBSET UserFds]

RedirTypeOK ==
  /\ fds \in [FDs -> Files \union {Tty, Cap, Closed}]
  /\ clexec \subseteq FDs
  /\ redirection_undo_list \in Seq(Undos)
  /\ exec_redirection_undo_list \in Seq(Undos)
  /\ frames \in Seq(Frames)
  /\ pc \in {"run", "apply", "exec"}
  /\ capture \in BOOLEAN
  /\ execs \in 0 .. MaxExecs
  /\ tangled \in BOOLEAN

Init ==
  /\ fds = [d \in FDs |-> IF d <= 2 THEN Tty ELSE Closed]
  /\ clexec = {}
  /\ redirection_undo_list = <<>>
  /\ exec_redirection_undo_list = <<>>
  /\ frames = <<>>
  /\ pc = "run"
  /\ capture \in Captures
  /\ execs = 0
  /\ tangled = FALSE

-----------------------------------------------------------------------------
(* The descriptor table.  A table is [fds, clexec, undo, exec, ok]: the       *)
(* descriptors and the two undo lists in the middle of a step, and whether    *)
(* the step may go on.  A definition named *_Mutant is the definition after  *)
(* it with a plausible mistake; no property or action uses it.              *)

Table == [fds |-> fds, clexec |-> clexec, undo |-> redirection_undo_list,
          exec |-> exec_redirection_undo_list, ok |-> TRUE]

IsOpen(t, d) == t.fds[d] # Closed
Free(t, base) == {d \in FDs : d >= base /\ t.fds[d] = Closed}
Fail(t) == [t EXCEPT !.ok = FALSE]

\* dup2 (from, to) of two numbers that differ.
Dup2(t, from, to) ==
  IF IsOpen(t, from)
  THEN [t EXCEPT !.fds[to] = t.fds[from], !.clexec = @ \ {to}]
  ELSE Fail(t)

Close(t, d) == [t EXCEPT !.fds[d] = Closed, !.clexec = @ \ {d}]

\* Opens f on the lowest free number; opened is that number.
Open(t, f) ==
  IF Free(t, 1) = {} THEN Fail(t)
  ELSE [t EXCEPT !.fds[Min(Free(t, 1))] = f]

\* The redirection that puts the copy new_fd back on fd.
SavedDup(t, fd, new_fd) ==
  [op |-> "dup", to |-> fd, from |-> new_fd, open |-> fd \notin t.clexec /\ fd >= 3]

\* Leaves the copy open when exec throws the undo list away.
ExecUndo_Mutant(new_fd) == <<>>

\* Closes the number after it.
ExecUndo_OffByOne(new_fd) == <<[op |-> "close", to |-> new_fd + 1]>>

\* What must be undone even then.
ExecUndo(new_fd) == <<[op |-> "close", to |-> new_fd]>>

\* Copies a descriptor to the first free number from SHELL_FD_BASE up, or to
\* any if there is none, and puts the way back in front of the undo lists.
add_undo_redirect(t, fd) ==
  LET new_fd == Min(IF Free(t, SHELL_FD_BASE) # {} THEN Free(t, SHELL_FD_BASE)
                                                     ELSE Free(t, 1))
  IN IF Free(t, 1) = {} \/ ~IsOpen(t, fd)
     THEN Fail(t)
     ELSE [t EXCEPT !.fds[new_fd] = t.fds[fd],
                    !.clexec = @ \union {new_fd},
                    !.undo = <<SavedDup(t, fd, new_fd),
                               [op |-> "close", to |-> new_fd]>> \o @,
                    !.exec = ExecUndo(new_fd) \o @]

add_undo_close_redirect(t, fd) ==
  [t EXCEPT !.undo = <<[op |-> "close", to |-> fd]>> \o @]

\* Remembers how to undo a redirection of `to`, which is active or not.
Remember(t, to, active) ==
  IF active THEN add_undo_redirect(t, to) ELSE add_undo_close_redirect(t, to)

-----------------------------------------------------------------------------
(* do_redirection_internal, one operator per kind of redirection, with        *)
(* RX_ACTIVE and RX_UNDOABLE.  On failure the undo lists keep what they have. *)

\* n>file: open, remember, dup2, close.
OpenRedirect(t, to, f) ==
  LET fd == Min(Free(t, 1))
      opened == Open(t, f)
      kept == Remember(opened, to, fd # to /\ IsOpen(opened, to))
  IN CASE ~opened.ok -> opened
       [] opened.ok /\ ~kept.ok -> Fail(Close(opened, fd))
       [] OTHER -> IF fd = to THEN kept ELSE Close(Dup2(kept, fd, to), fd)

\* &>file: as 1>file, and then 2>&1.  Whether the copy of 2 could be made is
\* not looked at.
BothRedirect(t, f) ==
  LET first == OpenRedirect(t, 1, f)
      copied == add_undo_redirect(first, 2)
  IN IF first.ok THEN Dup2([copied EXCEPT !.ok = TRUE], 1, 2) ELSE first

\* n>&m: remember, dup2.  A number redirected to itself is left alone.
DupRedirect(t, to, from) ==
  LET kept == Remember(t, to, IsOpen(t, to))
  IN IF to = from THEN t ELSE IF kept.ok THEN Dup2(kept, from, to) ELSE kept

\* n>&m-: also closes m, and remembers that if n was open.
MoveRedirect(t, to, from) ==
  LET kept == Remember(t, to, IsOpen(t, to))
      both == IF kept.ok /\ IsOpen(t, to) THEN add_undo_redirect(kept, from) ELSE kept
      duped == Dup2(both, from, to)
  IN CASE to = from -> t
       [] to # from /\ ~both.ok -> both
       [] OTHER -> IF duped.ok THEN Close(duped, from) ELSE duped

\* n>&-.  If n cannot be remembered it is closed all the same (the fd that
\* REDIRECTION_ERROR is given), and no undo list knows of it.
CloseRedirect(t, to) ==
  LET kept == Remember(t, to, IsOpen(t, to))
  IN IF kept.ok THEN Close(kept, to) ELSE Fail(Close(t, to))

do_redirection_internal(t, r) ==
  CASE r.ri = "open"  -> OpenRedirect(t, r.to, r.from)
    [] r.ri = "both"  -> BothRedirect(t, r.from)
    [] r.ri = "dup"   -> DupRedirect(t, r.to, r.from)
    [] r.ri = "move"  -> MoveRedirect(t, r.to, r.from)
    [] r.ri = "close" -> CloseRedirect(t, r.to)

\* do_redirections of an undo list: RX_ACTIVE and RX_INTERNAL.  It stops at a
\* copy that is no longer there.
UndoOne(t, u) ==
  CASE ~t.ok -> t
    [] t.ok /\ u.op = "close" -> Close(t, u.to)
    [] OTHER -> LET back == Dup2(t, u.from, u.to)
                IN IF u.from \in t.clexec /\ u.to > 2 /\ ~u.open
                   THEN [back EXCEPT !.clexec = @ \union {u.to}] ELSE back

Undone(t, list) ==
  LET undone[n \in 0 .. Len(list)] == IF n = 0 THEN t ELSE UndoOne(undone[n - 1], list[n])
  IN undone[Len(list)]

\* Undoes the oldest redirection first.
cleanup_redirects_Mutant(t, list) == [Undone(t, Reverse(list)) EXCEPT !.ok = TRUE]

cleanup_redirects(t, list) == [Undone(t, list) EXCEPT !.ok = TRUE]

undo_partial_redirects(t) == [cleanup_redirects(t, t.undo) EXCEPT !.undo = <<>>]

-----------------------------------------------------------------------------
(* Stepping a table, and the frames.                                        *)

Becomes(t) ==
  /\ fds' = t.fds
  /\ clexec' = t.clexec
  /\ redirection_undo_list' = t.undo
  /\ exec_redirection_undo_list' = t.exec

Top == Last(frames)
Quiet == UNCHANGED <<capture, execs, tangled>>

\* Closes the capture file and leaves standard output on it.
EndCapture_Mutant(t, f) ==
  IF f.cap = 0 THEN t ELSE Close(Close(t, f.saved), f.cap)

\* The end of execute_simple_command: standard output back, both closed.
EndCapture(t, f) ==
  IF f.cap = 0 THEN t
  ELSE LET back == IF f.saved # 1 THEN Dup2(t, f.saved, 1) ELSE t
       IN [Close(Close(back, f.saved), f.cap) EXCEPT !.ok = TRUE]

\* The command on top ends, leaving its descriptors as in t.
Return(t) ==
  /\ Becomes(EndCapture(t, Top))
  /\ frames' = Front(frames)
  /\ pc' = "run"

\* mkstemp, dup and dup2: a capture that cannot be set up is given up.
BeginCapture(t) ==
  LET made == Open(t, Cap)
      cap == Min(Free(t, 1))
      saved == Min(Free(made, 1))
  IN IF capture /\ made.ok /\ Free(made, 1) # {} /\ IsOpen(t, 1)
     THEN [table |-> [made EXCEPT !.fds[saved] = t.fds[1], !.fds[1] = Cap],
           cap |-> cap, saved |-> saved]
     ELSE [table |-> t, cap |-> 0, saved |-> 0]

\* do_redirections begins: with RX_UNDOABLE it forgets the lists it finds.
Begin(kind, t, cap, saved) ==
  /\ Becomes([t EXCEPT !.undo = <<>>, !.exec = <<>>])
  /\ frames' = Append(frames, [kind |-> kind, undo |-> <<>>, cap |-> cap, saved |-> saved,
                               done |-> 0, before |-> fds, touched |-> {}, besides |-> {}])
  /\ pc' = "apply"
  /\ Quiet

\* execute_command_internal: a loop, group or conditional.
GroupStarts ==
  /\ pc = "run" /\ Len(frames) < MaxDepth
  /\ Begin("group", Table, 0, 0)

\* execute_null_command: a command without words, or one whose words
\* rash.on_expand refused.
NullStarts ==
  /\ pc = "run" /\ Len(frames) < MaxDepth
  /\ Begin("null", Table, 0, 0)

\* execute_simple_command up to do_redirections of a builtin or function.
SimpleStarts ==
  /\ pc = "run" /\ Len(frames) < MaxDepth
  /\ LET c == BeginCapture(Table)
     IN \E kind \in {"simple", "exec"} : Begin(kind, c.table, c.cap, c.saved)

\* A denial by rash.on_redirect_policy, before the first redirection.
PolicyDenies ==
  /\ pc = "apply" /\ Top.kind \in {"simple", "exec"} /\ Top.done = 0
  /\ Return(Table)
  /\ Quiet

\* auto_resume: the stopped job runs and execute_simple_command returns at
\* once, capture and all.
ResumeJob ==
  /\ pc = "apply" /\ Top.kind = "simple" /\ Top.done = 0
  /\ frames' = Front(frames)
  /\ pc' = "run"
  /\ tangled' = (tangled \/ Top.cap # 0)
  /\ UNCHANGED <<fds, clexec, lists, capture, execs>>

-----------------------------------------------------------------------------
(* do_redirections, from its first redirection to what its caller does next. *)

\* The descriptor r changes besides its redirector, and whether the undo list
\* of t, the table after it, covers it: 2 of &>file if a copy of it could be
\* made, m of n>&m- if n was open.  If not, it is never undone.
Besides(r) ==
  CASE r.ri = "both" -> {2}
    [] r.ri = "move" /\ r.to # r.from -> {r.from}
    [] OTHER -> {}
Covered(r, t) == IF r.ri = "both" THEN Head(t.undo).to = 2 ELSE IsOpen(Table, r.to)
Uncovered(r, t) == {d \in Besides(r) : ~Covered(r, t)}

\* A number redirected to itself is not assigned.
Assigns(r) == IF r.ri \in {"dup", "move"} /\ r.to = r.from THEN {} ELSE {r.to}

Redirected(f, r, t) ==
  [f EXCEPT !.done = @ + 1,
            !.touched = @ \union Assigns(r) \union (Besides(r) \ Uncovered(r, t)),
            !.besides = @ \union Uncovered(r, t)]

\* The redirections of the commands in progress.
Done ==
  LET done[n \in 0 .. Len(frames)] == IF n = 0 THEN 0 ELSE done[n - 1] + frames[n].done
  IN done[Len(frames)]
More == Done < MaxRedirects

\* A copy to be put back is kept under a number a script may use.
CopyExposed(t) == \E i \in DOMAIN t.undo : t.undo[i].op = "dup" /\ t.undo[i].from \in UserFds

\* One more redirection of the list.
Redirect ==
  /\ pc = "apply" /\ More
  /\ \E r \in Redirects :
       LET t == do_redirection_internal(Table, r)
       IN /\ t.ok
          /\ Becomes(t)
          /\ frames' = Append(Front(frames), Redirected(Top, r, t))
          /\ tangled' = \/ tangled
                        \/ CopyExposed(t)
                        \/ \E i \in DOMAIN frames : frames[i].saved \in Uncovered(r, t)
  /\ UNCHANGED <<pc, capture, execs>>

\* Does not undo what the list did before it failed.
UndoFailed_Mutant(t) == [t EXCEPT !.undo = <<>>, !.exec = <<>>]

\* undo_partial_redirects and dispose_exec_redirects.
UndoFailed(t) == [undo_partial_redirects(t) EXCEPT !.exec = <<>>]

\* The script's descriptor that a failing n>&- has closed.
Lost(t) == {d \in UserFds : IsOpen(Table, d) /\ ~IsOpen(t, d)}

\* The next one fails: it cannot be opened, is ambiguous or refused by
\* rash.on_redirect (nothing done), or by the descriptor limit or a closed
\* source (the undo list may have grown).
RedirectFails ==
  /\ pc = "apply" /\ More
  /\ \E t \in {Table} \union {do_redirection_internal(Table, r) : r \in Redirects} :
       /\ t.ok => t = Table
       /\ Return(UndoFailed([t EXCEPT !.ok = TRUE]))
       /\ tangled' = (tangled \/ \E i \in DOMAIN frames : frames[i].saved \in Lost(t))
  /\ UNCHANGED <<capture, execs>>

\* A non-local jump runs the unwind-protects of every frame, the newest first;
\* captures have none.  What it leaves in exec_redirection_undo_list the next
\* do_redirections forgets; it is forgotten here.
Unwound(t) ==
  LET unwound[n \in 0 .. Len(frames)] ==
        IF n = 0 THEN t
        ELSE cleanup_redirects(unwound[n - 1], frames[Len(frames) + 1 - n].undo)
  IN unwound[Len(frames)]

Jump(t) ==
  /\ Becomes([Unwound(t) EXCEPT !.undo = <<>>, !.exec = <<>>])
  /\ frames' = <<>>
  /\ pc' = "run"
  /\ tangled' = (tangled \/ \E i \in DOMAIN frames : frames[i].cap # 0)
  /\ UNCHANGED <<capture, execs>>

\* Jumps without undoing the list it was in the middle of.
AbandonList_Mutant(t) == t

\* exp_jump_to_top_level in redirection_expand.
AbandonList(t) == undo_partial_redirects(t)

\* The word of the next redirection has an expansion error.
RedirectJumps ==
  /\ pc = "apply" /\ More
  /\ Jump(AbandonList(Table))

\* Treats exec like the other builtins.
saved_undo_list_Mutant == redirection_undo_list

\* What goes into the unwind-protect, and is undone in the end.
saved_undo_list ==
  IF Top.kind = "exec" THEN exec_redirection_undo_list ELSE redirection_undo_list

\* The list is done.  A group, builtin or function moves its undo list into an
\* unwind-protect; exec keeps its own and moves the other one.
RedirectsDone ==
  /\ pc = "apply" /\ Top.kind # "null"
  /\ frames' = Append(Front(frames), [Top EXCEPT !.undo = saved_undo_list])
  /\ redirection_undo_list' = IF Top.kind = "exec" THEN redirection_undo_list ELSE <<>>
  /\ exec_redirection_undo_list' = <<>>
  /\ pc' = IF Top.kind = "exec" THEN "exec" ELSE "run"
  /\ UNCHANGED <<fds, clexec>>
  /\ Quiet

\* A null command undoes its redirections at once, failed or not (and leaves
\* exec_redirection_undo_list to be forgotten).
NullReturns ==
  /\ pc = "apply" /\ Top.kind = "null"
  /\ Return(UndoFailed(Table))
  /\ Quiet

\* The body of a group, builtin or function is over, or rash.on_builtin or
\* rash.on_function refused it.
BodyReturns ==
  /\ pc = "run" /\ frames # <<>>
  /\ Return(cleanup_redirects(Table, Top.undo))
  /\ Quiet

\* An error, interrupt or `set -e` in a body jumps to the top level.
BodyJumps ==
  /\ pc = "run" /\ frames # <<>>
  /\ Jump(Table)

-----------------------------------------------------------------------------
(* exec.                                                                    *)

\* execute_builtin_or_function once exec_builtin has returned: what it left in
\* redirection_undo_list is undone, or else only the copies are closed.
AfterExec(t) ==
  IF t.undo # <<>> THEN undo_partial_redirects(t) ELSE cleanup_redirects(t, Top.undo)

\* Without operand exec throws its undo list away.
ExecKeeps ==
  /\ pc = "exec" /\ execs < MaxExecs
  /\ execs' = execs + 1
  /\ Return(AfterExec([Table EXCEPT !.undo = <<>>]))
  /\ tangled' = (tangled \/ \E i \in DOMAIN frames : frames[i].cap # 0)
  /\ UNCHANGED capture

\* With one it could not run, or was not allowed to, in a shell that goes on.
ExecFails ==
  /\ pc = "exec"
  /\ Return(AfterExec(Table))
  /\ Quiet

Next ==
  \/ GroupStarts \/ NullStarts \/ SimpleStarts \/ PolicyDenies \/ ResumeJob
  \/ Redirect \/ RedirectFails \/ RedirectJumps \/ RedirectsDone
  \/ NullReturns \/ BodyReturns \/ BodyJumps
  \/ ExecKeeps \/ ExecFails

Spec == Init /\ [][Next]_vars

-----------------------------------------------------------------------------
(* Properties.                                                              *)

\* The descriptors a command gives another meaning while it runs.
Assigned(f) == f.touched \union (IF f.cap = 0 THEN {} ELSE {1, f.cap, f.saved})

EndedFrames == Len(frames') + 1 .. Len(frames)

\* The step is the failure of an n>&- that closed d.
ClosedForGood(d) ==
  /\ pc = "apply"
  /\ \E r \in Redirects :
       LET t == do_redirection_internal(Table, r)
       IN ~t.ok /\ d \in Lost(t) /\ Return(UndoFailed([t EXCEPT !.ok = TRUE]))

\* When commands end, by returning, failing, being refused or by a jump, each
\* descriptor they redirected designates what it did before the outermost of
\* them, and the others are left as their bodies left them.  Left out, because
\* the code does not undo them: the 2 of &>file when no copy of it was made,
\* the m of n>&m- when n was closed, and the n of an n>&- that failed for want
\* of a descriptor for the copy, unless the command had redirected n before.
RestoredOnEnd ==
  [][\/ Len(frames') >= Len(frames) \/ ExecKeeps \/ tangled'
     \/ \A d \in UserFds \ UNION {frames[i].besides : i \in EndedFrames} :
          LET owners == {i \in EndedFrames : d \in Assigned(frames[i])}
          IN \/ fds'[d] = IF owners = {} THEN fds[d] ELSE frames[Min(owners)].before[d]
             \/ owners = {} /\ ClosedForGood(d)]_vars

\* exec without operand changes the shell's own descriptors for good.
ExecPermanent ==
  [][ExecKeeps => \/ tangled'
                  \/ \A d \in UserFds : fds'[d] = fds[d]]_vars

\* Between top-level commands the shell holds no copy of a descriptor.
NoCopiesLeft ==
  frames = <<>> /\ ~tangled => \A d \in FDs \ UserFds : fds[d] = Closed
=============================================================================
