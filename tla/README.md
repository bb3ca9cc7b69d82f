# A TLA+ verification project for Rash

Rash is a fork of GNU Bash 5.3 with a policy runtime: Lua callbacks loaded from
a directory that see, wrap, answer or refuse the commands the shell is about to
run. The shell itself is inherited; what is Rash's own is `hooks.c`, the calls
into it from `execute_cmd.c`, `redir.c`, `builtins/evalstring.c`,
`builtins/reloadhooks.def` and `shell.c`, and changes to the accounting of
children in `jobs.c` and `trap.c`. This project models that runtime and the
inherited code it leans on: what C does about whatever a callback, a child or a
signal does. A Lua callback is the environment; every model lets it do what
its interface allows, in any order, within the limits section 2 names.

## 1. Inventory

### Components

| component | state | operations | modelled in |
|---|---|---|---|
| parse-stage hook chain (`rash.hook`) | `RASH_HOOK_CONTEXT` (active, executed, denied, result), the runners, `current_hook_enforcing`, `active_hook_context`, `hook_execution_depth`, `rash_lua_call_depth` | `rash_hooks_active`, `rash_hooks_execute`, `rash_invoke_hook`, `rash_hook_run`, `rash_execute_original`, `rash_mark_denied`, `rash_lua_deny`, `rash_unwind_hook_context` | `HookChain` |
| Rack (`rash.use`) | `rack_depth`, `rack_denied`, the saved enforcing flag of each layer | `rash_rack_execute`, `rash_rack_invoke`, `rash_rack_next` | `Rack` |
| structured undo | the undo directory: the counter `seq`, one numbered directory per preimage with `path`, `meta`, `data`; the apply window | `rash_lua_snapshot_file`, `rash_undo_next_seq`, `rash_undo_copy_file`, `rash_lua_undo_last`, `rash_undo_remove_entry`, apply begin and end | `UndoStore`, abstractly `UndoStack` |
| hook loading and reload | `rash_lua`, `retired_lua`, fifteen callback tables with counts and enforcing bits, `hook_state`, the manifest, `hook_command_depth` | `rash_hooks_initialize`, `rash_hooks_load_configuration`, `rash_load_hook(s)`, manifest collect and match, `reloadhooks`, command begin, end and unwind | `HookReload` |
| simple-command stages (before, dispatch, expand, redirect policy, redirect, clobber, after, builtin, function, exec, pipeline) | `stage_denied`, the `in_*_stage` flags, `current_hook_enforcing` | `rash_hooks_before_simple` and its siblings, called from `execute_simple_command`, `execute_pipeline`, `do_redirection_internal`, `shell_execve` | `SimpleCommand` |
| redirections, undo lists, output capture | the descriptor table, `redirection_undo_list`, `exec_redirection_undo_list`, the capture's descriptors | `do_redirections`, `add_undo_redirect`, `cleanup_redirects`, `exec_builtin`, the capture around a simple command | `Redirections` |
| download-pipe installer approval | `download_pipe_handled`, `download_pipe_exec_status`, the captured bytes | `rash_capture_argv_stdout`, `rash.approve_bytes`, `rash.exec_with_stdin` | `DownloadPipe` |
| `rash.spawn` | a child, two pipes, the captured output | fork, poll loop, waitpid | `DownloadPipe` (pipes), `ChildTrap` (reaping) |
| SIGCHLD trap accounting | `pending_traps`, `sigchld`, `queue_sigchld`, the trap and its sentinel | `sigchld_handler`, `waitchld`, `wait_for`, `run_pending_traps`, `run_deferred_sigchld_traps`, `run_sigchld_trap` | `ChildTrap` |
| stdio bundle, `RASH_CAPTURE_FD`, `rash.audit` | none that outlives a call | formatting and writing | partly: when the bundle's callbacks run (`SimpleCommand`), what the capture does to descriptors (`Redirections`); what is written is formatting |
| packaged policies (`hooks/*.lua`) | none | pattern matching on words and paths | not modelled: a policy is one behaviour of the callbacks' nondeterminism |
| the Bash inheritance (parser, expansion, variables, job control, builtins, readline, glob, malloc) | - | - | only where Rash leans on it: redirections, `exec`, `wait_for`, `waitchld`, forks around simple commands |

### How they interact

A command from the reader enters `execute_command`, which counts
`hook_command_depth` and looks for new hook files when the count was zero. It
calls the Rack, which passes the command through the `rash.use` layers by
callbacks; the innermost `next()` calls `execute_command_internal`. There
`rash_hooks_active` decides whether the parse-stage chain runs; its innermost
`run()` calls `execute_command_internal` again with `hook_execution_depth`
raised, which is the command's body. Bodies nest: loops, functions and lists
call `execute_command`, `eval` and `-c` strings enter at the Rack without
`execute_command`. All of this is one thread; the difficulty is reentry,
callbacks that keep what they were lent, and `longjmp` to the shell's top level
through C and Lua frames, which skips every statement that has no unwind frame.

Inside the body, `execute_simple_command` asks the callbacks of the stages on the
way, some of them in the shell and some in the child it has forked by then, each
process with its own copy of the globals. Its redirections are done by `redir.c`
under the capture that `rash.after` asks for. A pipeline that pipes a download
into a shell is taken over before it is forked. Callbacks may start children,
with pipes of their own, that the shell's SIGCHLD handler must leave alone.

Concurrency has three sources: children and the pipes to them; the SIGCHLD
handler, which runs between any two statements unless it is blocked; and the
undo directory, which several shells, and the forked children of a pipeline, use
without a lock.

### What is hard, and what makes each component correct

* Hook chain: the command runs at most once; never after a refusal; not before
  all hooks were asked; is not dropped; the depths come back to zero after a
  jump; only files that are root's may refuse; every command ends.
* Rack: the same questions with weaker bookkeeping, since `next()` has no memory.
* Undo: an acknowledged preimage survives faults, crashes and other processes
  until it is undone; undo restores in stack order and unlinks only what did
  not exist.
* Loading: a failed replacement leaves the previous policy in force; no Lua
  state is closed under its own callbacks; in mtime mode an outermost command
  starts under the callbacks of the files as they are, if those load.
* Simple commands: nothing runs before every callback on its path was asked, nor
  after one refused; nothing else stops it; no stage leaves its flags to the
  next; a forked child never carries on as a second shell.
* Redirections: what a command redirects is as before when it ends, in whichever
  way it ends; `exec` is the exception and stays; no copy is left open.
* Children: each child reaped under a trap fires it exactly once, whoever reaps
  it and whenever; `rash.spawn` gets its own child's status.
* Download pipes: only what a person approved is run, all of it, and no failure
  falls through to the plain pipeline; no call waits for ever on full pipes.

`PROJECT.json` lists the hazards line by line, with the properties for each.

## 2. The modules and the code

Every definition that models code is mapped to its lines in `PROJECT.json`. A
definition named `X_Mutant` precedes `X` and is `X` with a plausible mistake; no
specification uses it. It exists to show that the property it is paired with can fail.

### HookChain

One command at a time. `frames` is the C stack of `rash_invoke_hook` calls, each
with the hook it is in; `index` is the argument of the call about to start; `pc`
says whether C is about to invoke (`invoke`), a callback runs (`lua`), or the
original command does (`body`). `fresh[i]` counts the unused runners of this
command whose `next_hook` is `i`: any callback may call any of them, since Lua
values can be passed around. `stale` are runners kept in Lua globals beyond
their command. Their context is Lua userdata nobody refers to any more, so what
`rash_hook_run` reads through it is undefined; `HookRunStale` models the outcome
that hurts, the memory being the present command's context, and calling a
runner that is recognised as dead or used is an error like any other
(`HookFails`). `MarkDenied`, `MarkExecuted`,
`Decided`, `NextHook` are the decisions of `rash_mark_denied`,
`rash_execute_original` and `rash_invoke_hook`. `BodyUnwinds` is `longjmp` to
top level with the unwind frame that `rash_hooks_execute` has set.

The variables `runs`, `invoked`, `refused`, `replaced`, `reused` and `ended` are
history; only properties read them.

### Rack

The same shape with the Rack's own rules: `next()` may be called any number of
times (`MaxNexts` per command), every layer saves and restores
`current_hook_enforcing`, `rack_denied` is one flag for all layers and is cleared
on entry to each, a failing advisory layer is replaced by the command itself,
`rack_depth` has no unwind frame, and `RASH_EXEC=c` or a raised `rack_depth` goes
round the Rack (`DirectExecute`). `BodyDenies` is a callback of `rash.after` or the
stdio bundle inside the command: its `rash.deny` is taken for one of the Rack.

### UndoStore and UndoStack

Each system call that changes the directory or a user's file is a step of its
own: reading, truncating and rewriting `seq`; `mkdir` of the entry; `path` and
`meta`; the copy; closing `meta`. For undo: unlink, or truncate and rewrite the
file; removal of the entry in two steps; truncating and rewriting `seq`. A process may fail (`Faults`)
or die (`Crashes`) at each of them, and a user's command may write between
them. `UndoStack` is the promise, a stack of preimages; `UndoStore` implements
it under the mapping `StackOf` (the k-th completed entry in the order of their
numbers) and `StackFile` (a file under restoration counts as unrestored).

Three things are left out: file modes (they travel with the contents), the
refusal of irregular and oversize files (it precedes every change), and the
default directory (named after the process; the model is of `RASH_UNDO_DIR`).

### HookReload

`directory` and `env` are the hook files and the two environment variables,
which change while commands run. A hook file is abstracted to the table it
registers in, whether it loads, and whether it is trusted. `rash.hook` stands
for the eleven tables a failed load restores, `rash.use` for the four it does
not. A table is a function on the numbers of the files registered in it. `stack` has a frame for each `execute_command`, string, layer, hook and
direct `reloadhooks`, with the Lua state a callback lives in; `dangling` are
states that have been closed with a callback of theirs on the stack.
`LoadConfiguration` is one step; `Initialize(force)` with its two early returns
is shared by the four callers. `RackBypass` is `RASH_EXEC=c`, which any command may
meet. `BodyUnwinds` restores what the code's unwind
frames restore and nothing else.

Left out: a change of `RASH_HOOK_DIR` itself, `RASH_HOOK_ENFORCE_UNOWNED`,
running traps (they only turn hooks off), and the contents of the manifest (it
either describes the directory or does not; every edit is taken to show in the
metadata).

### SimpleCommand

Each process (the shell and the children it forks) has a stack of commands and
its own copy of `stage_denied`, the `in_*_stage` flags and
`current_hook_enforcing`; `fork` copies them. A frame is at a stage, with the
callback `i` of it running, or at a point of `execute_simple_command` between
stages. `Stage` is the shape every `rash_hooks_*` function has: no callbacks, or
running a trap where the function looks at that, and it is left at once. The
`Leave...` operators say what the caller does with the result, and since a
stage's continuation names the next stage they are written from the end of
`execute_simple_command` to its beginning. `CallbackEnds` is one callback: it
returns, denies, or fails, in a process that may be refused or stopped. What is
executed (`run`) becomes known after expansion and dispatch; the fallback of a
builtin to the program of the same name and `exec` go back to earlier points.
`asked`, `refused`, `stopped` and `ran` are history.

Left out: assignments, the arguments callbacks see and return, compound
commands, a callback that runs commands of the shell by a `next()` or `run()` it
kept, `lastpipe`, autocd, `auto_resume`.

### Redirections

The descriptor table of one shell. A list of redirections is done one at a time
(`Redirect`), and any of them may fail (`RedirectFails`) or abandon the list
(`RedirectJumps`). The operators on a `Table` are `do_redirection_internal`
by kind: `OpenRedirect`, `BothRedirect`, `DupRedirect`, `MoveRedirect`,
`CloseRedirect`; `add_undo_redirect` chooses the number of the copy as
`fcntl (F_DUPFD)` does, with its fallback. `Undone` executes an undo list and
`Unwound` the lists of all frames, as a jump does. When the list is done, the undo
list moves into the frame, which stands for the unwind-protect; `exec` keeps the two
lists apart until it knows whether it stays. `before`, `touched`, `besides`,
`execs` and `tangled` are history. `tangled` marks behaviours no property speaks
of, and the run stops there: a capture around `exec`, around a jump or around a
resumed job; a redirection, done or failed, that closes a capture's copy for good;
and a copy that landed on a number scripts use (section 5).

Left out: here documents, `{var}` redirections, coprocesses, the contents of
files, standard error's half of the capture (it has the same two statements).

### ChildTrap

`stack` is the C stack of the shell with the frames that matter: waits, `rash.spawn`,
sections that queue SIGCHLD, the handler, the drain loops, `run_sigchld_trap`.
The handler may run between any two steps while SIGCHLD is not `blocked`, so
the statements between which that matters are steps of their own: reading and
clearing `pending_traps`, copying the trap and replacing it by the sentinel,
putting back string and flag. `WaitChld` is `waitchld` without its loop: it
reaps a set of children and counts, queues or runs the trap. `installed`, `owed`,
`fired`, `missed`, `dropped` and `left` are history.

A body ends (`BodyEnds`) or is left by a `return` (`BodyLeaves`), which jumps to the
innermost function: over the frames of this trap, and of the waits, drains and
traps between it and that function. The function may be among the commands above
the empty stack, or among those of an outer trap's body. `execute_function` runs
the unwind frames of `run_sigchld_trap` on the way, so the trap is put back, in the
same two statements (`TrapRestores`); everything else the frames would have done
on their way out is not done.

Left out: stopped jobs, jobs of several processes, traps on other signals,
terminating signals, POSIX mode.

### DownloadPipe

The shell has one child at a time: producer, helper or consumer. Streams are
counted in chunks: a child writes in order, so how much was read says what was
read. A child can block on a full pipe, exit with either status at any point where
it is not blocked, and leave a descendant (`holder`) with its end of the pipes.
Every wait of the shell (`read`, `poll`, `write`, `waitpid`) can be interrupted by
a signal where the code has no retry. A callback is the packaged
`hooks/approve_download_pipe.lua`, which asks and then runs or denies, or any
other, which calls anything in any order and may catch errors. `agreed`, `fed` and
`script.cut` are history.

Left out: matching the shape of the pipeline (a choice), what the bytes look like
on the terminal, `execve` failing in a child (a failure status).

## 3. The runs

Twelve configurations. Sizes are distinct states; each run takes under two minutes
with two workers.

| run | instance | shows |
|---|---|---|
| `hook_chain` | 3 hooks, one kept runner; 272,023 states | type, `BodyAtMostOnce`, `RefusalIsFinal`, `NoHookBypassed`, `NeverDropped`, `DepthsRestored`, `NoReentry`, `OnlyEnforcingDenies`, and `CommandEnds` under fairness |
| `rack` | 3 layers, 4 calls of `next()`; 21,060 | type, `BalancedOnReturn`, `OuterLayersAsked`, `DenyAbortsWithoutNext`, `OnlyEnforcingLayersDeny` |
| `undo_stack` | 1 process, 2 files, 3 entries; 77,643 | type, and `IsAStack`: the refinement of `UndoStack` |
| `undo_shared` | 2 processes, all faults, crashes, 2 entries; 569,955 | `AckedKept`, `SnapshotsExclusive` |
| `hook_reload` | 1 file name, 3 kinds of file, nesting; 1,709,632 | type, `HookTablesMatch`, `HookStateOpen`, `NothingPending`, `OutermostIsFresh` |
| `redirections` | 3 script descriptors, 7 redirections, 3 at once, depth 2, 1 `exec`; 1,445,849 | type, `RestoredOnEnd`, `ExecPermanent`, `NoCopiesLeft` |
| `child_trap` | 3 children, stack of up to 6 frames; 137,418 | type, `OneFiringPerChild`, `SpawnKeepsChild`, `MissedOnlyInExchange`, and `AllFired` under fairness |
| `simple_command` | shell and 1 child at a time, depth 2, 13 sets of callbacks; 1,399,717 | type, `EveryCallbackAsked`, `RefusalDecides`, `FlagsClear` |
| `download_pipe` | 2 callbacks, buffers of 1 chunk, pipes of 2, outputs of up to 3; 674,504 | type, `RunsWhatWasApproved`, `SpawnComplete`, and `CallsReturn` under fairness |
| `undo_unlinks`, `dispatch_runaway`, `truncated_script` | as above, smaller | each refutes one sentence of the documentation (section 5) |

### Bounds and why they are enough

* Three hooks (layers): one that acts, one outside it and one inside it; each is
  enforcing or advisory independently, so every order of the two kinds occurs.
  Commands follow each other without bound. One kept runner is enough to meet
  a later command in any of its states.
* Four calls of `next()`: one each to reach the body through three layers and one
  more, so that a second pass happens at any layer.
* Entries: three suffice for an undo below another undo; two for two processes
  that collide on a number. Two contents tell a preimage from what replaced it.
* One hook file: a directory is then in five states (none, empty, a hook, a layer
  that must be allowed, a layer whose file fails), which covers every branch of
  a load. A command starts under at most two frames, so stacks such as command,
  layer, command, hook occur, and a reload under each of them.
* `UndoAlone = TRUE`: an undo begins only when no other operation is under way,
  as when a person types it, while snapshots overlap freely. The code does not
  enforce this. Without it an undo reads and removes entries a snapshot or
  another undo is working on, and `AckedKept` does not hold; no document of the
  repository promises it.
* `StringsAtTop = FALSE` in `hook_reload`: commands come from the reader. With
  strings run outside `execute_command` `HookStateOpen` fails (section 5).
* Redirections: 1 and 2 start open and 3 closed, so both ways of remembering a
  redirector occur; the copies have four numbers (`MaxFd` 7 from `SHELL_FD_BASE` 4;
  10 in the code), which three redirections and a capture exhaust, so the
  descriptor limit is met. Two nested commands suffice for an inner one that
  redirects what an outer one redirected.
* Children: three are one running in the trap, one that exits during it, and one
  during the drain that follows. Six frames hold a wait, the trap under it, a
  nested wait, and the handler on top. `Settings = {"command"}`: the trap is
  replaced but never reset to default while firings are queued; section 5 says
  what the code does then.
* Simple commands: two nested commands put a command of a function, a pipeline or
  a trap inside another's stages; one child at a time is forked again and again.
  A stage has an advisory and an enforcing callback, so a refusal comes second
  after one that must not count; a thirteenth table puts callbacks in five stages at
  once, so that one stage's leftovers can reach the next.
* Download pipes: outputs exceed both buffers and the pipe, so oversize, truncated
  and blocked children occur; the second callback inherits what the first left.

### Fairness

* `hook_chain`: `WF_vars(Step)`, every step of a command under way, not the start of
  a new one. A callback is cut off by the Lua instruction allowance
  (`rash_lua_pcall`), so Lua always returns to C; C's own steps do not block. That
  the body of a command ends is an assumption about the user's command.
  `CommandEnds` is then about the chain: that hooks cannot keep each other's
  runners busy for ever, because each runner works once.
* `child_trap`: weak fairness for children that exit, for the delivery of SIGCHLD and
  for calls that can return: programs end, and the kernel delivers. Strong
  fairness for the steps of a running trap and for `run_pending_traps`: both are
  disabled again and again, by the handler and by commands the trap body starts,
  yet a shell that goes on executing comes back to them after every command.
  Nothing makes the shell fork, wait, spawn or set a trap.
* `download_pipe`: weak fairness for the shell's own reads, writes and waits when
  they can proceed, and for the child when it can. That a child finally ends is
  an assumption about programs (`MaxOutput` bounds what it writes). None for
  the descendant that holds a pipe, hence the exception in `CallsReturn`, and none
  for signals.

## 4. The proofs

Each component's theorems are in a module of their own, `<Component>Proofs`, that
extends the component's module. Most begin with the same few lemmas: pushing and
popping a sequence of frames (`FrontLast`, `PushTop`, `ReplaceTop`, `TopAndRest`) and
induction over the natural numbers for a set (`NatSetInduction`).
The theorems hold for every value of the constants that satisfies the named assumptions,
so for every bound of section 3: any number of hooks, layers, processes,
children, callbacks and nested commands. `PROJECT.json` lists the theorems with the
property each one states. The properties are not inductive as they stand. In every module
an invariant `IInv` is, with one lemma per action that it is preserved, and the
theorems are read off it.

### HookChainProofs

`TypeCorrect`, `OnceTheorem`, `RefusalTheorem`, `NotLostTheorem`, `Depths`,
`NoReentryTheorem`, `OnlyEnforcingDeniesTheorem`, `NoBypass`, `ChainShrinks`.
`IInv == TypeOK /\ StackInv /\ OutcomeInv /\ ModeInv`:

* `StackInv` ties control to the counters: the Lua call depth is the number of
  frames, `hook_execution_depth` is one exactly in the body, the context is active
  exactly during a command. `DepthsRestored` needs it because the depths are
  restored by arithmetic in some exits and by assignment in others.
* `OutcomeInv` ties the flags of the context to the history. The key fact is that
  `executed` is set by every decision and never cleared, so
  `rash_execute_original` cannot start twice nor after a denial.
* `ModeInv`: when a callback may deny, the hook on top of the stack is enforcing.
  `current_hook_enforcing` is global, so this needs the clearing at the end of
  every callback.

`NoBypass` adds `OrderInv`: until a runner of an earlier command is used, a runner, a
call or a frame at position i lies behind hooks 1 to i-1, all of which have been
invoked.

`ChainShrinks` is the safety core of `CommandEnds`, for any number of hooks: every
step of a command but its last lowers `Budget`, and `LessIsWellFounded` shows that
nothing can be lowered for ever. The budget has one number per position of the
chain, compared in order: three for an unused runner there, two for a call about
to start, one for a callback that runs. Using a runner pays for the call, the
call for the frame; what a call creates (the next runner) and what it falls through
to lie at later positions. What remains for `CommandEnds` is that steps are taken,
the fairness of section 3.

### RackProofs

`RackTypeCorrect`, `Balanced`, `OuterFirst`, `DenyAborts`, `OnlyEnforcingLayers`.
`DepthInv` says when `rack_depth` is 1 and how the Lua depth counts frames; it has an
exception for a command that jumped, which leaves both behind. `AskedInv`: with a
layer all outer ones were asked, and a call about to start is behind what was
asked, whoever's `next()` started it. `ModeInv`: the enforcing flag, and each copy of
it saved in a frame, is set only for an enforcing layer, so restoring a copy never
gives an advisory layer the right to deny. `DenyInv`: a denial that stands is
in `rack_denied` while the layer runs. `OnlyEnforcingLayers` is about the layers:
what a callback inside the command denies (section 5) is outside it.

### UndoStoreProofs

`UndoTypeCorrect`, `Exclusive` and `Kept` hold for any number of processes, whatever
fails and whoever dies, under `Alone`: an undo has the directory for itself
(`UndoAlone`, section 3), or there is one process only. `AckedKept` and
`SnapshotsExclusive` are part of `IInv`; what makes them inductive is `AloneInv`,
`FillingInv` (a snapshot under way owns its entry: it is there, names the
snapshot's file, nobody has been promised it, and its data is as far as the
operation is) and `RemovingInv` (an undo removes an entry that is there, and after
its data is gone nobody relies on it). `mkdir` is where a snapshot comes to own an
entry, although two may have read the same number.

`StackRefinement`: for one process, without faults and crashes, `Spec => IsAStack`.
TLC finds it violated with crashes, and with failures that leave an entry without
its files or a file half restored. (A failing copy or close does not violate it,
but only because the unlinking of section 5 then passes for a user's write.) `SoleInv` says, for every place of the
operation, which entries are whole, where the counter is, and what the file under
restoration must hold; `HeightOf` is the height of the stack at that place. A
snapshot maps to one abstract step, the closing of `meta` (`SnapClose`); an undo to the
step that unlinks or rewrites the file (`UndoUnlink`, `UndoRestore`); a user's
write to a write; every other step, among them truncation and the two removals,
to a stutter.

### HookReloadProofs

`ReloadTypeCorrect` and `FreshOutermost` need `CoreInv`: `FramesOK`
describes the stack (a hooked command and a layer occur at most once, and the
depths count them, except for what a jump leaves), and `hook_command_depth` is the
number of `execute_command` frames. The type needs it because a load takes a
Lua state that nothing refers to: `BoundsAssumption` asks for four, and `FramesOK`
bounds the states on the stack by one layer's and one hook's, to which comes the
retired or the replaced one.

`FreshOutermost` adds `ManifestInv`, a manifest that matches was taken with the load
in force (if that load did not fail), so the tables are those the directory gives
under the `RASH_ALLOW_UNOWNED_HOOKS` of that load; and `StartInv`, while an outermost
command's layers and hook are chosen in mtime mode the manifest matches and the
variable is that of the load. `TablesMatch` is inductive as it stands.

`HookOpen` and `NothingLeft` assume `~StringsAtTop`: with a string at the bottom of the
stack the command depth returns to zero inside it, and TLC finds both properties
violated (section 5). `OpenInv`: the bottom frame is a command, the retired state
is another than the current one, a hook's state is never among the closed ones, and
a retired state waits only while something is on the stack.

### ChildTrapProofs

`ChildTypeCorrect` and `SpawnKeeps` hold whatever `trap` sets. `Shape` says that some
frames are only ever on top (the handler cannot run there), `TopInv` what the
shell relies on meanwhile (`rash.spawn`'s child is its own and not reaped, the count
read by a drain is still the count), `QueueInv` and `CountInv` bound the counters by
the children reaped. `OneFiringTheorem` and `MissedTheorem` assume that no `trap - CHLD`
is given (`"default" \notin Settings`), which section 5 explains. Their invariant
`AccountInv` is the equation of `OneFiringPerChild` with `TrapInv`: outside the
exchange either the trap or the sentinel is in place, also after a `return` that
left the trap. A child whose firing is not run is in the equation as `missed` (reaped
in the exchange: `MissedTheorem`) or `dropped` (given up by such a `return`), so the
theorem says that nothing else loses a firing and nothing repeats one. The firings due on the
stack (`Due`) are a recursive function over frames; that pushing, popping and
changing the top frame change the sum by that frame's firings, and that cutting the
stack anywhere leaves a stack of the same shape with no more firings, is proved
first.

### SimpleCommandProofs

`StageTypeCorrect`, `EveryCallbackTheorem`, `RefusalDecidesTheorem`,
`FlagsClearTheorem`. `IInv` says of each process that a callback runs at most on top of
its stack, that the globals are that callback's or else clear, and of each frame:
`Fate` (stopped exactly if refused; if it ran, it was not refused and everybody on
its path was asked), `Calling` (the callbacks before the one that runs were asked)
and `Reached` (what has happened before a command comes to a place, stage by
stage). `Reached` carries the argument: a continuation that skipped a stage, or went
back past one, would not establish it. That globals are clear whenever no
callback runs is what lets nested commands, traps and forked children share them.

### DownloadPipeProofs

`DownloadTypeCorrect`, `ApprovedOnly`, `SpawnCompleteTheorem`. `RoleInv`: the child is
the one the shell waits for. `CaptureInv` and `SpawnInv`: what a stream's writer made is in
the pipe, in the buffer, or beyond the limit, and a stream is closed only when
nothing more can come. `ApprovalInv`: the packaged callback goes on to run a script
only after a yes, and until it is asked the script is whole unless a signal cut it.

### RedirectionsProofs

`RedirTypeCorrect`, `NoCopies`, `ExecForGood`, `Restored`: for any descriptor limit,
any set of redirections of the modelled kinds, any number of them, any nesting. An undo
list is executed entry by entry, so what it does is first proved by induction over
its length (`CleanupEffect`): provided that every copy it puts back is open and not
closed before, a descriptor the list names gets the value of its *last* entry for
it, and the others stay.

`IInv` consists of the type, `ControlInv` (which lists are empty where),
`ExecInv` (`exec`'s second list closes the copies of the first and does nothing
else), `FreshInv` (what the command on top has not redirected is as it found it)
and, in a shell that is not tangled, `StackOK`:

* each frame's list is well formed: a copy it puts back it also closes, later;
* undoing the list as it stands gives every descriptor the frame redirected its value
  at the frame's start, and names no other (`Restores`);
* a capture's copy is still of what standard output was, or the commands inside
  it that redirected its number will put it back (`SavedOK`);
* each number from `SHELL_FD_BASE` up is open exactly if one frame holds it for a
  copy, and no two hold the same.

`RestoredOnEnd` alone is not inductive: it says nothing of commands under way, and
a list can only restore if nobody closes or reuses the copies it relies on, which
the last part gives. A redirection extends the list on top in step with the
descriptors, whether it succeeds (`Achieved`) or fails half way (`Failed`): the
`Follows` lemmas, one per kind. A return runs one list and ends one capture
(`Ended`, `PopKeeps`); a jump is as many returns of the oldest stack that is left
(`Oldest`, `Back`, `UnwindAll`), so that what the outermost of the ended
commands found is what remains. `NoCopies` is the last part of `StackOK` for the empty
stack.

The attempt changed the model twice. A number redirected to itself
(`1>&1`) is not assigned by the code but was listed in `touched`; with it
`{ exec 1>f; } 1>&1` refuted `RestoredOnEnd`, and the instance now has `2>&2`. And
with a capture, `5>&4-` can close the capture's own copy for good (section 5), which
`tangled` now marks.

A close that fails at the descriptor limit (`Shut`) leaves the table without its
number. The stack is in order for that table too, as no list reads a script's
number (`ClosedOK`), so the command ends as from there (`EndsFrom`), and what it
does not put back is that number alone (`ShutGivesBack`).

### Only model-checked

* `CommandEnds`, `AllFired`, `CallsReturn`: liveness under fairness, outside the
  prover's reach. All other properties of the passing runs are proved.
* `UndoUnlinksOnlyCreated`, `ChildrenStay`, `NoTruncatedScript`: false of the code
  (section 5).

## 5. Where code and documents disagree

| run | what happens |
|---|---|
| `undo_unlinks` | A snapshot whose copy failed leaves an entry that undo reads as "did not exist", and undo unlinks a file that existed. |
| `dispatch_runaway` | A dispatch callback that denies a background or pipeline command does so in the forked child, which does not exit: it returns into the script and goes on as a second shell. |
| `truncated_script` | A signal that interrupts the capture of a download ends it early; if the producer still exits with 0, what was captured is offered for approval and run. `INSTALLER_APPROVAL.md` excludes truncation. |

Behaviour met while modelling that no run singles out. Most of it is reachable
in the models above; where a model excludes it, this says so.

Hook chain and Rack:

* A hook that returns a number after `rash.deny`, or around a hook that denied,
  gives the refused command that status, success included (`hooks.c:1096`;
  `HOOKS_DESIGN.md:27` says "exit failure").
* An advisory layer that fails is replaced by the command itself, not by the next
  layer: enforcing layers inside it are not asked (`hooks.c:1747`).
* A command that jumps to top level under the Rack leaves `rack_depth` at 1, and no
  later command is wrapped (`hooks.c:1793`).
* An enforcing hook that does nothing lets the command through.
  `HOOKS_DESIGN.md:29` says it should fail closed; `HOOK_SEAMS.md:31` and the
  comment on `rash_invoke_hook` agree with the code.
* A runner kept beyond its command is not always recognised: its context may be
  memory in use again (the comment at `hooks.c:1004` promises an error). The
  command it then continues still runs at most once and never after a refusal
  (both are proved with such runners), but hooks may be passed over.
* `rack_denied` is cleared when a layer is entered: a layer that denies and then
  calls `next()` runs the command.
* An advisory layer that fails after `next()` runs the command a second time.
* An `after` or stdio-bundle callback of an enforcing file runs inside the wrapped
  command with no stage flag; outside a hook chain its `rash.deny` sets
  `rack_denied` (`hooks.c:749`), and the layers around it fail after the command
  has run, advisory ones included. `OnlyEnforcingLayersDeny` is stated for the
  layers themselves.

Loading:

* A failed load does not restore the `rash.use`, dispatch, expand and
  redirect-policy tables; counts and bits of the failed set stay with the previous
  Lua state (`hooks.c:1604`; `README.md:81-82`). `HookTablesMatch` is stated for the
  tables that are restored.
* `reloadhooks` under a Rack layer closes the Lua state that is running
  (`hooks.c:1586`). With hook files only, the same happens to `-c` when a hooked
  loop body reloads: the body's `execute_command` takes the command depth from 1
  to 0 and closes the retired state.
* An expansion error in the words of `reloadhooks` leaves `hook_execution_depth`
  raised and the hooks off for the rest of the session.
* Two reloads in one outermost command leak the first replaced Lua state.
* Files that only use `rash.use`, `on_dispatch` or `on_expand` leave `hook_state`
  at -1, and without mtime mode the directory is read again only if the
  configuration changes.
* The manifest is collected after the files are loaded; an edit in between is
  taken for loaded.

Undo:

* Two snapshots at once may leave the counter below an acknowledged entry, out of
  reach of `undo_last` (`hooks.c:2258`).

Simple commands:

* `on_expand`'s denial leaves a command without words: its redirections are done and
  it succeeds.
* The redirect policy is not asked for null and compound commands; `before` is not
  asked in forked commands; in traps only expand, dispatch and policy are.
* `rash.after` and the bundle are called for a program with status 0 before its
  child has finished (`execute_cmd.c:5329-5335`; `README.md:56` says when it
  finishes), and not at all for the last command of a `-c` string.
* A `next()` of the Rack kept and called inside a stage's callback runs a command
  that overwrites the stage's globals. The model excludes it.

Redirections:

* `{ :; } 5>&1-` leaves 1 closed afterwards: the move is undone only if 5 was open
  (`redir.c:1165`, although its comment says the close needs to be undone).
  `&>file` with no descriptor left for the copy of 2, or with 2 closed, does not
  put 2 back (`redir.c:1050`). `RestoredOnEnd` excepts both.
* `n>&-` with no descriptor left for the copy of n fails, and closes n for good:
  `REDIRECTION_ERROR` is given the redirector as the descriptor to clean up
  (`redir.c:1248`, `redir.c:124-133`), and no undo entry names it.
  `RestoredOnEnd` excepts that number in that step (`ClosedForGood`), unless the
  command had redirected it before; then it is put back.
* With `rash.after` registered, `exec >file` is undone by the end of the capture
  (`execute_cmd.c:5271`); a jump or a resumed job leaves standard output on the
  capture file; the capture's descriptors are the lowest free numbers, which
  scripts use: where 4 is the copy and 5 is closed, `5>&4-` closes the copy and
  does not put it back, and standard output stays on the capture file. The
  properties except such shells (`tangled`).

Children:

* A child reaped between the two statements that exchange trap and sentinel fires
  no trap (`trap.c:739-741`; `DIVERGENCE.md:142-143`: "every reaped child gets
  its firing"). `MissedOnlyInExchange` shows that these are the only ones.
* A `return` in a CHLD trap that runs while a function is executing jumps to the end of
  the function (`return.def:69-70`) past the rest of `run_sigchld_trap` and
  `run_pending_traps`; neither saves `return_catch` as other traps do
  (`trap.c:506-512`). The firings left are lost; `running_trap`, `SIG_INPROGRESS`,
  `queue_sigchld` and the signal mask stay as they are, so later firings can stay in
  the queue for the rest of the session (`trap.c:439-445`). `OneFiringPerChild` counts
  the lost ones as `dropped`, and `AllFired` excepts shells in which this has
  happened (`left`).
* `trap - CHLD` while firings are queued makes `run_sigchld_trap` execute a sentinel
  pointer as a string (`trap.c:429`, `jobs.c:4503`). The model's `Settings` excludes
  it; `TrapSaves` would be stuck there.
* `notify_of_job_status` defers reaping and does not reap when it ends; the children
  wait for the next SIGCHLD or wait.

Download pipes and `rash.spawn`:

* An interrupted `waitpid` in `rash.exec_with_stdin` reports a denial while the script
  runs on.
* A consumer that exits before it has read everything kills the shell with SIGPIPE,
  unless that is ignored.
* There is no timeout and empty output is not refused, both of which
  `INSTALLER_APPROVAL.md` lists.
* `RASH_INSTALLER_MAX_BYTES` at the largest `size_t` makes the buffer's size zero
  (`hooks.c:3020`). A second `pipe ()` that fails in `rash.spawn` leaks the first.

## 6. Not modelled, and why

* The packaged policies: pattern matching on words and paths. What the core lets
  them do is in the models as the callbacks' nondeterminism.
* Bash's parser, expansion, variables, line editing, globbing, malloc, and the
  remaining builtins. They are nearly all of the repository's lines and are
  inherited from Bash; they are string processing and data structures of one
  thread with no protocol of Rash's own, and a model that covered a large
  share of them would say nothing about this program.
* Process groups, the terminal, stopped jobs: inherited, and untouched by Rash.
* Bytes: JSON of the stdio bundle, display of scripts, audit lines.
* The hazards in `PROJECT.json` without a property say why: most are behaviours
  the code is known to have (section 5), for which no true property can be
  stated, or memory that C has freed.

## 7. Plan

Done: all components named in section 1 as modelled, and the proofs of section 4
for all of them; every invariant and action property of the passing runs is a
theorem. What would come next:

1. The same argument as `ChainShrinks` for calls of `rash.spawn` and the capture of a
   download, whose waits each consume something of a bounded child.
2. `HookReload` with a load in several steps against an editor.
3. A composition of `Rack`, `HookChain` and `SimpleCommand` over one stack, in which
   a callback may use a `next()` it kept inside a stage.
4. Redirections without the exception for captures around `exec` and jumps, once
   `execute_simple_command` protects its capture by an unwind frame.
