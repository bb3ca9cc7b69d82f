----------------------------- MODULE HookReload -----------------------------
(***************************************************************************)
(* Loading and reloading of hook files in Rash (hooks.c): which Lua state   *)
(* is current, which callbacks and enforcing bits are in force, when a      *)
(* replacement is loaded and when a replaced state is closed.               *)
(*                                                                          *)
(* One shell runs commands, nested up to MaxDepth.  `stack` is the part of  *)
(* the C stack that matters: execute_command frames, strings under          *)
(* evaluation, callbacks of a Lua state, and the direct path of reloadhooks. *)
(* The files may change, and the environment too, between any two steps;    *)
(* one load is atomic.  rash.hook and rash.use stand for the two families   *)
(* of callback tables, the ones a failed load restores and the others; one  *)
(* frame stands for a whole chain of hooks, or of layers.                   *)
(* RASH_HOOK_DIR is set and names one directory, RASH_HOOK_ENFORCE_UNOWNED  *)
(* is not set, and no trap runs.                                            *)
(***************************************************************************)
EXTENDS Integers, Sequences, SequencesExt, FiniteSets

CONSTANTS
  FileCount,   \* file names in RASH_HOOK_DIR, in name order
  FileStates,  \* what may be in a hook file
  Absent,      \* there is no such file
  NoDir,       \* there is no such directory
  ReloadBuiltin,  \* RASH_HOOK_RELOAD_BUILTIN=1 at startup
  StringsAtTop,   \* strings run outside any execute_command: -c, PROMPT_COMMAND
  LuaStates,   \* bound: identities of Lua states
  MaxDepth     \* bound: length of the stack once a command has started

\* registers: the table a file adds a callback to; ok: it loads without error;
\* trusted: owned by root and not writable by others.
ASSUME FileStatesAssumption ==
  FileStates \subseteq [registers: {"hook", "rack"}, ok: BOOLEAN,
                        trusted: BOOLEAN]
ASSUME SwitchesAssumption == ReloadBuiltin \in BOOLEAN /\ StringsAtTop \in BOOLEAN
\* Four states: the retired one, one layer's and one hook's on the stack, and a
\* new one.
ASSUME BoundsAssumption ==
  /\ FileCount \in Nat /\ MaxDepth \in Nat
  /\ LuaStates \subseteq Nat \ {0} /\ IsFiniteSet(LuaStates)
  /\ Cardinality(LuaStates) >= 4

Null == 0   \* the null pointer to a Lua state

VARIABLES
  \* the environment of the shell
  directory,             \* the files in RASH_HOOK_DIR
  env,                   \* RASH_ALLOW_UNOWNED_HOOKS=1, RASH_HOOK_RELOAD=mtime
  \* the configuration in force
  rash_lua, retired_lua,
  dangling,              \* closed Lua states with a callback on the stack
  registered,            \* what the files of rash_lua have registered
  hook_enforcing,        \* the bits of the rash.hook table; their number is
  rack_enforcing,        \* hook_count, and so for rash.use
  hook_state,
  hook_directory,        \* is it set
  hook_allow_unowned,    \* as of the last load
  hook_manifest,         \* "none", or does it describe the directory as it is
  \* depths and control
  hook_execution_depth, hook_command_depth, rack_depth,
  pc, stack

config == <<rash_lua, retired_lua, dangling, registered, hook_enforcing,
            rack_enforcing, hook_state, hook_directory, hook_allow_unowned,
            hook_manifest>>
environment == <<directory, env>>
depths == <<hook_execution_depth, hook_command_depth, rack_depth>>
vars == <<environment, config, depths, pc, stack>>

Directories == [1 .. FileCount -> FileStates \union {Absent}] \union {NoDir}

\* A file adds at most one callback, so a table is a function from the numbers
\* of the files that added one, in name order: to the file, or to its bit.
TablesOf(S) == UNION {[files -> S] : files \in SUBSET (1 .. FileCount)}
Tables == [hook: TablesOf(FileStates), rack: TablesOf(FileStates)]
NoTables == [hook |-> <<>>, rack |-> <<>>]
Frames == [op: {"command", "string", "layer", "hook", "ran", "original", "reload"},
           lua: LuaStates \union {Null}]
Frame(op, lua) == [op |-> op, lua |-> lua]

ReloadTypeOK ==
  /\ directory \in Directories
  /\ env \in [allow: BOOLEAN, mtime: BOOLEAN]
  /\ rash_lua \in LuaStates \union {Null}
  /\ retired_lua \in LuaStates \union {Null}
  /\ dangling \in SUBSET LuaStates
  /\ registered \in Tables
  /\ hook_enforcing \in TablesOf(BOOLEAN)
  /\ rack_enforcing \in TablesOf(BOOLEAN)
  /\ hook_state \in {-1, 0, 1}
  /\ hook_directory \in BOOLEAN
  /\ hook_allow_unowned \in BOOLEAN
  /\ hook_manifest \in {"none", "current", "outdated"}
  /\ hook_execution_depth \in Nat
  /\ hook_command_depth \in Nat
  /\ rack_depth \in Nat
  /\ pc \in {"idle", "rack", "internal", "lua", "body", "return"}
  /\ stack \in Seq(Frames)

Init ==
  /\ directory \in Directories
  /\ env \in [allow: BOOLEAN, mtime: BOOLEAN]
  /\ rash_lua = Null
  /\ retired_lua = Null
  /\ dangling = {}
  /\ registered = NoTables
  /\ hook_enforcing = <<>>
  /\ rack_enforcing = <<>>
  /\ hook_state = 0
  /\ hook_directory = FALSE
  /\ hook_allow_unowned = FALSE
  /\ hook_manifest = "none"
  /\ hook_execution_depth = 0
  /\ hook_command_depth = 0
  /\ rack_depth = 0
  /\ pc = "idle"
  /\ stack = <<>>

-----------------------------------------------------------------------------
(* rash_load_hooks on the directory as it is.  A definition named *_Mutant   *)
(* is the definition after it with a plausible mistake; nothing uses it.    *)

Listed ==
  IF directory = NoDir THEN {} ELSE {i \in 1 .. FileCount : directory[i] # Absent}

\* rash_load_hook: is the file trusted, or unowned code allowed.
Admitted(f) == f.trusted \/ env.allow

\* Every file loads; the ones after a bad one are loaded all the same.
Loaded ==
  /\ directory # NoDir
  /\ \A i \in Listed : Admitted(directory[i]) /\ directory[i].ok

\* The callbacks registered while loading, also by a file that fails later on.
Callbacks(table) ==
  [i \in {n \in Listed : Admitted(directory[n]) /\ directory[n].registers = table} |->
     directory[i]]

\* loading_file_enforcing, for each callback.
Enforcing(callbacks) == [i \in DOMAIN callbacks |-> callbacks[i].trusted]

InUse(frames) == {frames[k].lua : k \in DOMAIN frames} \ {Null}

\* A fresh state: one that nothing refers to once Retire has been done.
NewLua ==
  CHOOSE s \in LuaStates :
    /\ s \notin InUse(stack)
    /\ s # IF hook_execution_depth # 0 THEN rash_lua ELSE retired_lua

\* lua_close.
Close(lua) == dangling' = dangling \union ({lua} \intersect InUse(stack))

\* Closes the replaced state at once.
Retire_Mutant == Close(rash_lua) /\ UNCHANGED retired_lua

\* The replaced state is closed, or kept for rash_hooks_close_retired_lua while
\* a hooked command executes.
Retire ==
  IF hook_execution_depth # 0 /\ rash_lua # Null
  THEN retired_lua' = rash_lua /\ UNCHANGED dangling
  ELSE Close(rash_lua) /\ UNCHANGED retired_lua

\* Does not put the bits of the rash.hook table back.
RestoreHookTable_Mutant == hook_enforcing' = Enforcing(Callbacks("hook"))

\* hook_enforcing = previous_enforcing, hook_count = previous_count.
RestoreHookTable == UNCHANGED hook_enforcing

\* rash_hook_manifest_collect: a directory that cannot be read keeps the old one.
ManifestCollected == IF directory = NoDir THEN hook_manifest ELSE "current"

\* rash_hook_manifest_matches.
ManifestMatches == hook_manifest = "current" /\ directory # NoDir

\* rash_hooks_load_configuration.
LoadConfiguration ==
  /\ hook_directory' = TRUE
  /\ hook_allow_unowned' = env.allow
  /\ hook_manifest' = ManifestCollected
  /\ rack_enforcing' = Enforcing(Callbacks("rack"))
  /\ IF Loaded
     THEN /\ rash_lua' = NewLua
          /\ registered' = [hook |-> Callbacks("hook"), rack |-> Callbacks("rack")]
          /\ hook_enforcing' = Enforcing(Callbacks("hook"))
          /\ hook_state' = IF DOMAIN Callbacks("hook") # {} THEN 1 ELSE -1
          /\ Retire
     ELSE /\ RestoreHookTable
          /\ hook_state' = IF rash_lua = Null THEN -1 ELSE hook_state
          /\ UNCHANGED <<rash_lua, registered, dangling, retired_lua>>

\* Looks at the configuration only.
UpToDate_Mutant ==
  hook_state = 1 \/ (hook_directory /\ hook_allow_unowned = env.allow)

\* The two early returns of rash_hooks_initialize.
UpToDate ==
  \/ hook_state = 1 /\ ~env.mtime
  \/ /\ hook_directory /\ hook_allow_unowned = env.allow
     /\ ~env.mtime \/ ManifestMatches

Initialize(force) ==
  IF ~force /\ UpToDate THEN UNCHANGED config ELSE LoadConfiguration

\* rash_hooks_close_retired_lua.
CloseRetired == Close(retired_lua) /\ retired_lua' = Null

Push(f) == stack' = Append(stack, f)
Pop == stack' = Front(stack)
Room == Len(stack) < MaxDepth

-----------------------------------------------------------------------------
(* A command starts.                                                        *)

\* A loop body, a condition or a list run commands of their own from the body.
MayStart ==
  \/ pc = "idle"
  \/ pc = "body" /\ Room /\ Last(stack).op # "reload"

\* execute_command, called by the reader and by compound commands.
ExecuteCommand ==
  /\ MayStart
  /\ IF hook_command_depth = 0 THEN Initialize(FALSE) ELSE UNCHANGED config
  /\ hook_command_depth' = hook_command_depth + 1
  /\ Push(Frame("command", Null))
  /\ pc' = "rack"
  /\ UNCHANGED <<environment, hook_execution_depth, rack_depth>>

\* parse_and_execute: eval, source, -c.
ParseAndExecute ==
  /\ MayStart
  /\ pc = "body" \/ StringsAtTop
  /\ Push(Frame("string", Null))
  /\ pc' = "rack"
  /\ UNCHANGED <<environment, config, depths>>

RackExecute ==
  /\ pc = "rack"
  /\ IF rack_depth = 0 THEN Initialize(FALSE) ELSE UNCHANGED config
  /\ IF rack_depth = 0 /\ rash_lua' # Null /\ DOMAIN rack_enforcing' # {}
     THEN /\ rack_depth' = 1
          /\ Push(Frame("layer", rash_lua'))
          /\ pc' = "lua"
     ELSE pc' = "internal" /\ UNCHANGED <<rack_depth, stack>>
  /\ UNCHANGED <<environment, hook_execution_depth, hook_command_depth>>

\* RASH_EXEC=c: the command goes round the layers, and nothing is loaded here.
RackBypass ==
  /\ pc = "rack"
  /\ pc' = "internal"
  /\ UNCHANGED <<environment, config, depths, stack>>

\* execute_command_internal: rash_hooks_active, then rash_hooks_execute, which
\* runs reloadhooks itself without callbacks.
ExecuteInternal ==
  /\ pc = "internal"
  /\ IF hook_execution_depth = 0 /\ hook_command_depth = 0
     THEN Initialize(FALSE) ELSE UNCHANGED config
  /\ IF hook_execution_depth = 0 /\ hook_state' = 1
     THEN \/ /\ Push(Frame("hook", rash_lua'))
             /\ pc' = "lua"
             /\ UNCHANGED hook_execution_depth
          \/ /\ ReloadBuiltin
             /\ Push(Frame("reload", Null))
             /\ hook_execution_depth' = hook_execution_depth + 1
             /\ pc' = "body"
     ELSE pc' = "body" /\ UNCHANGED <<hook_execution_depth, stack>>
  /\ UNCHANGED <<environment, hook_command_depth, rack_depth>>

-----------------------------------------------------------------------------
(* Callbacks: the frame on top of the stack is one of Lua.  What happens to  *)
(* a callback whose state was closed is undefined; here it goes on.         *)

LayerNext ==
  /\ pc = "lua"
  /\ Last(stack).op = "layer"
  /\ pc' = "internal"
  /\ UNCHANGED <<environment, config, depths, stack>>

HookRun ==
  /\ pc = "lua"
  /\ Last(stack).op = "hook"
  /\ stack' = Append(Front(stack), Frame("ran", Last(stack).lua))
  /\ hook_execution_depth' = hook_execution_depth + 1
  /\ pc' = "body"
  /\ UNCHANGED <<environment, config, hook_command_depth, rack_depth>>

\* The hook ends undecided: the command executes outside Lua.
HookFallsThrough ==
  /\ pc = "lua"
  /\ Last(stack).op = "hook"
  /\ stack' = Append(Front(stack), Frame("original", Null))
  /\ dangling' = dangling \intersect InUse(stack')
  /\ hook_execution_depth' = hook_execution_depth + 1
  /\ pc' = "body"
  /\ UNCHANGED <<environment, rash_lua, retired_lua, registered, hook_enforcing,
                 rack_enforcing, hook_state, hook_directory, hook_allow_unowned,
                 hook_manifest, hook_command_depth, rack_depth>>

\* Lowers it for every callback.
RackDepthAfter_Mutant(f) == rack_depth - 1

\* rash_rack_execute lowers rack_depth when its layer returns.
RackDepthAfter(f) == IF f.op = "layer" THEN rack_depth - 1 ELSE rack_depth

CallbackReturns ==
  /\ pc = "lua"
  /\ rack_depth' = RackDepthAfter(Last(stack))
  /\ Pop
  /\ dangling' = dangling \intersect InUse(stack')
  /\ pc' = "return"
  /\ UNCHANGED <<environment, rash_lua, retired_lua, registered, hook_enforcing,
                 rack_enforcing, hook_state, hook_directory, hook_allow_unowned,
                 hook_manifest, hook_execution_depth,
                 hook_command_depth>>

-----------------------------------------------------------------------------
(* The body of a command, and the way back.                                 *)

BodyReturns ==
  /\ pc = "body"
  /\ pc' = "return"
  /\ UNCHANGED <<environment, config, depths, stack>>

\* reloadhooks_builtin.
Reload ==
  /\ ReloadBuiltin
  /\ pc = "body"
  /\ Initialize(TRUE)
  /\ pc' = "return"
  /\ UNCHANGED <<environment, depths, stack>>

\* rash_hooks_command_end; the body the command was part of goes on.
CommandEnd ==
  /\ pc = "return"
  /\ stack # <<>> /\ Last(stack).op = "command"
  /\ Pop
  /\ hook_command_depth' = hook_command_depth - 1
  /\ IF hook_command_depth = 1 THEN CloseRetired
     ELSE UNCHANGED <<dangling, retired_lua>>
  /\ pc' = IF Len(stack) = 1 THEN "idle" ELSE "body"
  /\ UNCHANGED <<environment, rash_lua, registered, hook_enforcing,
                 rack_enforcing, hook_state, hook_directory, hook_allow_unowned,
                 hook_manifest,
                 hook_execution_depth, rack_depth>>

StringEnd ==
  /\ pc = "return"
  /\ stack # <<>> /\ Last(stack).op = "string"
  /\ Pop
  /\ pc' = IF Len(stack) = 1 THEN "idle" ELSE "body"
  /\ UNCHANGED <<environment, config, depths>>

\* Back in rash_rack_next or rash_hook_run, and so in Lua.
BackToLua ==
  /\ pc = "return"
  /\ stack # <<>> /\ Last(stack).op \in {"layer", "ran"}
  /\ hook_execution_depth' = IF Last(stack).op = "ran"
                             THEN hook_execution_depth - 1
                             ELSE hook_execution_depth
  /\ pc' = "lua"
  /\ UNCHANGED <<environment, config, hook_command_depth, rack_depth, stack>>

\* rash_execute_original returns to rash_hooks_execute outside Lua.
OriginalEnd ==
  /\ pc = "return"
  /\ stack # <<>> /\ Last(stack).op \in {"original", "reload"}
  /\ Pop
  /\ hook_execution_depth' = hook_execution_depth - 1
  /\ IF Last(stack).op = "reload" THEN CloseRetired
     ELSE UNCHANGED <<dangling, retired_lua>>
  /\ UNCHANGED <<environment, rash_lua, registered, hook_enforcing,
                 rack_enforcing, hook_state, hook_directory, hook_allow_unowned,
                 hook_manifest,
                 hook_command_depth, rack_depth, pc>>

CommandFrames == {k \in DOMAIN stack : stack[k].op = "command"}

\* Leaves out rash_hooks_command_unwind.
UnwoundDepth_Mutant == hook_command_depth

\* rash_hooks_command_unwind, once for each execute_command left.
UnwoundDepth == hook_command_depth - Cardinality(CommandFrames)

\* The command jumps to the shell's top level.  The unwind frame of a hook
\* chain restores hook_execution_depth; the Rack and the direct path of
\* reloadhooks have none.
BodyUnwinds ==
  /\ pc = "body"
  /\ hook_command_depth' = UnwoundDepth
  /\ hook_execution_depth' =
       IF \E k \in DOMAIN stack : stack[k].op \in {"ran", "original"}
       THEN 0 ELSE hook_execution_depth
  /\ retired_lua' = IF UnwoundDepth = 0 /\ CommandFrames # {} THEN Null
                    ELSE retired_lua
  /\ stack' = <<>>
  /\ dangling' = {}
  /\ pc' = "idle"
  /\ UNCHANGED <<environment, rash_lua, registered, hook_enforcing,
                 rack_enforcing, hook_state, hook_directory, hook_allow_unowned,
                 hook_manifest,
                 rack_depth>>

-----------------------------------------------------------------------------
(* The environment.                                                         *)

\* Somebody edits, adds or removes hook files.  Every edit changes the
\* metadata the manifest records.
Edit ==
  /\ pc \in {"idle", "body"}
  /\ directory' \in Directories
  /\ hook_manifest' = IF hook_manifest = "none" THEN "none" ELSE "outdated"
  /\ UNCHANGED <<env, rash_lua, retired_lua, dangling, registered, hook_enforcing,
                 rack_enforcing, hook_state, hook_directory, hook_allow_unowned,
                 depths, pc, stack>>

\* A command exports one of the two variables.
Export ==
  /\ pc = "body"
  /\ env' \in [allow: BOOLEAN, mtime: BOOLEAN]
  /\ UNCHANGED <<directory, config, depths, pc, stack>>

Next ==
  \/ ExecuteCommand \/ ParseAndExecute \/ RackExecute \/ RackBypass
  \/ ExecuteInternal
  \/ LayerNext \/ HookRun \/ HookFallsThrough \/ CallbackReturns
  \/ BodyReturns \/ Reload \/ BodyUnwinds
  \/ CommandEnd \/ StringEnd \/ BackToLua \/ OriginalEnd
  \/ Edit \/ Export

Spec == Init /\ [][Next]_vars

-----------------------------------------------------------------------------
(* Properties.                                                              *)

\* The rash.hook callbacks in force are those of the current Lua state, each
\* enforcing exactly if its file was trusted, whatever loads failed since.
HookTablesMatch ==
  rash_lua # Null =>
    hook_enforcing = Enforcing(registered.hook)

\* A Lua state with a hook on the C stack is not closed under it.
HookStateOpen ==
  \A k \in DOMAIN stack : stack[k].op \in {"hook", "ran"} => stack[k].lua \notin dangling

\* Between commands no state waits to be closed and no command is counted.
NothingPending ==
  pc = "idle" => retired_lua = Null /\ hook_command_depth = 0

\* README.md: mtime mode "checks the cached hook-file manifest before each
\* outermost parsed command".  While the layers and the hook of such a command
\* are chosen, the callbacks in force are those the files as they are register,
\* each with the enforcing bit of its file: however the files and the two
\* variables changed before, and whatever loads failed meanwhile.  Files that do
\* not load as they are leave the previous callbacks in force.
OutermostIsFresh ==
  (/\ pc \in {"rack", "internal"}
   /\ Len(stack) = 1 /\ Last(stack).op = "command"
   /\ env.mtime /\ Loaded) =>
     /\ registered = [hook |-> Callbacks("hook"), rack |-> Callbacks("rack")]
     /\ hook_enforcing = Enforcing(registered.hook)
     /\ rack_enforcing = Enforcing(registered.rack)
=============================================================================
