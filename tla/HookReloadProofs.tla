-------------------------- MODULE HookReloadProofs --------------------------
(***************************************************************************)
(* Proofs about HookReload: the loads, the retired states and the depths,    *)
(* for any number of hook files, whatever they hold, and any nesting.       *)
(***************************************************************************)
EXTENDS HookReload, FiniteSetTheorems, SequenceTheorems, TLAPS

-----------------------------------------------------------------------------
(* A stack is a sequence of frames; the one that runs is Last.               *)

(* Popping a frame. *)
LEMMA FrontLast ==
  ASSUME NEW S, NEW s \in Seq(S), s # <<>>
  PROVE  /\ Front(s) \in Seq(S)
         /\ Last(s) \in S
         /\ Len(s) \in Nat \ {0}
         /\ Len(Front(s)) = Len(s) - 1
         /\ \A k \in 1 .. Len(s) - 1 : Front(s)[k] = s[k]
<1> DEFINE n == Len(s) - 1
<1>1. Len(s) \in Nat \ {0} /\ n \in Nat /\ Len(s) = n + 1
  BY EmptySeq, LenProperties
<1>2. Last(s) \in S /\ \A i \in 1 .. n : s[i] \in S
  BY <1>1, ElementOfSeq DEF Last
<1>3. Front(s) = SubSeq(s, 1, n)
  BY DEF Front
<1> HIDE DEF n
<1>4. /\ SubSeq(s, 1, n) \in Seq(S)
      /\ Len(SubSeq(s, 1, n)) = IF 1 <= n THEN n - 1 + 1 ELSE 0
      /\ \A i \in 1 .. n - 1 + 1 : SubSeq(s, 1, n)[i] = s[1 + i - 1]
  BY <1>1, <1>2, SubSeqProperties
<1>5. n - 1 + 1 = n /\ (~(1 <= n) => n = 0) /\ Len(s) - 1 = n
  BY <1>1
<1>6. Len(Front(s)) = n
  BY <1>3, <1>4, <1>5
<1>7. \A k \in 1 .. n : k \in 1 .. n - 1 + 1 /\ 1 + k - 1 = k
  BY <1>1
<1> QED
  BY <1>1, <1>2, <1>3, <1>4, <1>5, <1>6, <1>7

(* Pushing a frame. *)
LEMMA PushTop ==
  ASSUME NEW S, NEW s \in Seq(S), NEW e \in S
  PROVE  /\ Append(s, e) \in Seq(S)
         /\ Append(s, e) # <<>>
         /\ Len(s) \in Nat
         /\ Len(Append(s, e)) = Len(s) + 1
         /\ \A k \in 1 .. Len(s) : Append(s, e)[k] = s[k]
         /\ Append(s, e)[Len(s) + 1] = e
         /\ Last(Append(s, e)) = e
         /\ Front(Append(s, e)) = s
<1> DEFINE t == Append(s, e)
<1>1. /\ t \in Seq(S) /\ t # <<>> /\ Len(s) \in Nat /\ Len(t) = Len(s) + 1
      /\ \A k \in 1 .. Len(s) : t[k] = s[k]
      /\ t[Len(s) + 1] = e
  BY AppendProperties, LenProperties
<1> HIDE DEF t
<1>2. /\ Front(t) \in Seq(S) /\ Len(Front(t)) = Len(s)
      /\ \A k \in 1 .. Len(s) : Front(t)[k] = s[k]
  BY <1>1, FrontLast
<1>3. Front(t) = s /\ Last(t) = e
  BY <1>1, <1>2, SeqEqual DEF Last
<1> QED
  BY <1>1, <1>3 DEF t

(* Exchanging the frame on top. *)
LEMMA ReplaceTop ==
  ASSUME NEW S, NEW s \in Seq(S), s # <<>>, NEW e \in S
  PROVE  /\ Append(Front(s), e) \in Seq(S)
         /\ Append(Front(s), e) # <<>>
         /\ Len(s) \in Nat \ {0}
         /\ Len(Append(Front(s), e)) = Len(s)
         /\ \A k \in 1 .. Len(s) - 1 : Append(Front(s), e)[k] = s[k]
         /\ Append(Front(s), e)[Len(s)] = e
         /\ Last(Append(Front(s), e)) = e
         /\ Front(Append(Front(s), e)) = Front(s)
<1> DEFINE b == Front(s)
<1>1. /\ b \in Seq(S) /\ Len(s) \in Nat \ {0} /\ Len(b) = Len(s) - 1 /\ Len(s) = Len(b) + 1
      /\ \A k \in 1 .. Len(b) : b[k] = s[k]
  BY FrontLast
<1> HIDE DEF b
<1>2. /\ Append(b, e) \in Seq(S) /\ Append(b, e) # <<>> /\ Len(Append(b, e)) = Len(b) + 1
      /\ \A k \in 1 .. Len(b) : Append(b, e)[k] = b[k]
      /\ Append(b, e)[Len(b) + 1] = e /\ Last(Append(b, e)) = e /\ Front(Append(b, e)) = b
  BY <1>1, PushTop
<1> QED
  BY <1>1, <1>2 DEF b

(* A stack is what is below its top, and the top. *)
LEMMA TopAndRest ==
  ASSUME NEW S, NEW s \in Seq(S), s # <<>>
  PROVE  /\ s = Append(Front(s), Last(s))
         /\ s[Len(s)] = Last(s)
<1> DEFINE t == Append(Front(s), Last(s))
<1>1. /\ Front(s) \in Seq(S) /\ Last(s) \in S /\ Len(s) \in Nat \ {0}
      /\ Len(Front(s)) = Len(s) - 1 /\ \A k \in 1 .. Len(s) - 1 : Front(s)[k] = s[k]
  BY FrontLast
<1>2. /\ t \in Seq(S) /\ Len(t) = Len(Front(s)) + 1
      /\ \A k \in 1 .. Len(Front(s)) : t[k] = Front(s)[k]
      /\ t[Len(Front(s)) + 1] = Last(s)
  BY <1>1, AppendProperties
<1> HIDE DEF t
<1>3. Len(t) = Len(s) /\ s[Len(s)] = Last(s) /\ t[Len(s)] = Last(s)
  BY <1>1, <1>2 DEF Last
<1>4. \A k \in 1 .. Len(s) : s[k] = t[k]
  BY <1>1, <1>2, <1>3
<1>5. s = t
  BY <1>2, <1>3, <1>4, SeqEqual
<1> QED
  BY <1>3, <1>5 DEF t

-----------------------------------------------------------------------------
(* The frames of one execution of a hooked command, and those of Lua.        *)
Hooked == {"hook", "ran", "original", "reload"}
HoldsLua == {"layer", "hook", "ran"}

(* What a frame k of stack s says of the depth of hook execution.            *)
DepthAt(s, k, p, d) ==
  CASE s[k].op = "hook" -> k = Len(s) /\ p = "lua" /\ d = 0
    [] s[k].op = "ran" -> d = IF k = Len(s) /\ p = "lua" THEN 0 ELSE 1
    [] s[k].op \in {"original", "reload"} -> d = 1
    [] OTHER -> TRUE

(* At most one hooked command and one layer are on the stack; the depths       *)
(* count them, but for what an abandoned command has left in them.           *)
FramesOK(s, p, d, r) ==
  /\ s = <<>> <=> p = "idle"
  /\ s # <<>> => s[1].op \in {"command", "string"}
  /\ p = "lua" => s[Len(s)].op \in HoldsLua
  /\ \A k \in 1 .. Len(s) :
       /\ s[k].op \notin HoldsLua => s[k].lua = Null
       /\ s[k].op = "layer" => r = 1
       /\ DepthAt(s, k, p, d)
  /\ \A j, k \in 1 .. Len(s) :
       \/ s[j].op \in Hooked /\ s[k].op \in Hooked
       \/ s[j].op = "layer" /\ s[k].op = "layer"
       => j = k

Commands(s) == {k \in DOMAIN s : s[k].op = "command"}

(* hook_command_depth counts the execute_command frames. *)
CoreInv ==
  /\ ReloadTypeOK
  /\ FramesOK(stack, pc, hook_execution_depth, rack_depth)
  /\ hook_command_depth = Cardinality(Commands(stack))

(* Commands come from the reader: the outermost frame is a command. *)
BaseOK(s) == s # <<>> => s[1].op = "command"

(* The current state is open, the retired one is another, and so is the state   *)
(* of every hook on stack s; dead are the closed ones.                      *)
LuaOpen(s, dead, lua, retired) ==
  /\ dead \subseteq InUse(s)
  /\ lua \notin dead
  /\ retired # Null => lua # Null /\ retired # lua
  /\ \A k \in DOMAIN s : s[k].op \in {"hook", "ran"} => s[k].lua \notin dead

(* A retired state waits for the outermost command to end. *)
OpenInv ==
  /\ BaseOK(stack)
  /\ LuaOpen(stack, dangling, rash_lua, retired_lua)
  /\ retired_lua # Null => stack # <<>>

IInv == CoreInv /\ OpenInv

-----------------------------------------------------------------------------
(* What a load makes of the directory.                                      *)

LEMMA InCallbackTables ==
  ASSUME NEW S, NEW files \in SUBSET (1 .. FileCount), NEW t \in [files -> S]
  PROVE  t \in TablesOf(S)
BY DEF TablesOf

LEMMA CallbacksType ==
  ASSUME directory \in Directories, NEW table
  PROVE  /\ Callbacks(table) \in TablesOf(FileStates)
         /\ Enforcing(Callbacks(table)) \in TablesOf(BOOLEAN)
<1> DEFINE files == {n \in Listed : Admitted(directory[n]) /\ directory[n].registers = table}
<1>1. files \in SUBSET (1 .. FileCount) /\ \A i \in files : directory[i] \in FileStates
  BY DEF Listed, Directories
<1>2. Callbacks(table) = [i \in files |-> directory[i]]
  BY DEF Callbacks
<1> HIDE DEF files
<1>3. Callbacks(table) \in [files -> FileStates]
  BY <1>1, <1>2
<1>4. Enforcing(Callbacks(table)) \in [files -> BOOLEAN]
  <2>1. \A i \in files : directory[i].trusted \in BOOLEAN
    BY <1>1, FileStatesAssumption
  <2> QED
    BY <1>2, <2>1 DEF Enforcing
<1> QED
  BY <1>1, <1>3, <1>4, InCallbackTables

(* A set with one element less. *)
LEMMA OneLess ==
  ASSUME NEW S, IsFiniteSet(S), NEW n \in Nat, Cardinality(S) >= n + 1, NEW x
  PROVE  IsFiniteSet(S \ {x}) /\ Cardinality(S \ {x}) >= n
<1>1. Cardinality(S) \in Nat
  BY FS_CardinalityType
<1>2. /\ IsFiniteSet(S \ {x})
      /\ Cardinality(S \ {x}) = IF x \in S THEN Cardinality(S) - 1 ELSE Cardinality(S)
  BY FS_RemoveElement
<1> QED
  BY <1>1, <1>2

Others(a, b, c) == {s \in LuaStates : s # a /\ s # b /\ s # c}

(* Out of four Lua states one is none of three. *)
LEMMA AFourth ==
  ASSUME NEW a, NEW b, NEW c
  PROVE  Others(a, b, c) # {}
<1> DEFINE A == LuaStates \ {a}
           B == A \ {b}
           C == B \ {c}
<1>1. IsFiniteSet(A) /\ Cardinality(A) >= 3
  <2>1. IsFiniteSet(LuaStates) /\ Cardinality(LuaStates) >= 3 + 1
    BY BoundsAssumption
  <2> QED
    BY <2>1, OneLess
<1> HIDE DEF A
<1>2. IsFiniteSet(B) /\ Cardinality(B) >= 2
  BY <1>1, OneLess, 2 + 1 = 3
<1> HIDE DEF B
<1>3. IsFiniteSet(C) /\ Cardinality(C) >= 1
  BY <1>2, OneLess, 1 + 1 = 2
<1>4. C # {}
  BY <1>3, FS_EmptySet
<1> QED
  BY <1>4 DEF A, B, Others

(* At most two Lua states have a callback on the stack. *)
LEMMA InUseOfTwo ==
  ASSUME CoreInv
  PROVE  /\ \E a, b : InUse(stack) \subseteq {a, b}
         /\ InUse(stack) \subseteq LuaStates
<1>1. /\ DOMAIN stack = 1 .. Len(stack)
      /\ \A k \in 1 .. Len(stack) : stack[k] \in Frames
  BY LenProperties, ElementOfSeq DEF CoreInv, ReloadTypeOK
<1>2. InUse(stack) \subseteq LuaStates
  BY <1>1 DEF InUse, Frames
<1> DEFINE L == {k \in 1 .. Len(stack) : stack[k].op = "layer"}
           H == {k \in 1 .. Len(stack) : stack[k].op \in Hooked}
           a == stack[CHOOSE k \in L : TRUE].lua
           b == stack[CHOOSE k \in H : TRUE].lua
<1>3. \A j, k \in L : j = k
  BY DEF CoreInv, FramesOK
<1>4. \A j, k \in H : j = k
  BY DEF CoreInv, FramesOK
<1>5. \A k \in L : stack[k].lua = a
  BY <1>3
<1>6. \A k \in H : stack[k].lua = b
  BY <1>4
<1>7. \A k \in 1 .. Len(stack) : k \in L \/ k \in H \/ stack[k].lua = Null
  BY DEF CoreInv, FramesOK, HoldsLua, Hooked
<1> HIDE DEF L, H, a, b
<1>8. InUse(stack) \subseteq {a, b}
  BY <1>1, <1>5, <1>6, <1>7 DEF InUse
<1> QED
  BY <1>2, <1>8

LEMMA NewLuaProps ==
  ASSUME CoreInv
  PROVE  /\ NewLua \in LuaStates /\ NewLua # Null
         /\ NewLua \notin InUse(stack)
         /\ NewLua # IF hook_execution_depth # 0 THEN rash_lua ELSE retired_lua
<1> DEFINE c == IF hook_execution_depth # 0 THEN rash_lua ELSE retired_lua
           P(s) == s \notin InUse(stack) /\ s # c
<1>1. PICK a, b : InUse(stack) \subseteq {a, b}
  BY InUseOfTwo
<1>2. Others(a, b, c) # {}
  BY AFourth
<1>3. \E s \in LuaStates : P(s)
  BY <1>1, <1>2 DEF Others
<1>4. NewLua = CHOOSE s \in LuaStates : P(s)
  BY DEF NewLua
<1> HIDE DEF P
<1>5. NewLua \in LuaStates /\ P(NewLua)
  BY <1>3, <1>4
<1>6. NewLua # Null
  BY <1>5, BoundsAssumption DEF Null
<1>7. NewLua \notin InUse(stack) /\ NewLua # c
  BY <1>5 DEF P
<1> QED
  BY <1>5, <1>6, <1>7

(* The configuration keeps its type. *)
ConfigType ==
  /\ rash_lua \in LuaStates \union {Null}
  /\ retired_lua \in LuaStates \union {Null}
  /\ dangling \in SUBSET LuaStates
  /\ registered \in Tables
  /\ hook_enforcing \in TablesOf(BOOLEAN)
  /\ rack_enforcing \in TablesOf(BOOLEAN)
  /\ hook_state \in {-1, 0, 1}
  /\ hook_directory \in BOOLEAN
  /\ hook_allow_unowned \in BOOLEAN
  /\ hook_manifest \in {"none", "current", "outdated"}

LEMMA CloseType ==
  ASSUME CoreInv, NEW lua, Close(lua)
  PROVE  dangling' \in SUBSET LuaStates
BY InUseOfTwo DEF Close, CoreInv, ReloadTypeOK

LEMMA LoadType ==
  ASSUME CoreInv, LoadConfiguration
  PROVE  ConfigType'
<1>1. ConfigType
  BY DEF CoreInv, ReloadTypeOK, ConfigType
<1>2. /\ Callbacks("hook") \in TablesOf(FileStates)
      /\ Callbacks("rack") \in TablesOf(FileStates)
      /\ Enforcing(Callbacks("hook")) \in TablesOf(BOOLEAN)
      /\ Enforcing(Callbacks("rack")) \in TablesOf(BOOLEAN)
  BY CallbacksType DEF CoreInv, ReloadTypeOK
<1>3. hook_directory' \in BOOLEAN /\ hook_allow_unowned' \in BOOLEAN
  BY DEF LoadConfiguration, CoreInv, ReloadTypeOK
<1>4. hook_manifest' \in {"none", "current", "outdated"}
  BY <1>1 DEF LoadConfiguration, ManifestCollected, ConfigType
<1>5. rack_enforcing' \in TablesOf(BOOLEAN) /\ hook_enforcing' \in TablesOf(BOOLEAN)
  BY <1>1, <1>2 DEF LoadConfiguration, RestoreHookTable, ConfigType
<1>6. registered' \in Tables
  BY <1>1, <1>2 DEF LoadConfiguration, ConfigType, Tables
<1>7. hook_state' \in {-1, 0, 1}
  BY <1>1 DEF LoadConfiguration, ConfigType
<1>8. /\ rash_lua' \in LuaStates \union {Null} /\ retired_lua' \in LuaStates \union {Null}
      /\ dangling' \in SUBSET LuaStates
  BY <1>1, NewLuaProps, CloseType DEF LoadConfiguration, Retire, ConfigType
<1> QED
  BY <1>3, <1>4, <1>5, <1>6, <1>7, <1>8 DEF ConfigType

LEMMA InitializeType ==
  ASSUME CoreInv, NEW force, Initialize(force) \/ UNCHANGED config
  PROVE  ConfigType'
<1>1. CASE UNCHANGED config
  BY <1>1 DEF config, CoreInv, ReloadTypeOK, ConfigType
<1>2. CASE LoadConfiguration
  BY <1>2, LoadType
<1> QED
  BY <1>1, <1>2 DEF Initialize

(* A load that C code starts: a hook that runs its command has raised           *)
(* hook_execution_depth, and a state is closed at depth 0 only.             *)
LEMMA LoadOpen ==
  ASSUME CoreInv, LuaOpen(stack, dangling, rash_lua, retired_lua), pc # "lua",
         LoadConfiguration
  PROVE  LuaOpen(stack, dangling', rash_lua', retired_lua')
<1>1. CASE ~Loaded
  BY <1>1 DEF LoadConfiguration
<1>2. CASE Loaded /\ hook_execution_depth # 0 /\ rash_lua # Null
  <2>1. rash_lua' = NewLua /\ retired_lua' = rash_lua /\ dangling' = dangling
    BY <1>2 DEF LoadConfiguration, Retire
  <2> QED
    BY <1>2, <2>1, NewLuaProps DEF LuaOpen
<1>3. CASE Loaded /\ ~(hook_execution_depth # 0 /\ rash_lua # Null)
  <2>1. /\ rash_lua' = NewLua /\ retired_lua' = retired_lua
        /\ dangling' = dangling \union ({rash_lua} \intersect InUse(stack))
    BY <1>3 DEF LoadConfiguration, Retire, Close
  <2>2. dangling' \subseteq InUse(stack)
    BY <2>1 DEF LuaOpen
  <2>3. rash_lua' \notin dangling'
    BY <2>1, <2>2, NewLuaProps
  <2>4. retired_lua' # Null => rash_lua' # Null /\ retired_lua' # rash_lua'
    BY <1>3, <2>1, NewLuaProps DEF LuaOpen
  <2>5. ASSUME NEW k \in DOMAIN stack, stack[k].op \in {"hook", "ran"}
        PROVE  stack[k].lua \notin dangling'
    <3>1. DOMAIN stack = 1 .. Len(stack)
      BY LenProperties DEF CoreInv, ReloadTypeOK
    <3>2. hook_execution_depth = 1
      BY <2>5, <3>1 DEF CoreInv, FramesOK, DepthAt
    <3>3. rash_lua = Null
      BY <1>3, <3>2
    <3>4. dangling' = dangling
      BY <2>1, <3>3 DEF InUse
    <3> QED
      BY <2>5, <3>4 DEF LuaOpen
  <2> QED
    BY <2>2, <2>3, <2>4, <2>5 DEF LuaOpen
<1> QED
  BY <1>1, <1>2, <1>3

LEMMA InitializeOpen ==
  ASSUME CoreInv, LuaOpen(stack, dangling, rash_lua, retired_lua), pc # "lua",
         NEW force, Initialize(force) \/ UNCHANGED config
  PROVE  LuaOpen(stack, dangling', rash_lua', retired_lua')
<1>1. CASE UNCHANGED config
  BY <1>1 DEF config
<1>2. CASE LoadConfiguration
  BY <1>2, LoadOpen
<1> QED
  BY <1>1, <1>2 DEF Initialize

-----------------------------------------------------------------------------
(* Frames pushed and popped.                                                *)

(* A stack, frame by frame. *)
LEMMA StackProps ==
  ASSUME NEW s \in Seq(Frames)
  PROVE  /\ DOMAIN s = 1 .. Len(s) /\ Len(s) \in Nat
         /\ \A k \in 1 .. Len(s) : s[k] \in Frames
         /\ s = <<>> <=> Len(s) = 0
         /\ s # <<>> => Last(s) = s[Len(s)]
BY LenProperties, ElementOfSeq, EmptySeq DEF Last

(* The control moves, and the frames stay. *)
LEMMA MoveFrames ==
  ASSUME NEW s \in Seq(Frames), NEW p, NEW d, NEW r, FramesOK(s, p, d, r), s # <<>>,
         NEW q, q # "idle",
         \/ s[Len(s)].op = "layer"
         \/ p # "lua" /\ q # "lua"
  PROVE  FramesOK(s, q, d, r)
<1>1. Len(s) \in Nat /\ Len(s) \in 1 .. Len(s)
  BY StackProps
<1> QED
  BY <1>1 DEF FramesOK, DepthAt, HoldsLua

LEMMA PushFrame ==
  ASSUME NEW s \in Seq(Frames), NEW p, NEW d, NEW r, FramesOK(s, p, d, r), p # "lua",
         NEW e \in Frames, NEW q, NEW d2, NEW r2, q # "idle",
         s = <<>> => e.op \in {"command", "string"},
         e.op \notin HoldsLua => e.lua = Null,
         q = "lua" <=> e.op \in HoldsLua,
         \/ e.op \in {"command", "string"} /\ d2 = d /\ r2 = r
         \/ e.op = "layer" /\ d2 = d /\ r = 0 /\ r2 = 1
         \/ e.op = "hook" /\ d = 0 /\ d2 = 0 /\ r2 = r
         \/ e.op = "reload" /\ d = 0 /\ d2 = 1 /\ r2 = r
  PROVE  FramesOK(Append(s, e), q, d2, r2)
<1> DEFINE t == Append(s, e)
           n == Len(s)
<1>1. /\ t \in Seq(Frames) /\ t # <<>> /\ n \in Nat /\ Len(t) = n + 1
      /\ \A k \in 1 .. n : t[k] = s[k]
      /\ t[n + 1] = e
  BY PushTop
<1> HIDE DEF t
<1>2. \A k \in 1 .. Len(t) : k \in 1 .. n \/ k = n + 1
  BY <1>1
<1>3. t[1].op \in {"command", "string"}
  <2>1. CASE s = <<>>
    BY <1>1, <2>1, StackProps
  <2>2. CASE s # <<>>
    <3>1. 1 \in 1 .. n
      BY <1>1, <2>2, StackProps
    <3> QED
      BY <1>1, <2>2, <3>1 DEF FramesOK
  <2> QED
    BY <2>1, <2>2
<1>4. \A k \in 1 .. n : /\ s[k].op \notin HoldsLua => s[k].lua = Null
                        /\ s[k].op = "layer" => r = 1
                        /\ s[k].op # "hook"
                        /\ s[k].op \in Hooked => d = 1
  BY DEF FramesOK, DepthAt, Hooked
<1>9. /\ e.op \in Hooked => d = 0
      /\ e.op = "layer" => r = 0
      /\ d2 = d \/ (d = 0 /\ d2 = 1)
      /\ r2 = r \/ (r = 0 /\ r2 = 1)
  BY DEF Hooked
<1>10. \A k \in 1 .. n : /\ s[k].op \in Hooked => d2 = 1
                         /\ s[k].op = "layer" => r2 = 1
  BY <1>4, <1>9
<1>11. \A k \in 1 .. n : /\ e.op \in Hooked => s[k].op \notin Hooked
                         /\ e.op = "layer" => s[k].op # "layer"
  BY <1>4, <1>9
<1>5. ASSUME NEW k \in 1 .. Len(t)
      PROVE  /\ t[k].op \notin HoldsLua => t[k].lua = Null
             /\ t[k].op = "layer" => r2 = 1
             /\ DepthAt(t, k, q, d2)
  <2>1. CASE k \in 1 .. n
    <3>1. k # Len(t) /\ t[k] = s[k]
      BY <1>1, <2>1
    <3>2. /\ s[k].op \in Hooked => d2 = 1
          /\ s[k].op = "layer" => r2 = 1
      BY <1>10, <2>1
    <3>3. s[k].op # "hook" /\ (s[k].op \notin HoldsLua => s[k].lua = Null)
      BY <1>4, <2>1
    <3> QED
      BY <3>1, <3>2, <3>3 DEF DepthAt, Hooked
  <2>2. CASE k = n + 1
    BY <1>1, <2>2 DEF DepthAt, HoldsLua
  <2> QED
    BY <1>2, <2>1, <2>2
<1>6. ASSUME NEW j \in 1 .. Len(t), NEW k \in 1 .. Len(t),
             \/ t[j].op \in Hooked /\ t[k].op \in Hooked
             \/ t[j].op = "layer" /\ t[k].op = "layer"
      PROVE  j = k
  <2>1. CASE j \in 1 .. n /\ k \in 1 .. n
    BY <1>1, <1>6, <2>1 DEF FramesOK
  <2>2. CASE j = n + 1 /\ k \in 1 .. n
    BY <1>1, <1>11, <1>6, <2>2
  <2>3. CASE k = n + 1 /\ j \in 1 .. n
    BY <1>1, <1>11, <1>6, <2>3
  <2> QED
    BY <1>2, <2>1, <2>2, <2>3
<1> QED
  BY <1>1, <1>3, <1>5, <1>6 DEF FramesOK, t

LEMMA PopFrame ==
  ASSUME NEW s \in Seq(Frames), NEW p, NEW d, NEW r, FramesOK(s, p, d, r), s # <<>>,
         NEW q, NEW d2, NEW r2, q # "lua", q = "idle" <=> Len(s) = 1,
         Last(s).op \notin Hooked => d2 = d,
         Last(s).op # "layer" => r2 = r
  PROVE  FramesOK(Front(s), q, d2, r2)
<1> DEFINE t == Front(s)
           n == Len(s)
<1>1. /\ t \in Seq(Frames) /\ n \in Nat \ {0} /\ Len(t) = n - 1
      /\ \A k \in 1 .. n - 1 : t[k] = s[k]
  BY FrontLast
<1>2. Last(s) = s[n]
  BY StackProps
<1> HIDE DEF t
<1>3. t = <<>> <=> Len(t) = 0
  BY <1>1, StackProps
<1>4. 1 .. Len(t) = 1 .. n - 1 /\ \A k \in 1 .. n - 1 : k \in 1 .. n /\ k # n
  BY <1>1
<1>5. ASSUME NEW k \in 1 .. Len(t)
      PROVE  /\ t[k].op \notin HoldsLua => t[k].lua = Null
             /\ t[k].op = "layer" => r2 = 1
             /\ DepthAt(t, k, q, d2)
  <2>1. k \in 1 .. n /\ k # n /\ n \in 1 .. n /\ t[k] = s[k]
    BY <1>1, <1>4
  <2>2. /\ s[k].op \notin HoldsLua => s[k].lua = Null
        /\ s[k].op = "layer" => r = 1
        /\ s[k].op # "hook"
        /\ s[k].op \in Hooked => d = 1
    BY <2>1 DEF FramesOK, DepthAt, Hooked
  <2>3. s[k].op \in Hooked => d2 = d
    BY <1>2, <2>1 DEF FramesOK
  <2>4. s[k].op = "layer" => r2 = r
    BY <1>2, <2>1 DEF FramesOK
  <2> QED
    BY <2>1, <2>2, <2>3, <2>4 DEF DepthAt, Hooked
<1>6. ASSUME NEW j \in 1 .. Len(t), NEW k \in 1 .. Len(t),
             \/ t[j].op \in Hooked /\ t[k].op \in Hooked
             \/ t[j].op = "layer" /\ t[k].op = "layer"
      PROVE  j = k
  <2>1. j \in 1 .. n /\ k \in 1 .. n /\ t[j] = s[j] /\ t[k] = s[k]
    BY <1>1, <1>4
  <2> QED
    BY <1>6, <2>1 DEF FramesOK
<1>7. t # <<>> => t[1].op \in {"command", "string"}
  BY <1>1, <1>3 DEF FramesOK
<1>8. t = <<>> <=> q = "idle"
  BY <1>1, <1>3
<1> QED
  BY <1>5, <1>6, <1>7, <1>8 DEF FramesOK, t

(* A hook that called run(), or ended undecided. *)
LEMMA HookOn ==
  ASSUME NEW s \in Seq(Frames), NEW d, NEW r, FramesOK(s, "lua", d, r), s # <<>>,
         s[Len(s)].op = "hook",
         NEW t \in Seq(Frames), Len(t) = Len(s), \A k \in 1 .. Len(s) - 1 : t[k] = s[k],
         \/ t[Len(s)].op = "ran"
         \/ t[Len(s)].op = "original" /\ t[Len(s)].lua = Null
  PROVE  FramesOK(t, "body", d + 1, r) /\ d = 0 /\ Len(s) > 1
<1> DEFINE n == Len(s)
<1>1. n \in Nat /\ n # 0 /\ n \in 1 .. n /\ t # <<>>
  BY StackProps
<1>2. d = 0
  BY <1>1 DEF FramesOK, DepthAt
<1>3. n > 1
  <2>1. s[1].op # "hook"
    BY DEF FramesOK
  <2> QED
    BY <1>1, <2>1
<1>4. \A k \in 1 .. n : k = n \/ (k \in 1 .. n - 1 /\ t[k] = s[k])
  BY <1>1
<1>5. \A k \in 1 .. n - 1 : s[k].op \notin Hooked
  BY <1>1 DEF FramesOK, Hooked
<1>6. ASSUME NEW k \in 1 .. n
      PROVE  /\ t[k].op \notin HoldsLua => t[k].lua = Null
             /\ t[k].op = "layer" => r = 1
             /\ DepthAt(t, k, "body", d + 1)
  <2>1. CASE k = n
    BY <1>2, <2>1 DEF DepthAt, HoldsLua
  <2>2. CASE k \in 1 .. n - 1
    <3>1. k \in 1 .. n /\ t[k] = s[k] /\ s[k].op \notin Hooked
      BY <1>5, <2>2
    <3> QED
      BY <3>1 DEF FramesOK, DepthAt, Hooked
  <2> QED
    BY <1>4, <2>1, <2>2
<1>7. ASSUME NEW j \in 1 .. n, NEW k \in 1 .. n,
             \/ t[j].op \in Hooked /\ t[k].op \in Hooked
             \/ t[j].op = "layer" /\ t[k].op = "layer"
      PROVE  j = k
  BY <1>4, <1>5, <1>7 DEF FramesOK, Hooked
<1>8. t[1].op \in {"command", "string"}
  BY <1>3, <1>1 DEF FramesOK
<1> QED
  BY <1>1, <1>2, <1>3, <1>6, <1>7, <1>8 DEF FramesOK

(* How many commands are on a stack. *)
LEMMA CommandsFinite ==
  ASSUME NEW s \in Seq(Frames)
  PROVE  /\ IsFiniteSet(Commands(s)) /\ Cardinality(Commands(s)) \in Nat
         /\ Commands(s) \subseteq 1 .. Len(s)
         /\ s = <<>> => Cardinality(Commands(s)) = 0
<1>1. Len(s) \in Nat /\ Commands(s) \subseteq 1 .. Len(s)
  BY StackProps DEF Commands
<1>2. IsFiniteSet(1 .. Len(s))
  BY <1>1, FS_Interval
<1>3. IsFiniteSet(Commands(s))
  BY <1>1, <1>2, FS_Subset
<1>4. Cardinality(Commands(s)) \in Nat
  BY <1>3, FS_CardinalityType
<1>5. s = <<>> => Commands(s) = {}
  BY <1>1, StackProps
<1> QED
  BY <1>1, <1>3, <1>4, <1>5, FS_EmptySet

LEMMA PushCount ==
  ASSUME NEW s \in Seq(Frames), NEW e \in Frames
  PROVE  Cardinality(Commands(Append(s, e))) =
           Cardinality(Commands(s)) + (IF e.op = "command" THEN 1 ELSE 0)
<1> DEFINE t == Append(s, e)
           n == Len(s)
<1>1. /\ t \in Seq(Frames) /\ n \in Nat /\ Len(t) = n + 1
      /\ \A k \in 1 .. n : t[k] = s[k]
      /\ t[n + 1] = e
  BY PushTop
<1> HIDE DEF t
<1>2. DOMAIN t = 1 .. n + 1 /\ DOMAIN s = 1 .. n
  BY <1>1, StackProps
<1>3. Commands(t) = IF e.op = "command" THEN Commands(s) \union {n + 1} ELSE Commands(s)
  BY <1>1, <1>2 DEF Commands
<1>4. /\ IsFiniteSet(Commands(s)) /\ Cardinality(Commands(s)) \in Nat
      /\ n + 1 \notin Commands(s)
  BY <1>1, CommandsFinite
<1>5. Cardinality(Commands(s) \union {n + 1}) = Cardinality(Commands(s)) + 1
  BY <1>4, FS_AddElement
<1> QED
  BY <1>3, <1>4, <1>5 DEF t

LEMMA PopCount ==
  ASSUME NEW s \in Seq(Frames), s # <<>>
  PROVE  /\ Front(s) \in Seq(Frames)
         /\ Cardinality(Commands(Front(s))) =
              Cardinality(Commands(s)) - (IF Last(s).op = "command" THEN 1 ELSE 0)
<1>1. Front(s) \in Seq(Frames) /\ Last(s) \in Frames /\ s = Append(Front(s), Last(s))
  BY FrontLast, TopAndRest
<1>2. Cardinality(Commands(s)) =
        Cardinality(Commands(Front(s))) + (IF Last(s).op = "command" THEN 1 ELSE 0)
  <2> DEFINE f == Front(s)
             e == Last(s)
  <2>1. Cardinality(Commands(Append(f, e))) =
          Cardinality(Commands(f)) + (IF e.op = "command" THEN 1 ELSE 0)
    BY <1>1, PushCount
  <2> HIDE DEF f, e
  <2>2. s = Append(f, e)
    BY <1>1 DEF f, e
  <2>3. Cardinality(Commands(s)) = Cardinality(Commands(f)) + (IF e.op = "command" THEN 1 ELSE 0)
    BY <2>1, <2>2
  <2> QED
    BY <2>3 DEF f, e
<1>3. Cardinality(Commands(Front(s))) \in Nat
  BY <1>1, CommandsFinite
<1> QED
  BY <1>1, <1>2, <1>3

-----------------------------------------------------------------------------
(* CoreInv, action by action.                                               *)

Places == {"idle", "rack", "internal", "lua", "body", "return"}
Environments == [allow: BOOLEAN, mtime: BOOLEAN]

LEMMA Assemble ==
  ASSUME ConfigType', directory' \in Directories, env' \in Environments,
         hook_execution_depth' \in Nat, rack_depth' \in Nat, pc' \in Places,
         stack' \in Seq(Frames),
         FramesOK(stack', pc', hook_execution_depth', rack_depth'),
         hook_command_depth' = Cardinality(Commands(stack'))
  PROVE  CoreInv'
<1>1. hook_command_depth' \in Nat
  BY CommandsFinite
<1>2. ReloadTypeOK'
  BY <1>1 DEF ReloadTypeOK, ConfigType, Places, Environments
<1> QED
  BY <1>2 DEF CoreInv

LEMMA CoreFacts ==
  ASSUME CoreInv
  PROVE  /\ ConfigType /\ directory \in Directories /\ env \in Environments
         /\ hook_execution_depth \in Nat /\ rack_depth \in Nat /\ pc \in Places
         /\ stack \in Seq(Frames)
         /\ FramesOK(stack, pc, hook_execution_depth, rack_depth)
         /\ hook_command_depth = Cardinality(Commands(stack))
         /\ hook_command_depth \in Nat
BY DEF CoreInv, ReloadTypeOK, ConfigType, Places, Environments

(* The frame on top. *)
LEMMA TopFacts ==
  ASSUME CoreInv, stack # <<>>
  PROVE  /\ Len(stack) \in Nat \ {0} /\ Len(stack) \in 1 .. Len(stack)
         /\ Last(stack) = stack[Len(stack)] /\ Last(stack) \in Frames
         /\ pc # "idle"
         /\ Last(stack).op = "hook" => hook_execution_depth = 0
         /\ Last(stack).op = "ran" =>
              hook_execution_depth = IF pc = "lua" THEN 0 ELSE 1
         /\ Last(stack).op \in {"original", "reload"} => hook_execution_depth = 1
         /\ Last(stack).op = "layer" => rack_depth = 1
         /\ Last(stack).op \notin HoldsLua => Last(stack).lua = Null
         /\ Last(stack).op \notin {"command", "string"} => Len(stack) # 1
<1>1. /\ Len(stack) \in Nat \ {0} /\ Len(stack) \in 1 .. Len(stack)
      /\ Last(stack) = stack[Len(stack)] /\ Last(stack) \in Frames
  BY CoreFacts, StackProps
<1> QED
  BY <1>1, CoreFacts DEF FramesOK, DepthAt

LEMMA FrameInFrames ==
  /\ Frame("command", Null) \in Frames /\ Frame("command", Null).op = "command"
  /\ Frame("string", Null) \in Frames /\ Frame("string", Null).op = "string"
  /\ Frame("original", Null) \in Frames /\ Frame("original", Null).op = "original"
  /\ Frame("reload", Null) \in Frames /\ Frame("reload", Null).op = "reload"
  /\ Frame("command", Null).lua = Null /\ Frame("string", Null).lua = Null
  /\ Frame("original", Null).lua = Null /\ Frame("reload", Null).lua = Null
  /\ \A s \in LuaStates \union {Null} :
       /\ Frame("layer", s) \in Frames /\ Frame("layer", s).op = "layer"
       /\ Frame("hook", s) \in Frames /\ Frame("hook", s).op = "hook"
       /\ Frame("layer", s).lua = s /\ Frame("hook", s).lua = s
BY DEF Frame, Frames

LEMMA ExecuteCommandCore == ASSUME CoreInv, ExecuteCommand PROVE CoreInv'
<1> DEFINE e == Frame("command", Null)
<1>1. /\ stack' = Append(stack, e) /\ hook_command_depth' = hook_command_depth + 1
      /\ pc' = "rack" /\ pc # "lua"
      /\ UNCHANGED <<directory, env, hook_execution_depth, rack_depth>>
  BY DEF ExecuteCommand, Push, environment, MayStart
<1>2. ConfigType'
  BY InitializeType DEF ExecuteCommand
<1>3. e \in Frames /\ e.op = "command" /\ e.lua = Null
  BY FrameInFrames
<1> HIDE DEF e
<1>4. stack' \in Seq(Frames)
  BY <1>1, <1>3, CoreFacts, PushTop
<1>5. FramesOK(stack', pc', hook_execution_depth', rack_depth')
  BY <1>1, <1>3, CoreFacts, PushFrame DEF HoldsLua
<1>6. hook_command_depth' = Cardinality(Commands(stack'))
  BY <1>1, <1>3, CoreFacts, PushCount
<1> QED
  BY <1>1, <1>2, <1>4, <1>5, <1>6, CoreFacts, Assemble DEF Places

LEMMA ParseAndExecuteCore == ASSUME CoreInv, ParseAndExecute PROVE CoreInv'
<1> DEFINE e == Frame("string", Null)
<1>1. /\ stack' = Append(stack, e) /\ pc' = "rack" /\ pc # "lua"
      /\ UNCHANGED <<directory, env, hook_execution_depth, hook_command_depth, rack_depth>>
  BY DEF ParseAndExecute, Push, environment, depths, MayStart
<1>2. ConfigType'
  BY InitializeType DEF ParseAndExecute
<1>3. e \in Frames /\ e.op = "string" /\ e.lua = Null
  BY FrameInFrames
<1> HIDE DEF e
<1>4. stack' \in Seq(Frames)
  BY <1>1, <1>3, CoreFacts, PushTop
<1>5. FramesOK(stack', pc', hook_execution_depth', rack_depth')
  BY <1>1, <1>3, CoreFacts, PushFrame DEF HoldsLua
<1>6. hook_command_depth' = Cardinality(Commands(stack'))
  BY <1>1, <1>3, CoreFacts, PushCount
<1> QED
  BY <1>1, <1>2, <1>4, <1>5, <1>6, CoreFacts, Assemble DEF Places

(* Steps that leave the stack as it is. *)
LEMMA StayCore ==
  ASSUME CoreInv, ConfigType', UNCHANGED <<stack, hook_command_depth>>,
         directory' \in Directories, env' \in Environments,
         hook_execution_depth' \in Nat, rack_depth' \in Nat, pc' \in Places,
         FramesOK(stack, pc', hook_execution_depth', rack_depth')
  PROVE  CoreInv'
<1>1. stack' = stack /\ hook_command_depth' = hook_command_depth
  OBVIOUS
<1> QED
  BY <1>1, CoreFacts, Assemble

LEMMA RackExecuteCore == ASSUME CoreInv, RackExecute PROVE CoreInv'
<1> DEFINE e == Frame("layer", rash_lua')
<1>1. /\ pc = "rack" /\ stack # <<>>
      /\ UNCHANGED <<directory, env, hook_execution_depth, hook_command_depth>>
  BY CoreFacts DEF RackExecute, environment, FramesOK
<1>2. ConfigType'
  BY InitializeType DEF RackExecute
<1>3. CASE pc' = "internal" /\ UNCHANGED <<rack_depth, stack>>
  <2>1. FramesOK(stack, "internal", hook_execution_depth, rack_depth)
    BY <1>1, CoreFacts, MoveFrames
  <2> QED
    BY <1>1, <1>2, <1>3, <2>1, CoreFacts, StayCore DEF Places
<1>4. CASE /\ rack_depth = 0 /\ rack_depth' = 1 /\ pc' = "lua"
           /\ stack' = Append(stack, e)
  <2>1. e \in Frames /\ e.op = "layer"
    BY <1>2, FrameInFrames DEF ConfigType
  <2> HIDE DEF e
  <2>2. stack' \in Seq(Frames)
    BY <1>4, <2>1, CoreFacts, PushTop
  <2>3. FramesOK(stack', pc', hook_execution_depth', rack_depth')
    BY <1>1, <1>4, <2>1, CoreFacts, PushFrame DEF HoldsLua
  <2>4. hook_command_depth' = Cardinality(Commands(stack'))
    BY <1>1, <1>4, <2>1, CoreFacts, PushCount
  <2> QED
    BY <1>1, <1>2, <1>4, <2>2, <2>3, <2>4, CoreFacts, Assemble DEF Places
<1> QED
  BY <1>3, <1>4 DEF RackExecute, Push

LEMMA ExecuteInternalCore == ASSUME CoreInv, ExecuteInternal PROVE CoreInv'
<1>1. /\ pc = "internal" /\ stack # <<>>
      /\ UNCHANGED <<directory, env, hook_command_depth, rack_depth>>
  BY CoreFacts DEF ExecuteInternal, environment, FramesOK
<1>2. ConfigType'
  BY InitializeType DEF ExecuteInternal
<1>3. CASE pc' = "body" /\ UNCHANGED <<hook_execution_depth, stack>>
  <2>1. FramesOK(stack, "body", hook_execution_depth, rack_depth)
    BY <1>1, CoreFacts, MoveFrames
  <2> QED
    BY <1>1, <1>2, <1>3, <2>1, CoreFacts, StayCore DEF Places
<1>4. ASSUME NEW e \in Frames, stack' = Append(stack, e), hook_execution_depth = 0,
             \/ e.op = "hook" /\ pc' = "lua" /\ hook_execution_depth' = 0
             \/ /\ e.op = "reload" /\ e.lua = Null /\ pc' = "body"
                /\ hook_execution_depth' = 1
      PROVE  CoreInv'
  <2>1. stack' \in Seq(Frames)
    BY <1>4, CoreFacts, PushTop
  <2>2. FramesOK(stack', pc', hook_execution_depth', rack_depth')
    BY <1>1, <1>4, CoreFacts, PushFrame DEF HoldsLua
  <2>3. hook_command_depth' = Cardinality(Commands(stack'))
    BY <1>1, <1>4, CoreFacts, PushCount
  <2> QED
    BY <1>1, <1>2, <1>4, <2>1, <2>2, <2>3, CoreFacts, Assemble DEF Places
<1>5. rash_lua' \in LuaStates \union {Null}
  BY <1>2 DEF ConfigType
<1> QED
  BY <1>3, <1>4, <1>5, FrameInFrames DEF ExecuteInternal, Push

LEMMA PlainCore ==
  ASSUME CoreInv, RackBypass \/ LayerNext \/ BodyReturns \/ Reload \/ Edit \/ Export
  PROVE  CoreInv'
<1>1. UNCHANGED <<stack, depths>>
  BY DEF RackBypass, LayerNext, BodyReturns, Reload, Edit, Export
<1>2. directory' \in Directories /\ env' \in Environments
  BY CoreFacts DEF RackBypass, LayerNext, BodyReturns, Reload, Edit, Export, environment,
     Environments
<1>3. ConfigType'
  <2>1. CASE RackBypass \/ LayerNext \/ BodyReturns \/ Reload \/ Export
    BY <2>1, InitializeType DEF RackBypass, LayerNext, BodyReturns, Reload, Export
  <2>2. CASE Edit
    BY <2>2, CoreFacts DEF Edit, ConfigType
  <2> QED
    BY <2>1, <2>2
<1>4. FramesOK(stack, pc', hook_execution_depth, rack_depth) /\ pc' \in Places
  <2>1. CASE LayerNext
    <3>1. stack # <<>>
      BY <2>1, CoreFacts DEF LayerNext, FramesOK
    <3> QED
      BY <2>1, <3>1, TopFacts, CoreFacts, MoveFrames DEF LayerNext, Places
  <2>2. CASE BodyReturns \/ Reload
    <3>1. stack # <<>>
      BY <2>2, CoreFacts DEF BodyReturns, Reload, FramesOK
    <3> QED
      BY <2>2, <3>1, CoreFacts, MoveFrames DEF BodyReturns, Reload, Places
  <2>3. CASE Edit \/ Export
    BY <2>3, CoreFacts DEF Edit, Export
  <2>4. CASE RackBypass
    <3>1. stack # <<>>
      BY <2>4, CoreFacts DEF RackBypass, FramesOK
    <3> QED
      BY <2>4, <3>1, CoreFacts, MoveFrames DEF RackBypass, Places
  <2> QED
    BY <2>1, <2>2, <2>3, <2>4
<1> QED
  BY <1>1, <1>2, <1>3, <1>4, CoreFacts, StayCore DEF depths

(* A hook runs its command, in Lua or after it has ended undecided. *)
LEMMA HookOnCore ==
  ASSUME CoreInv, ConfigType', pc = "lua", Last(stack).op = "hook",
         UNCHANGED <<directory, env, hook_command_depth, rack_depth>>,
         hook_execution_depth' = hook_execution_depth + 1, pc' = "body",
         stack' \in Seq(Frames), Len(stack') = Len(stack),
         \A k \in 1 .. Len(stack) - 1 : stack'[k] = stack[k],
         \/ stack'[Len(stack)].op = "ran"
         \/ stack'[Len(stack)].op = "original" /\ stack'[Len(stack)].lua = Null
  PROVE  CoreInv'
<1>1. stack # <<>>
  BY CoreFacts DEF FramesOK
<1>2. stack[Len(stack)].op = "hook"
  BY <1>1, TopFacts
<1>3. FramesOK(stack, "lua", hook_execution_depth, rack_depth)
  BY CoreFacts
<1>4. FramesOK(stack', "body", hook_execution_depth + 1, rack_depth)
  BY <1>1, <1>2, <1>3, CoreFacts, HookOn
<1>5. Commands(stack') = Commands(stack)
  <2>1. /\ DOMAIN stack' = 1 .. Len(stack) /\ DOMAIN stack = 1 .. Len(stack)
        /\ Len(stack) \in Nat
    BY CoreFacts, StackProps
  <2>2. \A k \in 1 .. Len(stack) : k = Len(stack) \/ k \in 1 .. Len(stack) - 1
    <3>1. \A n \in Nat : \A k \in 1 .. n : k = n \/ k \in 1 .. n - 1
      OBVIOUS
    <3> QED
      BY <2>1, <3>1
  <2>3. \A k \in 1 .. Len(stack) : stack'[k].op = "command" <=> stack[k].op = "command"
    BY <1>2, <2>2
  <2> QED
    BY <2>1, <2>3 DEF Commands
<1> QED
  BY <1>4, <1>5, CoreFacts, Assemble DEF Places

LEMMA HookRunCore == ASSUME CoreInv, HookRun PROVE CoreInv'
<1> DEFINE e == Frame("ran", Last(stack).lua)
<1>1. /\ pc = "lua" /\ Last(stack).op = "hook" /\ stack' = Append(Front(stack), e)
      /\ UNCHANGED <<directory, env, config, hook_command_depth, rack_depth>>
      /\ hook_execution_depth' = hook_execution_depth + 1 /\ pc' = "body"
  BY DEF HookRun, environment
<1>2. stack # <<>> /\ stack \in Seq(Frames)
  BY <1>1, CoreFacts DEF FramesOK
<1>3. e \in Frames /\ e.op = "ran"
  BY <1>2, TopFacts DEF Frame, Frames
<1> HIDE DEF e
<1>4. /\ stack' \in Seq(Frames) /\ Len(stack') = Len(stack)
      /\ \A k \in 1 .. Len(stack) - 1 : stack'[k] = stack[k]
      /\ stack'[Len(stack)] = e
  <2> DEFINE t == Append(Front(stack), e)
  <2>1. /\ t \in Seq(Frames) /\ Len(t) = Len(stack)
        /\ \A k \in 1 .. Len(stack) - 1 : t[k] = stack[k]
        /\ t[Len(stack)] = e
    BY <1>2, <1>3, ReplaceTop
  <2>2. stack' = t
    BY <1>1
  <2> HIDE DEF t
  <2> QED
    BY <2>1, <2>2
<1>5. ConfigType'
  BY <1>1, InitializeType
<1> QED
  BY <1>1, <1>3, <1>4, <1>5, HookOnCore

LEMMA HookFallsThroughCore == ASSUME CoreInv, HookFallsThrough PROVE CoreInv'
<1> DEFINE e == Frame("original", Null)
<1>1. /\ pc = "lua" /\ Last(stack).op = "hook" /\ stack' = Append(Front(stack), e)
      /\ UNCHANGED <<directory, env, hook_command_depth, rack_depth>>
      /\ hook_execution_depth' = hook_execution_depth + 1 /\ pc' = "body"
  BY DEF HookFallsThrough, environment
<1>2. stack # <<>> /\ stack \in Seq(Frames)
  BY <1>1, CoreFacts DEF FramesOK
<1>3. e \in Frames /\ e.op = "original" /\ e.lua = Null
  BY FrameInFrames
<1> HIDE DEF e
<1>4. /\ stack' \in Seq(Frames) /\ Len(stack') = Len(stack)
      /\ \A k \in 1 .. Len(stack) - 1 : stack'[k] = stack[k]
      /\ stack'[Len(stack)] = e
  BY <1>1, <1>2, <1>3, ReplaceTop
<1>5. ConfigType'
  BY CoreFacts DEF HookFallsThrough, ConfigType
<1> QED
  BY <1>1, <1>3, <1>4, <1>5, HookOnCore

(* A frame is popped. *)
LEMMA PopCore ==
  ASSUME CoreInv, ConfigType', stack # <<>>, stack' = Front(stack),
         UNCHANGED <<directory, env>>,
         hook_execution_depth' \in Nat, rack_depth' \in Nat, pc' \in Places,
         pc' # "lua", pc' = "idle" <=> Len(stack) = 1,
         Last(stack).op \notin Hooked => hook_execution_depth' = hook_execution_depth,
         Last(stack).op # "layer" => rack_depth' = rack_depth,
         hook_command_depth' =
           hook_command_depth - (IF Last(stack).op = "command" THEN 1 ELSE 0)
  PROVE  CoreInv'
<1>1. FramesOK(stack', pc', hook_execution_depth', rack_depth')
  BY CoreFacts, PopFrame
<1>2. /\ stack' \in Seq(Frames)
      /\ Cardinality(Commands(stack')) =
           Cardinality(Commands(stack)) - (IF Last(stack).op = "command" THEN 1 ELSE 0)
  BY CoreFacts, PopCount
<1>3. hook_command_depth' = Cardinality(Commands(stack'))
  BY <1>2, CoreFacts
<1> QED
  BY <1>1, <1>2, <1>3, CoreFacts, Assemble

LEMMA CallbackReturnsCore == ASSUME CoreInv, CallbackReturns PROVE CoreInv'
<1>1. /\ pc = "lua" /\ stack' = Front(stack) /\ pc' = "return"
      /\ UNCHANGED <<directory, env, hook_execution_depth, hook_command_depth>>
      /\ rack_depth' = IF Last(stack).op = "layer" THEN rack_depth - 1 ELSE rack_depth
  BY DEF CallbackReturns, RackDepthAfter, Pop, environment
<1>2. stack # <<>>
  BY <1>1, CoreFacts DEF FramesOK
<1>3. Last(stack).op \in HoldsLua
  BY <1>1, <1>2, TopFacts, CoreFacts DEF FramesOK
<1>4. Last(stack).op \notin {"command", "string"} /\ Len(stack) # 1
  BY <1>2, <1>3, TopFacts DEF HoldsLua
<1>5. rack_depth' \in Nat
  BY <1>1, <1>2, TopFacts, CoreFacts
<1>6. ConfigType'
  BY CoreFacts DEF CallbackReturns, ConfigType
<1>7. hook_command_depth' =
        hook_command_depth - (IF Last(stack).op = "command" THEN 1 ELSE 0)
  BY <1>1, <1>4, CoreFacts
<1> QED
  BY <1>1, <1>2, <1>4, <1>5, <1>6, <1>7, CoreFacts, PopCore DEF Places

LEMMA CloseRetiredType ==
  ASSUME CoreInv, CloseRetired \/ UNCHANGED <<dangling, retired_lua>>
  PROVE  /\ dangling' \in SUBSET LuaStates
         /\ retired_lua' \in LuaStates \union {Null}
BY CoreFacts, CloseType DEF CloseRetired, ConfigType

LEMMA CommandEndCore == ASSUME CoreInv, CommandEnd PROVE CoreInv'
<1>1. /\ stack # <<>> /\ Last(stack).op = "command" /\ stack' = Front(stack)
      /\ pc' = IF Len(stack) = 1 THEN "idle" ELSE "body"
      /\ hook_command_depth' = hook_command_depth - 1
      /\ UNCHANGED <<directory, env, hook_execution_depth, rack_depth>>
  BY DEF CommandEnd, Pop, environment
<1>2. ConfigType'
  BY CloseRetiredType, CoreFacts DEF CommandEnd, ConfigType
<1> QED
  BY <1>1, <1>2, CoreFacts, PopCore DEF Places

LEMMA StringEndCore == ASSUME CoreInv, StringEnd PROVE CoreInv'
<1>1. /\ stack # <<>> /\ Last(stack).op = "string" /\ stack' = Front(stack)
      /\ pc' = IF Len(stack) = 1 THEN "idle" ELSE "body"
      /\ UNCHANGED <<directory, env, hook_execution_depth, hook_command_depth, rack_depth>>
  BY DEF StringEnd, Pop, environment, depths
<1>2. ConfigType'
  BY InitializeType DEF StringEnd
<1>3. hook_command_depth' =
        hook_command_depth - (IF Last(stack).op = "command" THEN 1 ELSE 0)
  BY <1>1, CoreFacts
<1> QED
  BY <1>1, <1>2, <1>3, CoreFacts, PopCore DEF Places

LEMMA OriginalEndCore == ASSUME CoreInv, OriginalEnd PROVE CoreInv'
<1>1. /\ pc = "return" /\ pc' = pc
      /\ stack # <<>> /\ Last(stack).op \in {"original", "reload"} /\ stack' = Front(stack)
      /\ hook_execution_depth' = hook_execution_depth - 1
      /\ UNCHANGED <<directory, env, hook_command_depth, rack_depth>>
  BY DEF OriginalEnd, Pop, environment
<1>2. ConfigType'
  BY CloseRetiredType, CoreFacts DEF OriginalEnd, ConfigType
<1>3. hook_command_depth' =
        hook_command_depth - (IF Last(stack).op = "command" THEN 1 ELSE 0)
  BY <1>1, CoreFacts
<1>4. hook_execution_depth' \in Nat /\ Len(stack) # 1 /\ Last(stack).op \in Hooked
  BY <1>1, TopFacts DEF Hooked
<1> QED
  BY <1>1, <1>2, <1>3, <1>4, CoreFacts, PopCore DEF Places

LEMMA BackToLuaCore == ASSUME CoreInv, BackToLua PROVE CoreInv'
<1>1. /\ pc = "return" /\ pc' = "lua" /\ stack # <<>> /\ Last(stack).op \in {"layer", "ran"}
      /\ hook_execution_depth' = IF Last(stack).op = "ran"
                                 THEN hook_execution_depth - 1 ELSE hook_execution_depth
      /\ UNCHANGED <<directory, env, hook_command_depth, rack_depth, stack>>
  BY DEF BackToLua, environment
<1>2. ConfigType'
  BY InitializeType DEF BackToLua
<1>3. /\ Len(stack) \in 1 .. Len(stack) /\ stack[Len(stack)] = Last(stack)
      /\ Last(stack).op = "ran" => hook_execution_depth = 1
  BY <1>1, TopFacts
<1>4. hook_execution_depth' \in Nat
  BY <1>1, <1>3, CoreFacts
<1>5. FramesOK(stack, "lua", hook_execution_depth', rack_depth)
  <2>1. CASE Last(stack).op = "layer"
    <3>1. hook_execution_depth' = hook_execution_depth
      BY <1>1, <2>1
    <3> QED
      BY <1>1, <1>3, <2>1, <3>1, CoreFacts, MoveFrames
  <2>2. CASE Last(stack).op = "ran"
    <3>1. hook_execution_depth' = 0
      BY <1>1, <1>3, <2>2
    <3>2. \A k \in 1 .. Len(stack) : k # Len(stack) => stack[k].op \notin Hooked
      BY <1>3, <2>2, CoreFacts DEF FramesOK, Hooked
    <3>3. \A k \in 1 .. Len(stack) : DepthAt(stack, k, "lua", 0)
      BY <1>3, <2>2, <3>2 DEF DepthAt, Hooked
    <3> QED
      BY <1>1, <1>3, <2>2, <3>1, <3>3, CoreFacts DEF FramesOK, HoldsLua
  <2> QED
    BY <1>1, <2>1, <2>2
<1> QED
  BY <1>1, <1>2, <1>4, <1>5, CoreFacts, StayCore DEF Places

LEMMA EmptyStack ==
  ASSUME NEW d, NEW r
  PROVE  /\ <<>> \in Seq(Frames) /\ FramesOK(<<>>, "idle", d, r)
         /\ Cardinality(Commands(<<>>)) = 0
<1> DEFINE s == <<>>
<1>1. s \in Seq(Frames) /\ Len(s) = 0
  BY EmptySeq
<1>2. FramesOK(s, "idle", d, r)
  <2> HIDE DEF s
  <2>1. s = <<>> /\ 1 .. Len(s) = {}
    BY <1>1 DEF s
  <2> QED
    BY <2>1 DEF FramesOK
<1> QED
  BY <1>1, <1>2, CommandsFinite

LEMMA BodyUnwindsCore == ASSUME CoreInv, BodyUnwinds PROVE CoreInv'
<1>1. /\ stack' = <<>> /\ pc' = "idle" /\ dangling' = {}
      /\ hook_command_depth' = hook_command_depth - Cardinality(Commands(stack))
      /\ hook_execution_depth' \in {0, hook_execution_depth}
      /\ retired_lua' \in {Null, retired_lua}
      /\ UNCHANGED <<directory, env, rash_lua, registered, hook_enforcing, rack_enforcing,
                     hook_state, hook_directory, hook_allow_unowned, hook_manifest,
                     rack_depth>>
  BY DEF BodyUnwinds, UnwoundDepth, CommandFrames, Commands, environment
<1>2. ConfigType'
  BY <1>1, CoreFacts DEF ConfigType
<1>3. hook_command_depth' = 0
  BY <1>1, CoreFacts
<1>4. hook_execution_depth' \in Nat
  BY <1>1, CoreFacts
<1> QED
  BY <1>1, <1>2, <1>3, <1>4, EmptyStack, CoreFacts, Assemble DEF Places

LEMMA InitCore == Init => CoreInv
<1> SUFFICES ASSUME Init PROVE CoreInv
  OBVIOUS
<1>1. <<>> \in TablesOf(FileStates) /\ <<>> \in TablesOf(BOOLEAN)
  <2>1. \A S : <<>> \in [{} -> S] /\ {} \in SUBSET (1 .. FileCount)
    OBVIOUS
  <2> QED
    BY <2>1, InCallbackTables
<1>2. NoTables \in Tables
  BY <1>1 DEF NoTables, Tables
<1>3. ReloadTypeOK
  BY <1>1, <1>2, EmptyStack DEF Init, ReloadTypeOK
<1> QED
  BY <1>3, EmptyStack DEF Init, CoreInv

LEMMA NextCore == ASSUME CoreInv, [Next]_vars PROVE CoreInv'
<1>1. CASE UNCHANGED vars
  BY <1>1 DEF vars, config, environment, depths, CoreInv, ReloadTypeOK
<1>2. CASE Next
  BY <1>2, ExecuteCommandCore, ParseAndExecuteCore, RackExecuteCore, ExecuteInternalCore,
     PlainCore, HookRunCore, HookFallsThroughCore, CallbackReturnsCore, CommandEndCore,
     StringEndCore, OriginalEndCore, BackToLuaCore, BodyUnwindsCore DEF Next
<1> QED
  BY <1>1, <1>2

LEMMA CoreInvariant == Spec => []CoreInv
<1>1. CoreInv /\ [Next]_vars => CoreInv'
  BY NextCore
<1> QED
  BY InitCore, <1>1, PTL DEF Spec

(* The configuration, the depths and the C stack keep their types, however      *)
(* many hook files there are and however deep commands are nested: the        *)
(* stack, rack_depth and hook_execution_depth stay in step through every      *)
(* load, callback, return and jump of hooks.c.                              *)
THEOREM ReloadTypeCorrect == Spec => []ReloadTypeOK
<1>1. CoreInv => ReloadTypeOK
  BY DEF CoreInv
<1> QED
  BY <1>1, CoreInvariant, PTL

-----------------------------------------------------------------------------
(* The tables in force.                                                     *)

LEMMA InitializeTables ==
  ASSUME HookTablesMatch, NEW force, Initialize(force) \/ UNCHANGED config
  PROVE  HookTablesMatch'
<1>1. CASE UNCHANGED config
  BY <1>1 DEF config, HookTablesMatch
<1>2. CASE LoadConfiguration /\ Loaded
  BY <1>2 DEF LoadConfiguration, HookTablesMatch
<1>3. CASE LoadConfiguration /\ ~Loaded
  BY <1>3 DEF LoadConfiguration, RestoreHookTable, HookTablesMatch
<1> QED
  BY <1>1, <1>2, <1>3 DEF Initialize

(* rash_hooks_load_configuration puts the count and the bits of the rash.hook  *)
(* table back when a file fails to load, so that table is always that of the   *)
(* current Lua state, whatever loads failed since.                          *)
THEOREM TablesMatch == Spec => []HookTablesMatch
<1>1. Init => HookTablesMatch
  BY DEF Init, HookTablesMatch
<1>2. ASSUME HookTablesMatch, [Next]_vars PROVE HookTablesMatch'
  <2>1. CASE ExecuteCommand
    BY <1>2, <2>1, InitializeTables DEF ExecuteCommand
  <2>2. CASE RackExecute
    BY <1>2, <2>2, InitializeTables DEF RackExecute
  <2>3. CASE ExecuteInternal
    BY <1>2, <2>3, InitializeTables DEF ExecuteInternal
  <2>4. CASE Reload
    BY <1>2, <2>4, InitializeTables DEF Reload
  <2>5. ASSUME UNCHANGED <<rash_lua, registered, hook_enforcing>>
        PROVE  HookTablesMatch'
    BY <1>2, <2>5 DEF HookTablesMatch
  <2>6. CASE UNCHANGED vars
    BY <2>5, <2>6 DEF vars, config
  <2>7. CASE \/ ParseAndExecute \/ RackBypass \/ LayerNext \/ HookRun \/ HookFallsThrough \/ CallbackReturns
             \/ BodyReturns \/ BodyUnwinds \/ CommandEnd \/ StringEnd \/ BackToLua
             \/ OriginalEnd \/ Edit \/ Export
    BY <2>5, <2>7 DEF ParseAndExecute, RackBypass, LayerNext, HookRun, HookFallsThrough, CallbackReturns,
       BodyReturns, BodyUnwinds, CommandEnd, StringEnd, BackToLua, OriginalEnd, Edit, Export,
       config
  <2> QED
    BY <1>2, <2>1, <2>2, <2>3, <2>4, <2>6, <2>7 DEF Next
<1> QED
  BY <1>1, <1>2, PTL DEF Spec

(* What a load makes of the directory if it takes allow for                 *)
(* RASH_ALLOW_UNOWNED_HOOKS.                                                *)
AdmittedUnder(f, allow) == f.trusted \/ allow

LoadedUnder(allow) ==
  /\ directory # NoDir
  /\ \A i \in Listed : AdmittedUnder(directory[i], allow) /\ directory[i].ok

CallbacksUnder(table, allow) ==
  [i \in {n \in Listed : AdmittedUnder(directory[n], allow)
                        /\ directory[n].registers = table} |-> directory[i]]

(* The callbacks in force are those of the directory. *)
InForce(allow) ==
  /\ registered = [hook |-> CallbacksUnder("hook", allow),
                   rack |-> CallbacksUnder("rack", allow)]
  /\ hook_enforcing = Enforcing(CallbacksUnder("hook", allow))
  /\ rack_enforcing = Enforcing(CallbacksUnder("rack", allow))

(* A manifest that describes the directory as it is was taken with the load     *)
(* that is in force, unless that load failed; and the layers and the hook of     *)
(* an outermost command are chosen with such a manifest, and the variable as it *)
(* is.                                                                      *)
ManifestInv ==
  hook_manifest = "current" /\ LoadedUnder(hook_allow_unowned) => InForce(hook_allow_unowned)

Starting == /\ pc \in {"rack", "internal"}
            /\ Len(stack) = 1 /\ Last(stack).op = "command"
            /\ env.mtime /\ directory # NoDir

StartInv == Starting => hook_manifest = "current" /\ hook_allow_unowned = env.allow

(* Steps that leave what was loaded as it is. *)
LEMMA KeepManifest ==
  ASSUME ManifestInv, UNCHANGED <<directory, registered, hook_enforcing, rack_enforcing,
                                  hook_manifest, hook_allow_unowned>>
  PROVE  ManifestInv'
<1> DEFINE allow == hook_allow_unowned
           hooks == CallbacksUnder("hook", allow)
           racks == CallbacksUnder("rack", allow)
<1>1. directory' = directory /\ Listed' = Listed /\ allow' = allow
  BY DEF Listed
<1>2. LoadedUnder(allow)' <=> LoadedUnder(allow)
  BY <1>1 DEF LoadedUnder, AdmittedUnder
<1>3. hooks' = hooks /\ racks' = racks
  BY <1>1 DEF CallbacksUnder, AdmittedUnder
<1> HIDE DEF hooks, racks
<1>4. Enforcing(hooks)' = Enforcing(hooks) /\ Enforcing(racks)' = Enforcing(racks)
  BY <1>3 DEF Enforcing
<1>5. InForce(allow) => InForce(allow)'
  <2>1. InForce(allow) <=> /\ registered = [hook |-> hooks, rack |-> racks]
                           /\ hook_enforcing = Enforcing(hooks)
                           /\ rack_enforcing = Enforcing(racks)
    BY DEF InForce, hooks, racks
  <2>2. InForce(allow)' <=> /\ registered' = [hook |-> hooks', rack |-> racks']
                            /\ hook_enforcing' = Enforcing(hooks)'
                            /\ rack_enforcing' = Enforcing(racks)'
    BY DEF InForce, hooks, racks
  <2> QED
    BY <1>3, <1>4, <2>1, <2>2
<1> QED
  BY <1>2, <1>5 DEF ManifestInv

LEMMA LoadManifest ==
  ASSUME ManifestInv, NEW force, Initialize(force) \/ UNCHANGED config, UNCHANGED environment
  PROVE  ManifestInv'
<1>1. directory' = directory
  BY DEF environment
<1>2. Listed' = Listed
  BY <1>1 DEF Listed
<1>3. CASE UNCHANGED config
  <2>1. UNCHANGED <<registered, hook_enforcing, rack_enforcing, hook_manifest,
                    hook_allow_unowned>>
    BY <1>3 DEF config
  <2> QED
    BY <1>1, <2>1, KeepManifest
<1>4. CASE LoadConfiguration
  <2>1. hook_allow_unowned' = env.allow
    BY <1>4 DEF LoadConfiguration
  <2>2. /\ Loaded <=> LoadedUnder(env.allow)
        /\ Callbacks("hook") = CallbacksUnder("hook", env.allow)
        /\ Callbacks("rack") = CallbacksUnder("rack", env.allow)
    BY DEF Loaded, LoadedUnder, Callbacks, CallbacksUnder, Admitted, AdmittedUnder
  <2>3. CASE ~Loaded
    <3>1. ~LoadedUnder(env.allow)
      BY <2>2, <2>3
    <3>2. ~LoadedUnder(hook_allow_unowned)'
      BY <1>1, <1>2, <2>1, <3>1 DEF LoadedUnder, AdmittedUnder
    <3>3. (LoadedUnder(hook_allow_unowned) => InForce(hook_allow_unowned))'
      BY <3>2
    <3> QED
      BY <3>3 DEF ManifestInv
  <2>4. CASE Loaded
    <3>1. /\ registered' = [hook |-> Callbacks("hook"), rack |-> Callbacks("rack")]
          /\ hook_enforcing' = Enforcing(Callbacks("hook"))
          /\ rack_enforcing' = Enforcing(Callbacks("rack"))
      BY <1>4, <2>4 DEF LoadConfiguration
    <3>2. /\ CallbacksUnder("hook", hook_allow_unowned)' = Callbacks("hook")
          /\ CallbacksUnder("rack", hook_allow_unowned)' = Callbacks("rack")
      BY <1>1, <1>2, <2>1, <2>2 DEF CallbacksUnder, AdmittedUnder
    <3>3. InForce(hook_allow_unowned)'
      BY <3>1, <3>2 DEF InForce, Enforcing
    <3> QED
      BY <3>3 DEF ManifestInv
  <2> QED
    BY <2>3, <2>4
<1> QED
  BY <1>3, <1>4 DEF Initialize

LEMMA NextManifest == ASSUME ManifestInv, [Next]_vars PROVE ManifestInv'
<1>1. CASE ExecuteCommand \/ RackExecute \/ ExecuteInternal \/ Reload
  <2>1. /\ UNCHANGED environment
        /\ Initialize(FALSE) \/ Initialize(TRUE) \/ UNCHANGED config
    BY <1>1 DEF ExecuteCommand, RackExecute, ExecuteInternal, Reload
  <2> QED
    BY <2>1, LoadManifest
<1>2. CASE Edit
  BY <1>2 DEF Edit, ManifestInv
<1>3. CASE \/ ParseAndExecute \/ RackBypass \/ LayerNext \/ HookRun \/ HookFallsThrough
           \/ CallbackReturns \/ BodyReturns \/ BodyUnwinds \/ CommandEnd \/ StringEnd
           \/ BackToLua \/ OriginalEnd \/ Export \/ UNCHANGED vars
  <2>1. UNCHANGED <<directory, registered, hook_enforcing, rack_enforcing, hook_manifest,
                    hook_allow_unowned>>
    BY <1>3 DEF ParseAndExecute, RackBypass, LayerNext, HookRun, HookFallsThrough,
       CallbackReturns, BodyReturns, BodyUnwinds, CommandEnd, StringEnd, BackToLua,
       OriginalEnd, Export, environment, config, vars
  <2> QED
    BY <2>1, KeepManifest
<1> QED
  BY <1>1, <1>2, <1>3 DEF Next

(* rash_hooks_initialize in mtime mode: an early return, or a load. *)
LEMMA LoadStart ==
  ASSUME env.mtime, directory # NoDir, Initialize(FALSE)
  PROVE  hook_manifest' = "current" /\ hook_allow_unowned' = env.allow
<1>1. CASE UpToDate /\ UNCHANGED config
  BY <1>1 DEF UpToDate, ManifestMatches, config
<1>2. CASE LoadConfiguration
  BY <1>2 DEF LoadConfiguration, ManifestCollected
<1> QED
  BY <1>1, <1>2 DEF Initialize

LEMMA NextStart == ASSUME CoreInv, StartInv, [Next]_vars PROVE StartInv'
<1> SUFFICES ASSUME Starting' PROVE (hook_manifest = "current" /\ hook_allow_unowned = env.allow)'
  BY DEF StartInv
<1>1. /\ pc' \in {"rack", "internal"} /\ Len(stack') = 1 /\ Last(stack').op = "command"
      /\ env'.mtime /\ directory' # NoDir
  BY DEF Starting
<1>2. CASE ExecuteCommand
  <2>1. MayStart /\ stack' = Append(stack, Frame("command", Null)) /\ UNCHANGED environment
    BY <1>2 DEF ExecuteCommand, Push
  <2>2. Len(stack) = 0
    BY <1>1, <2>1, CoreFacts, FrameInFrames, PushTop
  <2>3. stack = <<>>
    BY <2>2, CoreFacts, EmptySeq
  <2>4. hook_command_depth = 0
    BY <2>3, CoreFacts, CommandsFinite
  <2> QED
    BY <1>1, <1>2, <2>1, <2>4, LoadStart DEF ExecuteCommand, environment
<1>3. CASE ParseAndExecute
  <2>1. stack' = Append(stack, Frame("string", Null))
    BY <1>3 DEF ParseAndExecute, Push
  <2>2. Last(stack') = Frame("string", Null)
    BY <2>1, CoreFacts, FrameInFrames, PushTop
  <2> QED
    BY <1>1, <2>2, FrameInFrames
<1>4. CASE RackExecute
  <2>1. pc = "rack" /\ UNCHANGED <<environment, stack>>
    BY <1>1, <1>4 DEF RackExecute
  <2>2. Starting
    BY <1>1, <2>1 DEF Starting, environment
  <2>3. CASE Initialize(FALSE)
    BY <1>1, <2>1, <2>3, LoadStart DEF environment
  <2>4. CASE UNCHANGED config
    BY <2>1, <2>2, <2>4 DEF StartInv, config, environment
  <2> QED
    BY <1>4, <2>3, <2>4 DEF RackExecute
<1>5. CASE RackBypass \/ UNCHANGED vars
  <2>1. UNCHANGED <<environment, config, stack>> /\ pc \in {"rack", "internal"}
    BY <1>1, <1>5 DEF RackBypass, vars
  <2>2. Starting
    BY <1>1, <2>1 DEF Starting, environment
  <2> QED
    BY <2>1, <2>2 DEF StartInv, config, environment
<1>6. CASE LayerNext
  <2>1. stack' = stack /\ pc = "lua" /\ Last(stack).op = "layer"
    BY <1>6 DEF LayerNext
  <2> QED
    BY <1>1, <2>1
<1>7. CASE \/ ExecuteInternal \/ HookRun \/ HookFallsThrough \/ CallbackReturns \/ BodyReturns
           \/ Reload \/ BodyUnwinds \/ CommandEnd \/ StringEnd \/ BackToLua \/ OriginalEnd
           \/ Edit \/ Export
  BY <1>1, <1>7 DEF ExecuteInternal, HookRun, HookFallsThrough, CallbackReturns, BodyReturns,
     Reload, BodyUnwinds, CommandEnd, StringEnd, BackToLua, OriginalEnd, Edit, Export
<1> QED
  BY <1>2, <1>3, <1>4, <1>5, <1>6, <1>7 DEF Next

(* execute_command initializes the hooks before an outermost command: in mtime  *)
(* mode rash_hooks_initialize returns early only if the manifest matches and    *)
(* the load behind it took the variable as it is.  So the callbacks, and their  *)
(* bits, that such a command starts under are those of the directory as it is,  *)
(* unless the directory does not load.                                      *)
THEOREM FreshOutermost == Spec => []OutermostIsFresh
<1>1. Init => ManifestInv /\ StartInv
  BY DEF Init, ManifestInv, StartInv, Starting
<1>2. CoreInv /\ (ManifestInv /\ StartInv) /\ [Next]_vars => (ManifestInv /\ StartInv)'
  BY NextManifest, NextStart
<1>3. ManifestInv /\ StartInv => OutermostIsFresh
  <2> SUFFICES ASSUME ManifestInv, StartInv,
                      pc \in {"rack", "internal"}, Len(stack) = 1, Last(stack).op = "command",
                      env.mtime, Loaded
               PROVE  /\ registered = [hook |-> Callbacks("hook"), rack |-> Callbacks("rack")]
                      /\ hook_enforcing = Enforcing(registered.hook)
                      /\ rack_enforcing = Enforcing(registered.rack)
    BY DEF OutermostIsFresh
  <2>1. hook_manifest = "current" /\ hook_allow_unowned = env.allow
    BY DEF StartInv, Starting, Loaded
  <2>2. /\ LoadedUnder(env.allow)
        /\ Callbacks("hook") = CallbacksUnder("hook", env.allow)
        /\ Callbacks("rack") = CallbacksUnder("rack", env.allow)
    BY DEF Loaded, LoadedUnder, Callbacks, CallbacksUnder, Admitted, AdmittedUnder
  <2>3. InForce(env.allow)
    BY <2>1, <2>2 DEF ManifestInv
  <2>4. registered.hook = Callbacks("hook") /\ registered.rack = Callbacks("rack")
    BY <2>2, <2>3 DEF InForce
  <2> QED
    BY <2>2, <2>3, <2>4 DEF InForce
<1> QED
  BY <1>1, <1>2, <1>3, CoreInvariant, PTL DEF Spec

-----------------------------------------------------------------------------
(* Which Lua states are open, for commands that come from the reader.       *)

LEMMA PushOpen ==
  ASSUME NEW s \in Seq(Frames), NEW dead, NEW lua, NEW retired,
         LuaOpen(s, dead, lua, retired),
         NEW e \in Frames, e.op \in {"hook", "ran"} => e.lua \notin dead
  PROVE  LuaOpen(Append(s, e), dead, lua, retired)
<1> DEFINE t == Append(s, e)
           n == Len(s)
<1>1. /\ t \in Seq(Frames) /\ n \in Nat /\ Len(t) = n + 1
      /\ \A k \in 1 .. n : t[k] = s[k]
      /\ t[n + 1] = e
  BY PushTop
<1> HIDE DEF t
<1>2. DOMAIN t = 1 .. n + 1 /\ DOMAIN s = 1 .. n
  BY <1>1, StackProps
<1>3. \A k \in 1 .. n + 1 : k = n + 1 \/ (k \in 1 .. n /\ t[k] = s[k])
  BY <1>1
<1>4. \A k \in 1 .. n : k \in 1 .. n + 1
  BY <1>1
<1>5. InUse(s) \subseteq InUse(t)
  BY <1>1, <1>2, <1>4 DEF InUse
<1>6. \A k \in DOMAIN t : t[k].op \in {"hook", "ran"} => t[k].lua \notin dead
  BY <1>1, <1>2, <1>3 DEF LuaOpen
<1> QED
  BY <1>5, <1>6 DEF LuaOpen, t

LEMMA PopOpen ==
  ASSUME NEW s \in Seq(Frames), s # <<>>, NEW dead, NEW lua, NEW retired,
         LuaOpen(s, dead, lua, retired)
  PROVE  /\ LuaOpen(Front(s), dead \intersect InUse(Front(s)), lua, retired)
         /\ Last(s).lua \notin dead => dead \subseteq InUse(Front(s))
         /\ Last(s).lua = Null => InUse(Front(s)) = InUse(s)
<1> DEFINE t == Front(s)
           n == Len(s)
<1>1. /\ t \in Seq(Frames) /\ n \in Nat \ {0} /\ Len(t) = n - 1
      /\ \A k \in 1 .. n - 1 : t[k] = s[k]
      /\ Last(s) = s[n]
  BY FrontLast, StackProps
<1> HIDE DEF t
<1>2. DOMAIN t = 1 .. n - 1 /\ DOMAIN s = 1 .. n
  BY <1>1, StackProps
<1>3. \A k \in 1 .. n : k = n \/ k \in 1 .. n - 1
  BY <1>1
<1>4. \A k \in 1 .. n - 1 : k \in 1 .. n
  BY <1>1
<1>5. InUse(s) \subseteq InUse(t) \union {Last(s).lua}
  BY <1>1, <1>2, <1>3 DEF InUse
<1>6. InUse(t) \subseteq InUse(s)
  BY <1>1, <1>2, <1>4 DEF InUse
<1>7. \A k \in DOMAIN t : t[k].op \in {"hook", "ran"} => t[k].lua \notin dead
  BY <1>1, <1>2, <1>4 DEF LuaOpen
<1>8. Null \notin InUse(s)
  BY DEF InUse
<1>9. LuaOpen(t, dead \intersect InUse(t), lua, retired)
  BY <1>7 DEF LuaOpen
<1>10. Last(s).lua \notin dead => dead \subseteq InUse(t)
  BY <1>5 DEF LuaOpen
<1>11. Last(s).lua = Null => InUse(t) = InUse(s)
  BY <1>5, <1>6, <1>8
<1> QED
  BY <1>9, <1>10, <1>11 DEF t

LEMMA Base ==
  ASSUME NEW s \in Seq(Frames), BaseOK(s)
  PROVE  /\ \A e \in Frames : s # <<>> \/ e.op = "command" => BaseOK(Append(s, e))
         /\ s # <<>> => BaseOK(Front(s))
<1>1. ASSUME NEW e \in Frames, s # <<>> \/ e.op = "command"
      PROVE  BaseOK(Append(s, e))
  <2> DEFINE t == Append(s, e)
  <2>1. /\ \A k \in 1 .. Len(s) : t[k] = s[k]
        /\ t[Len(s) + 1] = e /\ Len(s) \in Nat
    BY PushTop
  <2> HIDE DEF t
  <2>2. CASE s = <<>>
    BY <1>1, <2>1, <2>2, StackProps DEF BaseOK, t
  <2>3. CASE s # <<>>
    <3>1. 1 \in 1 .. Len(s)
      BY <2>1, <2>3, StackProps
    <3> QED
      BY <2>1, <2>3, <3>1 DEF BaseOK, t
  <2> QED
    BY <2>2, <2>3
<1>2. ASSUME s # <<>> PROVE BaseOK(Front(s))
  <2> DEFINE t == Front(s)
  <2>1. /\ t \in Seq(Frames) /\ Len(s) \in Nat \ {0} /\ Len(t) = Len(s) - 1
        /\ \A k \in 1 .. Len(s) - 1 : t[k] = s[k]
    BY <1>2, FrontLast
  <2> HIDE DEF t
  <2>2. t # <<>> => Len(t) # 0
    BY <2>1, StackProps
  <2> QED
    BY <1>2, <2>1, <2>2 DEF BaseOK, t
<1> QED
  BY <1>1, <1>2

LEMMA OpenFacts ==
  ASSUME OpenInv
  PROVE  /\ BaseOK(stack) /\ LuaOpen(stack, dangling, rash_lua, retired_lua)
         /\ retired_lua # Null => stack # <<>>
BY DEF OpenInv

(* A C function that loads what it needs and goes on under the same stack, or   *)
(* one with one frame more.                                                 *)
LEMMA StayOpen ==
  ASSUME CoreInv, OpenInv, pc # "lua", stack' = stack, stack # <<>>,
         NEW force, Initialize(force) \/ UNCHANGED config
  PROVE  OpenInv'
<1>1. LuaOpen(stack, dangling', rash_lua', retired_lua')
  BY OpenFacts, InitializeOpen
<1> QED
  BY <1>1, OpenFacts DEF OpenInv

LEMMA GrowOpen ==
  ASSUME CoreInv, OpenInv, pc # "lua",
         NEW force, Initialize(force) \/ UNCHANGED config,
         NEW e \in Frames, stack' = Append(stack, e),
         stack # <<>> \/ e.op = "command",
         e.op \in {"hook", "ran"} => e.lua = rash_lua'
  PROVE  OpenInv'
<1>1. LuaOpen(stack, dangling', rash_lua', retired_lua')
  BY OpenFacts, InitializeOpen
<1>2. e.op \in {"hook", "ran"} => e.lua \notin dangling'
  BY <1>1 DEF LuaOpen
<1>3. stack \in Seq(Frames)
  BY CoreFacts
<1>4. LuaOpen(Append(stack, e), dangling', rash_lua', retired_lua')
  BY <1>1, <1>2, <1>3, PushOpen
<1>5. BaseOK(Append(stack, e)) /\ Append(stack, e) # <<>>
  BY <1>3, OpenFacts, Base, PushTop
<1> QED
  BY <1>4, <1>5 DEF OpenInv

LEMMA ReaderOpen ==
  ASSUME CoreInv, OpenInv, ~StringsAtTop, ExecuteCommand \/ ParseAndExecute
  PROVE  OpenInv'
<1>1. pc # "lua"
  BY DEF ExecuteCommand, ParseAndExecute, MayStart
<1>2. CASE ExecuteCommand
  <2>1. /\ Initialize(FALSE) \/ UNCHANGED config
        /\ stack' = Append(stack, Frame("command", Null))
    BY <1>2 DEF ExecuteCommand, Push
  <2> QED
    BY <1>1, <2>1, FrameInFrames, GrowOpen
<1>3. CASE ParseAndExecute
  <2>1. /\ UNCHANGED config /\ pc = "body"
        /\ stack' = Append(stack, Frame("string", Null))
    BY <1>3 DEF ParseAndExecute, Push
  <2>2. stack # <<>>
    BY <2>1, CoreFacts DEF FramesOK
  <2> QED
    BY <1>1, <2>1, <2>2, FrameInFrames, GrowOpen
<1> QED
  BY <1>2, <1>3

LEMMA ExecuteOpen ==
  ASSUME CoreInv, OpenInv, RackExecute \/ ExecuteInternal
  PROVE  OpenInv'
<1>1. /\ pc # "lua" /\ stack # <<>>
      /\ Initialize(FALSE) \/ UNCHANGED config
  BY CoreFacts DEF RackExecute, ExecuteInternal, FramesOK
<1>2. rash_lua' \in LuaStates \union {Null}
  BY <1>1, InitializeType DEF ConfigType
<1>3. \/ stack' = stack
      \/ stack' = Append(stack, Frame("layer", rash_lua'))
      \/ stack' = Append(stack, Frame("hook", rash_lua'))
      \/ stack' = Append(stack, Frame("reload", Null))
  BY DEF RackExecute, ExecuteInternal, Push
<1>4. CASE stack' = stack
  BY <1>1, <1>4, StayOpen
<1>5. ASSUME NEW e \in Frames, stack' = Append(stack, e),
             e.op \in {"hook", "ran"} => e.lua = rash_lua'
      PROVE  OpenInv'
  BY <1>1, <1>5, GrowOpen
<1> QED
  BY <1>2, <1>3, <1>4, <1>5, FrameInFrames

(* Steps that leave the stack and the Lua states as they are. *)
LEMMA PlainOpen ==
  ASSUME CoreInv, OpenInv,
         RackBypass \/ LayerNext \/ BodyReturns \/ BackToLua \/ Edit \/ Export
  PROVE  OpenInv'
<1>1. UNCHANGED <<stack, rash_lua, retired_lua, dangling>>
  BY DEF RackBypass, LayerNext, BodyReturns, BackToLua, Edit, Export, config
<1> QED
  BY <1>1, OpenFacts DEF OpenInv

LEMMA ReloadOpen == ASSUME CoreInv, OpenInv, Reload PROVE OpenInv'
<1>1. pc = "body" /\ stack' = stack /\ Initialize(TRUE)
  BY DEF Reload
<1>2. stack # <<>>
  BY <1>1, CoreFacts DEF FramesOK
<1> QED
  BY <1>1, <1>2, StayOpen

(* A hook that called run() keeps its state; one that ended has left it. *)
LEMMA HookOnOpen ==
  ASSUME CoreInv, OpenInv, HookRun \/ HookFallsThrough
  PROVE  OpenInv'
<1> DEFINE f == Front(stack)
<1>1. pc = "lua" /\ Last(stack).op = "hook" /\ UNCHANGED <<rash_lua, retired_lua>>
  BY DEF HookRun, HookFallsThrough, config
<1>2. stack # <<>> /\ stack \in Seq(Frames)
  BY <1>1, CoreFacts DEF FramesOK
<1>3. /\ Last(stack) \in Frames /\ Len(stack) # 1
      /\ Len(stack) \in Nat \ {0} /\ Len(stack) \in 1 .. Len(stack)
      /\ Last(stack) = stack[Len(stack)]
  BY <1>1, <1>2, TopFacts
<1>4. f \in Seq(Frames) /\ Len(f) = Len(stack) - 1
  BY <1>2, FrontLast
<1>5. /\ LuaOpen(f, dangling \intersect InUse(f), rash_lua, retired_lua)
      /\ Last(stack).lua \notin dangling => dangling \subseteq InUse(f)
  BY <1>2, OpenFacts, PopOpen
<1>6. Last(stack).lua \notin dangling
  <2>1. DOMAIN stack = 1 .. Len(stack)
    BY <1>2, StackProps
  <2> QED
    BY <1>1, <1>3, <2>1, OpenFacts DEF LuaOpen
<1>7. BaseOK(f) /\ f # <<>>
  <2>1. Len(f) # 0
    BY <1>3, <1>4
  <2> QED
    BY <1>2, <1>4, <2>1, OpenFacts, Base, StackProps
<1> HIDE DEF f
<1>8. ASSUME NEW e \in Frames, e.op \in {"hook", "ran"} => e.lua \notin dangling
      PROVE  /\ BaseOK(Append(f, e)) /\ Append(f, e) # <<>>
             /\ LuaOpen(Append(f, e), dangling \intersect InUse(f), rash_lua, retired_lua)
  BY <1>4, <1>5, <1>7, <1>8, Base, PushOpen, PushTop
<1>9. CASE HookRun
  <2> DEFINE e == Frame("ran", Last(stack).lua)
  <2>1. e \in Frames /\ e.lua \notin dangling
    BY <1>3, <1>6 DEF Frame, Frames
  <2>2. stack' = Append(f, e) /\ dangling' = dangling
    BY <1>9 DEF HookRun, config, f
  <2> HIDE DEF e
  <2>3. dangling \intersect InUse(f) = dangling
    BY <1>5, <1>6
  <2> QED
    BY <1>1, <1>8, <2>1, <2>2, <2>3 DEF OpenInv
<1>10. CASE HookFallsThrough
  <2> DEFINE e == Frame("original", Null)
  <2>1. e \in Frames /\ e.op = "original" /\ e.lua = Null
    BY FrameInFrames
  <2>2. stack' = Append(f, e) /\ dangling' = dangling \intersect InUse(stack')
    BY <1>10 DEF HookFallsThrough, f
  <2> HIDE DEF e
  <2>3. InUse(Append(f, e)) = InUse(f)
    <3> DEFINE t == Append(f, e)
    <3>1. t \in Seq(Frames) /\ t # <<>> /\ Last(t) = e /\ Front(t) = f
      BY <1>4, <2>1, PushTop
    <3> HIDE DEF t
    <3>2. LuaOpen(t, dangling \intersect InUse(f), rash_lua, retired_lua)
      BY <1>8, <2>1 DEF t
    <3>3. InUse(Front(t)) = InUse(t)
      BY <2>1, <3>1, <3>2, PopOpen
    <3> QED
      BY <3>1, <3>3 DEF t
  <2> QED
    BY <1>1, <1>8, <2>1, <2>2, <2>3 DEF OpenInv
<1> QED
  BY <1>9, <1>10

(* A frame is popped, and no hook, layer or command under it with its state. *)
LEMMA ShrinkOpen ==
  ASSUME CoreInv, OpenInv, stack # <<>>, stack' = Front(stack), Len(stack) # 1,
         UNCHANGED <<rash_lua, retired_lua>>,
         dangling' = dangling \intersect InUse(Front(stack))
  PROVE  OpenInv'
<1>1. stack \in Seq(Frames)
  BY CoreFacts
<1>2. LuaOpen(Front(stack), dangling \intersect InUse(Front(stack)), rash_lua, retired_lua)
  BY <1>1, OpenFacts, PopOpen
<1>3. BaseOK(Front(stack))
  BY <1>1, OpenFacts, Base
<1>4. Front(stack) # <<>>
  <2> DEFINE f == Front(stack)
  <2>1. f \in Seq(Frames) /\ Len(f) = Len(stack) - 1 /\ Len(stack) \in Nat \ {0}
    BY <1>1, FrontLast
  <2> HIDE DEF f
  <2>2. Len(f) # 0
    BY <2>1
  <2> QED
    BY <2>1, <2>2, StackProps DEF f
<1> QED
  BY <1>2, <1>3, <1>4 DEF OpenInv

LEMMA CallbackReturnsOpen ==
  ASSUME CoreInv, OpenInv, CallbackReturns
  PROVE  OpenInv'
<1>1. /\ pc = "lua" /\ stack' = Front(stack) /\ UNCHANGED <<rash_lua, retired_lua>>
      /\ dangling' = dangling \intersect InUse(stack')
  BY DEF CallbackReturns, Pop
<1>2. stack # <<>>
  BY <1>1, CoreFacts DEF FramesOK
<1>3. Last(stack).op \in HoldsLua
  BY <1>1, <1>2, TopFacts, CoreFacts DEF FramesOK
<1>4. Len(stack) # 1
  BY <1>2, <1>3, TopFacts DEF HoldsLua
<1> QED
  BY <1>1, <1>2, <1>4, ShrinkOpen

(* A command, a string or an execution outside Lua holds no Lua state. *)
LEMMA NoLuaAbove ==
  ASSUME CoreInv, OpenInv, stack # <<>>, Last(stack).op \notin HoldsLua
  PROVE  /\ InUse(Front(stack)) = InUse(stack)
         /\ dangling = dangling \intersect InUse(Front(stack))
<1>1. stack \in Seq(Frames) /\ Last(stack).lua = Null
  BY CoreFacts, TopFacts
<1>2. InUse(Front(stack)) = InUse(stack)
  BY <1>1, OpenFacts, PopOpen
<1>3. dangling \subseteq InUse(stack)
  BY OpenFacts DEF LuaOpen
<1> QED
  BY <1>2, <1>3

LEMMA StringEndOpen ==
  ASSUME CoreInv, OpenInv, StringEnd
  PROVE  OpenInv'
<1>1. /\ stack # <<>> /\ Last(stack).op = "string" /\ stack' = Front(stack)
      /\ UNCHANGED <<rash_lua, retired_lua, dangling>>
  BY DEF StringEnd, Pop, config
<1>2. Len(stack) # 1
  BY <1>1, TopFacts, OpenFacts DEF BaseOK
<1>3. dangling' = dangling \intersect InUse(Front(stack))
  BY <1>1, NoLuaAbove DEF HoldsLua
<1> QED
  BY <1>1, <1>2, <1>3, ShrinkOpen

(* rash_hooks_command_end: the count is back to 0 with the outermost command. *)
LEMMA OutermostCommand ==
  ASSUME CoreInv, OpenInv, stack # <<>>, Last(stack).op = "command"
  PROVE  hook_command_depth = 1 <=> Len(stack) = 1
<1> DEFINE n == Len(stack)
           C == Commands(stack)
<1>1. /\ n \in Nat \ {0} /\ n \in 1 .. n /\ DOMAIN stack = 1 .. n
      /\ stack[n].op = "command" /\ stack[1].op = "command"
  BY TopFacts, CoreFacts, StackProps, OpenFacts DEF BaseOK
<1>2. 1 \in C /\ n \in C /\ C \subseteq 1 .. n
  BY <1>1 DEF Commands
<1>3. IsFiniteSet(C) /\ hook_command_depth = Cardinality(C)
  BY CoreFacts, CommandsFinite
<1> HIDE DEF C, n
<1>4. CASE n = 1
  <2>1. C = {1}
    <3>1. 1 .. n = {1}
      BY <1>4
    <3> QED
      BY <1>2, <3>1
  <2> QED
    BY <1>3, <1>4, <2>1, FS_Singleton DEF n
<1>5. CASE n # 1
  <2>1. Cardinality(C \ {n}) = Cardinality(C) - 1 /\ IsFiniteSet(C \ {n})
    BY <1>2, <1>3, FS_RemoveElement
  <2>2. C \ {n} # {}
    BY <1>2, <1>5
  <2>3. Cardinality(C \ {n}) # 0
    BY <2>1, <2>2, FS_EmptySet
  <2> QED
    BY <1>3, <1>5, <2>1, <2>3 DEF n
<1> QED
  BY <1>4, <1>5

LEMMA CommandEndOpen ==
  ASSUME CoreInv, OpenInv, CommandEnd
  PROVE  OpenInv'
<1>1. /\ stack # <<>> /\ Last(stack).op = "command" /\ stack' = Front(stack)
      /\ rash_lua' = rash_lua
      /\ IF hook_command_depth = 1 THEN CloseRetired
         ELSE UNCHANGED <<dangling, retired_lua>>
  BY DEF CommandEnd, Pop
<1>2. /\ InUse(Front(stack)) = InUse(stack)
      /\ dangling = dangling \intersect InUse(Front(stack))
  BY <1>1, NoLuaAbove DEF HoldsLua
<1>3. hook_command_depth = 1 <=> Len(stack) = 1
  BY <1>1, OutermostCommand
<1>4. CASE Len(stack) = 1
  <2>1. stack' \in Seq(Frames) /\ Len(stack') = 0
    BY <1>1, <1>4, CoreFacts, FrontLast
  <2>2. stack' = <<>> /\ DOMAIN stack' = {}
    BY <2>1, StackProps
  <2>3. InUse(stack') = {}
    BY <2>2 DEF InUse
  <2>4. dangling' = {} /\ retired_lua' = Null
    BY <1>1, <1>2, <1>3, <1>4, <2>3 DEF CloseRetired, Close
  <2> QED
    BY <2>2, <2>4 DEF OpenInv, BaseOK, LuaOpen
<1>5. CASE Len(stack) # 1
  BY <1>1, <1>2, <1>3, <1>5, ShrinkOpen
<1> QED
  BY <1>4, <1>5

(* reloadhooks outside the callbacks closes the retired state: no hook is left    *)
(* on the stack, and the current state is another.                          *)
LEMMA OriginalEndOpen ==
  ASSUME CoreInv, OpenInv, OriginalEnd
  PROVE  OpenInv'
<1> DEFINE f == Front(stack)
           n == Len(stack)
<1>1. /\ stack # <<>> /\ Last(stack).op \in {"original", "reload"} /\ stack' = f
      /\ rash_lua' = rash_lua
      /\ IF Last(stack).op = "reload" THEN CloseRetired
         ELSE UNCHANGED <<dangling, retired_lua>>
  BY DEF OriginalEnd, Pop
<1>2. InUse(f) = InUse(stack) /\ dangling = dangling \intersect InUse(f)
  BY <1>1, NoLuaAbove DEF HoldsLua
<1>3. n # 1 /\ n \in Nat \ {0} /\ n \in 1 .. n /\ Last(stack) = stack[n]
  BY <1>1, TopFacts
<1>4. CASE UNCHANGED <<dangling, retired_lua>>
  BY <1>1, <1>2, <1>3, <1>4, ShrinkOpen
<1>5. CASE CloseRetired
  <2>1. /\ f \in Seq(Frames) /\ Len(f) = n - 1
        /\ \A k \in 1 .. n - 1 : f[k] = stack[k]
    BY <1>1, CoreFacts, FrontLast
  <2> HIDE DEF f
  <2>2. f # <<>> /\ DOMAIN f = 1 .. n - 1
    <3>1. Len(f) # 0
      BY <1>3, <2>1
    <3> QED
      BY <2>1, <3>1, StackProps
  <2>3. \A k \in 1 .. n - 1 : k \in 1 .. n /\ k # n
    BY <1>3
  <2>4. \A k \in 1 .. n - 1 : f[k].op \notin {"hook", "ran"}
    BY <1>1, <1>3, <2>1, <2>3, CoreFacts DEF FramesOK, Hooked
  <2>5. retired_lua' = Null /\ dangling' = dangling \union ({retired_lua} \intersect InUse(f))
    BY <1>2, <1>5 DEF CloseRetired, Close
  <2>6. dangling' \subseteq InUse(f)
    BY <1>2, <2>5
  <2>7. rash_lua \notin dangling'
    BY <2>5, OpenFacts DEF LuaOpen, InUse
  <2>8. LuaOpen(f, dangling', rash_lua, Null)
    BY <2>2, <2>4, <2>6, <2>7 DEF LuaOpen
  <2>9. BaseOK(f)
    BY <1>1, CoreFacts, OpenFacts, Base DEF f
  <2> QED
    BY <1>1, <2>5, <2>8, <2>9 DEF OpenInv
<1> QED
  BY <1>1, <1>4, <1>5

(* rash_hooks_command_unwind closes what waits: the body was part of a command. *)
LEMMA BodyUnwindsOpen ==
  ASSUME CoreInv, OpenInv, BodyUnwinds
  PROVE  OpenInv'
<1>1. /\ pc = "body" /\ stack' = <<>> /\ dangling' = {}
      /\ hook_command_depth' = hook_command_depth - Cardinality(Commands(stack))
      /\ retired_lua' = IF /\ hook_command_depth - Cardinality(Commands(stack)) = 0
                           /\ Commands(stack) # {}
                        THEN Null ELSE retired_lua
  BY DEF BodyUnwinds, UnwoundDepth, CommandFrames, Commands
<1>2. stack # <<>>
  BY <1>1, CoreFacts DEF FramesOK
<1>3. 1 \in Commands(stack)
  <2>1. 1 \in 1 .. Len(stack) /\ DOMAIN stack = 1 .. Len(stack)
    BY <1>2, CoreFacts, StackProps
  <2> QED
    BY <1>2, <2>1, OpenFacts DEF BaseOK, Commands
<1>4. hook_command_depth - Cardinality(Commands(stack)) = 0
  BY CoreFacts
<1>5. retired_lua' = Null
  BY <1>1, <1>3, <1>4
<1>6. DOMAIN stack' = {}
  BY <1>1
<1> QED
  BY <1>1, <1>5, <1>6 DEF OpenInv, BaseOK, LuaOpen

LEMMA NextOpen ==
  ASSUME ~StringsAtTop, CoreInv, OpenInv, [Next]_vars
  PROVE  OpenInv'
<1>1. CASE UNCHANGED vars
  BY <1>1 DEF vars, config, OpenInv
<1>2. CASE Next
  BY <1>2, ReaderOpen, ExecuteOpen, PlainOpen, ReloadOpen, HookOnOpen, CallbackReturnsOpen,
     StringEndOpen, CommandEndOpen, OriginalEndOpen, BodyUnwindsOpen DEF Next
<1> QED
  BY <1>1, <1>2

LEMMA ReaderInvariant ==
  ASSUME ~StringsAtTop
  PROVE  Spec => []IInv
<1>1. Init => IInv
  <2> SUFFICES ASSUME Init PROVE IInv
    OBVIOUS
  <2>1. /\ stack = <<>> /\ dangling = {} /\ retired_lua = Null /\ DOMAIN stack = {}
    BY DEF Init
  <2>2. OpenInv
    BY <2>1 DEF OpenInv, BaseOK, LuaOpen
  <2> QED
    BY <2>2, InitCore DEF IInv
<1>2. IInv /\ [Next]_vars => IInv'
  <2> SUFFICES ASSUME CoreInv, OpenInv, [Next]_vars PROVE CoreInv' /\ OpenInv'
    BY DEF IInv
  <2>1. CoreInv'
    BY NextCore
  <2>2. OpenInv'
    BY NextOpen
  <2> QED
    BY <2>1, <2>2
<1> QED
  BY <1>1, <1>2, PTL DEF Spec

(* A reload by a hooked command retires the Lua state instead of closing it:     *)
(* no state is closed while a hook of it is still on the C stack, at any depth   *)
(* of commands, callbacks and reloads.                                      *)
THEOREM HookOpen ==
  ASSUME ~StringsAtTop
  PROVE  Spec => []HookStateOpen
<1>1. IInv => HookStateOpen
  BY DEF IInv, OpenInv, LuaOpen, HookStateOpen
<1> QED
  BY <1>1, ReaderInvariant, PTL

(* rash_hooks_command_end and rash_hooks_command_unwind pair with every          *)
(* rash_hooks_command_begin: back at the prompt no command is counted and no     *)
(* retired state is kept.                                                   *)
THEOREM NothingLeft ==
  ASSUME ~StringsAtTop
  PROVE  Spec => []NothingPending
<1>1. IInv => NothingPending
  <2> SUFFICES ASSUME CoreInv, OpenInv, pc = "idle"
               PROVE  retired_lua = Null /\ hook_command_depth = 0
    BY DEF IInv, NothingPending
  <2>1. stack = <<>>
    BY CoreFacts DEF FramesOK
  <2> QED
    BY <2>1, CoreFacts, CommandsFinite, OpenFacts
<1> QED
  BY <1>1, ReaderInvariant, PTL
=============================================================================
