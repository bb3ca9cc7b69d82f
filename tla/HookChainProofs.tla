-------------------------- MODULE HookChainProofs --------------------------
(***************************************************************************)
(* Theorems about HookChain for every number of hooks and every choice of    *)
(* enforcing files, with callbacks that keep their runners between commands. *)
(* IInv is the inductive invariant behind all of them.                       *)
(***************************************************************************)
EXTENDS HookChain, Integers, FiniteSetTheorems, SequenceTheorems, WellFoundedInduction,
  TLAPS

-----------------------------------------------------------------------------
(* A stack is a sequence of frames; the one that runs is Last.               *)

(* Popping a frame. *)
LEMMA FrontLast ==
  ASSUME NEW S, NEW s \in Seq(S), s # <<>>
  PROVE  /\ Front(s) \in Seq(S)
         /\ Last(s) \in S
         /\ Len(s) \in Nat \ {0}
         /\ Len(Front(s)) = Len(s) - 1
         /\ \A k \in 1 .. Len(s) - 1 : Front(s)[k] = s[k]
<1> DEFINE n == Len(s) - 1
<1>1. Len(s) \in Nat \ {0} /\ n \in Nat /\ Len(s) = n + 1
  BY EmptySeq, LenProperties
<1>2. Last(s) \in S /\ \A i \in 1 .. n : s[i] \in S
  BY <1>1, ElementOfSeq DEF Last
<1>3. Front(s) = SubSeq(s, 1, n)
  BY DEF Front
<1> HIDE DEF n
<1>4. /\ SubSeq(s, 1, n) \in Seq(S)
      /\ Len(SubSeq(s, 1, n)) = IF 1 <= n THEN n - 1 + 1 ELSE 0
      /\ \A i \in 1 .. n - 1 + 1 : SubSeq(s, 1, n)[i] = s[1 + i - 1]
  BY <1>1, <1>2, SubSeqProperties
<1>5. n - 1 + 1 = n /\ (~(1 <= n) => n = 0) /\ Len(s) - 1 = n
  BY <1>1
<1>6. Len(Front(s)) = n
  BY <1>3, <1>4, <1>5
<1>7. \A k \in 1 .. n : k \in 1 .. n - 1 + 1 /\ 1 + k - 1 = k
  BY <1>1
<1> QED
  BY <1>1, <1>2, <1>3, <1>4, <1>5, <1>6, <1>7

(* Pushing a frame. *)
LEMMA PushTop ==
  ASSUME NEW S, NEW s \in Seq(S), NEW e \in S
  PROVE  /\ Append(s, e) \in Seq(S)
         /\ Append(s, e) # <<>>
         /\ Len(s) \in Nat
         /\ Len(Append(s, e)) = Len(s) + 1
         /\ \A k \in 1 .. Len(s) : Append(s, e)[k] = s[k]
         /\ Append(s, e)[Len(s) + 1] = e
         /\ Last(Append(s, e)) = e
         /\ Front(Append(s, e)) = s
<1> DEFINE t == Append(s, e)
<1>1. /\ t \in Seq(S) /\ t # <<>> /\ Len(s) \in Nat /\ Len(t) = Len(s) + 1
      /\ \A k \in 1 .. Len(s) : t[k] = s[k]
      /\ t[Len(s) + 1] = e
  BY AppendProperties, LenProperties
<1> HIDE DEF t
<1>2. /\ Front(t) \in Seq(S) /\ Len(Front(t)) = Len(s)
      /\ \A k \in 1 .. Len(s) : Front(t)[k] = s[k]
  BY <1>1, FrontLast
<1>3. Front(t) = s /\ Last(t) = e
  BY <1>1, <1>2, SeqEqual DEF Last
<1> QED
  BY <1>1, <1>3 DEF t

(* A stack is what is below its top, and the top. *)
LEMMA TopAndRest ==
  ASSUME NEW S, NEW s \in Seq(S), s # <<>>
  PROVE  /\ s = Append(Front(s), Last(s))
         /\ s[Len(s)] = Last(s)
<1> DEFINE t == Append(Front(s), Last(s))
<1>1. /\ Front(s) \in Seq(S) /\ Last(s) \in S /\ Len(s) \in Nat \ {0}
      /\ Len(Front(s)) = Len(s) - 1 /\ \A k \in 1 .. Len(s) - 1 : Front(s)[k] = s[k]
  BY FrontLast
<1>2. /\ t \in Seq(S) /\ Len(t) = Len(Front(s)) + 1
      /\ \A k \in 1 .. Len(Front(s)) : t[k] = Front(s)[k]
      /\ t[Len(Front(s)) + 1] = Last(s)
  BY <1>1, AppendProperties
<1> HIDE DEF t
<1>3. Len(t) = Len(s) /\ s[Len(s)] = Last(s) /\ t[Len(s)] = Last(s)
  BY <1>1, <1>2 DEF Last
<1>4. \A k \in 1 .. Len(s) : s[k] = t[k]
  BY <1>1, <1>2, <1>3
<1>5. s = t
  BY <1>2, <1>3, <1>4, SeqEqual
<1> QED
  BY <1>3, <1>5 DEF t

-----------------------------------------------------------------------------
(* Natural numbers.                                                         *)

(* A set of natural numbers that is not empty has a least one. *)
LEMMA LeastOfSet ==
  ASSUME NEW S, S \subseteq Nat, S # {}
  PROVE  \E m \in S : \A k \in S : m <= k
<1> DEFINE R == {p \in Nat \X Nat : p[1] < p[2]}
<1>1. IsWellFoundedOn(R, Nat)
  BY NatLessThanWellFounded DEF OpToRel
<1> HIDE DEF R
<1>2. PICK m \in S : \A k \in S : ~ (<<k, m>> \in R)
  BY <1>1, WFMin
<1>3. \A k \in S : ~ (k < m)
  BY <1>2 DEF R
<1> QED
  BY <1>3

(* Induction over the natural numbers, for a set. *)
LEMMA NatSetInduction ==
  ASSUME NEW S, 0 \in S, \A n \in Nat : n \in S => n + 1 \in S
  PROVE  \A n \in Nat : n \in S
<1>1. ASSUME Nat \ S # {} PROVE FALSE
  <2>1. PICK m \in Nat \ S : \A k \in Nat \ S : m <= k
    BY <1>1, LeastOfSet
  <2>2. m - 1 \in Nat /\ ~(m <= m - 1) /\ (m - 1) + 1 = m
    BY <2>1
  <2> QED
    BY <2>1, <2>2
<1> QED
  BY <1>1

-----------------------------------------------------------------------------
(* Control, depths and the stack of frames move together. *)
StackInv ==
  /\ pc = "idle" => frames = <<>>
  /\ pc = "lua" => frames # <<>>
  /\ context.active <=> pc # "idle"
  /\ rash_lua_call_depth = Len(frames)
  /\ hook_execution_depth = IF pc = "body" THEN 1 ELSE 0
  /\ ended # "no" => pc = "idle"

(* The context's flags agree with what happened to the command. *)
OutcomeInv ==
  /\ context.denied => context.executed
  /\ runs <= 1
  /\ runs = 1 => context.executed
  /\ pc = "body" => runs = 1 /\ ~context.denied
  /\ refused => context.denied /\ runs = 0
  /\ context.denied /\ runs = 0 => refused
  /\ context.executed => runs = 1 \/ replaced \/ context.denied
  /\ ended = "returned" => context.executed

(* deny() is open to the hook on top of the stack only if it is enforcing. *)
ModeInv ==
  (current_hook_enforcing /\ frames # <<>>) => hook_enforcing[Last(frames)]

(* A runner, a frame or a call at position i is behind hooks 1 .. i-1. *)
Ordered ==
  /\ \A i \in Calls : fresh[i] > 0 => 1 .. i - 1 \subseteq invoked
  /\ pc = "invoke" => 1 .. index - 1 \subseteq invoked
  /\ \A k \in 1 .. Len(frames) : 1 .. frames[k] \subseteq invoked
  /\ runs > 0 => invoked = Hooks

(* ... until a runner of an earlier command joins in. *)
OrderInv == ~reused => Ordered

IInv == TypeOK /\ StackInv /\ OutcomeInv /\ ModeInv

-----------------------------------------------------------------------------
(* rash_mark_denied yields a denied, executed context. *)
LEMMA MarkDeniedProps ==
  ASSUME NEW c \in Contexts, c.denied => c.executed
  PROVE  /\ MarkDenied(c) \in Contexts
         /\ MarkDenied(c).denied
         /\ MarkDenied(c).executed
         /\ MarkDenied(c).active = c.active
  BY DEF MarkDenied, Contexts, Status, EXECUTION_FAILURE, EXECUTION_SUCCESS

-----------------------------------------------------------------------------
(* The invariant holds initially and every action preserves it. *)
USE HookCountAssumption
  DEF MarkExecuted, Enforcing, NextHook, UseRunner, Decided, UnwindDepths

LEMMA NoContextType ==
  /\ NoContext \in Contexts
  /\ [NoContext EXCEPT !.active = TRUE] \in Contexts
  BY DEF NoContext, Contexts, Status, EXECUTION_FAILURE

(* rash_invoke_hook returns: the control state and the context agree. *)
LEMMA ReturnToProps ==
  ASSUME NEW fs \in Seq(Hooks), NEW c \in Contexts, TypeOK, ReturnTo(fs, c)
  PROVE  /\ frames' = fs
         /\ context' \in Contexts
         /\ context'.active <=> fs # <<>>
         /\ context'.executed = c.executed
         /\ context'.denied = c.denied
         /\ fs = <<>> => pc' = "idle" /\ ended' = "returned"
         /\ fs # <<>> => pc' = "lua" /\ ended' = ended
         /\ stale' \in SUBSET Calls
<1>1. (fs # <<>>) \in BOOLEAN
  OBVIOUS
<1>2. context' = [c EXCEPT !.active = fs # <<>>]
  BY DEF ReturnTo
<1>3. /\ context' \in Contexts
      /\ context'.active <=> fs # <<>>
      /\ context'.executed = c.executed
      /\ context'.denied = c.denied
  BY <1>1, <1>2 DEF Contexts
<1>4. stale' \in SUBSET Calls
  BY DEF ReturnTo, TypeOK, Kept
<1>5. frames' = fs
  BY DEF ReturnTo
<1>6. /\ fs = <<>> => pc' = "idle" /\ ended' = "returned"
      /\ fs # <<>> => pc' = "lua" /\ ended' = ended
  BY DEF ReturnTo
<1> QED
  BY <1>3, <1>4, <1>5, <1>6

LEMMA FirstCall ==
  /\ 1 \in Calls
  /\ [i \in Calls |-> 0] \in [Calls -> Nat]
  BY DEF Calls

LEMMA InitIInv == Init => IInv
<1> SUFFICES ASSUME Init PROVE IInv
  OBVIOUS
<1>1. TypeOK
  BY EmptySeq, NoContextType, FirstCall DEF Init, TypeOK, NoContext
<1>2. StackInv
  BY EmptySeq DEF Init, StackInv, NoContext
<1>3. OutcomeInv
  BY DEF Init, OutcomeInv, NoContext
<1>4. ModeInv
  BY DEF Init, ModeInv
<1> QED
  BY <1>1, <1>2, <1>3, <1>4 DEF IInv

LEMMA EntryIInv ==
  ASSUME IInv, HooksExecute
  PROVE  IInv'
<1>1. pc = "idle" /\ frames = <<>>
  BY DEF IInv, StackInv, HooksExecute, HooksActive
<1>2. TypeOK'
  BY NoContextType, FirstCall DEF IInv, TypeOK, HooksExecute, mode, depths
<1>3. StackInv'
  BY <1>1 DEF IInv, TypeOK, StackInv, HooksExecute, NoContext, depths
<1>4. OutcomeInv'
  BY DEF IInv, TypeOK, OutcomeInv, HooksExecute, NoContext
<1>5. ModeInv'
  BY <1>1 DEF ModeInv, HooksExecute, mode
<1> QED
  BY <1>2, <1>3, <1>4, <1>5 DEF IInv

LEMMA InvokeReturnsIInv ==
  ASSUME IInv, InvokeReturns
  PROVE  IInv'
<1>1. /\ frames' = frames
      /\ context' \in Contexts
      /\ context'.active <=> frames # <<>>
      /\ context'.executed = context.executed
      /\ context'.denied = context.denied
      /\ frames = <<>> => pc' = "idle" /\ ended' = "returned"
      /\ frames # <<>> => pc' = "lua" /\ ended' = ended
      /\ stale' \in SUBSET Calls
  BY ReturnToProps DEF IInv, TypeOK, InvokeReturns
<1>2. context.executed
  BY DEF IInv, OutcomeInv, InvokeReturns
<1>3. TypeOK'
  BY <1>1 DEF IInv, TypeOK, InvokeReturns, mode, depths
<1>4. StackInv'
  BY <1>1 DEF IInv, TypeOK, StackInv, InvokeReturns, depths
<1>5. OutcomeInv'
  BY <1>1, <1>2 DEF IInv, TypeOK, OutcomeInv, StackInv, InvokeReturns
<1>6. ModeInv'
  BY <1>1 DEF IInv, ModeInv, InvokeReturns, mode
<1> QED
  BY <1>3, <1>4, <1>5, <1>6 DEF IInv

LEMMA InvokeHookIInv ==
  ASSUME IInv, InvokeHook
  PROVE  IInv'
<1>1. index \in Hooks /\ index + 1 \in Calls
  BY DEF IInv, TypeOK, InvokeHook, Calls, Hooks
<1>2. /\ frames' \in Seq(Hooks)
      /\ Len(frames') = Len(frames) + 1
      /\ frames'[Len(frames')] = index
      /\ frames' # <<>>
  BY <1>1, AppendProperties DEF IInv, TypeOK, InvokeHook
<1>3. TypeOK'
  BY <1>1, <1>2 DEF IInv, TypeOK, InvokeHook
<1>4. StackInv'
  BY <1>2 DEF IInv, TypeOK, StackInv, InvokeHook
<1>5. OutcomeInv'
  BY DEF IInv, TypeOK, OutcomeInv, StackInv, InvokeHook
<1>6. ModeInv'
  BY <1>2 DEF ModeInv, InvokeHook, Last
<1> QED
  BY <1>3, <1>4, <1>5, <1>6 DEF IInv

LEMMA ExecuteOriginalIInv ==
  ASSUME IInv, ExecuteOriginal
  PROVE  IInv'
<1>1. /\ context' \in Contexts
      /\ context'.active = context.active
      /\ context'.denied = context.denied
      /\ context'.executed
  BY DEF IInv, TypeOK, ExecuteOriginal, Contexts
<1>2. TypeOK'
  BY <1>1 DEF IInv, TypeOK, ExecuteOriginal, mode
<1>3. StackInv'
  BY <1>1 DEF IInv, TypeOK, StackInv, ExecuteOriginal
<1>4. OutcomeInv'
  BY <1>1 DEF IInv, TypeOK, OutcomeInv, StackInv, ExecuteOriginal
<1>5. ModeInv'
  BY DEF IInv, ModeInv, ExecuteOriginal, mode
<1> QED
  BY <1>2, <1>3, <1>4, <1>5 DEF IInv

LEMMA BodyReturnsIInv ==
  ASSUME IInv, BodyReturns
  PROVE  IInv'
<1>1. PICK s \in Status : ReturnTo(frames, [context EXCEPT !.result = s])
  BY DEF BodyReturns
<1>2. /\ [context EXCEPT !.result = s] \in Contexts
      /\ [context EXCEPT !.result = s].executed = context.executed
      /\ [context EXCEPT !.result = s].denied = context.denied
  BY DEF IInv, TypeOK, Contexts
<1>3. /\ frames' = frames
      /\ context' \in Contexts
      /\ context'.active <=> frames # <<>>
      /\ context'.executed = context.executed
      /\ context'.denied = context.denied
      /\ frames = <<>> => pc' = "idle" /\ ended' = "returned"
      /\ frames # <<>> => pc' = "lua" /\ ended' = ended
      /\ stale' \in SUBSET Calls
  <2> DEFINE c == [context EXCEPT !.result = s]
  <2>1. ReturnTo(frames, c)
    BY <1>1
  <2>2. c \in Contexts /\ c.executed = context.executed
                       /\ c.denied = context.denied
    BY <1>2
  <2>3. TypeOK /\ frames \in Seq(Hooks)
    BY DEF IInv, TypeOK
  <2> HIDE DEF c
  <2> QED
    BY <2>1, <2>2, <2>3, ReturnToProps
<1>4. TypeOK'
  <2>1. hook_execution_depth = 1 /\ hook_execution_depth' = 0
    BY DEF IInv, StackInv, BodyReturns
  <2>2. current_hook_enforcing' \in BOOLEAN
    BY Zenon DEF IInv, TypeOK, BodyReturns
  <2> QED
    BY <1>3, <2>1, <2>2 DEF IInv, TypeOK, BodyReturns
<1>5. StackInv'
  <2>1. hook_execution_depth = 1 /\ hook_execution_depth' = 0
    BY DEF IInv, StackInv, BodyReturns
  <2> QED
    BY <1>3, <2>1 DEF IInv, StackInv, BodyReturns
<1>6. OutcomeInv'
  BY <1>3 DEF IInv, TypeOK, OutcomeInv, StackInv, BodyReturns
<1>7. ModeInv'
  BY <1>3 DEF IInv, ModeInv, BodyReturns
<1> QED
  BY <1>4, <1>5, <1>6, <1>7 DEF IInv

LEMMA BodyUnwindsIInv ==
  ASSUME IInv, BodyUnwinds
  PROVE  IInv'
<1>1. /\ context' \in Contexts
      /\ ~context'.active
      /\ context'.denied = context.denied
      /\ context'.executed = context.executed
  BY DEF IInv, TypeOK, BodyUnwinds, Contexts
<1>2. TypeOK'
  BY <1>1, EmptySeq DEF IInv, TypeOK, BodyUnwinds, Kept, mode
<1>3. StackInv'
  BY <1>1, EmptySeq DEF IInv, TypeOK, StackInv, BodyUnwinds
<1>4. OutcomeInv'
  BY <1>1 DEF IInv, TypeOK, OutcomeInv, StackInv, BodyUnwinds
<1>5. ModeInv'
  BY DEF ModeInv, BodyUnwinds
<1> QED
  BY <1>2, <1>3, <1>4, <1>5 DEF IInv

LEMMA HookRunIInv ==
  ASSUME IInv, HookRun
  PROVE  IInv'
<1> PICK i \in Calls : /\ fresh[i] > 0
                       /\ fresh' = [fresh EXCEPT ![i] = @ - 1]
                       /\ index' = i
  BY DEF HookRun
<1>1. fresh' \in [Calls -> Nat]
  BY DEF IInv, TypeOK
<1>2. TypeOK'
  BY <1>1 DEF IInv, TypeOK, HookRun, mode, depths, history
<1>3. StackInv' /\ OutcomeInv' /\ ModeInv'
  BY DEF IInv, TypeOK, StackInv, OutcomeInv, ModeInv, HookRun, mode, depths,
         history
<1> QED
  BY <1>2, <1>3 DEF IInv

LEMMA HookRunStaleIInv ==
  ASSUME IInv, HookRunStale
  PROVE  IInv'
<1> PICK i \in stale : stale' = stale \ {i} /\ index' = i
  BY DEF HookRunStale
<1>1. TypeOK'
  BY DEF IInv, TypeOK, HookRunStale, mode, depths, history
<1>2. StackInv' /\ OutcomeInv' /\ ModeInv'
  BY DEF IInv, TypeOK, StackInv, OutcomeInv, ModeInv, HookRunStale, mode,
         depths, history
<1> QED
  BY <1>1, <1>2 DEF IInv

LEMMA HookDeniesIInv ==
  ASSUME IInv, HookDenies
  PROVE  IInv'
<1>1. /\ context' \in Contexts
      /\ context'.denied /\ context'.executed
      /\ context'.active = context.active
  BY MarkDeniedProps DEF IInv, TypeOK, OutcomeInv, HookDenies
<1>2. runs = 0
  BY DEF IInv, TypeOK, OutcomeInv, HookDenies
<1>3. TypeOK'
  BY <1>1 DEF IInv, TypeOK, HookDenies, mode, depths, control
<1>4. StackInv'
  BY <1>1 DEF IInv, TypeOK, StackInv, HookDenies, depths, control
<1>5. OutcomeInv'
  BY <1>1, <1>2 DEF IInv, TypeOK, StackInv, OutcomeInv, HookDenies, control
<1>6. ModeInv'
  BY DEF IInv, ModeInv, HookDenies, mode, control
<1> QED
  BY <1>3, <1>4, <1>5, <1>6 DEF IInv

(* The three ways a callback ends share LeaveHook. *)
LEMMA LeaveHookIInv ==
  ASSUME IInv, pc = "lua", NEW c \in Contexts, LeaveHook(c),
         c.active = context.active,
         context.executed => c.executed,
         c.denied => c.executed,
         refused' \in BOOLEAN,
         replaced' \in BOOLEAN,
         refused' => c.denied /\ runs = 0,
         c.denied /\ runs = 0 => refused',
         c.executed => runs = 1 \/ replaced' \/ c.denied
  PROVE  IInv'
<1>1. frames \in Seq(Hooks) /\ frames # <<>>
  BY DEF IInv, TypeOK, StackInv
<1>2. /\ Front(frames) \in Seq(Hooks)
      /\ Last(frames) \in Hooks
      /\ Len(frames) \in Nat \ {0}
      /\ Len(Front(frames)) = Len(frames) - 1
  BY <1>1, FrontLast
<1>3. /\ hook_enforcing' = hook_enforcing
      /\ fresh' = fresh
      /\ hook_execution_depth' = hook_execution_depth
      /\ runs' = runs
      /\ invoked' = invoked
      /\ reused' = reused
      /\ rash_lua_call_depth' = rash_lua_call_depth - 1
      /\ current_hook_enforcing' = FALSE
      /\ active_hook_context' = FALSE
  BY DEF LeaveHook
<1>0. rash_lua_call_depth' = Len(Front(frames)) /\ rash_lua_call_depth' \in Nat
  <2>1. rash_lua_call_depth' = Len(Front(frames))
    BY <1>2, <1>3, Zenon DEF IInv, StackInv
  <2>2. Len(Front(frames)) \in Nat
    BY <1>2, LenProperties
  <2> QED
    BY <2>1, <2>2
<1>4. CASE c.denied \/ c.executed
  <2>1. ReturnTo(Front(frames), c) /\ index' = index
    BY <1>4 DEF LeaveHook
  <2>2. /\ frames' = Front(frames)
        /\ context' \in Contexts
        /\ context'.active <=> Front(frames) # <<>>
        /\ context'.executed = c.executed
        /\ context'.denied = c.denied
        /\ Front(frames) = <<>> => pc' = "idle" /\ ended' = "returned"
        /\ Front(frames) # <<>> => pc' = "lua" /\ ended' = ended
        /\ stale' \in SUBSET Calls
    BY <1>2, <2>1, ReturnToProps DEF IInv
  <2>3. TypeOK'
    BY <1>0, <1>2, <1>3, <2>1, <2>2 DEF IInv, TypeOK
  <2>4. StackInv'
    <3>1. rash_lua_call_depth' = Len(frames')
      BY <1>0, <2>2
    <3> QED
      BY <3>1, <1>3, <2>2 DEF IInv, StackInv
  <2>5. OutcomeInv'
    BY <1>3, <1>4, <2>2 DEF IInv, TypeOK, StackInv, OutcomeInv
  <2>6. ModeInv'
    BY <1>3 DEF ModeInv
  <2> QED
    BY <2>3, <2>4, <2>5, <2>6 DEF IInv
<1>5. CASE ~(c.denied \/ c.executed)
  <2>1. /\ frames' = Front(frames)
        /\ context' = c
        /\ pc' = "invoke"
        /\ index' = Last(frames) + 1
        /\ ended' = ended
        /\ stale' = stale
    BY <1>5 DEF LeaveHook
  <2>2. index' \in Calls
    BY <1>2, <2>1 DEF Hooks, Calls
  <2>3. TypeOK'
    BY <1>0, <1>2, <1>3, <2>1, <2>2 DEF IInv, TypeOK
  <2>4. StackInv'
    <3>1. rash_lua_call_depth' = Len(frames')
      BY <1>0, <2>1
    <3> QED
      BY <3>1, <1>3, <2>1 DEF IInv, StackInv
  <2>5. OutcomeInv'
    BY <1>3, <1>5, <2>1 DEF IInv, TypeOK, StackInv, OutcomeInv
  <2>6. ModeInv'
    BY <1>3 DEF ModeInv
  <2> QED
    BY <2>3, <2>4, <2>5, <2>6 DEF IInv
<1> QED
  BY <1>4, <1>5

LEMMA HookFailsIInv ==
  ASSUME IInv, HookFails
  PROVE  IInv'
<1> DEFINE enforcing == hook_enforcing[Last(frames)]
           c == IF enforcing THEN MarkDenied(context) ELSE context
<1>1. /\ LeaveHook(c)
      /\ refused' = (refused \/ (enforcing /\ runs = 0))
      /\ replaced' = replaced
  BY DEF HookFails
<1>2. Last(frames) \in Hooks /\ enforcing \in BOOLEAN
  BY FrontLast DEF IInv, TypeOK, StackInv, HookFails
<1>3. /\ c \in Contexts
      /\ c.active = context.active
      /\ context.executed => c.executed
      /\ c.denied => c.executed
      /\ enforcing => c.denied
      /\ ~enforcing => c = context
      /\ context.denied => c.denied
  BY MarkDeniedProps DEF IInv, TypeOK, OutcomeInv
<1>4. pc = "lua"
  BY DEF HookFails
<1> HIDE DEF c, enforcing
<1>5. /\ refused' \in BOOLEAN /\ replaced' \in BOOLEAN
  BY <1>1 DEF IInv, TypeOK
<1>6. /\ refused' => c.denied /\ runs = 0
      /\ c.denied /\ runs = 0 => refused'
      /\ c.executed => runs = 1 \/ replaced' \/ c.denied
  BY <1>1, <1>2, <1>3 DEF IInv, TypeOK, OutcomeInv
<1> QED
  BY <1>1, <1>3, <1>4, <1>5, <1>6, LeaveHookIInv

LEMMA HookReturnsStatusIInv ==
  ASSUME IInv, HookReturnsStatus
  PROVE  IInv'
<1>1. PICK s \in Status :
        LeaveHook([context EXCEPT !.executed = TRUE, !.result = s])
  BY DEF HookReturnsStatus
<1> DEFINE c == [context EXCEPT !.executed = TRUE, !.result = s]
<1>2. /\ c \in Contexts
      /\ c.active = context.active
      /\ c.executed
      /\ c.denied = context.denied
  BY DEF IInv, TypeOK, Contexts
<1>3. /\ LeaveHook(c)
      /\ pc = "lua"
      /\ replaced' = (replaced \/ ~context.executed)
      /\ refused' = refused
  BY <1>1 DEF HookReturnsStatus
<1> HIDE DEF c
<1>4. /\ refused' \in BOOLEAN /\ replaced' \in BOOLEAN
  BY <1>3 DEF IInv, TypeOK
<1>5. /\ refused' => c.denied /\ runs = 0
      /\ c.denied /\ runs = 0 => refused'
      /\ c.executed => runs = 1 \/ replaced' \/ c.denied
  BY <1>2, <1>3 DEF IInv, TypeOK, OutcomeInv
<1> QED
  BY <1>2, <1>3, <1>4, <1>5, LeaveHookIInv

LEMMA HookReturnsIInv ==
  ASSUME IInv, HookReturns
  PROVE  IInv'
<1>1. /\ LeaveHook(context)
      /\ pc = "lua"
      /\ refused' = refused
      /\ replaced' = replaced
  BY DEF HookReturns
<1>2. Last(frames) \in Hooks
  BY <1>1, FrontLast DEF IInv, TypeOK, StackInv
<1>3. /\ refused' \in BOOLEAN /\ replaced' \in BOOLEAN
  BY <1>1, <1>2 DEF IInv, TypeOK, HookReturns
<1>4. /\ context \in Contexts
      /\ context.denied => context.executed
      /\ refused' => context.denied /\ runs = 0
      /\ context.denied /\ runs = 0 => refused'
      /\ context.executed => runs = 1 \/ replaced' \/ context.denied
  BY <1>1 DEF IInv, TypeOK, OutcomeInv
<1> QED
  BY <1>1, <1>3, <1>4, LeaveHookIInv

LEMMA StutterIInv == IInv /\ UNCHANGED vars => IInv'
  BY DEF IInv, TypeOK, StackInv, OutcomeInv, ModeInv, vars, chain, mode,
         depths, control, history

(***************************************************************************)
(* TypeOK, StackInv, OutcomeInv and ModeInv hold in every reachable state.  *)
(***************************************************************************)
THEOREM Invariance == Spec => []IInv
<1>1. IInv /\ [Next]_vars => IInv'
  BY EntryIInv, InvokeReturnsIInv, InvokeHookIInv, ExecuteOriginalIInv,
     BodyReturnsIInv, BodyUnwindsIInv, HookRunIInv, HookRunStaleIInv,
     HookDeniesIInv, HookFailsIInv, HookReturnsStatusIInv, HookReturnsIInv,
     StutterIInv
  DEF Next, Step
<1> QED
  BY <1>1, InitIInv, PTL DEF Spec

(* Type correctness. *)
THEOREM TypeCorrect == Spec => []TypeOK
  BY Invariance, PTL DEF IInv

(* rash_execute_original runs the command at most once per chain, whatever  *)
(* runners the hooks keep and call again.                                   *)
THEOREM OnceTheorem == Spec => []BodyAtMostOnce
<1>1. IInv => BodyAtMostOnce
  BY DEF IInv, TypeOK, OutcomeInv, BodyAtMostOnce
<1> QED
  BY <1>1, Invariance, PTL

(* Once a hook has denied, or an enforcing hook has failed, the command is  *)
(* not run any more.                                                        *)
THEOREM RefusalTheorem == Spec => []RefusalIsFinal
<1>1. IInv => RefusalIsFinal
  BY DEF IInv, TypeOK, OutcomeInv, RefusalIsFinal
<1> QED
  BY <1>1, Invariance, PTL

(* A command whose chain returns was refused, answered by a hook's status   *)
(* or executed: rash_hooks_execute loses none.                              *)
THEOREM NotLostTheorem == Spec => []NeverDropped
<1>1. IInv => NeverDropped
  BY DEF IInv, TypeOK, OutcomeInv, NeverDropped
<1> QED
  BY <1>1, Invariance, PTL

(* hook_execution_depth and rash_lua_call_depth are zero between commands,  *)
(* after a nonlocal exit too.                                               *)
THEOREM Depths == Spec => []DepthsRestored
<1>1. IInv => DepthsRestored
  BY EmptySeq DEF IInv, TypeOK, StackInv, DepthsRestored
<1> QED
  BY <1>1, Invariance, PTL

(* rash_hooks_active keeps a command nested in the body out of the chain.   *)
THEOREM NoReentryTheorem == Spec => NoReentry
<1>1. IInv /\ [Next]_vars => [pc = "body" => pc' # "invoke"]_vars
  <2> SUFFICES ASSUME IInv, Next, pc = "body" PROVE pc' # "invoke"
    OBVIOUS
  <2>1. hook_execution_depth = 1
    BY DEF IInv, StackInv
  <2>2. ~HooksExecute
    BY <2>1 DEF HooksExecute, HooksActive
  <2>3. BodyReturns \/ BodyUnwinds
    BY <2>2 DEF Next, Step, InvokeReturns, InvokeHook, ExecuteOriginal, HookRun,
       HookRunStale, HookDenies, HookFails, HookReturnsStatus, HookReturns
  <2> QED
    BY <2>3 DEF BodyReturns, BodyUnwinds, ReturnTo
<1> QED
  BY <1>1, Invariance, PTL DEF Spec, NoReentry

(* A denial comes from the hook on top of the stack, and it is enforcing.   *)
THEOREM OnlyEnforcingDeniesTheorem == Spec => OnlyEnforcingDenies
<1>1. IInv /\ [Next]_vars =>
        [(~context.denied /\ context'.denied)
           => hook_enforcing[Last(frames)]]_vars
  <2> SUFFICES ASSUME IInv, Next, ~context.denied, context'.denied
               PROVE  hook_enforcing[Last(frames)]
    OBVIOUS
  <2>1. context \in Contexts
    BY DEF IInv, TypeOK
  <2>2. CASE HookDenies
    BY <2>2 DEF IInv, StackInv, ModeInv, HookDenies
  <2>3. CASE HookFails
    <3> SUFFICES ASSUME ~hook_enforcing[Last(frames)] PROVE FALSE
      OBVIOUS
    <3>1. LeaveHook(context)
      BY <2>3 DEF HookFails
    <3> QED
      BY <2>1, <3>1 DEF LeaveHook, ReturnTo, Contexts
  <2>4. CASE HookReturns
    BY <2>1, <2>4 DEF HookReturns, LeaveHook, ReturnTo, Contexts
  <2>5. CASE HookReturnsStatus
    BY <2>1, <2>5 DEF HookReturnsStatus, LeaveHook, ReturnTo, Contexts
  <2>6. CASE HooksExecute
    BY <2>6 DEF HooksExecute, NoContext
  <2>7. CASE InvokeReturns
    BY <2>1, <2>7 DEF InvokeReturns, ReturnTo, Contexts
  <2>8. CASE ExecuteOriginal \/ BodyUnwinds
    BY <2>1, <2>8 DEF ExecuteOriginal, BodyUnwinds, Contexts
  <2>9. CASE BodyReturns
    BY <2>1, <2>9 DEF BodyReturns, ReturnTo, Contexts
  <2>10. CASE InvokeHook \/ HookRun \/ HookRunStale
    BY <2>10 DEF InvokeHook, HookRun, HookRunStale
  <2> QED
    BY <2>2, <2>3, <2>4, <2>5, <2>6, <2>7, <2>8, <2>9, <2>10 DEF Next, Step
<1> QED
  BY <1>1, Invariance, PTL DEF Spec, OnlyEnforcingDenies

-----------------------------------------------------------------------------
(* Without runners kept between commands the chain cannot be entered in the *)
(* middle: Ordered is preserved.                                            *)
LEMMA LeaveHookOrder ==
  ASSUME IInv, Ordered, pc = "lua",
         NEW c \in Contexts, LeaveHook(c)
  PROVE  Ordered'
<1>1. frames \in Seq(Hooks) /\ frames # <<>>
  BY DEF IInv, TypeOK, StackInv
<1>2. /\ Front(frames) \in Seq(Hooks)
      /\ Last(frames) \in Hooks
      /\ Len(frames) \in Nat \ {0}
      /\ Len(Front(frames)) = Len(frames) - 1
      /\ \A k \in 1 .. Len(frames) - 1 : Front(frames)[k] = frames[k]
  BY <1>1, FrontLast
<1>3. /\ frames' = Front(frames)
      /\ fresh' = fresh
      /\ runs' = runs
      /\ invoked' = invoked
  BY DEF LeaveHook, ReturnTo, Ordered
<1>4. pc' = "invoke" => index' = Last(frames) + 1
  BY DEF LeaveHook, ReturnTo
<1>5. 1 .. Last(frames) \subseteq invoked
  <2>1. Len(frames) \in 1 .. Len(frames)
    BY <1>2
  <2> QED
    BY <2>1, Zenon DEF Ordered, Last
<1>6. pc' = "invoke" => 1 .. index' - 1 \subseteq invoked'
  <2>1. (Last(frames) + 1) - 1 = Last(frames)
    BY <1>2 DEF Hooks
  <2> QED
    BY <2>1, <1>3, <1>4, <1>5
<1>7. \A k \in 1 .. Len(frames') : 1 .. frames'[k] \subseteq invoked'
  <2> SUFFICES ASSUME NEW k \in 1 .. Len(frames')
               PROVE  1 .. frames'[k] \subseteq invoked'
    OBVIOUS
  <2>1. k \in 1 .. Len(frames) - 1
    BY <1>2, <1>3, Zenon
  <2>2. k \in 1 .. Len(frames) /\ frames'[k] = frames[k]
    BY <1>2, <1>3, <2>1
  <2> QED
    BY <1>3, <2>2 DEF Ordered
<1> QED
  BY <1>3, <1>6, <1>7 DEF Ordered

LEMMA InvokeHookOrder ==
  ASSUME IInv, Ordered, InvokeHook
  PROVE  Ordered'
<1>1. /\ index \in Hooks /\ index \in Nat /\ index + 1 \in Calls
      /\ frames \in Seq(Hooks)
  BY DEF IInv, TypeOK, InvokeHook, Calls, Hooks
<1>2. /\ Len(frames') = Len(frames) + 1
      /\ Len(frames) \in Nat
      /\ frames'[Len(frames) + 1] = index
      /\ \A k \in 1 .. Len(frames) : frames'[k] = frames[k]
  BY <1>1, AppendProperties, LenProperties DEF InvokeHook
<1>3. 1 .. index - 1 \subseteq invoked /\ invoked' = invoked \union {index}
  BY DEF Ordered, InvokeHook
<1>4. 1 .. index \subseteq invoked' /\ invoked \subseteq invoked'
  BY <1>1, <1>3
<1>5. \A i \in Calls : fresh'[i] > 0 => 1 .. i - 1 \subseteq invoked'
  <2> SUFFICES ASSUME NEW i \in Calls, fresh'[i] > 0
               PROVE  1 .. i - 1 \subseteq invoked'
    OBVIOUS
  <2>1. CASE i = index + 1
    <3>1. i - 1 = index
      BY <1>1, <2>1
    <3> QED
      BY <3>1, <1>4
  <2>2. CASE i # index + 1
    <3>1. fresh'[i] = fresh[i]
      BY <2>2 DEF IInv, TypeOK, InvokeHook
    <3> QED
      BY <3>1, <1>4 DEF Ordered
  <2> QED
    BY <2>1, <2>2
<1>6. \A k \in 1 .. Len(frames') : 1 .. frames'[k] \subseteq invoked'
  <2> SUFFICES ASSUME NEW k \in 1 .. Len(frames')
               PROVE  1 .. frames'[k] \subseteq invoked'
    OBVIOUS
  <2>1. k \in 1 .. Len(frames) \/ k = Len(frames) + 1
    BY <1>2
  <2>2. CASE k \in 1 .. Len(frames)
    BY <1>2, <1>4, <2>2 DEF Ordered
  <2>3. CASE k = Len(frames) + 1
    BY <1>2, <1>4, <2>3
  <2> QED
    BY <2>1, <2>2, <2>3
<1>7. pc' # "invoke" /\ (runs' > 0 => invoked' = Hooks)
  BY <1>1 DEF Ordered, InvokeHook
<1> QED
  BY <1>5, <1>6, <1>7 DEF Ordered

LEMMA EntryOrder ==
  ASSUME IInv, HooksExecute
  PROVE  Ordered'
<1>1. pc = "idle" /\ frames = <<>>
  BY DEF IInv, StackInv, HooksExecute, HooksActive
<1>2. frames' = <<>> /\ 1 .. Len(frames') = {}
  BY <1>1, EmptySeq DEF HooksExecute
<1>3. /\ index' = 1 /\ runs' = 0
      /\ \A i \in Calls : fresh'[i] = 0
  BY DEF HooksExecute
<1>4. 1 .. index' - 1 = {}
  BY <1>3
<1> QED
  BY <1>2, <1>3, <1>4 DEF Ordered

LEMMA OtherOrder ==
  ASSUME IInv, Ordered,
         \/ InvokeReturns \/ ExecuteOriginal \/ BodyReturns \/ BodyUnwinds
         \/ HookRun \/ HookDenies \/ UNCHANGED vars
  PROVE  Ordered'
<1>1. CASE InvokeReturns
  BY <1>1 DEF Ordered, InvokeReturns, ReturnTo
<1>2. CASE ExecuteOriginal
  <2>1. index - 1 = HookCount
    BY <1>2 DEF IInv, TypeOK, ExecuteOriginal, Calls
  <2>2. invoked = Hooks
    BY <1>2, <2>1 DEF IInv, TypeOK, Ordered, ExecuteOriginal, Hooks
  <2> QED
    BY <1>2, <2>2 DEF Ordered, ExecuteOriginal
<1>3. CASE BodyReturns
  BY <1>3 DEF Ordered, BodyReturns, ReturnTo
<1>4. CASE BodyUnwinds
  <2>1. frames' = <<>> /\ 1 .. Len(frames') = {}
    BY <1>4, EmptySeq DEF BodyUnwinds
  <2> QED
    BY <1>4, <2>1 DEF Ordered, BodyUnwinds
<1>5. CASE HookRun
  <2> PICK i \in Calls : /\ fresh[i] > 0
                         /\ fresh' = [fresh EXCEPT ![i] = @ - 1]
                         /\ index' = i
    BY <1>5 DEF HookRun
  <2>1. \A j \in Calls : fresh'[j] > 0 => fresh[j] > 0
    BY DEF IInv, TypeOK
  <2> QED
    BY <1>5, <2>1 DEF Ordered, HookRun, history
<1>6. CASE HookDenies
  BY <1>6 DEF Ordered, HookDenies, control
<1>7. CASE UNCHANGED vars
  BY <1>7 DEF Ordered, vars, chain, control, history
<1> QED
  BY <1>1, <1>2, <1>3, <1>4, <1>5, <1>6, <1>7

(* The body runs only after rash_invoke_hook has called every registered    *)
(* hook, as long as no runner of an earlier command is used.                *)
THEOREM NoBypass == Spec => []NoHookBypassed
<1>1. Init => OrderInv
  <2> SUFFICES ASSUME Init PROVE Ordered
    BY DEF OrderInv
  <2>1. 1 .. Len(frames) = {}
    BY EmptySeq DEF Init
  <2> QED
    BY <2>1 DEF Init, Ordered
<1>2. IInv /\ OrderInv /\ [Next]_vars => OrderInv'
  <2> SUFFICES ASSUME IInv, OrderInv, [Next]_vars, ~reused' PROVE Ordered'
    BY DEF OrderInv
  <2>1. CASE HooksExecute
    BY <2>1, EntryOrder
  <2>2. CASE HookRunStale
    BY <2>2 DEF HookRunStale
  <2>3. CASE HookFails
    <3> DEFINE c == IF hook_enforcing[Last(frames)]
                    THEN MarkDenied(context) ELSE context
    <3>1. c \in Contexts
      BY MarkDeniedProps DEF IInv, TypeOK, OutcomeInv
    <3>2. LeaveHook(c) /\ pc = "lua"
      BY <2>3 DEF HookFails
    <3>3. Ordered
      BY <3>2 DEF LeaveHook, OrderInv
    <3> QED
      BY <3>1, <3>2, <3>3, LeaveHookOrder
  <2>4. CASE HookReturnsStatus
    <3>1. PICK s \in Status :
            LeaveHook([context EXCEPT !.executed = TRUE, !.result = s])
      BY <2>4 DEF HookReturnsStatus
    <3>2. [context EXCEPT !.executed = TRUE, !.result = s] \in Contexts
      BY DEF IInv, TypeOK, Contexts
    <3>3. Ordered
      BY <3>1 DEF LeaveHook, OrderInv
    <3> QED
      BY <2>4, <3>1, <3>2, <3>3, LeaveHookOrder DEF HookReturnsStatus
  <2>5. CASE HookReturns
    <3>1. Ordered
      BY <2>5 DEF HookReturns, LeaveHook, OrderInv
    <3> QED
      BY <2>5, <3>1, LeaveHookOrder DEF HookReturns, IInv, TypeOK
  <2>6. CASE InvokeHook
    BY <2>6, InvokeHookOrder DEF InvokeHook, OrderInv
  <2>7. CASE \/ InvokeReturns \/ ExecuteOriginal \/ BodyReturns \/ BodyUnwinds
             \/ HookRun \/ HookDenies \/ UNCHANGED vars
    <3>1. reused' = reused
      BY <2>7 DEF InvokeReturns, ExecuteOriginal, BodyReturns, BodyUnwinds,
         HookRun, HookDenies, vars, history
    <3> QED
      BY <2>7, <3>1, OtherOrder DEF OrderInv
  <2> QED
    BY <2>1, <2>2, <2>3, <2>4, <2>5, <2>6, <2>7 DEF Next, Step
<1>3. OrderInv => NoHookBypassed
  BY DEF OrderInv, Ordered, NoHookBypassed
<1> QED
  BY <1>1, <1>2, <1>3, Invariance, PTL DEF Spec

-----------------------------------------------------------------------------
(* No chain goes on for ever: every step of a command but the last one lowers   *)
(* Budget, whatever the callbacks do.                                       *)

(* What is left to do at hook i: runners that have not been used, a call about   *)
(* to start, callbacks that run.                                            *)
RunnersAt(runners, kept, i) == runners[i] + (IF i \in kept THEN 1 ELSE 0)
CallAt(p, x, i) == IF p = "invoke" /\ x = i THEN 1 ELSE 0
FramesAt(fs, i) == Cardinality({k \in 1 .. Len(fs) : fs[k] = i})
Work(i) == 3 * RunnersAt(fresh, stale, i) + 2 * CallAt(pc, index, i) + FramesAt(frames, i)

(* And of the command itself: to be decided, and to end. *)
Rest == (IF context.executed THEN 0 ELSE 1) + (IF pc = "body" THEN 1 ELSE 0)

Budget == [i \in 1 .. HookCount + 2 |-> IF i = HookCount + 2 THEN Rest ELSE Work(i)]

(* Tuples of numbers in the order of their first difference. *)
Less(v, w) == \E i \in DOMAIN w : v[i] < w[i] /\ \A j \in 1 .. i - 1 : v[j] = w[j]

WorkShrinks == [][Step /\ pc' # "idle" => Less(Budget', Budget)]_vars

LEMMA FramesCount ==
  ASSUME NEW fs \in Seq(Hooks), NEW i
  PROVE  FramesAt(fs, i) \in Nat /\ IsFiniteSet({k \in 1 .. Len(fs) : fs[k] = i})
<1>1. IsFiniteSet(1 .. Len(fs))
  BY FS_Interval, LenProperties
<1>2. IsFiniteSet({k \in 1 .. Len(fs) : fs[k] = i})
  BY <1>1, FS_Subset
<1> QED
  BY <1>2, FS_CardinalityType DEF FramesAt

(* Calling a hook adds a frame of that hook, returning takes it away. *)
LEMMA PushCount ==
  ASSUME NEW fs \in Seq(Hooks), NEW h \in Hooks, NEW i
  PROVE  FramesAt(Append(fs, h), i) = FramesAt(fs, i) + IF i = h THEN 1 ELSE 0
<1> DEFINE gs == Append(fs, h)
           n == Len(fs) + 1
           F == {k \in 1 .. Len(fs) : fs[k] = i}
           G == {k \in 1 .. Len(gs) : gs[k] = i}
<1>1. /\ Len(fs) \in Nat /\ Len(gs) = n
      /\ \A k \in 1 .. Len(fs) : gs[k] = fs[k]
      /\ gs[n] = h
  BY PushTop
<1>2. IsFiniteSet(F) /\ n \notin F
  <2>1. IsFiniteSet(F)
    BY FramesCount, Zenon
  <2> QED
    BY <1>1, <2>1
<1>3. G = IF i = h THEN F \union {n} ELSE F
  <2> HIDE DEF gs
  <2>1. \A k \in 1 .. n : k \in 1 .. Len(fs) \/ k = n
    BY <1>1
  <2>2. n \in 1 .. n /\ 1 .. Len(fs) \subseteq 1 .. n
    BY <1>1
  <2> QED
    BY <1>1, <2>1, <2>2
<1>4. Cardinality(F \union {n}) = Cardinality(F) + 1
  BY <1>2, FS_AddElement
<1>5. Cardinality(F) \in Nat
  BY <1>2, FS_CardinalityType
<1>6. /\ FramesAt(Append(fs, h), i) = Cardinality(G)
      /\ FramesAt(fs, i) = Cardinality(F)
  BY DEF FramesAt
<1> HIDE DEF F, G, gs, n
<1>7. CASE i = h
  BY <1>3, <1>4, <1>6, <1>7
<1>8. CASE i # h
  BY <1>3, <1>5, <1>6, <1>8
<1> QED
  BY <1>7, <1>8

LEMMA WorkType ==
  ASSUME TypeOK
  PROVE  \A i \in Calls : /\ RunnersAt(fresh, stale, i) \in Nat
                          /\ FramesAt(frames, i) \in Nat /\ Work(i) \in Nat
<1> SUFFICES ASSUME NEW i \in Calls
             PROVE  /\ RunnersAt(fresh, stale, i) \in Nat
                    /\ FramesAt(frames, i) \in Nat /\ Work(i) \in Nat
  OBVIOUS
<1>1. RunnersAt(fresh, stale, i) \in Nat
  BY DEF TypeOK, RunnersAt
<1>2. FramesAt(frames, i) \in Nat
  BY FramesCount DEF TypeOK
<1> QED
  BY <1>1, <1>2 DEF Work, CallAt

(* The first difference is at hook i, or in what is left of the command. *)
LEMMA FirstAt ==
  ASSUME NEW i \in Calls, Work(i)' < Work(i),
         \A j \in Calls : j < i => Work(j)' = Work(j)
  PROVE  Less(Budget', Budget)
<1>1. /\ i \in 1 .. HookCount + 2 /\ i # HookCount + 2
      /\ \A j \in 1 .. i - 1 : j \in 1 .. HookCount + 2 /\ j # HookCount + 2
                               /\ j \in Calls /\ j < i
  BY DEF Calls
<1> HIDE DEF Work
<1> QED
  BY <1>1 DEF Budget, Less

LEMMA AtRest ==
  ASSUME Rest' < Rest, \A j \in Calls : Work(j)' = Work(j)
  PROVE  Less(Budget', Budget)
<1> DEFINE n == HookCount + 2
<1>1. /\ n \in 1 .. n
      /\ \A j \in 1 .. n - 1 : j \in 1 .. n /\ j # n /\ j \in Calls
  BY DEF Calls
<1> HIDE DEF Rest, Work
<1> QED
  BY <1>1 DEF Budget, Less

(* What a step does to the work at the hooks up to i, where x is the next call. *)
LEMMA WorkChanges ==
  ASSUME TypeOK, TypeOK', NEW i \in Calls,
         NEW d \in Int, d < 0,
         \A j \in Calls : j < i =>
           /\ RunnersAt(fresh', stale', j) = RunnersAt(fresh, stale, j)
           /\ CallAt(pc', index', j) = CallAt(pc, index, j)
           /\ FramesAt(frames', j) = FramesAt(frames, j),
         3 * RunnersAt(fresh', stale', i) + 2 * CallAt(pc', index', i) + FramesAt(frames', i)
           = 3 * RunnersAt(fresh, stale, i) + 2 * CallAt(pc, index, i) + FramesAt(frames, i) + d
  PROVE  Less(Budget', Budget)
<1>1. Work(i)' = Work(i) + d /\ Work(i) \in Nat
  BY WorkType DEF Work
<1>2. \A j \in Calls : j < i => Work(j)' = Work(j)
  BY DEF Work
<1>3. Work(i)' < Work(i)
  BY <1>1
<1> QED
  BY <1>2, <1>3, FirstAt

(* A call starts, or returns to the callback below. *)
LEMMA CallShrinks ==
  ASSUME IInv, IInv', pc' # "idle", InvokeReturns \/ InvokeHook \/ ExecuteOriginal
  PROVE  Less(Budget', Budget)
<1>1. PICK i \in Calls : i = index
  BY DEF IInv, TypeOK
<1>2. TypeOK /\ TypeOK' /\ i \in Nat /\ \A j \in Calls : j \in Nat
  BY DEF IInv, Calls
<1>3. pc = "invoke" /\ pc' # "invoke" /\ stale' = stale
  BY DEF InvokeReturns, InvokeHook, ExecuteOriginal, ReturnTo
<1>4. \A j \in Calls : /\ CallAt(pc, index, j) = IF j = i THEN 1 ELSE 0
                       /\ CallAt(pc', index', j) = 0
  BY <1>1, <1>3 DEF CallAt
<1>5. \A j \in Calls : j <= i => RunnersAt(fresh', stale', j) = RunnersAt(fresh, stale, j)
  <2>1. \A j \in Calls : j <= i => fresh'[j] = fresh[j]
    <3>1. CASE InvokeHook
      <4>1. fresh' = [fresh EXCEPT ![i + 1] = @ + 1]
        BY <1>1, <3>1 DEF InvokeHook
      <4>2. \A j \in Calls : j <= i => j # i + 1
        BY <1>2
      <4> QED
        BY <1>2, <4>1, <4>2 DEF TypeOK
    <3>2. CASE InvokeReturns \/ ExecuteOriginal
      BY <3>2 DEF InvokeReturns, ExecuteOriginal
    <3> QED
      BY <3>1, <3>2
  <2> QED
    BY <1>3, <2>1 DEF RunnersAt
<1>6. \A j \in Calls :
        FramesAt(frames', j) = FramesAt(frames, j) + IF InvokeHook /\ j = i THEN 1 ELSE 0
  <2>1. CASE InvokeHook
    <3>1. i \in Hooks /\ frames' = Append(frames, i) /\ frames \in Seq(Hooks)
      BY <1>1, <1>2, <2>1 DEF InvokeHook, TypeOK, Hooks, Calls
    <3> QED
      BY <2>1, <3>1, PushCount
  <2>2. CASE ~InvokeHook
    <3>1. frames' = frames
      BY <1>3, <2>2 DEF InvokeReturns, ExecuteOriginal, ReturnTo
    <3>2. \A j \in Calls : FramesAt(frames, j) \in Nat
      BY <1>2, WorkType
    <3> QED
      BY <2>2, <3>1, <3>2
  <2> QED
    BY <2>1, <2>2
<1>7. \A j \in Calls : RunnersAt(fresh, stale, j) \in Nat /\ FramesAt(frames, j) \in Nat
  BY <1>2, WorkType
<1> DEFINE d == IF InvokeHook THEN 0 - 1 ELSE 0 - 2
<1>8. \A j \in Calls : j < i =>
        /\ RunnersAt(fresh', stale', j) = RunnersAt(fresh, stale, j)
        /\ CallAt(pc', index', j) = CallAt(pc, index, j)
        /\ FramesAt(frames', j) = FramesAt(frames, j)
  <2> SUFFICES ASSUME NEW j \in Calls, j < i
               PROVE  /\ RunnersAt(fresh', stale', j) = RunnersAt(fresh, stale, j)
                      /\ CallAt(pc', index', j) = CallAt(pc, index, j)
                      /\ FramesAt(frames', j) = FramesAt(frames, j)
    OBVIOUS
  <2>1. j <= i /\ j # i
    BY <1>2
  <2> QED
    BY <1>4, <1>5, <1>6, <1>7, <2>1
<1>9. 3 * RunnersAt(fresh', stale', i) + 2 * CallAt(pc', index', i) + FramesAt(frames', i)
        = 3 * RunnersAt(fresh, stale, i) + 2 * CallAt(pc, index, i) + FramesAt(frames, i) + d
  <2>1. i <= i
    BY <1>2
  <2> QED
    BY <1>4, <1>5, <1>6, <1>7, <2>1
<1>10. d \in Int /\ d < 0
  OBVIOUS
<1> HIDE DEF d
<1> QED
  BY <1>2, <1>8, <1>9, <1>10, WorkChanges

(* A callback calls a runner. *)
LEMMA RunShrinks ==
  ASSUME IInv, IInv', HookRun \/ HookRunStale
  PROVE  Less(Budget', Budget)
<1>1. PICK i \in Calls :
        /\ index' = i
        /\ \/ fresh[i] > 0 /\ fresh' = [fresh EXCEPT ![i] = @ - 1] /\ stale' = stale
           \/ i \in stale /\ stale' = stale \ {i} /\ fresh' = fresh
  <2>1. CASE HookRun
    BY <2>1 DEF HookRun
  <2>2. CASE HookRunStale
    BY <2>2 DEF HookRunStale, IInv, TypeOK
  <2> QED
    BY <2>1, <2>2
<1>2. TypeOK /\ TypeOK' /\ i \in Nat /\ \A j \in Calls : j \in Nat
  BY DEF IInv, Calls
<1>3. pc = "lua" /\ pc' = "invoke" /\ frames' = frames
  BY DEF HookRun, HookRunStale
<1>4. \A j \in Calls : /\ CallAt(pc, index, j) = 0
                       /\ CallAt(pc', index', j) = IF j = i THEN 1 ELSE 0
  BY <1>1, <1>3 DEF CallAt
<1>5. \A j \in Calls : RunnersAt(fresh', stale', j)
                         = RunnersAt(fresh, stale, j) + IF j = i THEN 0 - 1 ELSE 0
  <2>1. \A j \in Calls : fresh[j] \in Nat /\ fresh'[j] \in Nat
    BY <1>2 DEF TypeOK
  <2>2. CASE fresh[i] > 0 /\ fresh' = [fresh EXCEPT ![i] = @ - 1] /\ stale' = stale
    <3>1. \A j \in Calls : fresh'[j] = IF j = i THEN fresh[i] - 1 ELSE fresh[j]
      BY <1>2, <2>2 DEF TypeOK
    <3> QED
      BY <2>1, <2>2, <3>1 DEF RunnersAt
  <2>3. CASE i \in stale /\ stale' = stale \ {i} /\ fresh' = fresh
    BY <2>1, <2>3 DEF RunnersAt
  <2> QED
    BY <1>1, <2>2, <2>3
<1>6. \A j \in Calls : RunnersAt(fresh, stale, j) \in Nat /\ FramesAt(frames, j) \in Nat
  BY <1>2, WorkType
<1>7. \A j \in Calls : j < i =>
        /\ RunnersAt(fresh', stale', j) = RunnersAt(fresh, stale, j)
        /\ CallAt(pc', index', j) = CallAt(pc, index, j)
        /\ FramesAt(frames', j) = FramesAt(frames, j)
  BY <1>2, <1>3, <1>4, <1>5, <1>6
<1>8. 3 * RunnersAt(fresh', stale', i) + 2 * CallAt(pc', index', i) + FramesAt(frames', i)
        = 3 * RunnersAt(fresh, stale, i) + 2 * CallAt(pc, index, i) + FramesAt(frames, i) + (0 - 1)
  BY <1>3, <1>4, <1>5, <1>6
<1>9. 0 - 1 \in Int /\ 0 - 1 < 0
  OBVIOUS
<1> QED
  BY <1>2, <1>7, <1>8, <1>9, WorkChanges

(* A callback ends. *)
LEMMA LeaveShrinks ==
  ASSUME IInv, IInv', NEW c \in Contexts, pc = "lua", LeaveHook(c), pc' # "idle"
  PROVE  Less(Budget', Budget)
<1>1. frames \in Seq(Hooks) /\ frames # <<>>
  BY DEF IInv, TypeOK, StackInv
<1>2. /\ Front(frames) \in Seq(Hooks) /\ Last(frames) \in Hooks
      /\ frames = Append(Front(frames), Last(frames))
  BY <1>1, FrontLast, TopAndRest
<1>3. PICK i \in Hooks : i = Last(frames)
  BY <1>2
<1>4. TypeOK /\ TypeOK' /\ i \in Calls /\ i \in Nat /\ \A j \in Calls : j \in Nat
  BY DEF IInv, Calls, Hooks
<1>5. /\ frames' = Front(frames) /\ fresh' = fresh
      /\ pc' = "invoke" => index' = i + 1
  BY <1>3 DEF LeaveHook, ReturnTo
<1>6. stale' = stale
  BY DEF LeaveHook, ReturnTo
<1>7. \A j \in Calls : FramesAt(frames, j) = FramesAt(frames', j) + IF j = i THEN 1 ELSE 0
  <2> SUFFICES ASSUME NEW j \in Calls
               PROVE  FramesAt(frames, j) = FramesAt(frames', j) + IF j = i THEN 1 ELSE 0
    OBVIOUS
  <2>1. FramesAt(Append(Front(frames), Last(frames)), j)
          = FramesAt(Front(frames), j) + IF j = Last(frames) THEN 1 ELSE 0
    BY <1>2, PushCount
  <2> QED
    BY <1>2, <1>3, <1>5, <2>1
<1>8. \A j \in Calls : RunnersAt(fresh', stale', j) = RunnersAt(fresh, stale, j)
  BY <1>5, <1>6 DEF RunnersAt
<1>9. \A j \in Calls : j <= i => CallAt(pc, index, j) = 0 /\ CallAt(pc', index', j) = 0
  BY <1>4, <1>5 DEF CallAt
<1>10. \A j \in Calls : /\ RunnersAt(fresh, stale, j) \in Nat
                        /\ FramesAt(frames, j) \in Nat /\ FramesAt(frames', j) \in Nat
  BY <1>4, WorkType, FramesCount DEF TypeOK
<1>11. \A j \in Calls : j < i =>
         /\ RunnersAt(fresh', stale', j) = RunnersAt(fresh, stale, j)
         /\ CallAt(pc', index', j) = CallAt(pc, index, j)
         /\ FramesAt(frames', j) = FramesAt(frames, j)
  BY <1>4, <1>7, <1>8, <1>9, <1>10
<1>12. 3 * RunnersAt(fresh', stale', i) + 2 * CallAt(pc', index', i) + FramesAt(frames', i)
         = 3 * RunnersAt(fresh, stale, i) + 2 * CallAt(pc, index, i) + FramesAt(frames, i) + (0 - 1)
  <2>1. i <= i
    BY <1>4
  <2> QED
    BY <1>4, <1>7, <1>8, <1>9, <1>10, <2>1
<1>13. 0 - 1 \in Int /\ 0 - 1 < 0
  OBVIOUS
<1> QED
  BY <1>4, <1>11, <1>12, <1>13, WorkChanges

(* The command is decided, or its body ends. *)
LEMMA RestShrinks ==
  ASSUME IInv, pc' # "idle", HookDenies \/ BodyReturns
  PROVE  Less(Budget', Budget)
<1>1. context \in Contexts
  BY DEF IInv, TypeOK
<1>2. UNCHANGED <<fresh, stale, frames>> /\ pc # "invoke" /\ pc' # "invoke"
  BY DEF HookDenies, BodyReturns, ReturnTo, control
<1>3. \A j \in Calls : Work(j)' = Work(j)
  <2>1. \A j \in Calls : CallAt(pc, index, j) = 0 /\ CallAt(pc', index', j) = 0
    BY <1>2 DEF CallAt
  <2> QED
    BY <1>2, <2>1 DEF Work, RunnersAt, FramesAt
<1>4. Rest' < Rest
  <2>1. CASE HookDenies
    <3>1. /\ context' = MarkDenied(context) /\ ~context.executed
          /\ pc = "lua" /\ pc' = "lua"
      BY <2>1 DEF HookDenies, control
    <3>2. context.denied => context.executed
      BY DEF IInv, OutcomeInv
    <3>3. MarkDenied(context).executed
      BY <1>1, <3>2, MarkDeniedProps
    <3>4. context'.executed
      BY <3>1, <3>3
    <3> QED
      BY <3>1, <3>4 DEF Rest
  <2>2. CASE BodyReturns
    <3>1. context'.executed = context.executed
      BY <1>1, <2>2 DEF BodyReturns, ReturnTo, Contexts
    <3>2. pc = "body" /\ pc' # "body"
      BY <2>2 DEF BodyReturns, ReturnTo
    <3> QED
      BY <3>1, <3>2 DEF Rest
  <2> QED
    BY <2>1, <2>2
<1> QED
  BY <1>3, <1>4, AtRest

(***************************************************************************)
(* The order of the budgets has no infinite descent: every set of tuples     *)
(* of numbers has a minimal one.                                             *)
(***************************************************************************)
THEOREM LessIsWellFounded ==
  ASSUME NEW n \in Nat, NEW S, S \subseteq [1 .. n -> Nat], S # {}
  PROVE  \E s \in S : \A t \in S : ~ Less(t, s)
<1> DEFINE Before(k, t, s) == \E i \in 1 .. k : /\ t[i] < s[i]
                                                /\ \A j \in 1 .. i - 1 : t[j] = s[j]
           K == {k \in Nat : k <= n => \E s \in S : \A t \in S : ~ Before(k, t, s)}
<1>1. 0 \in K
  OBVIOUS
<1>2. ASSUME NEW k \in Nat, k \in K PROVE k + 1 \in K
  <2> SUFFICES ASSUME k + 1 <= n
               PROVE  \E s \in S : \A t \in S : ~ Before(k + 1, t, s)
    OBVIOUS
  <2>1. k <= n /\ k + 1 \in 1 .. n
    OBVIOUS
  <2>2. PICK s \in S : \A t \in S : ~ Before(k, t, s)
    BY <1>2, <2>1
  <2> DEFINE T == {t \in S : \A j \in 1 .. k : t[j] = s[j]}
             V == {t[k + 1] : t \in T}
  <2>3. V \subseteq Nat /\ V # {}
    <3>1. s \in T
      OBVIOUS
    <3> QED
      BY <2>1, <3>1
  <2>4. PICK m \in V : \A v \in V : m <= v
    <3> HIDE DEF V
    <3> QED
      BY <2>3, LeastOfSet
  <2>5. PICK u \in T : u[k + 1] = m
    OBVIOUS
  <2>6. ASSUME NEW t \in S, NEW i \in 1 .. k + 1, t[i] < u[i],
               \A j \in 1 .. i - 1 : t[j] = u[j]
        PROVE  FALSE
    <3>1. \A j \in 1 .. k : u[j] = s[j]
      OBVIOUS
    <3>2. CASE i \in 1 .. k
      <4>1. t[i] < s[i] /\ \A j \in 1 .. i - 1 : t[j] = s[j]
        BY <2>6, <3>1, <3>2
      <4> QED
        BY <2>2, <3>2, <4>1
    <3>3. CASE i = k + 1
      <4>1. \A j \in 1 .. k : t[j] = s[j]
        BY <2>6, <3>1, <3>3
      <4>2. t[k + 1] \in V
        BY <4>1
      <4>3. t[k + 1] \in Nat /\ m \in Nat
        BY <2>3, <4>2
      <4>4. t[k + 1] < m
        BY <2>5, <2>6, <3>3, Zenon
      <4>5. m <= t[k + 1]
        BY <2>4, <4>2, Zenon
      <4>6. \A x, y \in Nat : ~ (x < y /\ y <= x)
        OBVIOUS
      <4> QED
        BY <4>3, <4>4, <4>5, <4>6, Zenon
    <3> QED
      BY <3>2, <3>3
  <2> QED
    BY <2>6
<1>3. n \in K
  <2> HIDE DEF K
  <2> QED
    BY <1>1, <1>2, NatSetInduction
<1>4. PICK s \in S : \A t \in S : ~ Before(n, t, s)
  BY <1>3
<1>5. DOMAIN s = 1 .. n
  OBVIOUS
<1> QED
  BY <1>4, <1>5 DEF Less

(***************************************************************************)
(* Every step of a command lowers Budget, a tuple of numbers, until the      *)
(* command ends: rash_hook_run uses up a runner (`called`), rash_invoke_hook *)
(* falls through to a later hook or returns to a callback below, and what    *)
(* they start lies behind the hook that started it.  With LessIsWellFounded  *)
(* no callbacks keep a command in the chain for ever, however many hooks     *)
(* there are and however many runners they keep.                             *)
(***************************************************************************)
THEOREM ChainShrinks ==
  Spec => [](Budget \in [1 .. HookCount + 2 -> Nat]) /\ WorkShrinks
<1>1. IInv => Budget \in [1 .. HookCount + 2 -> Nat]
  <2> SUFFICES ASSUME IInv, NEW i \in 1 .. HookCount + 2
               PROVE  (IF i = HookCount + 2 THEN Rest ELSE Work(i)) \in Nat
    BY DEF Budget
  <2>1. Rest \in Nat
    BY DEF Rest
  <2>2. i # HookCount + 2 => i \in Calls
    BY DEF Calls
  <2> HIDE DEF Work, Rest
  <2> QED
    BY <2>1, <2>2, WorkType DEF IInv
<1>2. IInv /\ IInv' /\ [Next]_vars => [Step /\ pc' # "idle" => Less(Budget', Budget)]_vars
  <2> SUFFICES ASSUME IInv, IInv', Step, pc' # "idle"
               PROVE  Less(Budget', Budget)
    OBVIOUS
  <2>1. context \in Contexts
    BY DEF IInv, TypeOK
  <2>2. CASE InvokeReturns \/ InvokeHook \/ ExecuteOriginal
    BY <2>2, CallShrinks
  <2>3. CASE HookRun \/ HookRunStale
    BY <2>3, RunShrinks
  <2>4. CASE HookDenies \/ BodyReturns
    BY <2>4, RestShrinks
  <2>5. CASE BodyUnwinds
    BY <2>5 DEF BodyUnwinds
  <2>6. CASE HookFails
    <3> DEFINE c == IF hook_enforcing[Last(frames)]
                    THEN MarkDenied(context) ELSE context
    <3>1. c \in Contexts
      BY <2>1, MarkDeniedProps DEF IInv, OutcomeInv
    <3>2. LeaveHook(c) /\ pc = "lua"
      BY <2>6 DEF HookFails
    <3> HIDE DEF c
    <3> QED
      BY <3>1, <3>2, LeaveShrinks
  <2>7. CASE HookReturnsStatus
    <3>1. PICK s \in Status :
            LeaveHook([context EXCEPT !.executed = TRUE, !.result = s])
      BY <2>7 DEF HookReturnsStatus
    <3>2. [context EXCEPT !.executed = TRUE, !.result = s] \in Contexts
      BY <2>1 DEF Contexts
    <3> QED
      BY <2>7, <3>1, <3>2, LeaveShrinks DEF HookReturnsStatus
  <2>8. CASE HookReturns
    BY <2>1, <2>8, LeaveShrinks DEF HookReturns
  <2> QED
    BY <2>2, <2>3, <2>4, <2>5, <2>6, <2>7, <2>8 DEF Step
<1> QED
  BY <1>1, <1>2, Invariance, PTL DEF Spec, WorkShrinks
=============================================================================
