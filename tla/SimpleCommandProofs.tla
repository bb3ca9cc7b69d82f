------------------------ MODULE SimpleCommandProofs ------------------------
(***************************************************************************)
(* Proofs about SimpleCommand, for any callbacks, any number of processes    *)
(* and any nesting: the stages of a command decide about it.                 *)
(***************************************************************************)
EXTENDS SimpleCommand, Integers, SequenceTheorems, TLAPS

-----------------------------------------------------------------------------
(* A stack is a sequence of frames; the one that runs is Last.               *)

(* Popping a frame. *)
LEMMA FrontLast ==
  ASSUME NEW S, NEW s \in Seq(S), s # <<>>
  PROVE  /\ Front(s) \in Seq(S)
         /\ Last(s) \in S
         /\ Len(s) \in Nat \ {0}
         /\ Len(Front(s)) = Len(s) - 1
         /\ \A k \in 1 .. Len(s) - 1 : Front(s)[k] = s[k]
<1> DEFINE n == Len(s) - 1
<1>1. Len(s) \in Nat \ {0} /\ n \in Nat /\ Len(s) = n + 1
  BY EmptySeq, LenProperties
<1>2. Last(s) \in S /\ \A i \in 1 .. n : s[i] \in S
  BY <1>1, ElementOfSeq DEF Last
<1>3. Front(s) = SubSeq(s, 1, n)
  BY DEF Front
<1> HIDE DEF n
<1>4. /\ SubSeq(s, 1, n) \in Seq(S)
      /\ Len(SubSeq(s, 1, n)) = IF 1 <= n THEN n - 1 + 1 ELSE 0
      /\ \A i \in 1 .. n - 1 + 1 : SubSeq(s, 1, n)[i] = s[1 + i - 1]
  BY <1>1, <1>2, SubSeqProperties
<1>5. n - 1 + 1 = n /\ (~(1 <= n) => n = 0) /\ Len(s) - 1 = n
  BY <1>1
<1>6. Len(Front(s)) = n
  BY <1>3, <1>4, <1>5
<1>7. \A k \in 1 .. n : k \in 1 .. n - 1 + 1 /\ 1 + k - 1 = k
  BY <1>1
<1> QED
  BY <1>1, <1>2, <1>3, <1>4, <1>5, <1>6, <1>7

(* Pushing a frame. *)
LEMMA PushTop ==
  ASSUME NEW S, NEW s \in Seq(S), NEW e \in S
  PROVE  /\ Append(s, e) \in Seq(S)
         /\ Append(s, e) # <<>>
         /\ Len(s) \in Nat
         /\ Len(Append(s, e)) = Len(s) + 1
         /\ \A k \in 1 .. Len(s) : Append(s, e)[k] = s[k]
         /\ Append(s, e)[Len(s) + 1] = e
         /\ Last(Append(s, e)) = e
         /\ Front(Append(s, e)) = s
<1> DEFINE t == Append(s, e)
<1>1. /\ t \in Seq(S) /\ t # <<>> /\ Len(s) \in Nat /\ Len(t) = Len(s) + 1
      /\ \A k \in 1 .. Len(s) : t[k] = s[k]
      /\ t[Len(s) + 1] = e
  BY AppendProperties, LenProperties
<1> HIDE DEF t
<1>2. /\ Front(t) \in Seq(S) /\ Len(Front(t)) = Len(s)
      /\ \A k \in 1 .. Len(s) : Front(t)[k] = s[k]
  BY <1>1, FrontLast
<1>3. Front(t) = s /\ Last(t) = e
  BY <1>1, <1>2, SeqEqual DEF Last
<1> QED
  BY <1>1, <1>3 DEF t

(* A stack is what is below its top, and the top. *)
LEMMA TopAndRest ==
  ASSUME NEW S, NEW s \in Seq(S), s # <<>>
  PROVE  /\ s = Append(Front(s), Last(s))
         /\ s[Len(s)] = Last(s)
<1> DEFINE t == Append(Front(s), Last(s))
<1>1. /\ Front(s) \in Seq(S) /\ Last(s) \in S /\ Len(s) \in Nat \ {0}
      /\ Len(Front(s)) = Len(s) - 1 /\ \A k \in 1 .. Len(s) - 1 : Front(s)[k] = s[k]
  BY FrontLast
<1>2. /\ t \in Seq(S) /\ Len(t) = Len(Front(s)) + 1
      /\ \A k \in 1 .. Len(Front(s)) : t[k] = Front(s)[k]
      /\ t[Len(Front(s)) + 1] = Last(s)
  BY <1>1, AppendProperties
<1> HIDE DEF t
<1>3. Len(t) = Len(s) /\ s[Len(s)] = Last(s) /\ t[Len(s)] = Last(s)
  BY <1>1, <1>2 DEF Last
<1>4. \A k \in 1 .. Len(s) : s[k] = t[k]
  BY <1>1, <1>2, <1>3
<1>5. s = t
  BY <1>2, <1>3, <1>4, SeqEqual
<1> QED
  BY <1>3, <1>5 DEF t

-----------------------------------------------------------------------------
(* A frame that is about to be entered, or that returns or exits.           *)
Ats == Stages \union {"left", "right", "fork", "start", "parent", "body", "program", "wait",
                      "return", "exit"}
Going ==
  [at: Ats, i: Nat, run: Runs, redirs: {"unknown"} \union Redirs,
   forked: BOOLEAN, nofork: BOOLEAN, exits: BOOLEAN, subshell: BOOLEAN, trap: BOOLEAN,
   child: Children \union {None},
   asked: SUBSET (Stages \X (Nat \ {0})), refused: BOOLEAN, stopped: BOOLEAN, ran: BOOLEAN]

(* The stages that are asked in traps too. *)
InTraps == {"expand", "dispatch", "policy"}

(* f has asked every callback of stage s in the table h. *)
All(h, f, s) == \A j \in 1 .. Len(h[s]) : <<s, j>> \in f.asked

(* Stage s is behind f: it was asked, or f runs in a trap. *)
Past(h, f, s) == f.trap \/ All(h, f, s)

(* What a command passes before its redirections, and with them. *)
Words(h, f) == All(h, f, "expand") /\ All(h, f, "dispatch") /\ (f.forked \/ Past(h, f, "before"))
Opened(h, f) ==
  /\ f.redirs # "unknown"
  /\ f.redirs # "none" => All(h, f, "policy") /\ Past(h, f, "redirect")
  /\ f.redirs = "clobber" => Past(h, f, "clobber")

(* Nothing has been decided about f yet. *)
Undecided(f) == ~f.ran /\ ~f.stopped

Ready(h, f) == Undecided(f) /\ Words(h, f) /\ Opened(h, f)

(* The stage of what is executed. *)
Kind(f) == IF f.run \in {"builtin", "function"} THEN f.run ELSE "exec"

(* What decides about a command: a refusal and nothing else stops it, and it  *)
(* runs if it was not refused, everybody having been asked.                 *)
Fate(h, f) ==
  /\ f.stopped = f.refused
  /\ f.ran => ~f.refused /\ Words(h, f) /\ Opened(h, f) /\ Past(h, f, Kind(f))

(* A callback of f's stage runs: those before it have been asked. *)
Calling(h, f) ==
  f.at \in Stages =>
    /\ f.i \in 1 .. Len(h[f.at])
    /\ \A j \in 1 .. f.i : <<f.at, j>> \in f.asked
    /\ f.trap => f.at \in InTraps

Resolved(f) == f.run \in {"builtin", "function", "disk"}

(* What has happened before f came to where it is. *)
Reached(h, f) ==
  /\ f.at \in {"pipeline", "expand", "before", "dispatch", "policy", "builtin", "function",
               "exec", "fork", "start"} => Undecided(f)
  /\ f.at \in {"before", "dispatch"} => All(h, f, "expand")
  /\ f.at = "dispatch" => f.forked \/ Past(h, f, "before")
  /\ f.at \in {"policy", "redirect", "clobber"} =>
       /\ f.redirs \in Redirs \ {"none"} /\ ~f.ran
       /\ f.run # "null" => Undecided(f) /\ Words(h, f) /\ Resolved(f)
  /\ f.at \in {"redirect", "clobber"} => f.run = "null" \/ All(h, f, "policy")
  /\ f.at = "clobber" => f.redirs = "clobber" /\ (f.run = "null" \/ Past(h, f, "redirect"))
  /\ f.at \in {"builtin", "function", "exec"} => Ready(h, f) /\ Kind(f) = f.at
  /\ f.at = "exec" => f.run \in {"disk", "exec"}
  /\ f.at = "fork" => Words(h, f) /\ f.run = "disk"
  /\ f.at = "start" /\ f.run = "disk" => Words(h, f)
  /\ f.at = "body" /\ f.run # "trap" => ~f.stopped /\ Words(h, f) /\ Opened(h, f)

FrameOK(h, f) == Fate(h, f) /\ Calling(h, f) /\ Reached(h, f)

(* Where a frame may be in which no callback runs. *)
OKFrames(h) == {f \in Frames : FrameOK(h, f)}
Quiet(h) == {f \in OKFrames(h) : f.at \notin Stages}

(* What a callback finds: its own flag and its own right to deny, and no       *)
(* denial, of whatever command, that its stage has not looked at.            *)
GlobalsFor(h, f, g) ==
  /\ g.in_stage = Flag(f.at) /\ g.enforcing = h[f.at][f.i]
  /\ f.at \in Denying => ~g.stage_denied

Clear(g) == g.in_stage = {} /\ ~g.enforcing

(* A callback runs on top of the stack only. *)
ProcOK(h, s, g) ==
  /\ s \in Seq(OKFrames(h))
  /\ s # <<>> => Front(s) \in Seq(Quiet(h))
  /\ IF s # <<>> /\ Last(s).at \in Stages THEN GlobalsFor(h, Last(s), g) ELSE Clear(g)

Globals == [stage_denied: BOOLEAN, in_stage: SUBSET Denying, enforcing: BOOLEAN]

CoreType ==
  /\ hooks \in Tables /\ live \subseteq Procs
  /\ stack \in [Procs -> Seq(Frames)]
  /\ globals \in [Procs -> Globals]
  /\ \A p \in Procs \ live : stack[p] = <<>> /\ globals[p] = Fresh

IInv == CoreType /\ \A p \in Procs : ProcOK(hooks, stack[p], globals[p])

-----------------------------------------------------------------------------
(* Frames that move.                                                        *)

(* What no move changes. *)
Same(f, g) ==
  /\ g.forked = f.forked /\ g.nofork = f.nofork /\ g.subshell = f.subshell /\ g.trap = f.trap
  /\ g.child = f.child /\ g.refused = f.refused /\ g.stopped = f.stopped

LEMMA MoveProps ==
  ASSUME NEW f \in Going, NEW a \in Ats
  PROVE  LET g == [f EXCEPT !.at = a] IN
         /\ g \in Going /\ g.at = a /\ Same(f, g)
         /\ g.i = f.i /\ g.asked = f.asked
         /\ g.run = f.run /\ g.redirs = f.redirs /\ g.exits = f.exits /\ g.ran = f.ran
  BY DEF Going, Same

LEMMA RunProps ==
  ASSUME NEW f \in Going, NEW r \in Runs
  PROVE  LET g == [f EXCEPT !.run = r] IN
         /\ g \in Going /\ g.run = r /\ Same(f, g)
         /\ g.i = f.i /\ g.asked = f.asked
         /\ g.at = f.at /\ g.redirs = f.redirs /\ g.exits = f.exits /\ g.ran = f.ran
  BY DEF Going, Same

LEMMA RanProps ==
  ASSUME NEW f \in Going
  PROVE  LET g == [f EXCEPT !.ran = TRUE] IN
         /\ g \in Going /\ g.ran = TRUE /\ Same(f, g)
         /\ g.i = f.i /\ g.asked = f.asked
         /\ g.at = f.at /\ g.run = f.run /\ g.redirs = f.redirs /\ g.exits = f.exits
  BY DEF Going, Same

LEMMA RedirsProps ==
  ASSUME NEW f \in Going, NEW r \in {"unknown"} \union Redirs
  PROVE  LET g == [f EXCEPT !.redirs = r] IN
         /\ g \in Going /\ g.redirs = r /\ Same(f, g)
         /\ g.i = f.i /\ g.asked = f.asked
         /\ g.at = f.at /\ g.run = f.run /\ g.exits = f.exits /\ g.ran = f.ran
  BY DEF Going, Same

LEMMA EnterProps ==
  ASSUME NEW f \in Going, NEW a \in Stages
  PROVE  LET g == [f EXCEPT !.at = a, !.i = 1, !.asked = @ \union {<<a, 1>>}] IN
         /\ g \in Going /\ g.at = a /\ Same(f, g)
         /\ g.i = 1 /\ g.asked = f.asked \union {<<a, 1>>}
         /\ g.run = f.run /\ g.redirs = f.redirs /\ g.exits = f.exits /\ g.ran = f.ran
<1> DEFINE g == [f EXCEPT !.at = a, !.i = 1, !.asked = @ \union {<<a, 1>>}]
<1>1. <<a, 1>> \in Stages \X (Nat \ {0})
  OBVIOUS
<1>2. f.asked \union {<<a, 1>>} \in SUBSET (Stages \X (Nat \ {0}))
  BY <1>1 DEF Going
<1>3. a \in Ats /\ 1 \in Nat
  BY DEF Ats
<1>4. g \in Going
  BY <1>2, <1>3 DEF Going
<1> QED
  BY <1>4 DEF Going, Same

(* What was asked stays asked. *)
LEMMA Carry ==
  ASSUME NEW h, NEW f, NEW g, g.trap = f.trap, g.forked = f.forked, f.asked \subseteq g.asked
  PROVE  /\ \A s : All(h, f, s) => All(h, g, s)
         /\ \A s : Past(h, f, s) => Past(h, g, s)
         /\ Words(h, f) => Words(h, g)
         /\ g.redirs = f.redirs /\ Opened(h, f) => Opened(h, g)
  BY DEF All, Past, Words, Opened

LEMMA CarryFate ==
  ASSUME NEW h, NEW f, NEW g, Same(f, g), f.asked \subseteq g.asked, g.redirs = f.redirs,
         g.run = f.run, g.ran = f.ran, Fate(h, f)
  PROVE  Fate(h, g)
<1>1. /\ \A s : Past(h, f, s) => Past(h, g, s)
      /\ Words(h, f) => Words(h, g) /\ (Opened(h, f) => Opened(h, g))
  BY Carry DEF Same
<1> QED
  BY <1>1 DEF Fate, Same, Kind

HooksOK == hooks \in [Stages -> Seq(BOOLEAN)]

LEMMA HooksLen ==
  ASSUME HooksOK
  PROVE  \A s \in Stages : Len(hooks[s]) \in Nat /\ (hooks[s] # <<>> <=> Len(hooks[s]) >= 1)
<1> SUFFICES ASSUME NEW s \in Stages
             PROVE  Len(hooks[s]) \in Nat /\ (hooks[s] # <<>> <=> Len(hooks[s]) >= 1)
  OBVIOUS
<1>1. hooks[s] \in Seq(BOOLEAN)
  BY DEF HooksOK
<1> QED
  BY <1>1, EmptySeq, LenProperties

(* A command comes to a stage. *)
Entered(f, k, a) ==
  /\ k \in Going /\ k.at = a /\ Same(f, k) /\ f.asked \subseteq k.asked
  /\ k.run = f.run /\ k.redirs = f.redirs /\ k.ran = f.ran
  /\ Fate(hooks, k) /\ Calling(hooks, k) /\ k.i = 1

LEMMA StageSplit ==
  ASSUME HooksOK, NEW f \in Going, Fate(hooks, f), NEW a \in Stages, NEW rest,
         NEW k \in Stage(f, a, rest)
  PROVE  \/ Entered(f, k, a)
         \/ k \in rest /\ Past(hooks, f, a) /\ (a \in InTraps => All(hooks, f, a))
<1> DEFINE g == [f EXCEPT !.at = a, !.i = 1, !.asked = @ \union {<<a, 1>>}]
<1>1. /\ g \in Going /\ g.at = a /\ Same(f, g)
      /\ g.i = 1 /\ g.asked = f.asked \union {<<a, 1>>}
      /\ g.run = f.run /\ g.redirs = f.redirs /\ g.exits = f.exits /\ g.ran = f.ran
  BY EnterProps
<1>2. k \in IF Asked(g) = <<>> THEN rest ELSE {g}
  BY DEF Stage
<1>3. Fate(hooks, g)
  BY <1>1, CarryFate
<1> HIDE DEF g
<1>4. Asked(g) = IF f.trap /\ a \notin InTraps THEN <<>> ELSE hooks[a]
  BY <1>1 DEF Asked, InTraps, Same
<1>5. CASE Asked(g) = <<>>
  <2>1. CASE f.trap /\ a \notin InTraps
    BY <1>2, <1>5, <2>1 DEF Past
  <2>2. CASE ~(f.trap /\ a \notin InTraps)
    <3>1. Len(hooks[a]) = 0
      BY <1>4, <1>5, <2>2, HooksLen
    <3>2. All(hooks, f, a)
      BY <3>1 DEF All
    <3> QED
      BY <1>2, <1>5, <3>2 DEF Past
  <2> QED
    BY <2>1, <2>2
<1>6. CASE Asked(g) # <<>>
  <2>1. k = g /\ (f.trap => a \in InTraps) /\ hooks[a] # <<>>
    BY <1>2, <1>4, <1>6
  <2>2. 1 \in 1 .. Len(hooks[a])
    BY <2>1, HooksLen
  <2>3. \A j \in 1 .. 1 : <<a, j>> \in g.asked
    BY <1>1
  <2>4. Calling(hooks, g)
    BY <1>1, <2>1, <2>2, <2>3 DEF Calling, Same
  <2> QED
    BY <1>1, <1>3, <2>1, <2>4 DEF Entered
<1> QED
  BY <1>5, <1>6

-----------------------------------------------------------------------------
(* execute_simple_command, from its end to its beginning.                   *)

(* A way in which a command may go on. *)
Goes(k) == k \in Going /\ FrameOK(hooks, k) /\ (k.at \in Stages => k.i = 1)

(* The command is over: it was refused, or it has run. *)
LEMMA ToGoes ==
  ASSUME NEW f \in Going, Fate(hooks, f), NEW a \in {"return", "exit", "wait", "program"},
         NEW k \in To(f, a)
  PROVE  Goes(k)
<1>1. a \in Ats /\ a \notin Stages /\ k = [f EXCEPT !.at = a]
  BY DEF Ats, To, Stages, Denying, Observing
<1>2. /\ k \in Going /\ k.at = a /\ Same(f, k) /\ k.asked = f.asked
      /\ k.run = f.run /\ k.redirs = f.redirs /\ k.ran = f.ran
  BY <1>1, MoveProps
<1>3. Fate(hooks, k)
  BY <1>2, CarryFate
<1>4. Reached(hooks, k)
  BY <1>2 DEF Reached
<1> QED
  BY <1>1, <1>2, <1>3, <1>4 DEF Goes, FrameOK, Calling

LEMMA LeaveBundleGoes ==
  ASSUME NEW f \in Going, Fate(hooks, f), NEW d, NEW k \in LeaveBundle(f, d)
  PROVE  Goes(k)
  BY ToGoes DEF LeaveBundle

(* The observers are asked whatever became of the command. *)
LEMMA ObserverGoes ==
  ASSUME NEW f, NEW a \in Observing, NEW k, Entered(f, k, a)
  PROVE  Goes(k)
  BY DEF Entered, Goes, FrameOK, Reached, Observing

LEMMA LeaveAfterGoes ==
  ASSUME HooksOK, NEW f \in Going, Fate(hooks, f), NEW d, NEW k \in LeaveAfter(f, d)
  PROVE  Goes(k)
<1>1. "bundle" \in Stages /\ "bundle" \in Observing
  BY DEF Stages, Observing
<1>2. Entered(f, k, "bundle") \/ k \in LeaveBundle(f, FALSE)
  BY <1>1, StageSplit DEF LeaveAfter
<1> QED
  BY <1>1, <1>2, ObserverGoes, LeaveBundleGoes

LEMMA AfterGoes ==
  ASSUME HooksOK, NEW f \in Going, Fate(hooks, f), NEW k \in Stage(f, "after", LeaveAfter(f, FALSE))
  PROVE  Goes(k)
<1>1. "after" \in Stages /\ "after" \in Observing
  BY DEF Stages, Observing
<1>2. Entered(f, k, "after") \/ k \in LeaveAfter(f, FALSE)
  BY <1>1, StageSplit
<1> QED
  BY <1>1, <1>2, ObserverGoes, LeaveAfterGoes

LEMMA FinishGoes ==
  ASSUME HooksOK, NEW f \in Going, Fate(hooks, f), NEW k \in Finish(f)
  PROVE  Goes(k)
  BY AfterGoes, ToGoes DEF Finish

LEMMA LeaveBuiltinOrFunctionGoes ==
  ASSUME HooksOK, NEW f \in Going, Fate(hooks, f), NEW d \in BOOLEAN,
         ~d => /\ Ready(hooks, f) /\ f.run \in {"builtin", "function"}
               /\ Past(hooks, f, f.run),
         NEW k \in LeaveBuiltinOrFunction(f, d)
  PROVE  Goes(k)
<1>1. CASE d
  BY <1>1, FinishGoes DEF LeaveBuiltinOrFunction
<1>2. CASE ~d
  <2> DEFINE g == [f EXCEPT !.ran = TRUE]
  <2>1. /\ g \in Going /\ g.ran = TRUE /\ Same(f, g) /\ g.asked = f.asked
        /\ g.run = f.run /\ g.redirs = f.redirs
    BY RanProps
  <2>2. k = [g EXCEPT !.at = "body"]
    BY <1>2 DEF LeaveBuiltinOrFunction, To
  <2> HIDE DEF g
  <2>3. /\ k \in Going /\ k.at = "body" /\ Same(g, k) /\ k.asked = g.asked
        /\ k.run = g.run /\ k.redirs = g.redirs /\ k.ran = g.ran
    BY <2>1, <2>2, MoveProps DEF Ats
  <2>4. /\ Words(hooks, k) /\ Opened(hooks, k) /\ Past(hooks, k, f.run) /\ k.run = f.run
        /\ k.stopped = f.stopped /\ k.refused = f.refused
    BY <1>2, <2>1, <2>3, Carry DEF Ready, Same
  <2>5. Fate(hooks, k)
    BY <1>2, <2>1, <2>3, <2>4 DEF Fate, Ready, Undecided, Kind
  <2>6. Reached(hooks, k)
    BY <1>2, <2>3, <2>4 DEF Reached, Ready, Undecided
  <2> QED
    BY <2>3, <2>5, <2>6 DEF Goes, FrameOK, Calling, Stages, Denying, Observing
<1> QED
  BY <1>1, <1>2

LEMMA LeaveExecGoes ==
  ASSUME HooksOK, NEW f \in Going, Fate(hooks, f), NEW d \in BOOLEAN,
         ~d => Ready(hooks, f) /\ f.run \in {"disk", "exec"} /\ Past(hooks, f, "exec"),
         NEW k \in LeaveExec(f, d)
  PROVE  Goes(k)
<1>1. CASE d
  BY <1>1, FinishGoes, ToGoes DEF LeaveExec
<1>2. CASE ~d
  <2> DEFINE g == [f EXCEPT !.ran = TRUE]
  <2>1. /\ g \in Going /\ g.ran = TRUE /\ Same(f, g) /\ g.asked = f.asked
        /\ g.run = f.run /\ g.redirs = f.redirs
    BY RanProps
  <2>2. k \in To(g, "program")
    BY <1>2 DEF LeaveExec
  <2> HIDE DEF g
  <2>3. /\ Words(hooks, g) /\ Opened(hooks, g) /\ Past(hooks, g, "exec")
        /\ g.stopped = f.stopped /\ g.refused = f.refused
    BY <1>2, <2>1, Carry DEF Ready, Same
  <2>4. Fate(hooks, g)
    BY <1>2, <2>1, <2>3 DEF Fate, Ready, Undecided, Kind
  <2> QED
    BY <2>1, <2>2, <2>4, ToGoes
<1> QED
  BY <1>1, <1>2

(* The stage of what is executed is the last that decides. *)
LEMMA KindGoes ==
  ASSUME NEW f \in Going, Ready(hooks, f), NEW k, NEW a \in {"builtin", "function", "exec"},
         Entered(f, k, a), Kind(f) = a, a = "exec" => f.run \in {"disk", "exec"}
  PROVE  Goes(k)
<1>1. /\ Ready(hooks, k) /\ Kind(k) = a /\ Undecided(k) /\ k.at = a /\ k.run = f.run
  BY Carry DEF Entered, Ready, Undecided, Same, Kind
<1>2. Reached(hooks, k)
  BY <1>1 DEF Reached
<1> QED
  BY <1>2 DEF Entered, Goes, FrameOK

LEMMA FunctionStageGoes ==
  ASSUME HooksOK, NEW f \in Going, Fate(hooks, f), Ready(hooks, f),
         f.run \in {"builtin", "function"},
         NEW k \in Stage(f, f.run, LeaveBuiltinOrFunction(f, FALSE))
  PROVE  Goes(k)
<1>1. f.run \in Stages /\ Kind(f) = f.run
  BY DEF Stages, Denying, Kind
<1>2. \/ Entered(f, k, f.run)
      \/ k \in LeaveBuiltinOrFunction(f, FALSE) /\ Past(hooks, f, f.run)
  BY <1>1, StageSplit
<1> QED
  BY <1>1, <1>2, KindGoes, LeaveBuiltinOrFunctionGoes

LEMMA RunGoes ==
  ASSUME HooksOK, NEW f \in Going, Fate(hooks, f), Ready(hooks, f),
         f.run \in {"builtin", "function", "disk", "exec"}, NEW k \in Run(f)
  PROVE  Goes(k)
<1>1. CASE f.run \in {"builtin", "function"}
  BY <1>1, FunctionStageGoes DEF Run
<1>2. CASE k \in Stage(f, "exec", LeaveExec(f, FALSE)) /\ f.run \in {"disk", "exec"}
  <2>1. "exec" \in Stages /\ Kind(f) = "exec"
    BY <1>2 DEF Stages, Denying, Kind
  <2>2. Entered(f, k, "exec") \/ (k \in LeaveExec(f, FALSE) /\ Past(hooks, f, "exec"))
    BY <1>2, <2>1, StageSplit
  <2> QED
    BY <1>2, <2>1, <2>2, KindGoes, LeaveExecGoes
<1>3. CASE k \in Missing(f) /\ f.run = "disk"
  <2> DEFINE g == [f EXCEPT !.run = "function"]
  <2>1. /\ g \in Going /\ g.run = "function" /\ Same(f, g) /\ g.asked = f.asked
        /\ g.redirs = f.redirs /\ g.ran = f.ran
    BY RunProps DEF Runs
  <2>2. k \in To(f, "exit") \/ k \in Stage(g, g.run, LeaveBuiltinOrFunction(g, FALSE))
    BY <1>3, <2>1 DEF Missing
  <2> HIDE DEF g
  <2>3. Ready(hooks, g)
    BY <2>1, Carry DEF Ready, Undecided, Same
  <2>4. Fate(hooks, g)
    BY <2>1, <2>3 DEF Fate, Ready, Undecided, Same
  <2> QED
    BY <2>1, <2>2, <2>3, <2>4, ToGoes, FunctionStageGoes
<1> QED
  BY <1>1, <1>2, <1>3 DEF Run

(* With the redirections made or refused, a null command is over. *)
LEMMA RedirectedGoes ==
  ASSUME HooksOK, NEW f \in Going, Fate(hooks, f),
         f.run # "null" => Ready(hooks, f) /\ Resolved(f),
         NEW k \in Redirected(f)
  PROVE  Goes(k)
  BY RunGoes, ToGoes DEF Redirected, Resolved

LEMMA NotRedirectedGoes ==
  ASSUME HooksOK, NEW f \in Going, Fate(hooks, f), NEW k \in NotRedirected(f)
  PROVE  Goes(k)
  BY FinishGoes, ToGoes DEF NotRedirected

LEMMA LeaveClobberGoes ==
  ASSUME HooksOK, NEW f \in Going, Fate(hooks, f), NEW d \in BOOLEAN,
         ~d /\ f.run # "null" => Ready(hooks, f) /\ Resolved(f),
         NEW k \in LeaveClobber(f, d)
  PROVE  Goes(k)
<1>1. k \in NotRedirected(f) \/ (~d /\ k \in Redirected(f))
  BY DEF LeaveClobber
<1> QED
  BY <1>1, NotRedirectedGoes, RedirectedGoes

(* A command with redirections that comes to one of their stages. *)
LEMMA RedirStageGoes ==
  ASSUME NEW f \in Going, NEW k, NEW a \in {"policy", "redirect", "clobber"}, Entered(f, k, a),
         f.redirs \in Redirs \ {"none"}, ~f.ran,
         f.run # "null" => Undecided(f) /\ Words(hooks, f) /\ Resolved(f),
         a = "policy" => Undecided(f),
         a # "policy" => f.run = "null" \/ All(hooks, f, "policy"),
         a = "clobber" => f.redirs = "clobber" /\ (f.run = "null" \/ Past(hooks, f, "redirect"))
  PROVE  Goes(k)
<1>1. /\ k.at = a /\ k.redirs = f.redirs /\ k.run = f.run /\ k.ran = f.ran
      /\ k.stopped = f.stopped /\ k.trap = f.trap /\ k.forked = f.forked
      /\ f.asked \subseteq k.asked
  BY DEF Entered, Same
<1>2. /\ Words(hooks, f) => Words(hooks, k)
      /\ All(hooks, f, "policy") => All(hooks, k, "policy")
      /\ Past(hooks, f, "redirect") => Past(hooks, k, "redirect")
  BY <1>1, Carry
<1>3. Reached(hooks, k)
  BY <1>1, <1>2 DEF Reached, Undecided, Resolved
<1> QED
  BY <1>3 DEF Entered, Goes, FrameOK

LEMMA LeaveRedirectGoes ==
  ASSUME HooksOK, NEW f \in Going, Fate(hooks, f), NEW d \in BOOLEAN,
         f.redirs \in Redirs \ {"none"}, ~f.ran,
         ~d /\ f.run # "null" => /\ Undecided(f) /\ Words(hooks, f) /\ Resolved(f)
                                 /\ All(hooks, f, "policy") /\ Past(hooks, f, "redirect"),
         NEW k \in LeaveRedirect(f, d)
  PROVE  Goes(k)
<1>1. CASE ~d /\ f.redirs = "clobber"
  <2>1. "clobber" \in Stages
    BY DEF Stages, Denying
  <2>2. k \in Stage(f, "clobber", LeaveClobber(f, FALSE))
    BY <1>1 DEF LeaveRedirect
  <2>3. CASE Entered(f, k, "clobber")
    BY <1>1, <2>3, RedirStageGoes
  <2>4. CASE k \in LeaveClobber(f, FALSE) /\ Past(hooks, f, "clobber")
    <3>1. f.run # "null" => Ready(hooks, f) /\ Resolved(f)
      BY <1>1, <2>4 DEF Ready, Opened
    <3> QED
      BY <2>4, <3>1, LeaveClobberGoes
  <2> QED
    BY <2>1, <2>2, <2>3, <2>4, StageSplit
<1>2. CASE ~(~d /\ f.redirs = "clobber")
  <2>1. k \in LeaveClobber(f, d)
    BY <1>2 DEF LeaveRedirect
  <2>2. ~d /\ f.run # "null" => Ready(hooks, f) /\ Resolved(f)
    BY <1>2 DEF Ready, Opened, Redirs
  <2> QED
    BY <2>1, <2>2, LeaveClobberGoes
<1> QED
  BY <1>1, <1>2

LEMMA RedirectGoes ==
  ASSUME HooksOK, NEW f \in Going, Fate(hooks, f), f.redirs \in Redirs \ {"none"}, ~f.ran,
         f.run # "null" => /\ Undecided(f) /\ Words(hooks, f) /\ Resolved(f)
                           /\ All(hooks, f, "policy"),
         NEW k \in Stage(f, "redirect", LeaveRedirect(f, FALSE))
  PROVE  Goes(k)
<1>1. "redirect" \in Stages
  BY DEF Stages, Denying
<1>2. CASE Entered(f, k, "redirect")
  BY <1>2, RedirStageGoes
<1>3. CASE k \in LeaveRedirect(f, FALSE) /\ Past(hooks, f, "redirect")
  BY <1>3, LeaveRedirectGoes
<1> QED
  BY <1>1, <1>2, <1>3, StageSplit

LEMMA LeavePolicyGoes ==
  ASSUME HooksOK, NEW f \in Going, Fate(hooks, f), NEW d \in BOOLEAN,
         f.redirs \in Redirs \ {"none"}, ~f.ran,
         ~d /\ f.run # "null" => /\ Undecided(f) /\ Words(hooks, f) /\ Resolved(f)
                                 /\ All(hooks, f, "policy"),
         NEW k \in LeavePolicy(f, d)
  PROVE  Goes(k)
<1>1. CASE d
  BY <1>1, NotRedirectedGoes DEF LeavePolicy
<1>2. CASE ~d
  BY <1>2, RedirectGoes DEF LeavePolicy
<1> QED
  BY <1>1, <1>2

LEMMA FirstStageGoes ==
  ASSUME HooksOK, NEW f \in Going, Fate(hooks, f), f.redirs \in Redirs \ {"none"},
         Undecided(f), Words(hooks, f), Resolved(f), NEW k \in FirstStage(f)
  PROVE  Goes(k)
<1>1. "policy" \in Stages /\ "policy" \in InTraps /\ ~f.ran
  BY DEF Stages, Denying, InTraps, Undecided
<1>2. CASE Entered(f, k, "policy")
  BY <1>1, <1>2, RedirStageGoes
<1>3. CASE k \in LeavePolicy(f, FALSE) /\ All(hooks, f, "policy")
  BY <1>1, <1>3, LeavePolicyGoes
<1> QED
  BY <1>1, <1>2, <1>3, StageSplit DEF FirstStage

(* What the redirections turn out to be changes nothing else. *)
LEMMA WithRedirsProps ==
  ASSUME NEW f \in Going, Fate(hooks, f), ~f.ran, NEW g \in WithRedirs(f)
  PROVE  /\ g \in Going /\ Fate(hooks, g) /\ g.redirs \in Redirs
         /\ Same(f, g) /\ g.run = f.run /\ g.exits = f.exits /\ g.ran = f.ran
         /\ g.asked = f.asked
<1>1. PICK r \in Redirs : g = [f EXCEPT !.redirs = r]
  BY DEF WithRedirs, Redirs, Going
<1>2. /\ g \in Going /\ g.redirs = r /\ Same(f, g) /\ g.asked = f.asked
      /\ g.run = f.run /\ g.exits = f.exits /\ g.ran = f.ran
  BY <1>1, RedirsProps
<1>3. Fate(hooks, g)
  BY <1>2 DEF Fate, Same
<1> QED
  BY <1>2, <1>3

LEMMA RedirectingGoes ==
  ASSUME HooksOK, NEW f \in Going, Fate(hooks, f), Undecided(f), Words(hooks, f), Resolved(f),
         NEW k \in Redirecting(f)
  PROVE  Goes(k)
<1>1. PICK g \in WithRedirs(f) : k \in IF g.redirs = "none" THEN Run(g) ELSE FirstStage(g)
  BY DEF Redirecting
<1>2. /\ g \in Going /\ Fate(hooks, g) /\ g.redirs \in Redirs
      /\ Same(f, g) /\ g.run = f.run /\ g.ran = f.ran /\ g.asked = f.asked
  BY <1>1, WithRedirsProps DEF Undecided
<1>3. Undecided(g) /\ Words(hooks, g) /\ Resolved(g)
  BY <1>2, Carry DEF Undecided, Resolved, Same
<1>4. CASE g.redirs = "none"
  <2>1. Ready(hooks, g)
    BY <1>3, <1>4 DEF Ready, Opened
  <2> QED
    BY <1>1, <1>2, <1>3, <1>4, <2>1, RunGoes DEF Resolved
<1>5. CASE g.redirs # "none"
  BY <1>1, <1>2, <1>3, <1>5, FirstStageGoes
<1> QED
  BY <1>4, <1>5

LEMMA NullCommandGoes ==
  ASSUME HooksOK, NEW f \in Going, Fate(hooks, f), ~f.ran, NEW k \in NullCommand(f)
  PROVE  Goes(k)
<1> DEFINE e == [f EXCEPT !.run = "null", !.exits = f.forked]
<1>1. /\ e \in Going /\ e.run = "null" /\ Same(f, e) /\ e.ran = f.ran
  <2>1. f.forked \in BOOLEAN
    BY DEF Going
  <2>2. "null" \in Runs
    BY DEF Runs
  <2>3. \A x \in BOOLEAN :
          LET d == [f EXCEPT !.run = "null", !.exits = x]
          IN d \in Going /\ d.run = "null" /\ Same(f, d) /\ d.ran = f.ran
    BY <2>2 DEF Going, Same
  <2> QED
    BY <2>1, <2>3, Zenon
<1>2. Fate(hooks, e)
  BY <1>1 DEF Fate, Same
<1>3. PICK g \in WithRedirs(e) :
        k \in IF g.redirs = "none" THEN Redirected(g)
               ELSE Stage(g, "redirect", LeaveRedirect(g, FALSE))
  BY DEF NullCommand
<1> HIDE DEF e
<1>4. /\ g \in Going /\ Fate(hooks, g) /\ g.redirs \in Redirs /\ g.run = "null" /\ ~g.ran
  BY <1>1, <1>2, <1>3, WithRedirsProps
<1> QED
  BY <1>3, <1>4, RedirectedGoes, RedirectGoes

LEMMA DispatchGoes ==
  ASSUME HooksOK, NEW f \in Going, Fate(hooks, f), Undecided(f), Words(hooks, f),
         NEW r \in {"builtin", "function", "disk"}, NEW k \in Dispatch(f, r)
  PROVE  Goes(k)
<1> DEFINE e == (f.forked \/ (r = "disk" /\ f.nofork))
           g == [f EXCEPT !.run = r, !.exits = e]
<1>1. /\ g \in Going /\ g.run = r /\ Same(f, g) /\ g.asked = f.asked
      /\ g.redirs = f.redirs /\ g.ran = f.ran
  <2>1. e \in BOOLEAN
    OBVIOUS
  <2>2. r \in Runs
    BY DEF Runs
  <2>3. \A x \in BOOLEAN :
          LET d == [f EXCEPT !.run = r, !.exits = x]
          IN /\ d \in Going /\ d.run = r /\ Same(f, d) /\ d.asked = f.asked
             /\ d.redirs = f.redirs /\ d.ran = f.ran
    BY <2>2 DEF Going, Same
  <2> HIDE DEF e
  <2> QED
    BY <2>1, <2>3, Zenon
<1>2. k \in IF r = "disk" /\ ~e THEN To(g, "fork") ELSE Redirecting(g)
  BY DEF Dispatch
<1> HIDE DEF g, e
<1>3. Undecided(g) /\ Words(hooks, g) /\ Resolved(g) /\ Fate(hooks, g)
  BY <1>1, Carry DEF Undecided, Resolved, Fate, Same
<1>4. CASE k \in Redirecting(g)
  BY <1>1, <1>3, <1>4, RedirectingGoes
<1>5. CASE k \in To(g, "fork") /\ r = "disk"
  <2>1. k = [g EXCEPT !.at = "fork"] /\ "fork" \in Ats /\ "fork" \notin Stages
    BY <1>5 DEF To, Ats, Stages, Denying, Observing
  <2>2. /\ k \in Going /\ k.at = "fork" /\ Same(g, k) /\ k.asked = g.asked
        /\ k.run = "disk" /\ k.redirs = g.redirs /\ k.ran = g.ran
    BY <1>1, <1>5, <2>1, MoveProps
  <2>3. Undecided(k) /\ Words(hooks, k) /\ Fate(hooks, k)
    BY <1>3, <2>2, Carry DEF Undecided, Fate, Same
  <2>4. Reached(hooks, k)
    BY <2>2, <2>3 DEF Reached
  <2> QED
    BY <2>1, <2>2, <2>3, <2>4 DEF Goes, FrameOK, Calling
<1> QED
  BY <1>2, <1>4, <1>5

LEMMA LeaveDispatchGoes ==
  ASSUME HooksOK, NEW f \in Going, Fate(hooks, f), NEW d \in BOOLEAN,
         ~d => Undecided(f) /\ Words(hooks, f), NEW k \in LeaveDispatch(f, d)
  PROVE  Goes(k)
<1>1. CASE d
  BY <1>1, AfterGoes, ToGoes DEF LeaveDispatch
<1>2. CASE ~d
  <2>1. PICK r \in {"builtin", "function", "disk"} : k \in Dispatch(f, r)
    <3>1. PICK c \in {"C", "disk", "builtin"} : \E r \in Resolve(c) : k \in Dispatch(f, r)
      BY <1>2 DEF LeaveDispatch
    <3>2. Resolve(c) \subseteq {"builtin", "function", "disk"}
      BY <3>1 DEF Resolve
    <3> QED
      BY <3>1, <3>2
  <2> QED
    BY <1>2, <2>1, DispatchGoes
<1> QED
  BY <1>1, <1>2

LEMMA LeaveBeforeGoes ==
  ASSUME HooksOK, NEW f \in Going, Fate(hooks, f), NEW d \in BOOLEAN,
         ~d => /\ Undecided(f) /\ All(hooks, f, "expand")
               /\ f.forked \/ Past(hooks, f, "before"),
         NEW k \in LeaveBefore(f, d)
  PROVE  Goes(k)
<1>1. CASE d
  BY <1>1, ToGoes DEF LeaveBefore
<1>2. CASE ~d
  <2>1. "dispatch" \in Stages /\ "dispatch" \in InTraps
    BY DEF Stages, Denying, InTraps
  <2>2. k \in Stage(f, "dispatch", LeaveDispatch(f, FALSE))
    BY <1>2 DEF LeaveBefore
  <2>3. CASE Entered(f, k, "dispatch")
    <3>1. /\ k.at = "dispatch" /\ Undecided(k) /\ k.forked = f.forked
          /\ All(hooks, k, "expand") /\ (k.forked \/ Past(hooks, k, "before"))
      BY <1>2, <2>3, Carry DEF Entered, Undecided, Same
    <3>2. Reached(hooks, k)
      BY <3>1 DEF Reached
    <3> QED
      BY <2>3, <3>2 DEF Entered, Goes, FrameOK
  <2>4. CASE k \in LeaveDispatch(f, FALSE) /\ All(hooks, f, "dispatch")
    BY <1>2, <2>4, LeaveDispatchGoes DEF Words
  <2> QED
    BY <2>1, <2>2, <2>3, <2>4, StageSplit
<1> QED
  BY <1>1, <1>2

LEMMA LeaveExpandGoes ==
  ASSUME HooksOK, NEW f \in Going, Fate(hooks, f), NEW d \in BOOLEAN, ~f.ran,
         ~d => Undecided(f) /\ All(hooks, f, "expand"), NEW k \in LeaveExpand(f, d)
  PROVE  Goes(k)
<1>1. CASE k \in NullCommand(f)
  BY <1>1, NullCommandGoes
<1>2. CASE ~d /\ f.forked /\ k \in LeaveBefore(f, FALSE)
  BY <1>2, LeaveBeforeGoes
<1>3. CASE ~d /\ ~f.forked /\ k \in Stage(f, "before", LeaveBefore(f, FALSE))
  <2>1. "before" \in Stages
    BY DEF Stages, Denying
  <2>2. CASE Entered(f, k, "before")
    <3>1. k.at = "before" /\ Undecided(k) /\ All(hooks, k, "expand")
      BY <1>3, <2>2, Carry DEF Entered, Undecided, Same
    <3>2. Reached(hooks, k)
      BY <3>1 DEF Reached
    <3> QED
      BY <2>2, <3>2 DEF Entered, Goes, FrameOK
  <2>3. CASE k \in LeaveBefore(f, FALSE) /\ Past(hooks, f, "before")
    BY <1>3, <2>3, LeaveBeforeGoes
  <2> QED
    BY <1>3, <2>1, <2>2, <2>3, StageSplit
<1> QED
  BY <1>1, <1>2, <1>3 DEF LeaveExpand

LEMMA ExecuteSimpleGoes ==
  ASSUME HooksOK, NEW f \in Going, Fate(hooks, f), Undecided(f), NEW k \in ExecuteSimple(f)
  PROVE  Goes(k)
<1>1. "expand" \in Stages /\ "expand" \in InTraps
  BY DEF Stages, Denying, InTraps
<1>2. CASE Entered(f, k, "expand")
  <2>1. k.at = "expand" /\ Undecided(k)
    BY <1>2 DEF Entered, Undecided, Same
  <2>2. Reached(hooks, k)
    BY <2>1 DEF Reached
  <2> QED
    BY <1>2, <2>2 DEF Entered, Goes, FrameOK
<1>3. CASE k \in LeaveExpand(f, FALSE) /\ All(hooks, f, "expand")
  BY <1>3, LeaveExpandGoes DEF Undecided
<1> QED
  BY <1>1, <1>2, <1>3, StageSplit DEF ExecuteSimple

LEMMA LeavePipelineGoes ==
  ASSUME NEW f \in Going, Fate(hooks, f), NEW d \in BOOLEAN, NEW k \in LeavePipeline(f, d)
  PROVE  Goes(k)
<1>1. CASE d
  BY <1>1, ToGoes DEF LeavePipeline
<1>2. CASE ~d
  <2>1. k = [f EXCEPT !.at = "left"] /\ "left" \in Ats /\ "left" \notin Stages
    BY <1>2 DEF LeavePipeline, To, Ats, Stages, Denying, Observing
  <2>2. /\ k \in Going /\ k.at = "left" /\ Same(f, k) /\ k.asked = f.asked
        /\ k.run = f.run /\ k.redirs = f.redirs /\ k.ran = f.ran
    BY <2>1, MoveProps
  <2>3. Fate(hooks, k)
    BY <2>2, CarryFate
  <2>4. Reached(hooks, k)
    BY <2>2 DEF Reached
  <2> QED
    BY <2>1, <2>2, <2>3, <2>4 DEF Goes, FrameOK, Calling
<1> QED
  BY <1>1, <1>2

-----------------------------------------------------------------------------
(* The end of a callback.                                                   *)

LEMMA AskedHooks ==
  ASSUME NEW f, FrameOK(hooks, f), f.at \in Stages
  PROVE  Asked(f) = hooks[f.at]
  BY DEF FrameOK, Calling, Asked, InTraps

(* Nothing that decides has run its command. *)
LEMMA DenyingNotRan ==
  ASSUME NEW h, NEW f, Reached(h, f), f.at \in Denying
  PROVE  ~f.ran
  BY DEF Reached, Denying, Undecided

(* The last callback of its stage, or one that stopped the command, has ended. *)
LEMMA LeaveGoes ==
  ASSUME HooksOK, NEW f \in Going, FrameOK(hooks, f), f.at \in Stages, NEW g \in Going,
         g.at = f.at, g.asked = f.asked, g.run = f.run, g.redirs = f.redirs, g.ran = f.ran,
         g.forked = f.forked, g.trap = f.trap, Fate(hooks, g),
         NEW d \in BOOLEAN, d => f.at \in Denying,
         ~d => f.i = Len(hooks[f.at]) /\ g.stopped = f.stopped,
         NEW k \in Leave(g, d)
  PROVE  Goes(k)
<1>1. ~d => All(hooks, g, g.at)
  BY DEF FrameOK, Calling, All
<1>2. ~d => Reached(hooks, g)
  <2>1. /\ \A s : All(hooks, f, s) => All(hooks, g, s)
        /\ \A s : Past(hooks, f, s) => Past(hooks, g, s)
        /\ Words(hooks, f) => Words(hooks, g)
        /\ Opened(hooks, f) => Opened(hooks, g)
    BY Carry
  <2> QED
    BY <2>1 DEF FrameOK, Reached, Undecided, Ready, Kind, Resolved
<1>3. f.at \in Denying => ~g.ran
  BY DenyingNotRan DEF FrameOK
<1>4. CASE g.at = "pipeline"
  BY <1>4, LeavePipelineGoes DEF Leave
<1>5. CASE g.at = "expand"
  <2>1. k \in LeaveExpand(g, d)
    BY <1>5 DEF Leave
  <2>2. ~g.ran /\ (~d => Undecided(g) /\ All(hooks, g, "expand"))
    BY <1>1, <1>2, <1>3, <1>5 DEF Reached, Denying
  <2> QED
    BY <2>1, <2>2, LeaveExpandGoes
<1>6. CASE g.at = "before"
  <2>1. k \in LeaveBefore(g, d)
    BY <1>6 DEF Leave
  <2>2. ~d => Undecided(g) /\ All(hooks, g, "expand") /\ (g.forked \/ Past(hooks, g, "before"))
    BY <1>1, <1>2, <1>6 DEF Reached, Past
  <2> QED
    BY <2>1, <2>2, LeaveBeforeGoes
<1>7. CASE g.at = "dispatch"
  <2>1. k \in LeaveDispatch(g, d)
    BY <1>7 DEF Leave
  <2>2. ~d => Undecided(g) /\ Words(hooks, g)
    BY <1>1, <1>2, <1>7 DEF Reached, Words
  <2> QED
    BY <2>1, <2>2, LeaveDispatchGoes
<1>8. g.at \in {"policy", "redirect", "clobber"} =>
        /\ g.redirs \in Redirs \ {"none"} /\ ~g.ran
        /\ ~d /\ g.run # "null" => Undecided(g) /\ Words(hooks, g) /\ Resolved(g)
  <2>1. g.at \in {"policy", "redirect", "clobber"} => g.redirs \in Redirs \ {"none"} /\ ~g.ran
    BY DEF FrameOK, Reached
  <2> QED
    BY <1>2, <2>1 DEF Reached
<1>9. CASE g.at = "policy"
  <2>1. k \in LeavePolicy(g, d)
    BY <1>9 DEF Leave
  <2> QED
    BY <1>1, <1>8, <1>9, <2>1, LeavePolicyGoes
<1>10. CASE g.at = "redirect"
  <2>1. k \in LeaveRedirect(g, d)
    BY <1>10 DEF Leave
  <2>2. ~d /\ g.run # "null" => All(hooks, g, "policy") /\ Past(hooks, g, "redirect")
    BY <1>1, <1>2, <1>10 DEF Reached, Past
  <2> QED
    BY <1>8, <1>10, <2>1, <2>2, LeaveRedirectGoes
<1>11. CASE g.at = "clobber"
  <2>1. k \in LeaveClobber(g, d)
    BY <1>11 DEF Leave
  <2>2. ~d /\ g.run # "null" => Ready(hooks, g) /\ Resolved(g)
    BY <1>1, <1>2, <1>8, <1>11 DEF Reached, Past, Ready, Opened
  <2> QED
    BY <2>1, <2>2, LeaveClobberGoes
<1>12. CASE g.at \in {"builtin", "function"}
  <2>1. k \in LeaveBuiltinOrFunction(g, d)
    BY <1>12 DEF Leave
  <2>2. ~d => Ready(hooks, g) /\ g.run = g.at /\ Past(hooks, g, g.run)
    BY <1>1, <1>2, <1>12 DEF Reached, Past, Kind
  <2> QED
    BY <1>12, <2>1, <2>2, LeaveBuiltinOrFunctionGoes
<1>13. CASE g.at = "exec"
  <2>1. k \in LeaveExec(g, d)
    BY <1>13 DEF Leave
  <2>2. ~d => Ready(hooks, g) /\ g.run \in {"disk", "exec"} /\ Past(hooks, g, "exec")
    BY <1>1, <1>2, <1>13 DEF Reached, Past
  <2> QED
    BY <2>1, <2>2, LeaveExecGoes
<1>14. CASE g.at = "after"
  BY <1>14, LeaveAfterGoes DEF Leave
<1>15. CASE g.at = "bundle"
  BY <1>15, LeaveBundleGoes DEF Leave
<1> QED
  BY <1>4, <1>5, <1>6, <1>7, <1>9, <1>10, <1>11, <1>12, <1>13, <1>14, <1>15
     DEF Stages, Denying, Observing

-----------------------------------------------------------------------------
(* Stacks and globals of one process.                                       *)

LEMMA HooksType ==
  ASSUME IInv
  PROVE  HooksOK
  BY TablesAssumption DEF IInv, CoreType, HooksOK

LEMMA GoingFrames ==
  ASSUME NEW f
  PROVE  /\ f \in Frames => f \in Going
         /\ f \in Going /\ f.at \notin {"return", "exit"} => f \in Frames
  BY DEF Going, Frames, Ats

(* A frame of a stack. *)
LEMMA TopProps ==
  ASSUME IInv, NEW p \in Procs, Busy(p)
  PROVE  /\ p \in live
         /\ Top(p) \in Frames /\ Top(p) \in Going /\ FrameOK(hooks, Top(p))
         /\ Top(p) = Last(stack[p])
         /\ Front(stack[p]) \in Seq(Quiet(hooks))
<1>1. p \in live
  BY DEF IInv, CoreType, Busy
<1>2. /\ stack[p] \in Seq(OKFrames(hooks)) /\ stack[p] # <<>>
      /\ Front(stack[p]) \in Seq(Quiet(hooks))
  BY DEF IInv, ProcOK, Busy
<1>3. Last(stack[p]) \in OKFrames(hooks)
  BY <1>2, FrontLast
<1> QED
  BY <1>1, <1>2, <1>3, GoingFrames DEF Top, OKFrames

(* Where no callback runs, no flag is set ... *)
LEMMA QuietProps ==
  ASSUME IInv, NEW p \in Procs, Busy(p) => Top(p).at \notin Stages
  PROVE  stack[p] \in Seq(Quiet(hooks)) /\ globals[p] \in Globals /\ Clear(globals[p])
<1>1. ProcOK(hooks, stack[p], globals[p]) /\ globals[p] \in Globals
  BY DEF IInv, CoreType
<1>2. Clear(globals[p])
  BY <1>1 DEF ProcOK, Busy, Top
<1>3. CASE stack[p] = <<>>
  BY <1>1, <1>2, <1>3, EmptySeq
<1>4. CASE stack[p] # <<>>
  <2>1. Front(stack[p]) \in Seq(Quiet(hooks)) /\ stack[p] \in Seq(OKFrames(hooks))
    BY <1>1, <1>4 DEF ProcOK
  <2>2. Last(stack[p]) \in Quiet(hooks)
    BY <1>4, <2>1, FrontLast DEF Quiet, Busy, Top
  <2>3. stack[p] = Append(Front(stack[p]), Last(stack[p]))
    BY <1>4, <2>1, TopAndRest
  <2>4. Append(Front(stack[p]), Last(stack[p])) \in Seq(Quiet(hooks))
    BY <2>1, <2>2, PushTop
  <2> QED
    BY <1>1, <1>2, <2>3, <2>4
<1> QED
  BY <1>3, <1>4

LEMMA BetweenProps ==
  ASSUME IInv, NEW p \in Procs, Between(p)
  PROVE  /\ p \in live /\ stack[p] \in Seq(Quiet(hooks))
         /\ globals[p] \in Globals /\ Clear(globals[p])
<1>1. p \in live /\ (Busy(p) => Top(p).at = "body")
  BY DEF Between
<1>2. "body" \notin Stages
  BY DEF Stages, Denying, Observing
<1> QED
  BY <1>1, <1>2, QuietProps

(* A stack without callbacks and one frame more. *)
LEMMA PushOK ==
  ASSUME NEW h, NEW s \in Seq(Quiet(h)), NEW f \in OKFrames(h), NEW g,
         IF f.at \in Stages THEN GlobalsFor(h, f, g) ELSE Clear(g)
  PROVE  ProcOK(h, Append(s, f), g)
<1>1. Quiet(h) \subseteq OKFrames(h)
  BY DEF Quiet
<1>2. s \in Seq(OKFrames(h))
  BY <1>1, LenProperties, ElementOfSeq
<1>3. /\ Append(s, f) \in Seq(OKFrames(h)) /\ Append(s, f) # <<>>
      /\ Last(Append(s, f)) = f /\ Front(Append(s, f)) = s
  BY <1>2, PushTop
<1> QED
  BY <1>3 DEF ProcOK

LEMMA QuietOK ==
  ASSUME NEW h, NEW s \in Seq(Quiet(h)), NEW g, Clear(g)
  PROVE  ProcOK(h, s, g)
<1>1. Quiet(h) \subseteq OKFrames(h)
  BY DEF Quiet
<1>2. s \in Seq(OKFrames(h))
  BY <1>1, LenProperties, ElementOfSeq
<1>3. CASE s = <<>>
  BY <1>2, <1>3 DEF ProcOK
<1>4. CASE s # <<>>
  <2>1. Front(s) \in Seq(Quiet(h)) /\ Last(s) \in Quiet(h)
    BY <1>4, FrontLast
  <2> QED
    BY <1>2, <2>1 DEF ProcOK, Quiet
<1> QED
  BY <1>3, <1>4

LEMMA OKFrameSeqs ==
  ASSUME NEW h, NEW s \in Seq(OKFrames(h))
  PROVE  s \in Seq(Frames)
<1>1. OKFrames(h) \subseteq Frames
  BY DEF OKFrames
<1> QED
  BY <1>1, LenProperties, ElementOfSeq

(* One process moves, and may exit. *)
LEMMA Update ==
  ASSUME IInv, NEW p \in live, NEW t, NEW g \in Globals, ProcOK(hooks, t, g),
         hooks' = hooks, stack' = [stack EXCEPT ![p] = t], globals' = [globals EXCEPT ![p] = g],
         live' = live \/ (live' = live \ {p} /\ t = <<>> /\ g = Fresh)
  PROVE  IInv'
<1>1. p \in Procs /\ live' \subseteq Procs /\ hooks' \in Tables
  BY DEF IInv, CoreType
<1>2. t \in Seq(Frames)
  BY OKFrameSeqs DEF ProcOK
<1>3. stack' \in [Procs -> Seq(Frames)] /\ globals' \in [Procs -> Globals]
  BY <1>2 DEF IInv, CoreType
<1>4. \A r \in Procs : /\ stack'[r] = IF r = p THEN t ELSE stack[r]
                       /\ globals'[r] = IF r = p THEN g ELSE globals[r]
  BY <1>1 DEF IInv, CoreType
<1>5. \A r \in Procs \ live' : stack'[r] = <<>> /\ globals'[r] = Fresh
  BY <1>4 DEF IInv, CoreType
<1>6. CoreType'
  BY <1>1, <1>3, <1>5 DEF CoreType
<1>7. \A r \in Procs : ProcOK(hooks', stack'[r], globals'[r])
  BY <1>4 DEF IInv
<1> QED
  BY <1>6, <1>7 DEF IInv

(* Continue: the next callback is called, or there is none. *)
LEMMA ContinueInv ==
  ASSUME IInv, NEW p \in live, NEW f \in Going, FrameOK(hooks, f),
         NEW s \in Seq(Quiet(hooks)), NEW g \in Globals,
         IF f.at \in Stages /\ f.i # 1
         THEN g.in_stage = Flag(f.at) /\ (f.at \in Denying => ~g.stage_denied)
         ELSE g.in_stage = {} /\ (f.at \notin Stages => ~g.enforcing),
         Continue(p, f, s, g)
  PROVE  IInv'
<1>1. hooks' = hooks /\ HooksOK /\ {"exit", "return"} \intersect Stages = {}
  BY HooksType DEF Continue, Stages, Denying, Observing
<1>2. CASE f.at = "exit"
  <2>1. /\ live' = live \ {p} /\ stack' = [stack EXCEPT ![p] = <<>>]
        /\ globals' = [globals EXCEPT ![p] = Fresh]
    BY <1>2 DEF Continue
  <2>2. Fresh \in Globals /\ Clear(Fresh)
    BY DEF Fresh, Globals, Clear
  <2>3. ProcOK(hooks, <<>>, Fresh)
    BY <2>2, QuietOK, EmptySeq
  <2> QED
    BY <1>1, <2>1, <2>2, <2>3, Update
<1>3. CASE f.at = "return"
  <2>1. /\ live' = live /\ stack' = [stack EXCEPT ![p] = s]
        /\ globals' = [globals EXCEPT ![p] = g]
    BY <1>3 DEF Continue
  <2>2. Clear(g)
    BY <1>1, <1>3 DEF Clear
  <2>3. ProcOK(hooks, s, g)
    BY <2>2, QuietOK
  <2> QED
    BY <1>1, <2>1, <2>3, Update
<1>4. CASE f.at \notin {"exit", "return"}
  <2> DEFINE e == Arrive(f, g)
  <2>1. /\ live' = live /\ stack' = [stack EXCEPT ![p] = Append(s, f)]
        /\ globals' = [globals EXCEPT ![p] = e]
    BY <1>4 DEF Continue
  <2>2. f \in OKFrames(hooks)
    BY <1>4, GoingFrames DEF OKFrames
  <2>3. CASE f.at \notin Stages
    <3>1. e = g /\ Clear(g)
      BY <2>3 DEF Arrive, Clear
    <3>2. ProcOK(hooks, Append(s, f), g)
      BY <2>2, <2>3, <3>1, PushOK
    <3> QED
      BY <1>1, <2>1, <3>1, <3>2, Update
  <2>4. CASE f.at \in Stages
    <3>1. Asked(f) = hooks[f.at] /\ hooks[f.at] \in Seq(BOOLEAN) /\ f.i \in 1 .. Len(hooks[f.at])
      BY <1>1, <2>4, AskedHooks DEF HooksOK, FrameOK, Calling
    <3>2. hooks[f.at][f.i] \in BOOLEAN
      BY <3>1, ElementOfSeq
    <3>3. Flag(f.at) \subseteq Denying /\ g.in_stage \in SUBSET Denying /\ g.stage_denied \in BOOLEAN
      BY DEF Flag, Globals
    <3>4. e = [stage_denied |-> g.stage_denied /\ (f.at \in Observing \/ f.i > 1),
               in_stage |-> g.in_stage \union Flag(f.at),
               enforcing |-> hooks[f.at][f.i]]
      BY <2>4, <3>1 DEF Arrive
    <3>5. e \in Globals
      <4> DEFINE d == (g.stage_denied /\ (f.at \in Observing \/ f.i > 1))
                 n == g.in_stage \union Flag(f.at)
                 c == hooks[f.at][f.i]
      <4>1. d \in BOOLEAN
        OBVIOUS
      <4>2. n \in SUBSET Denying
        BY <3>3
      <4>3. e = [stage_denied |-> d, in_stage |-> n, enforcing |-> c]
        BY <3>4, Zenon
      <4>4. c \in BOOLEAN
        BY <3>2
      <4> HIDE DEF d, n, c, e
      <4> QED
        BY <4>1, <4>2, <4>3, <4>4 DEF Globals
    <3>6. e.in_stage = Flag(f.at) /\ e.enforcing = hooks[f.at][f.i]
      BY <2>4, <3>4
    <3>7. f.at \in Denying => ~e.stage_denied
      <4> DEFINE d == (g.stage_denied /\ (f.at \in Observing \/ f.i > 1))
      <4>1. f.at \in Denying => ~d
        <5>1. CASE f.i = 1
          BY <5>1 DEF Denying, Observing
        <5>2. CASE f.i # 1
          BY <2>4, <5>2
        <5> QED
          BY <5>1, <5>2
      <4> DEFINE n == g.in_stage \union Flag(f.at)
                 c == hooks[f.at][f.i]
      <4>2. e = [stage_denied |-> d, in_stage |-> n, enforcing |-> c]
        BY <3>4, Zenon
      <4> HIDE DEF d, n, c, e
      <4>3. e.stage_denied = d
        BY <4>2
      <4> QED
        BY <4>1, <4>3
    <3>8. GlobalsFor(hooks, f, e)
      BY <3>6, <3>7 DEF GlobalsFor
    <3> HIDE DEF e
    <3>9. ProcOK(hooks, Append(s, f), e)
      BY <2>2, <2>4, <3>8, PushOK
    <3> QED
      BY <1>1, <2>1, <3>5, <3>9, Update
  <2> QED
    BY <2>3, <2>4
<1> QED
  BY <1>2, <1>3, <1>4

LEMMA GoesOn ==
  ASSUME IInv, NEW p \in live, NEW f, Goes(f), NEW s \in Seq(Quiet(hooks)),
         NEW g \in Globals, Clear(g), Continue(p, f, s, g)
  PROVE  IInv'
  BY ContinueInv DEF Goes, Clear

(* A command goes on from where no callback runs. *)
LEMMA GoOnInv ==
  ASSUME IInv, NEW p \in Procs, Busy(p), Top(p).at \notin Stages, NEW f, Goes(f), GoOn(p, f)
  PROVE  IInv'
<1>1. p \in live /\ Front(stack[p]) \in Seq(Quiet(hooks))
  BY TopProps
<1>2. globals[p] \in Globals /\ Clear(globals[p])
  BY QuietProps
<1> QED
  BY <1>1, <1>2, GoesOn DEF GoOn

LEMMA PushInv ==
  ASSUME IInv, NEW p \in Procs, Between(p), NEW f, Goes(f), Push(p, f)
  PROVE  IInv'
  BY BetweenProps, GoesOn DEF Push

-----------------------------------------------------------------------------
(* The steps.                                                               *)

LEMMA NextCallbackProps ==
  ASSUME NEW f \in Going, f.at \in Stages, NEW i \in Nat \ {0}
  PROVE  LET g == [f EXCEPT !.i = i, !.asked = @ \union {<<f.at, i>>}] IN
         /\ g \in Going /\ Same(f, g) /\ g.i = i /\ g.asked = f.asked \union {<<f.at, i>>}
         /\ g.at = f.at /\ g.run = f.run /\ g.redirs = f.redirs /\ g.ran = f.ran
<1> DEFINE n == f.asked \union {<<f.at, i>>}
           g == [f EXCEPT !.i = i, !.asked = n]
<1>1. n \in SUBSET (Stages \X (Nat \ {0}))
  BY DEF Going
<1> HIDE DEF n
<1>2. g \in Going
  BY <1>1 DEF Going
<1>3. /\ Same(f, g) /\ g.i = i /\ g.asked = n
      /\ g.at = f.at /\ g.run = f.run /\ g.redirs = f.redirs /\ g.ran = f.ran
  BY DEF Going, Same
<1> QED
  BY <1>2, <1>3 DEF n

(* In a stage that decides, what stops the command is that an enforcing        *)
(* callback refuses it.                                                     *)
LEMMA DeniedIsRefused ==
  ASSUME HooksOK, NEW f, f.at \in Denying, NEW g \in Globals, GlobalsFor(hooks, f, g),
         NEW outcome \in {"return", "deny", "error"}
  PROVE  (g.stage_denied \/ (g.in_stage # {} /\ g.enforcing /\ Refuses(outcome)))
           <=> (hooks[f.at][f.i] /\ outcome # "return")
<1>1. ~g.stage_denied /\ g.in_stage = Flag(f.at) /\ g.enforcing = hooks[f.at][f.i]
  BY DEF GlobalsFor
<1>2. Flag(f.at) # {}
  BY DEF Flag, Denying
<1>3. Refuses(outcome) <=> outcome # "return"
  BY DEF Refuses
<1> QED
  BY <1>1, <1>2, <1>3

LEMMA CallbackEndsInv ==
  ASSUME IInv, NEW p \in Procs, CallbackEnds(p)
  PROVE  IInv'
<1> DEFINE f == Top(p)
           g == globals[p]
           s == Front(stack[p])
<1>1. Busy(p) /\ f.at \in Stages /\ HooksOK
  BY HooksType DEF CallbackEnds
<1>2. /\ p \in live /\ f \in Going /\ FrameOK(hooks, f) /\ s \in Seq(Quiet(hooks))
      /\ g \in Globals
  BY <1>1, TopProps DEF IInv, CoreType
<1>3. GlobalsFor(hooks, f, g)
  BY <1>1 DEF IInv, ProcOK, Busy, Top
<1>4. PICK outcome \in {"return", "deny", "error"} :
        LET denied == g.stage_denied \/ (g.in_stage # {} /\ g.enforcing /\ Refuses(outcome))
            stop == f.at \in Denying /\ denied
            refused == f.at \in Denying /\ hooks[f.at][f.i] /\ outcome # "return"
            h == [f EXCEPT !.refused = @ \/ refused, !.stopped = @ \/ stop]
            over == [stage_denied |-> denied, enforcing |-> FALSE,
                     in_stage |-> Cleared(g.in_stage, f.at, denied)]
        IN IF stop \/ f.i = Len(Asked(f))
           THEN \E k \in Leave([h EXCEPT !.i = 0], stop) : Continue(p, k, s, over)
           ELSE Continue(p, [h EXCEPT !.i = @ + 1, !.asked = @ \union {<<f.at, f.i + 1>>}],
                         s, [g EXCEPT !.stage_denied = denied])
  BY DEF CallbackEnds
<1> DEFINE denied == (g.stage_denied \/ (g.in_stage # {} /\ g.enforcing /\ Refuses(outcome)))
           stop == (f.at \in Denying /\ denied)
           refused == (f.at \in Denying /\ hooks[f.at][f.i] /\ outcome # "return")
           r == (f.refused \/ refused)
           q == (f.stopped \/ stop)
           h == [f EXCEPT !.refused = r, !.stopped = q]
           over == [stage_denied |-> denied, enforcing |-> FALSE,
                    in_stage |-> Cleared(g.in_stage, f.at, denied)]
<1>5. /\ denied \in BOOLEAN /\ stop \in BOOLEAN /\ refused \in BOOLEAN
      /\ r \in BOOLEAN /\ q \in BOOLEAN
  OBVIOUS
<1>6. stop <=> refused
  BY <1>1, <1>2, <1>3, DeniedIsRefused
<1>7. IF stop \/ f.i = Len(Asked(f))
      THEN \E k \in Leave([h EXCEPT !.i = 0], stop) : Continue(p, k, s, over)
      ELSE Continue(p, [h EXCEPT !.i = @ + 1, !.asked = @ \union {<<f.at, f.i + 1>>}],
                    s, [g EXCEPT !.stage_denied = denied])
  BY <1>4
<1>8. stop => f.at \in Denying
  OBVIOUS
<1>9. f.at \in Denying /\ ~stop => ~denied
  OBVIOUS
<1>10. /\ f.stopped = f.refused => q = r
       /\ ~stop => q = f.stopped /\ r = f.refused
       /\ f.at \notin Denying => ~stop
  <2>1. f.refused \in BOOLEAN /\ f.stopped \in BOOLEAN
    BY <1>2 DEF Going
  <2> HIDE DEF f, g, denied, stop, refused
  <2> QED
    BY <1>5, <1>6, <1>8, <2>1
<1> HIDE DEF f, g, s, denied, stop, refused, r, q
<1>11. Fate(hooks, f) /\ (f.at \in Denying => ~f.ran)
  BY <1>2, DenyingNotRan DEF FrameOK
<1>12. Asked(f) = hooks[f.at]
  BY <1>1, <1>2, AskedHooks
<1>13. CASE stop \/ f.i = Len(hooks[f.at])
  <2> DEFINE e == [f EXCEPT !.refused = r, !.stopped = q, !.i = 0]
  <2>1. /\ e \in Going /\ e.refused = r /\ e.stopped = q
        /\ e.at = f.at /\ e.asked = f.asked /\ e.run = f.run /\ e.redirs = f.redirs
        /\ e.ran = f.ran /\ e.forked = f.forked /\ e.trap = f.trap
    BY <1>2, <1>5 DEF Going
  <2>2. [h EXCEPT !.i = 0] = e
    BY <1>2 DEF Going
  <2>3. PICK k \in Leave(e, stop) : Continue(p, k, s, over)
    BY <1>7, <1>13, <1>12, <2>2
  <2> HIDE DEF e, over
  <2>4. Fate(hooks, e)
    <3>1. e.stopped = e.refused
      BY <1>10, <1>11, <2>1 DEF Fate
    <3>2. e.ran => ~e.refused
      BY <1>10, <1>11, <2>1 DEF Fate
    <3>3. /\ Words(hooks, f) => Words(hooks, e)
          /\ Opened(hooks, f) => Opened(hooks, e)
          /\ Past(hooks, f, Kind(f)) => Past(hooks, e, Kind(e))
      BY <2>1, Carry DEF Kind
    <3> QED
      BY <1>11, <2>1, <3>1, <3>2, <3>3 DEF Fate
  <2>5. ~stop => f.i = Len(hooks[f.at]) /\ e.stopped = f.stopped
    BY <1>10, <1>13, <2>1
  <2>6. Goes(k)
    BY <1>1, <1>2, <1>5, <1>8, <2>1, <2>3, <2>4, <2>5, LeaveGoes
  <2>7. over \in Globals /\ Clear(over)
    <3>1. g.in_stage = Flag(f.at)
      BY <1>3 DEF GlobalsFor
    <3>2. Cleared(g.in_stage, f.at, denied) = {}
      BY <3>1 DEF Cleared
    <3> QED
      BY <1>5, <3>2 DEF over, Globals, Clear
  <2> QED
    BY <1>2, <2>3, <2>6, <2>7, GoesOn
<1>14. CASE ~(stop \/ f.i = Len(hooks[f.at]))
  <2> DEFINE i == f.i + 1
             e == [f EXCEPT !.i = i, !.asked = @ \union {<<f.at, i>>}]
             after == [g EXCEPT !.stage_denied = denied]
  <2>1. /\ f.i \in 1 .. Len(hooks[f.at]) /\ Len(hooks[f.at]) \in Nat
        /\ \A j \in 1 .. f.i : <<f.at, j>> \in f.asked
        /\ f.trap => f.at \in InTraps
    BY <1>1, <1>2, HooksLen DEF FrameOK, Calling
  <2>2. i \in Nat \ {0} /\ i # 1 /\ i \in 1 .. Len(hooks[f.at])
    BY <1>14, <2>1
  <2> HIDE DEF i
  <2>3. /\ e \in Going /\ Same(f, e) /\ e.i = i /\ e.asked = f.asked \union {<<f.at, i>>}
        /\ e.at = f.at /\ e.run = f.run /\ e.redirs = f.redirs /\ e.ran = f.ran
    BY <1>1, <1>2, <2>2, NextCallbackProps
  <2>4. h = f
    <3>1. q = f.stopped /\ r = f.refused
      BY <1>10, <1>14
    <3> QED
      BY <1>2, <3>1 DEF Going
  <2>5. Continue(p, e, s, after)
    BY <1>7, <1>14, <1>12, <2>4 DEF i
  <2> HIDE DEF e
  <2>6. after \in Globals /\ after.in_stage = g.in_stage /\ after.stage_denied = denied
    BY <1>2, <1>5 DEF Globals
  <2>7. Fate(hooks, e)
    BY <1>11, <2>3, CarryFate
  <2>8. Calling(hooks, e)
    <3>1. \A j \in 1 .. i : <<f.at, j>> \in e.asked
      BY <2>1, <2>3 DEF i
    <3> QED
      BY <2>1, <2>2, <2>3, <3>1 DEF Calling, Same
  <2>9. Reached(hooks, e)
    <3>1. /\ \A a : All(hooks, f, a) => All(hooks, e, a)
          /\ \A a : Past(hooks, f, a) => Past(hooks, e, a)
          /\ Words(hooks, f) => Words(hooks, e)
          /\ Opened(hooks, f) => Opened(hooks, e)
      BY <2>3, Carry DEF Same
    <3> QED
      BY <1>2, <2>3, <3>1 DEF FrameOK, Reached, Undecided, Ready, Kind, Resolved, Same
  <2>10. after.in_stage = Flag(f.at) /\ (f.at \in Denying => ~after.stage_denied)
    BY <1>3, <1>9, <1>14, <2>6 DEF GlobalsFor
  <2> HIDE DEF after
  <2>11. FrameOK(hooks, e) /\ e.at \in Stages /\ e.i # 1
    BY <1>1, <2>2, <2>3, <2>7, <2>8, <2>9 DEF FrameOK
  <2> QED
    BY <1>2, <2>3, <2>5, <2>6, <2>10, <2>11, ContinueInv
<1> QED
  BY <1>13, <1>14

(* A command that starts. *)
LEMMA NewFrame ==
  ASSUME NEW p, NEW at \in Ats, NEW run \in Runs
  PROVE  LET f == Frame(p, at, run) IN
         /\ f \in Going /\ f.at = at /\ f.run = run
         /\ Undecided(f) /\ Fate(hooks, f)
<1> DEFINE f == Frame(p, at, run)
           other == (p # Shell)
           trap == RunningTrap(p)
<1>1. other \in BOOLEAN
  OBVIOUS
<1>2. trap \in BOOLEAN
  BY DEF RunningTrap
<1>3. f = [at |-> at, i |-> 0, run |-> run, redirs |-> "unknown",
           forked |-> FALSE, nofork |-> FALSE, exits |-> FALSE, subshell |-> other,
           trap |-> trap, child |-> None,
           asked |-> {}, refused |-> FALSE, stopped |-> FALSE, ran |-> FALSE]
  BY DEF Frame
<1> HIDE DEF other, trap, f
<1>4. f \in Going
  BY <1>1, <1>2, <1>3 DEF Going
<1>5. /\ f.at = at /\ f.run = run
      /\ f.ran = FALSE /\ f.stopped = FALSE /\ f.refused = FALSE
  BY <1>3
<1>6. Undecided(f) /\ Fate(hooks, f)
  BY <1>5 DEF Undecided, Fate
<1> QED
  BY <1>4, <1>5, <1>6 DEF f

LEMMA StartFrame ==
  ASSUME NEW f \in Going, Fate(hooks, f), Undecided(f), f.run = "disk" => Words(hooks, f),
         NEW g, g = [f EXCEPT !.at = "start", !.subshell = TRUE]
  PROVE  g \in Quiet(hooks)
<1>1. "start" \in Ats /\ "start" \notin Stages
  BY DEF Ats, Stages, Denying, Observing
<1>2. /\ g \in Going /\ g.at = "start" /\ g.asked = f.asked /\ g.run = f.run
      /\ g.redirs = f.redirs /\ g.ran = f.ran /\ g.trap = f.trap /\ g.forked = f.forked
      /\ g.stopped = f.stopped /\ g.refused = f.refused
  BY <1>1 DEF Going
<1>3. Undecided(g) /\ (g.run = "disk" => Words(hooks, g)) /\ Fate(hooks, g)
  BY <1>2, Carry DEF Undecided, Fate
<1>4. Reached(hooks, g)
  BY <1>2, <1>3 DEF Reached
<1> QED
  BY <1>1, <1>2, <1>3, <1>4, GoingFrames DEF Quiet, OKFrames, FrameOK, Calling

(* The parent after a fork. *)
LEMMA ParentFrame ==
  ASSUME NEW f \in Going, Fate(hooks, f), NEW a \in {"right", "wait", "parent"},
         NEW c \in Children \union {None}, NEW g, g = [f EXCEPT !.at = a, !.child = c]
  PROVE  g \in Quiet(hooks)
<1>1. a \in Ats /\ a \notin Stages
  BY DEF Ats, Stages, Denying, Observing
<1>2. /\ g \in Going /\ g.at = a /\ g.asked = f.asked /\ g.run = f.run
      /\ g.redirs = f.redirs /\ g.ran = f.ran /\ g.trap = f.trap /\ g.forked = f.forked
      /\ g.stopped = f.stopped /\ g.refused = f.refused
  BY <1>1 DEF Going
<1>3. /\ Words(hooks, f) => Words(hooks, g)
      /\ Opened(hooks, f) => Opened(hooks, g)
      /\ Past(hooks, f, Kind(f)) => Past(hooks, g, Kind(g))
  <2>1. Kind(g) = Kind(f)
    BY <1>2 DEF Kind
  <2>2. /\ g.trap = f.trap /\ g.forked = f.forked /\ f.asked \subseteq g.asked
        /\ g.redirs = f.redirs
    BY <1>2
  <2>3. /\ \A s : Past(hooks, f, s) => Past(hooks, g, s)
        /\ Words(hooks, f) => Words(hooks, g)
        /\ Opened(hooks, f) => Opened(hooks, g)
    <3>1. /\ \A s : Past(hooks, f, s) => Past(hooks, g, s)
          /\ Words(hooks, f) => Words(hooks, g)
      BY <2>2, Carry, Zenon
    <3>2. Opened(hooks, f) => Opened(hooks, g)
      BY <2>2, Carry, Zenon
    <3> QED
      BY <3>1, <3>2
  <2> QED
    BY <2>1, <2>3
<1>4. Fate(hooks, g)
  BY <1>2, <1>3 DEF Fate
<1>5. Reached(hooks, g)
  BY <1>2 DEF Reached
<1> QED
  BY <1>1, <1>2, <1>4, <1>5, GoingFrames DEF Quiet, OKFrames, FrameOK, Calling

(* A child starts with a copy of its parent's globals, and no callback runs. *)
LEMMA ForkInv ==
  ASSUME IInv, NEW p \in live, NEW c \in Children, Clear(globals[p]),
         NEW s \in Seq(Quiet(hooks)), NEW t \in Seq(Quiet(hooks)), NEW f,
         [f EXCEPT !.at = "start", !.subshell = TRUE] \in Quiet(hooks), Fork(p, c, s, f, t)
  PROVE  IInv'
<1> DEFINE e == [f EXCEPT !.at = "start", !.subshell = TRUE]
           u == Append(s, e)
           g == globals[p]
<1>1. /\ hooks' = hooks /\ c \notin live /\ live' = live \union {c}
      /\ stack' = [stack EXCEPT ![c] = u, ![p] = t]
      /\ globals' = [globals EXCEPT ![c] = g]
  BY DEF Fork, Free
<1>2. p \in Procs /\ c \in Procs /\ c # p /\ g \in Globals
  BY <1>1 DEF IInv, CoreType, Procs
<1>3. u \in Seq(Quiet(hooks))
  BY PushTop
<1> HIDE DEF e, u, g
<1>4. ProcOK(hooks, u, g) /\ ProcOK(hooks, t, g)
  BY <1>3, QuietOK DEF g
<1>5. u \in Seq(Frames) /\ t \in Seq(Frames)
  BY <1>4, OKFrameSeqs DEF ProcOK
<1>6. \A r \in Procs : /\ stack'[r] = IF r = p THEN t ELSE IF r = c THEN u ELSE stack[r]
                       /\ globals'[r] = IF r = c THEN g ELSE globals[r]
  BY <1>1, <1>2 DEF IInv, CoreType
<1>7. CoreType'
  <2>1. hooks' \in Tables /\ live' \subseteq Procs
    BY <1>1, <1>2 DEF IInv, CoreType
  <2>2. stack' \in [Procs -> Seq(Frames)] /\ globals' \in [Procs -> Globals]
    BY <1>1, <1>2, <1>5 DEF IInv, CoreType
  <2>3. \A r \in Procs \ live' : stack'[r] = <<>> /\ globals'[r] = Fresh
    BY <1>1, <1>6 DEF IInv, CoreType
  <2> QED
    BY <2>1, <2>2, <2>3 DEF CoreType
<1>8. ASSUME NEW r \in Procs PROVE ProcOK(hooks', stack'[r], globals'[r])
  <2>1. CASE r = p
    BY <1>1, <1>2, <1>4, <1>6, <2>1 DEF g
  <2>2. CASE r = c
    BY <1>1, <1>2, <1>4, <1>6, <2>2
  <2>3. CASE r # p /\ r # c
    <3>1. stack'[r] = stack[r] /\ globals'[r] = globals[r]
      BY <1>6, <2>3
    <3>2. ProcOK(hooks, stack[r], globals[r])
      BY DEF IInv
    <3> QED
      BY <1>1, <3>1, <3>2
  <2> QED
    BY <2>1, <2>2, <2>3
<1> QED
  BY <1>7, <1>8 DEF IInv

LEMMA StartSimpleInv ==
  ASSUME IInv, NEW p \in Procs, StartSimple(p)
  PROVE  IInv'
<1>1. Between(p) /\ HooksOK
  BY HooksType DEF StartSimple
<1>2. PICK nofork \in BOOLEAN :
        \E f \in ExecuteSimple([Frame(p, "expand", "none") EXCEPT !.nofork = nofork]) : Push(p, f)
  BY DEF StartSimple
<1> DEFINE e == [Frame(p, "expand", "none") EXCEPT !.nofork = nofork]
<1>3. "expand" \in Ats /\ "none" \in Runs
  BY DEF Ats, Stages, Denying, Runs
<1>4. e \in Going /\ Undecided(e) /\ Fate(hooks, e)
  <2> DEFINE b == Frame(p, "expand", "none")
  <2>1. b \in Going /\ Undecided(b) /\ Fate(hooks, b)
    BY <1>3, NewFrame
  <2>2. e = [b EXCEPT !.nofork = nofork]
    OBVIOUS
  <2> HIDE DEF b, e
  <2>3. e \in Going /\ e.ran = b.ran /\ e.stopped = b.stopped /\ e.refused = b.refused
    BY <2>1, <2>2 DEF Going
  <2> QED
    BY <2>1, <2>3 DEF Undecided, Fate
<1>5. PICK f \in ExecuteSimple(e) : Push(p, f)
  BY <1>2
<1> HIDE DEF e
<1>6. Goes(f)
  BY <1>1, <1>4, <1>5, ExecuteSimpleGoes
<1> QED
  BY <1>1, <1>5, <1>6, PushInv

LEMMA StartPipelineInv ==
  ASSUME IInv, NEW p \in Procs, StartPipeline(p)
  PROVE  IInv'
<1> DEFINE g == Frame(p, "pipeline", "pipeline")
<1>1. Between(p) /\ HooksOK /\ "pipeline" \in Stages
  BY HooksType DEF StartPipeline, Stages, Denying
<1>2. PICK f \in Stage(g, "pipeline", LeavePipeline(g, FALSE)) : Push(p, f)
  BY DEF StartPipeline
<1>3. g \in Going /\ Undecided(g) /\ Fate(hooks, g)
  <2>1. "pipeline" \in Ats /\ "pipeline" \in Runs
    BY DEF Ats, Stages, Denying, Runs
  <2> QED
    BY <2>1, NewFrame
<1> HIDE DEF g
<1>4. Goes(f)
  <2>1. CASE Entered(g, f, "pipeline")
    <3>1. f.at = "pipeline" /\ Undecided(f)
      BY <1>3, <2>1 DEF Entered, Undecided, Same
    <3>2. Reached(hooks, f)
      BY <3>1 DEF Reached
    <3> QED
      BY <2>1, <3>2 DEF Entered, Goes, FrameOK
  <2>2. CASE f \in LeavePipeline(g, FALSE)
    BY <1>3, <2>2, LeavePipelineGoes
  <2> QED
    BY <1>1, <1>2, <1>3, <2>1, <2>2, StageSplit
<1> QED
  BY <1>1, <1>2, <1>4, PushInv

LEMMA StartTrapInv ==
  ASSUME IInv, NEW p \in Procs, StartTrap(p)
  PROVE  IInv'
<1> DEFINE f == Frame(p, "body", "trap")
<1>1. Between(p) /\ Push(p, f)
  BY DEF StartTrap
<1>2. "body" \in Ats /\ "trap" \in Runs /\ "body" \notin Stages
  BY DEF Ats, Runs, Stages, Denying, Observing
<1>3. f \in Going /\ f.at = "body" /\ f.run = "trap" /\ Fate(hooks, f)
  BY <1>2, NewFrame
<1> HIDE DEF f
<1>4. Reached(hooks, f)
  BY <1>3 DEF Reached
<1>5. Goes(f)
  BY <1>2, <1>3, <1>4 DEF Goes, FrameOK, Calling
<1> QED
  BY <1>1, <1>5, PushInv

LEMMA ForkedFrame ==
  ASSUME NEW p, NEW f, f = [Frame(p, "start", "none") EXCEPT !.forked = TRUE]
  PROVE  [f EXCEPT !.at = "start", !.subshell = TRUE] \in Quiet(hooks)
<1> DEFINE b == Frame(p, "start", "none")
<1>1. "start" \in Ats /\ "none" \in Runs
  BY DEF Ats, Runs
<1>2. b \in Going /\ b.run = "none" /\ Undecided(b) /\ Fate(hooks, b)
  BY <1>1, NewFrame
<1>3. f = [b EXCEPT !.forked = TRUE]
  OBVIOUS
<1> HIDE DEF b
<1>4. /\ f \in Going /\ f.run = b.run /\ f.ran = b.ran /\ f.stopped = b.stopped
      /\ f.refused = b.refused
  BY <1>2, <1>3 DEF Going
<1>5. Undecided(f) /\ Fate(hooks, f)
  BY <1>2, <1>4 DEF Undecided, Fate
<1> QED
  BY <1>2, <1>4, <1>5, StartFrame

LEMMA StartAsyncInv ==
  ASSUME IInv, NEW p \in Procs, StartAsync(p)
  PROVE  IInv'
<1> DEFINE f == [Frame(p, "start", "none") EXCEPT !.forked = TRUE]
<1>1. /\ p \in live /\ stack[p] \in Seq(Quiet(hooks)) /\ Clear(globals[p])
  BY BetweenProps DEF StartAsync
<1>2. PICK c \in Children : Fork(p, c, stack[p], f, stack[p])
  BY DEF StartAsync
<1>3. [f EXCEPT !.at = "start", !.subshell = TRUE] \in Quiet(hooks)
  BY ForkedFrame
<1> HIDE DEF f
<1> QED
  BY <1>1, <1>2, <1>3, ForkInv

LEMMA ForkPipelineInv ==
  ASSUME IInv, NEW p \in Procs, ForkPipeline(p)
  PROVE  IInv'
<1> DEFINE e == [Frame(p, "start", "none") EXCEPT !.forked = TRUE]
           s == Front(stack[p])
           left == Top(p).at = "left"
           a == IF left THEN "right" ELSE "wait"
           f == [Top(p) EXCEPT !.at = a]
<1>1. Busy(p) /\ Top(p).at \in {"left", "right"} /\ Top(p).at \notin Stages
  BY DEF ForkPipeline, Stages, Denying, Observing
<1>2. /\ p \in live /\ Top(p) \in Going /\ Fate(hooks, Top(p)) /\ s \in Seq(Quiet(hooks))
      /\ Clear(globals[p])
  BY <1>1, TopProps, QuietProps DEF FrameOK
<1>3. PICK c \in Children :
        Fork(p, c, Append(s, f), e, Append(s, IF left THEN f ELSE [f EXCEPT !.child = c]))
  BY DEF ForkPipeline
<1>4. [e EXCEPT !.at = "start", !.subshell = TRUE] \in Quiet(hooks)
  BY ForkedFrame
<1> HIDE DEF e
<1>5. f \in Quiet(hooks) /\ [f EXCEPT !.child = c] \in Quiet(hooks)
  <2>1. Top(p).child \in Children \union {None}
    BY <1>2 DEF Going
  <2>2. f = [Top(p) EXCEPT !.at = a, !.child = Top(p).child]
    BY <1>2 DEF Going
  <2>3. [f EXCEPT !.child = c] = [Top(p) EXCEPT !.at = a, !.child = c]
    BY <1>2 DEF Going
  <2>4. a \in {"right", "wait", "parent"}
    OBVIOUS
  <2> HIDE DEF f, a
  <2> QED
    BY <1>2, <2>1, <2>2, <2>3, <2>4, ParentFrame
<1> HIDE DEF f, s
<1>6. \A b \in Quiet(hooks) : Append(s, b) \in Seq(Quiet(hooks))
  BY <1>2, PushTop
<1>7. CASE left
  BY <1>2, <1>3, <1>4, <1>5, <1>6, <1>7, ForkInv
<1>8. CASE ~left
  BY <1>2, <1>3, <1>4, <1>5, <1>6, <1>8, ForkInv
<1> QED
  BY <1>7, <1>8

LEMMA ForkProgramInv ==
  ASSUME IInv, NEW p \in Procs, ForkProgram(p)
  PROVE  IInv'
<1> DEFINE s == Front(stack[p])
           e == [Top(p) EXCEPT !.exits = TRUE]
<1>1. Busy(p) /\ Top(p).at = "fork" /\ Top(p).at \notin Stages
  BY DEF ForkProgram, Stages, Denying, Observing
<1>2. /\ p \in live /\ Top(p) \in Going /\ FrameOK(hooks, Top(p)) /\ s \in Seq(Quiet(hooks))
      /\ Clear(globals[p])
  BY <1>1, TopProps, QuietProps
<1>3. Undecided(Top(p)) /\ Words(hooks, Top(p)) /\ Fate(hooks, Top(p))
  BY <1>1, <1>2 DEF FrameOK, Reached
<1>4. PICK c \in Children :
        Fork(p, c, s, e, Append(s, [Top(p) EXCEPT !.at = "parent", !.child = c]))
  BY DEF ForkProgram
<1>5. [e EXCEPT !.at = "start", !.subshell = TRUE] \in Quiet(hooks)
  <2>1. /\ e \in Going /\ e.asked = Top(p).asked /\ e.run = Top(p).run
        /\ e.redirs = Top(p).redirs /\ e.ran = Top(p).ran /\ e.trap = Top(p).trap
        /\ e.forked = Top(p).forked /\ e.stopped = Top(p).stopped
        /\ e.refused = Top(p).refused
    BY <1>2 DEF Going
  <2> HIDE DEF e
  <2>2. Undecided(e) /\ Words(hooks, e) /\ Fate(hooks, e)
    BY <1>3, <2>1, Carry DEF Undecided, Fate
  <2> QED
    BY <2>1, <2>2, StartFrame
<1>6. [Top(p) EXCEPT !.at = "parent", !.child = c] \in Quiet(hooks)
  BY <1>2, <1>3, ParentFrame
<1> HIDE DEF e, s
<1>7. Append(s, [Top(p) EXCEPT !.at = "parent", !.child = c]) \in Seq(Quiet(hooks))
  BY <1>2, <1>6, PushTop
<1> QED
  BY <1>2, <1>4, <1>5, <1>7, ForkInv

LEMMA AfterForkInv ==
  ASSUME IInv, NEW p \in Procs, AfterFork(p)
  PROVE  IInv'
<1> DEFINE e == Top(p)
<1>1. Busy(p) /\ e.at \in {"start", "parent"} /\ e.at \notin Stages /\ HooksOK
  BY HooksType DEF AfterFork, Stages, Denying, Observing
<1>2. e \in Going /\ Fate(hooks, e) /\ Reached(hooks, e)
  BY <1>1, TopProps DEF FrameOK
<1>3. PICK f \in CASE e.at = "parent" -> Finish(e)
                  [] e.at = "start" /\ e.run = "disk" -> Redirecting(e)
                  [] OTHER -> ExecuteSimple(e) :
        GoOn(p, f)
  BY DEF AfterFork
<1> HIDE DEF e
<1>4. Goes(f)
  <2>1. CASE e.at = "parent"
    BY <1>1, <1>2, <1>3, <2>1, FinishGoes
  <2>2. CASE e.at = "start" /\ e.run = "disk"
    <3>1. Undecided(e) /\ Words(hooks, e) /\ Resolved(e)
      BY <1>2, <2>2 DEF Reached, Resolved
    <3>2. f \in Redirecting(e)
      BY <1>3, <2>2
    <3> QED
      BY <1>1, <1>2, <3>1, <3>2, RedirectingGoes
  <2>3. CASE e.at = "start" /\ e.run # "disk"
    <3>1. Undecided(e)
      BY <1>2, <2>3 DEF Reached
    <3>2. f \in ExecuteSimple(e)
      BY <1>3, <2>3
    <3> QED
      BY <1>1, <1>2, <3>1, <3>2, ExecuteSimpleGoes
  <2> QED
    BY <1>1, <2>1, <2>2, <2>3
<1> QED
  BY <1>1, <1>3, <1>4, GoOnInv DEF e

LEMMA WaitEndsInv ==
  ASSUME IInv, NEW p \in Procs, WaitEnds(p)
  PROVE  IInv'
<1>1. Busy(p) /\ Top(p).at = "wait" /\ Top(p).at \notin Stages
  BY DEF WaitEnds, Stages, Denying, Observing
<1>2. Top(p) \in Going /\ Fate(hooks, Top(p))
  BY <1>1, TopProps DEF FrameOK
<1>3. PICK f \in To(Top(p), "return") : GoOn(p, f)
  BY DEF WaitEnds
<1> QED
  BY <1>1, <1>2, <1>3, ToGoes, GoOnInv

LEMMA BodyEndsInv ==
  ASSUME IInv, NEW p \in Procs, BodyEnds(p)
  PROVE  IInv'
<1>1. Busy(p) /\ Top(p).at = "body" /\ Top(p).at \notin Stages /\ HooksOK
  BY HooksType DEF BodyEnds, Stages, Denying, Observing
<1>2. Top(p) \in Going /\ Fate(hooks, Top(p))
  BY <1>1, TopProps DEF FrameOK
<1>3. PICK f : /\ f \in To(Top(p), "return") \/ f \in Finish(Top(p))
               /\ GoOn(p, f)
  BY DEF BodyEnds
<1>4. Goes(f)
  BY <1>1, <1>2, <1>3, ToGoes, FinishGoes
<1> QED
  BY <1>1, <1>3, <1>4, GoOnInv

(* A builtin that is executed has passed the stages of its words and            *)
(* redirections; those of what is executed instead are still to come.         *)
LEMMA InsteadProps ==
  ASSUME IInv, NEW p \in Procs, Busy(p), Top(p).at = "body", Top(p).run = "builtin",
         NEW r \in {"disk", "exec"}, NEW f, f = [Top(p) EXCEPT !.run = r, !.ran = FALSE]
  PROVE  /\ f \in Going /\ f.run = r /\ Fate(hooks, f) /\ Ready(hooks, f)
<1> DEFINE e == Top(p)
<1>1. e \in Going /\ Fate(hooks, e) /\ Reached(hooks, e)
  BY TopProps DEF FrameOK
<1>2. ~e.stopped /\ Words(hooks, e) /\ Opened(hooks, e)
  BY <1>1 DEF Reached
<1> HIDE DEF e
<1>3. /\ f \in Going /\ f.run = r /\ Same(e, f) /\ f.asked = e.asked
      /\ f.redirs = e.redirs /\ f.ran = FALSE
  <2>1. r \in Runs
    BY DEF Runs
  <2>2. f = [e EXCEPT !.run = r, !.ran = FALSE]
    BY DEF e
  <2> QED
    BY <1>1, <2>1, <2>2 DEF Going, Same
<1>4. Ready(hooks, f)
  <2>1. f.trap = e.trap /\ f.forked = e.forked /\ f.stopped = e.stopped
    BY <1>3 DEF Same
  <2>2. Words(hooks, f) /\ Opened(hooks, f)
    <3>1. /\ f.trap = e.trap /\ f.forked = e.forked /\ e.asked \subseteq f.asked
          /\ f.redirs = e.redirs
      BY <1>3, <2>1
    <3>2. /\ Words(hooks, e) => Words(hooks, f)
          /\ Opened(hooks, e) => Opened(hooks, f)
      BY <3>1, Carry, Zenon
    <3> QED
      BY <1>2, <3>2
  <2>3. ~f.ran /\ ~f.stopped
    BY <1>2, <1>3, <2>1
  <2> QED
    BY <2>2, <2>3 DEF Ready, Undecided
<1>5. Fate(hooks, f)
  BY <1>1, <1>3 DEF Fate, Same
<1> QED
  BY <1>3, <1>4, <1>5

LEMMA FallBackInv ==
  ASSUME IInv, NEW p \in Procs, FallBack(p)
  PROVE  IInv'
<1> DEFINE f == [Top(p) EXCEPT !.run = "disk", !.ran = FALSE]
<1>1. /\ Busy(p) /\ Top(p).at = "body" /\ Top(p).run = "builtin" /\ Top(p).at \notin Stages
      /\ HooksOK
  BY HooksType DEF FallBack, Stages, Denying, Observing
<1>2. PICK g \in IF f.exits THEN Run(f) ELSE Dispatch(f, "disk") : GoOn(p, g)
  BY DEF FallBack
<1>3. f \in Going /\ f.run = "disk" /\ Fate(hooks, f) /\ Ready(hooks, f)
  BY <1>1, InsteadProps
<1> HIDE DEF f
<1>4. Goes(g)
  BY <1>1, <1>2, <1>3, RunGoes, DispatchGoes DEF Ready
<1> QED
  BY <1>1, <1>2, <1>4, GoOnInv

LEMMA ExecBuiltinInv ==
  ASSUME IInv, NEW p \in Procs, ExecBuiltin(p)
  PROVE  IInv'
<1> DEFINE f == [Top(p) EXCEPT !.run = "exec", !.ran = FALSE]
<1>1. /\ Busy(p) /\ Top(p).at = "body" /\ Top(p).run = "builtin" /\ Top(p).at \notin Stages
      /\ HooksOK
  BY HooksType DEF ExecBuiltin, Stages, Denying, Observing
<1>2. PICK g \in Run(f) : GoOn(p, g)
  BY DEF ExecBuiltin
<1>3. f \in Going /\ f.run = "exec" /\ Fate(hooks, f) /\ Ready(hooks, f)
  BY <1>1, InsteadProps
<1> HIDE DEF f
<1>4. Goes(g)
  BY <1>1, <1>2, <1>3, RunGoes
<1> QED
  BY <1>1, <1>2, <1>4, GoOnInv

LEMMA EmptyOK ==
  ASSUME NEW g, Clear(g)
  PROVE  ProcOK(hooks, <<>>, g)
  BY QuietOK, EmptySeq

LEMMA FreshProps == Fresh \in Globals /\ Clear(Fresh)
  BY DEF Fresh, Globals, Clear

LEMMA ToTopLevelInv ==
  ASSUME IInv, NEW p \in live, globals[p] \in Globals, Clear(globals[p]), ToTopLevel(p)
  PROVE  IInv'
<1>1. hooks' = hooks /\ stack' = [stack EXCEPT ![p] = <<>>]
  BY DEF ToTopLevel
<1>2. CASE live' = live /\ globals' = globals
  <2>1. globals' = [globals EXCEPT ![p] = globals[p]]
    BY <1>2 DEF IInv, CoreType
  <2> QED
    BY <1>1, <1>2, <2>1, EmptyOK, Update
<1>3. CASE live' = live \ {p} /\ globals' = [globals EXCEPT ![p] = Fresh]
  BY <1>1, <1>3, EmptyOK, FreshProps, Update
<1> QED
  BY <1>2, <1>3 DEF ToTopLevel

LEMMA ForkFailsInv ==
  ASSUME IInv, NEW p \in Procs, ForkFails(p)
  PROVE  IInv'
<1>1. ToTopLevel(p) /\ (Between(p) \/ (Busy(p) /\ Top(p).at \in {"left", "right", "fork"}))
  BY DEF ForkFails
<1>2. CASE Between(p)
  BY <1>1, <1>2, BetweenProps, ToTopLevelInv
<1>3. CASE Busy(p) /\ Top(p).at \in {"left", "right", "fork"}
  <2>1. Top(p).at \notin Stages
    BY <1>3 DEF Stages, Denying, Observing
  <2> QED
    BY <1>1, <1>3, <2>1, TopProps, QuietProps, ToTopLevelInv
<1> QED
  BY <1>1, <1>2, <1>3

LEMMA JumpInv ==
  ASSUME IInv, NEW p \in Procs, Jump(p)
  PROVE  IInv'
<1>1. ToTopLevel(p) /\ Busy(p) /\ Top(p).at \notin Stages
  BY DEF Jump, Stages, Denying, Observing
<1> QED
  BY <1>1, TopProps, QuietProps, ToTopLevelInv

LEMMA ProcessEndsInv ==
  ASSUME IInv, NEW p \in Procs, ProcessEnds(p)
  PROVE  IInv'
<1>1. /\ p \in live /\ hooks' = hooks /\ live' = live \ {p}
      /\ stack' = [stack EXCEPT ![p] = <<>>] /\ globals' = [globals EXCEPT ![p] = Fresh]
  BY DEF ProcessEnds
<1> QED
  BY <1>1, EmptyOK, FreshProps, Update

LEMMA InitIInv == Init => IInv
<1> SUFFICES ASSUME Init PROVE IInv
  OBVIOUS
<1>1. \A p \in Procs : stack[p] = <<>> /\ globals[p] = Fresh
  BY DEF Init
<1>2. CoreType
  <2>1. stack \in [Procs -> Seq(Frames)]
    BY EmptySeq DEF Init
  <2>2. globals \in [Procs -> Globals]
    BY FreshProps DEF Init
  <2> QED
    BY <1>1, <2>1, <2>2 DEF Init, CoreType, Procs
<1>3. \A p \in Procs : ProcOK(hooks, stack[p], globals[p])
  BY <1>1, EmptyOK, FreshProps
<1> QED
  BY <1>2, <1>3 DEF IInv

LEMMA NextIInv == IInv /\ [Next]_vars => IInv'
<1> SUFFICES ASSUME IInv, [Next]_vars PROVE IInv'
  OBVIOUS
<1>1. CASE UNCHANGED vars
  <2>1. hooks' = hooks /\ live' = live /\ stack' = stack /\ globals' = globals
    BY <1>1 DEF vars
  <2> QED
    BY <2>1 DEF IInv, CoreType
<1>2. ASSUME NEW p \in Procs, Step(p) PROVE IInv'
  BY <1>2, StartSimpleInv, StartPipelineInv, StartTrapInv, StartAsyncInv, CallbackEndsInv,
     ForkPipelineInv, ForkProgramInv, ForkFailsInv, AfterForkInv, WaitEndsInv, BodyEndsInv,
     FallBackInv, ExecBuiltinInv, JumpInv, ProcessEndsInv DEF Step
<1> QED
  BY <1>1, <1>2 DEF Next, Over

LEMMA AlwaysIInv == Spec => []IInv
<1> QED
  BY InitIInv, NextIInv, PTL DEF Spec

-----------------------------------------------------------------------------
(* What a reader should know.                                               *)

(* The frames of a process. *)
LEMMA CommandsOK ==
  ASSUME IInv, NEW p \in Procs, NEW f \in CommandsOf(p)
  PROVE  f \in OKFrames(hooks)
<1>1. stack[p] \in Seq(OKFrames(hooks))
  BY DEF IInv, ProcOK
<1> QED
  BY <1>1, ElementOfSeq DEF CommandsOf

(* Every callback of every stage that a command passes is in Due.            *)
LEMMA DueAsked ==
  ASSUME NEW f, Words(hooks, f), Opened(hooks, f), Past(hooks, f, Kind(f)),
         f.redirs \in {"unknown"} \union Redirs, HooksOK
  PROVE  Due(f) \subseteq f.asked
<1> DEFINE stages ==
        {"expand", "dispatch"}
          \union (IF f.trap THEN {} ELSE {IF f.run \in {"builtin", "function"} THEN f.run ELSE "exec"})
          \union (IF f.trap \/ f.forked THEN {} ELSE {"before"})
          \union (IF f.redirs = "none" THEN {} ELSE {"policy"})
          \union (IF f.trap \/ f.redirs = "none" THEN {} ELSE {"redirect"})
          \union (IF f.trap \/ f.redirs # "clobber" THEN {} ELSE {"clobber"})
<1>1. \A s \in stages : s \in Stages
  BY DEF Stages, Denying, Observing
<1>2. \A s \in stages : All(hooks, f, s)
  BY DEF Words, Opened, Past, Kind
<1>3. \A s \in Stages : DOMAIN hooks[s] = 1 .. Len(hooks[s])
  BY LenProperties DEF HooksOK
<1>4. \A s \in stages : \A i \in DOMAIN hooks[s] : <<s, i>> \in f.asked
  BY <1>1, <1>2, <1>3 DEF All
<1>5. Due(f) = UNION {{<<s, i>> : i \in DOMAIN hooks[s]} : s \in stages}
  BY DEF Due
<1> HIDE DEF stages
<1> QED
  BY <1>4, <1>5

(* The stacks of commands and the globals of the stages have their types, and  *)
(* a process that has exited executes nothing.                               *)
THEOREM StageTypeCorrect == Spec => []StageTypeOK
<1>1. IInv => StageTypeOK
  <2> SUFFICES ASSUME IInv PROVE StageTypeOK
    OBVIOUS
  <2>1. hooks \in Tables /\ live \subseteq Procs /\ DOMAIN stack = Procs
    BY DEF IInv, CoreType
  <2>2. globals \in [Procs -> [stage_denied: BOOLEAN, in_stage: SUBSET Denying,
                               enforcing: BOOLEAN]]
    BY DEF IInv, CoreType, Globals
  <2>3. ASSUME NEW p \in Procs
        PROVE  /\ \A k \in 1 .. Len(stack[p]) : stack[p][k] \in Frames
               /\ p \notin live => stack[p] = <<>>
    <3>1. stack[p] \in Seq(Frames)
      BY DEF IInv, CoreType
    <3> QED
      BY <3>1, ElementOfSeq DEF IInv, CoreType
  <2> QED
    BY <2>1, <2>2, <2>3 DEF StageTypeOK
<1> QED
  BY <1>1, AlwaysIInv, PTL

(* A command is executed, as a builtin, a function or a program, in the shell  *)
(* or in a child, only after every callback of every stage it passes was asked *)
(* (execute_simple_command, execute_disk_command, shell_execve).             *)
THEOREM EveryCallbackTheorem == Spec => []EveryCallbackAsked
<1>1. IInv => EveryCallbackAsked
  <2> SUFFICES ASSUME IInv, NEW p \in Procs, NEW f \in CommandsOf(p), f.ran
               PROVE  Due(f) \subseteq f.asked
    BY DEF EveryCallbackAsked
  <2>1. f \in Frames /\ Fate(hooks, f) /\ HooksOK
    BY CommandsOK, HooksType DEF OKFrames, FrameOK
  <2>2. /\ Words(hooks, f) /\ Opened(hooks, f) /\ Past(hooks, f, Kind(f))
        /\ f.redirs \in {"unknown"} \union Redirs
    BY <2>1 DEF Fate, Frames
  <2> QED
    BY <2>1, <2>2, DueAsked
<1> QED
  BY <1>1, AlwaysIInv, PTL

(* A command that an enforcing callback refused is not executed, in the process *)
(* that asked or in a child it forks, and nothing but such a refusal stops a    *)
(* command (rash_lua_deny, stage_denied, current_hook_enforcing).            *)
THEOREM RefusalDecidesTheorem == Spec => []RefusalDecides
<1>1. IInv => RefusalDecides
  <2> SUFFICES ASSUME IInv, NEW p \in Procs, NEW f \in CommandsOf(p)
               PROVE  (f.ran => ~f.refused) /\ (f.stopped => f.refused)
    BY DEF RefusalDecides
  <2>1. Fate(hooks, f)
    BY CommandsOK DEF OKFrames, FrameOK
  <2> QED
    BY <2>1 DEF Fate
<1> QED
  BY <1>1, AlwaysIInv, PTL

(* While no callback runs, no in_*_stage flag is set and no right to deny is     *)
(* left over, in the shell and in every child.                               *)
THEOREM FlagsClearTheorem == Spec => []FlagsClear
<1>1. IInv => FlagsClear
  <2> SUFFICES ASSUME IInv, NEW p \in live, Busy(p) => Top(p).at \notin Stages
               PROVE  globals[p].in_stage = {} /\ ~globals[p].enforcing
    BY DEF FlagsClear
  <2>1. p \in Procs
    BY DEF IInv, CoreType
  <2>2. Clear(globals[p])
    BY <2>1, QuietProps
  <2> QED
    BY <2>2 DEF Clear
<1> QED
  BY <1>1, AlwaysIInv, PTL
=============================================================================
