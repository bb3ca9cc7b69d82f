-------------------------- MODULE ChildTrapProofs --------------------------
(***************************************************************************)
(* Proofs about children and the SIGCHLD trap, for any set of children and   *)
(* any depth of nesting.  IInv is the inductive invariant of the shell; it   *)
(* holds whatever `trap` sets.  AccountInv adds what is true as long as the  *)
(* trap is not reset to the default.                                        *)
(***************************************************************************)
EXTENDS ChildTrap, Integers, FiniteSetTheorems, SequenceTheorems, WellFoundedInduction, TLAPS

-----------------------------------------------------------------------------
(* A stack is a sequence of frames; the one that runs is Last.               *)

(* Popping a frame. *)
LEMMA FrontLast ==
  ASSUME NEW S, NEW s \in Seq(S), s # <<>>
  PROVE  /\ Front(s) \in Seq(S)
         /\ Last(s) \in S
         /\ Len(s) \in Nat \ {0}
         /\ Len(Front(s)) = Len(s) - 1
         /\ \A k \in 1 .. Len(s) - 1 : Front(s)[k] = s[k]
<1> DEFINE n == Len(s) - 1
<1>1. Len(s) \in Nat \ {0} /\ n \in Nat /\ Len(s) = n + 1
  BY EmptySeq, LenProperties
<1>2. Last(s) \in S /\ \A i \in 1 .. n : s[i] \in S
  BY <1>1, ElementOfSeq DEF Last
<1>3. Front(s) = SubSeq(s, 1, n)
  BY DEF Front
<1> HIDE DEF n
<1>4. /\ SubSeq(s, 1, n) \in Seq(S)
      /\ Len(SubSeq(s, 1, n)) = IF 1 <= n THEN n - 1 + 1 ELSE 0
      /\ \A i \in 1 .. n - 1 + 1 : SubSeq(s, 1, n)[i] = s[1 + i - 1]
  BY <1>1, <1>2, SubSeqProperties
<1>5. n - 1 + 1 = n /\ (~(1 <= n) => n = 0) /\ Len(s) - 1 = n
  BY <1>1
<1>6. Len(Front(s)) = n
  BY <1>3, <1>4, <1>5
<1>7. \A k \in 1 .. n : k \in 1 .. n - 1 + 1 /\ 1 + k - 1 = k
  BY <1>1
<1> QED
  BY <1>1, <1>2, <1>3, <1>4, <1>5, <1>6, <1>7

(* Pushing a frame. *)
LEMMA PushTop ==
  ASSUME NEW S, NEW s \in Seq(S), NEW e \in S
  PROVE  /\ Append(s, e) \in Seq(S)
         /\ Append(s, e) # <<>>
         /\ Len(s) \in Nat
         /\ Len(Append(s, e)) = Len(s) + 1
         /\ \A k \in 1 .. Len(s) : Append(s, e)[k] = s[k]
         /\ Append(s, e)[Len(s) + 1] = e
         /\ Last(Append(s, e)) = e
         /\ Front(Append(s, e)) = s
<1> DEFINE t == Append(s, e)
<1>1. /\ t \in Seq(S) /\ t # <<>> /\ Len(s) \in Nat /\ Len(t) = Len(s) + 1
      /\ \A k \in 1 .. Len(s) : t[k] = s[k]
      /\ t[Len(s) + 1] = e
  BY AppendProperties, LenProperties
<1> HIDE DEF t
<1>2. /\ Front(t) \in Seq(S) /\ Len(Front(t)) = Len(s)
      /\ \A k \in 1 .. Len(s) : Front(t)[k] = s[k]
  BY <1>1, FrontLast
<1>3. Front(t) = s /\ Last(t) = e
  BY <1>1, <1>2, SeqEqual DEF Last
<1> QED
  BY <1>1, <1>3 DEF t

(* A stack is what is below its top, and the top. *)
LEMMA TopAndRest ==
  ASSUME NEW S, NEW s \in Seq(S), s # <<>>
  PROVE  /\ s = Append(Front(s), Last(s))
         /\ s[Len(s)] = Last(s)
<1> DEFINE t == Append(Front(s), Last(s))
<1>1. /\ Front(s) \in Seq(S) /\ Last(s) \in S /\ Len(s) \in Nat \ {0}
      /\ Len(Front(s)) = Len(s) - 1 /\ \A k \in 1 .. Len(s) - 1 : Front(s)[k] = s[k]
  BY FrontLast
<1>2. /\ t \in Seq(S) /\ Len(t) = Len(Front(s)) + 1
      /\ \A k \in 1 .. Len(Front(s)) : t[k] = Front(s)[k]
      /\ t[Len(Front(s)) + 1] = Last(s)
  BY <1>1, AppendProperties
<1> HIDE DEF t
<1>3. Len(t) = Len(s) /\ s[Len(s)] = Last(s) /\ t[Len(s)] = Last(s)
  BY <1>1, <1>2 DEF Last
<1>4. \A k \in 1 .. Len(s) : s[k] = t[k]
  BY <1>1, <1>2, <1>3
<1>5. s = t
  BY <1>2, <1>3, <1>4, SeqEqual
<1> QED
  BY <1>3, <1>5 DEF t

-----------------------------------------------------------------------------
(* Natural numbers.                                                         *)

(* A set of natural numbers that is not empty has a least one. *)
LEMMA LeastOfSet ==
  ASSUME NEW S, S \subseteq Nat, S # {}
  PROVE  \E m \in S : \A k \in S : m <= k
<1> DEFINE R == {p \in Nat \X Nat : p[1] < p[2]}
<1>1. IsWellFoundedOn(R, Nat)
  BY NatLessThanWellFounded DEF OpToRel
<1> HIDE DEF R
<1>2. PICK m \in S : \A k \in S : ~ (<<k, m>> \in R)
  BY <1>1, WFMin
<1>3. \A k \in S : ~ (k < m)
  BY <1>2 DEF R
<1> QED
  BY <1>3

(* Induction over the natural numbers, for a set. *)
LEMMA NatSetInduction ==
  ASSUME NEW S, 0 \in S, \A n \in Nat : n \in S => n + 1 \in S
  PROVE  \A n \in Nat : n \in S
<1>1. ASSUME Nat \ S # {} PROVE FALSE
  <2>1. PICK m \in Nat \ S : \A k \in Nat \ S : m <= k
    BY <1>1, LeastOfSet
  <2>2. m - 1 \in Nat /\ ~(m <= m - 1) /\ (m - 1) + 1 = m
    BY <2>1
  <2> QED
    BY <2>1, <2>2
<1> QED
  BY <1>1

-----------------------------------------------------------------------------
(* Frames nothing is ever pushed on: the shell has SIGCHLD blocked there, is  *)
(* queueing it, or waitchld finds no trap to count for.                     *)
TopOnly == {"spawn", "queue", "reap", "notify", "clear", "swap", "restore"}

HereOf(s) == IF s = <<>> THEN "none" ELSE Last(s).at
Here == HereOf(stack)

(* A trap that has to run has firings left, one that has run has none. *)
FrameOK(f) ==
  /\ f.at \in {"save", "swap"} => f.n > 0
  /\ f.at \in {"restore", "restored"} => f.n = 0

Shape(s) ==
  \A i \in 1 .. Len(s) : FrameOK(s[i]) /\ (s[i].at \in TopOnly => i = Len(s))

CoreType ==
  /\ child \in [Children -> {"unborn", "running", "zombie", "reaped"}]
  /\ {signalled, blocked, catch_flag, running_trap, trapped, in_progress, in_wait, installed,
      left} \subseteq BOOLEAN
  /\ stack \in Seq(Frames)
  /\ {sigchld, queue_sigchld, pending_traps, owed, fired, missed, dropped} \subseteq Nat
  /\ trap_list \in Traps

(* What the shell relies on while it is in one of those frames. *)
TopInv ==
  /\ Here = "spawn" => /\ blocked /\ Top.pid \in Children
                       /\ child[Top.pid] \in {"running", "zombie"}
  /\ Here = "clear" => blocked /\ Top.n = pending_traps
  /\ Here = "swap" => trap_list = "default" /\ ~trapped
  /\ Here = "restore" => trap_list = "command" /\ ~trapped

(* queue_sigchld counts the queueing section on top of the stack, and a wait  *)
(* that has been interrupted by the trap it found.                          *)
QueueInv ==
  /\ Here \in {"queue", "notify"} =>
       queue_sigchld \in 1 .. IF Children = {} THEN 1 ELSE 2
  /\ Here = "reap" => queue_sigchld = 1
  /\ Here \notin {"queue", "notify", "reap"} =>
       queue_sigchld \in 0 .. IF Children = {} THEN 0 ELSE 1

Reaped == {c \in Children : child[c] = "reaped"}
Exited == {c \in Children : child[c] \in {"zombie", "reaped"}}

(* No firing without a reaped child, no SIGCHLD without one that exited. *)
CountInv ==
  /\ owed <= Cardinality(Reaped)
  /\ fired + missed + dropped + pending_traps + Due(stack) <= Cardinality(Reaped)
  /\ sigchld + (IF signalled THEN 1 ELSE 0) <= Cardinality(Exited)

IInv == CoreType /\ Shape(stack) /\ TopInv /\ QueueInv /\ CountInv

(* Without `trap - CHLD`: outside the exchange the trap is in place or the   *)
(* sentinel is, unless the user has set it to be ignored.                   *)
TrapInv ==
  IF Here \in {"swap", "restore"}
  THEN installed
  ELSE \/ trap_list = "command" /\ trapped /\ installed
       \/ trap_list = "impossible" /\ ~trapped /\ installed
       \/ trap_list = "ignore" /\ trapped /\ ~installed

AccountInv == TrapInv /\ OneFiringPerChild

USE ChildAssumption, SettingsAssumption

-----------------------------------------------------------------------------
(* The firings due in a stack.                                              *)

LEMMA FiringsType == \A f \in Frames : Firings(f) \in Nat
<1>1. Cardinality(Children) \in Nat
  BY FS_CardinalityType
<1> QED
  BY <1>1 DEF Firings, Frames

(* The recursive function that Due looks up. *)
IsSum(g, s) == g = [k \in 0 .. Len(s) |-> IF k = 0 THEN 0 ELSE g[k - 1] + Firings(s[k])]

LEMMA SumExists ==
  ASSUME NEW s \in Seq(Frames)
  PROVE  \E g \in [0 .. Len(s) -> Nat] : IsSum(g, s)
<1> DEFINE Partial(n, g) ==
             /\ g \in [0 .. n -> Nat]
             /\ \A k \in 0 .. n : g[k] = IF k = 0 THEN 0 ELSE g[k - 1] + Firings(s[k])
           S == {n \in Nat : n <= Len(s) => \E g : Partial(n, g)}
<1>1. Len(s) \in Nat /\ \A k \in 1 .. Len(s) : Firings(s[k]) \in Nat
  BY FiringsType, LenProperties, ElementOfSeq
<1>2. 0 \in S
  <2> DEFINE z == [k \in 0 .. 0 |-> 0]
  <2>1. z \in [0 .. 0 -> Nat] /\ \A k \in 0 .. 0 : k = 0 /\ z[k] = 0
    OBVIOUS
  <2> HIDE DEF z
  <2>2. \A k \in 0 .. 0 : z[k] = IF k = 0 THEN 0 ELSE z[k - 1] + Firings(s[k])
    BY <2>1
  <2>3. Partial(0, z)
    BY <2>1, <2>2
  <2> QED
    BY <2>3
<1>3. \A n \in Nat : n \in S => n + 1 \in S
  <2> SUFFICES ASSUME NEW n \in Nat, n \in S, n + 1 <= Len(s) PROVE \E h : Partial(n + 1, h)
    <3>1. \A n \in Nat : n + 1 \in Nat
      OBVIOUS
    <3> HIDE DEF Partial
    <3> QED
      BY <3>1
  <2>0. n <= Len(s)
    BY <1>1
  <2>1. PICK g : Partial(n, g)
    BY <2>0
  <2>2. g[n] \in Nat /\ Firings(s[n + 1]) \in Nat
    BY <1>1, <2>1
  <2> DEFINE h == [k \in 0 .. n + 1 |-> IF k = n + 1 THEN g[n] + Firings(s[n + 1]) ELSE g[k]]
  <2>3. h \in [0 .. n + 1 -> Nat]
    BY <2>1, <2>2
  <2>4. ASSUME NEW k \in 0 .. n + 1
        PROVE  h[k] = IF k = 0 THEN 0 ELSE h[k - 1] + Firings(s[k])
    <3>1. CASE k = n + 1
      BY <3>1
    <3>2. CASE k \in 1 .. n
      <4>1. /\ k \in 0 .. n /\ k # 0 /\ k # n + 1
            /\ k - 1 \in 0 .. n + 1 /\ k - 1 # n + 1
        BY <3>2
      <4>2. g[k] = g[k - 1] + Firings(s[k])
        BY <2>1, <4>1, Zenon
      <4>3. h[k] = g[k] /\ h[k - 1] = g[k - 1]
        BY <4>1
      <4> QED
        BY <4>1, <4>2, <4>3, Zenon
    <3>3. CASE k = 0
      BY <2>1, <3>3
    <3> QED
      BY <3>1, <3>2, <3>3
  <2> QED
    BY <2>3, <2>4
<1>4. PICK g : Partial(Len(s), g)
  <2> HIDE DEF S
  <2>1. Len(s) \in S
    BY <1>1, <1>2, <1>3, NatSetInduction
  <2> QED
    BY <1>1, <2>1 DEF S
<1>5. IsSum(g, s)
  BY <1>4 DEF IsSum
<1> QED
  BY <1>4, <1>5

LEMMA DueIsSum ==
  ASSUME NEW s \in Seq(Frames)
  PROVE  \E g : IsSum(g, s) /\ Due(s) = g[Len(s)]
<1> DEFINE sum == CHOOSE g : IsSum(g, s)
<1>1. IsSum(sum, s)
  BY SumExists
<1>2. Due(s) = sum[Len(s)]
  BY Zenon DEF Due, IsSum
<1> QED
  BY <1>1, <1>2

(* Sums of stacks that agree up to n agree up to n. *)
LEMMA SumUnique ==
  ASSUME NEW s \in Seq(Frames), NEW t \in Seq(Frames), NEW g, NEW h,
         IsSum(g, s), IsSum(h, t), NEW n \in Nat, n <= Len(s), n <= Len(t),
         \A k \in 1 .. n : s[k] = t[k]
  PROVE  g[n] = h[n]
<1> DEFINE S == {k \in Nat : k <= n => g[k] = h[k]}
<1>1. Len(s) \in Nat /\ Len(t) \in Nat
  BY LenProperties
<1>2. \A k \in 0 .. Len(s) : g[k] = IF k = 0 THEN 0 ELSE g[k - 1] + Firings(s[k])
  BY DEF IsSum
<1>3. \A k \in 0 .. Len(t) : h[k] = IF k = 0 THEN 0 ELSE h[k - 1] + Firings(t[k])
  BY DEF IsSum
<1>4. 0 \in S
  BY <1>1, <1>2, <1>3
<1>5. \A k \in Nat : k \in S => k + 1 \in S
  <2> SUFFICES ASSUME NEW k \in Nat, k \in S, k + 1 <= n PROVE g[k + 1] = h[k + 1]
    OBVIOUS
  <2>1. g[k] = h[k] /\ s[k + 1] = t[k + 1]
    OBVIOUS
  <2>2. g[k + 1] = g[k] + Firings(s[k + 1]) /\ h[k + 1] = h[k] + Firings(t[k + 1])
    BY <1>1, <1>2, <1>3
  <2> QED
    BY <2>1, <2>2
<1> HIDE DEF S
<1>6. n \in S
  BY <1>4, <1>5, NatSetInduction
<1> QED
  BY <1>6 DEF S

LEMMA DueType == \A s \in Seq(Frames) : Due(s) \in Nat
<1> SUFFICES ASSUME NEW s \in Seq(Frames) PROVE Due(s) \in Nat
  OBVIOUS
<1>1. PICK g : IsSum(g, s) /\ Due(s) = g[Len(s)]
  BY DueIsSum
<1>2. PICK h \in [0 .. Len(s) -> Nat] : IsSum(h, s)
  BY SumExists
<1>3. Len(s) \in Nat
  BY LenProperties
<1>4. g[Len(s)] = h[Len(s)]
  BY <1>1, <1>2, <1>3, SumUnique
<1> QED
  BY <1>1, <1>2, <1>3, <1>4

LEMMA DueEmpty == Due(<<>>) = 0
<1>1. <<>> \in Seq(Frames) /\ Len(<<>>) = 0
  BY EmptySeq
<1>2. PICK g : IsSum(g, <<>>) /\ Due(<<>>) = g[0]
  BY <1>1, DueIsSum
<1> QED
  BY <1>1, <1>2 DEF IsSum

(* A frame adds its own firings. *)
LEMMA DueAppend ==
  ASSUME NEW s \in Seq(Frames), NEW f \in Frames
  PROVE  Due(Append(s, f)) = Due(s) + Firings(f)
<1> DEFINE t == Append(s, f)
<1>1. /\ t \in Seq(Frames) /\ Len(s) \in Nat /\ Len(t) = Len(s) + 1
      /\ \A k \in 1 .. Len(s) : t[k] = s[k]
      /\ t[Len(s) + 1] = f
  BY PushTop
<1> HIDE DEF t
<1>2. PICK g : IsSum(g, s) /\ Due(s) = g[Len(s)]
  BY DueIsSum
<1>3. PICK h : IsSum(h, t) /\ Due(t) = h[Len(t)]
  BY <1>1, DueIsSum
<1>4. g[Len(s)] = h[Len(s)]
  BY <1>1, <1>2, <1>3, SumUnique
<1>5. h[Len(s) + 1] = h[Len(s)] + Firings(f)
  BY <1>1, <1>3 DEF IsSum
<1> QED
  BY <1>1, <1>2, <1>3, <1>4, <1>5 DEF t

(* The outer part of a stack: no more firings are due in it. *)
LEMMA PrefixProps ==
  ASSUME NEW s \in Seq(Frames), Shape(s), NEW k \in Nat, k < Len(s)
  PROVE  /\ SubSeq(s, 1, k) \in Seq(Frames)
         /\ Shape(SubSeq(s, 1, k))
         /\ HereOf(SubSeq(s, 1, k)) = IF k = 0 THEN "none" ELSE s[k].at
         /\ HereOf(SubSeq(s, 1, k)) \notin TopOnly
         /\ Due(SubSeq(s, 1, k)) \in Nat /\ Due(SubSeq(s, 1, k)) <= Due(s)
<1> DEFINE t == SubSeq(s, 1, k)
<1>1. Len(s) \in Nat /\ \A i \in 1 .. k : s[i] \in Frames
  BY LenProperties, ElementOfSeq
<1>2. /\ t \in Seq(Frames) /\ Len(t) = k /\ \A i \in 1 .. k : t[i] = s[i]
  <2>1. /\ t \in Seq(Frames)
        /\ Len(t) = IF 1 <= k THEN k - 1 + 1 ELSE 0
        /\ \A i \in 1 .. k - 1 + 1 : t[i] = s[1 + i - 1]
    BY <1>1, SubSeqProperties
  <2>2. k - 1 + 1 = k /\ (~(1 <= k) => k = 0) /\ \A i \in 1 .. k : 1 + i - 1 = i
    OBVIOUS
  <2> QED
    BY <2>1, <2>2
<1> HIDE DEF t
<1>3. \A i \in 1 .. k : FrameOK(t[i]) /\ t[i].at \notin TopOnly
  <2> SUFFICES ASSUME NEW i \in 1 .. k PROVE FrameOK(t[i]) /\ t[i].at \notin TopOnly
    OBVIOUS
  <2>1. i \in 1 .. Len(s) /\ i # Len(s) /\ t[i] = s[i]
    BY <1>1, <1>2
  <2> QED
    BY <2>1 DEF Shape
<1>4. Shape(t)
  BY <1>2, <1>3 DEF Shape
<1>5. /\ HereOf(t) = IF k = 0 THEN "none" ELSE s[k].at
      /\ HereOf(t) \notin TopOnly
  <2>1. CASE k = 0
    <3>1. t = <<>>
      BY <1>2, <2>1, EmptySeq
    <3> QED
      BY <2>1, <3>1 DEF HereOf, TopOnly
  <2>2. CASE k # 0
    <3>1. t # <<>> /\ k \in 1 .. k
      BY <1>2, <2>2, EmptySeq
    <3>2. HereOf(t) = t[k].at /\ t[k] = s[k]
      BY <1>2, <3>1 DEF HereOf, Last
    <3> QED
      BY <1>3, <2>2, <3>1, <3>2
  <2> QED
    BY <2>1, <2>2
<1>6. PICK h \in [0 .. Len(s) -> Nat] : IsSum(h, s)
  BY SumExists
<1>7. Due(s) = h[Len(s)]
  <2>1. PICK g : IsSum(g, s) /\ Due(s) = g[Len(s)]
    BY DueIsSum
  <2> QED
    BY <1>1, <1>6, <2>1, SumUnique
<1>8. Due(t) = h[k]
  <2>1. PICK g : IsSum(g, t) /\ Due(t) = g[Len(t)]
    BY <1>2, DueIsSum
  <2>2. h[k] = g[k]
    BY <1>1, <1>2, <1>6, <2>1, SumUnique
  <2> QED
    BY <1>2, <2>1, <2>2
<1>9. h[k] <= h[Len(s)]
  <2> DEFINE S == {m \in Nat : k + m <= Len(s) => h[k] <= h[k + m]}
  <2>1. 0 \in S
    BY <1>1, <1>6
  <2>2. \A m \in Nat : m \in S => m + 1 \in S
    <3> SUFFICES ASSUME NEW m \in Nat, m \in S, k + (m + 1) <= Len(s)
                 PROVE  h[k] <= h[k + (m + 1)]
      OBVIOUS
    <3> DEFINE i == k + (m + 1)
    <3>1. i \in 1 .. Len(s) /\ i \in 0 .. Len(s) /\ i - 1 = k + m /\ i # 0
      BY <1>1
    <3>2. h[k] <= h[i - 1]
      BY <1>1, <3>1
    <3>3. h[i] = h[i - 1] + Firings(s[i])
      BY <1>6, <3>1, Zenon DEF IsSum
    <3>4. Firings(s[i]) \in Nat
      BY <3>1, ElementOfSeq, FiringsType
    <3>5. h[i] \in Nat /\ h[i - 1] \in Nat /\ h[k] \in Nat
      BY <1>1, <1>6, <3>1
    <3> QED
      BY <3>2, <3>3, <3>4, <3>5
  <2> HIDE DEF S
  <2>3. \A m \in Nat : m \in S
    BY <2>1, <2>2, NatSetInduction
  <2>4. Len(s) - k \in Nat /\ k + (Len(s) - k) = Len(s)
    BY <1>1
  <2> QED
    BY <1>1, <2>3, <2>4 DEF S
<1>10. h[k] \in Nat
  BY <1>1, <1>6
<1> QED
  BY <1>2, <1>4, <1>5, <1>7, <1>8, <1>9, <1>10 DEF t

(* What the actions do to the stack. *)
LEMMA PushProps ==
  ASSUME NEW s \in Seq(Frames), Shape(s), HereOf(s) \notin TopOnly,
         NEW f \in Frames, FrameOK(f)
  PROVE  /\ Append(s, f) \in Seq(Frames)
         /\ Shape(Append(s, f))
         /\ Append(s, f) # <<>>
         /\ Last(Append(s, f)) = f
         /\ HereOf(Append(s, f)) = f.at
         /\ Due(Append(s, f)) = Due(s) + Firings(f)
<1> DEFINE t == Append(s, f)
<1>1. /\ t \in Seq(Frames) /\ Len(s) \in Nat /\ Len(t) = Len(s) + 1
      /\ \A k \in 1 .. Len(s) : t[k] = s[k]
      /\ t[Len(s) + 1] = f /\ t # <<>> /\ Last(t) = f
  BY PushTop
<1>2. Due(t) = Due(s) + Firings(f)
  BY DueAppend
<1> HIDE DEF t
<1>3. ASSUME NEW i \in 1 .. Len(t) PROVE FrameOK(t[i]) /\ (t[i].at \in TopOnly => i = Len(t))
  <2>1. CASE i = Len(s) + 1
    BY <1>1, <2>1
  <2>2. CASE i \in 1 .. Len(s)
    <3>1. t[i] = s[i] /\ FrameOK(s[i]) /\ (s[i].at \in TopOnly => i = Len(s))
      BY <1>1, <2>2 DEF Shape
    <3>2. s # <<>>
      BY <2>2, EmptySeq
    <3>3. s[Len(s)].at \notin TopOnly
      BY <3>2 DEF HereOf, Last
    <3> QED
      BY <3>1, <3>3
  <2> QED
    BY <1>1, <2>1, <2>2
<1> QED
  BY <1>1, <1>2, <1>3 DEF Shape, HereOf, t

LEMMA PopProps ==
  ASSUME NEW s \in Seq(Frames), Shape(s), s # <<>>
  PROVE  /\ Front(s) \in Seq(Frames)
         /\ Shape(Front(s))
         /\ HereOf(Front(s)) \notin TopOnly
         /\ Last(s) \in Frames /\ FrameOK(Last(s))
         /\ Due(s) = Due(Front(s)) + Firings(Last(s))
<1> DEFINE t == Front(s)
<1>1. /\ t \in Seq(Frames) /\ Last(s) \in Frames /\ Len(s) \in Nat \ {0}
      /\ Len(t) = Len(s) - 1
      /\ \A k \in 1 .. Len(s) - 1 : t[k] = s[k]
  BY FrontLast
<1>2. s = Append(t, Last(s)) /\ s[Len(s)] = Last(s)
  BY TopAndRest
<1> HIDE DEF t
<1>3. Due(s) = Due(t) + Firings(Last(s))
  BY <1>1, <1>2, DueAppend
<1>4. FrameOK(Last(s))
  BY <1>1, <1>2 DEF Shape
<1>5. \A i \in 1 .. Len(t) : t[i] = s[i] /\ FrameOK(s[i]) /\ s[i].at \notin TopOnly
  BY <1>1 DEF Shape
<1>6. Shape(t)
  BY <1>5 DEF Shape
<1>7. HereOf(t) \notin TopOnly
  <2>1. CASE t = <<>>
    BY <2>1 DEF HereOf, TopOnly
  <2>2. CASE t # <<>>
    <3>1. Len(t) \in 1 .. Len(t)
      BY <1>1, <2>2, EmptySeq
    <3> QED
      BY <1>5, <2>2, <3>1 DEF HereOf, Last
  <2> QED
    BY <2>1, <2>2
<1> QED
  BY <1>1, <1>3, <1>4, <1>6, <1>7 DEF t

LEMMA BecomeProps ==
  ASSUME NEW s \in Seq(Frames), Shape(s), s # <<>>, NEW f \in Frames, FrameOK(f)
  PROVE  /\ Append(Front(s), f) \in Seq(Frames)
         /\ Shape(Append(Front(s), f))
         /\ Append(Front(s), f) # <<>>
         /\ Last(Append(Front(s), f)) = f
         /\ HereOf(Append(Front(s), f)) = f.at
         /\ Due(Append(Front(s), f)) + Firings(Last(s)) = Due(s) + Firings(f)
<1>1. /\ Front(s) \in Seq(Frames) /\ Shape(Front(s)) /\ HereOf(Front(s)) \notin TopOnly
      /\ Due(s) = Due(Front(s)) + Firings(Last(s)) /\ Last(s) \in Frames
  BY PopProps
<1> DEFINE b == Front(s)
<1>2. /\ Append(b, f) \in Seq(Frames) /\ Shape(Append(b, f)) /\ Append(b, f) # <<>>
      /\ Last(Append(b, f)) = f /\ HereOf(Append(b, f)) = f.at
      /\ Due(Append(b, f)) = Due(b) + Firings(f)
  BY <1>1, PushProps
<1>3. Due(b) \in Nat /\ Firings(f) \in Nat /\ Firings(Last(s)) \in Nat
  BY <1>1, DueType, FiringsType
<1> HIDE DEF b
<1>4. Due(Append(b, f)) + Firings(Last(s)) = Due(s) + Firings(f)
  BY <1>1, <1>2, <1>3 DEF b
<1> QED
  BY <1>2, <1>4 DEF b

-----------------------------------------------------------------------------
(* Counting children.                                                       *)

LEMMA SubsetCard ==
  /\ Cardinality(Children) \in Nat
  /\ \A S \in SUBSET Children :
       /\ IsFiniteSet(S) /\ Cardinality(S) \in Nat
       /\ Cardinality(S) <= Cardinality(Children)
       /\ Cardinality(S) > 0 => Children # {}
<1>1. Cardinality(Children) \in Nat
  BY FS_CardinalityType
<1>2. ASSUME NEW S \in SUBSET Children
      PROVE  /\ IsFiniteSet(S) /\ Cardinality(S) \in Nat
             /\ Cardinality(S) <= Cardinality(Children)
             /\ Cardinality(S) > 0 => Children # {}
  <2>1. IsFiniteSet(S) /\ Cardinality(S) <= Cardinality(Children)
    BY FS_Subset
  <2>2. Cardinality(S) \in Nat
    BY <2>1, FS_CardinalityType
  <2>3. S = {} => Cardinality(S) = 0
    BY FS_EmptySet
  <2> QED
    BY <2>1, <2>2, <2>3
<1> QED
  BY <1>1, <1>2

LEMMA CountTypes ==
  /\ Cardinality(Reaped) \in Nat /\ Cardinality(Reaped) <= Cardinality(Children)
  /\ Cardinality(Exited) \in Nat /\ Cardinality(Exited) <= Cardinality(Children)
  /\ Cardinality(Zombies) \in Nat /\ Cardinality(Zombies) <= Cardinality(Children)
<1>1. /\ Reaped \in SUBSET Children /\ Exited \in SUBSET Children /\ Zombies \in SUBSET Children
  BY DEF Reaped, Exited, Zombies
<1> QED
  BY <1>1, SubsetCard

(* What the invariant says of the counters. *)
LEMMA Bounds ==
  ASSUME IInv
  PROVE  /\ pending_traps \in 0 .. Cardinality(Children)
         /\ owed \in 0 .. Cardinality(Children)
         /\ fired \in 0 .. Cardinality(Children)
         /\ missed \in 0 .. Cardinality(Children)
         /\ dropped \in 0 .. Cardinality(Children)
         /\ sigchld \in 0 .. Cardinality(Children)
         /\ Due(stack) \in Nat
<1>1. Due(stack) \in Nat
  BY DueType DEF IInv, CoreType
<1>2. {sigchld, pending_traps, owed, fired, missed, dropped} \subseteq Nat
  BY DEF IInv, CoreType
<1> QED
  BY <1>1, <1>2, CountTypes, SubsetCard DEF IInv, CountInv

(* waitpid: the zombies of R become reaped children. *)
LEMMA ReapCount ==
  ASSUME CoreType, NEW R \in SUBSET Zombies,
         child' = [c \in Children |-> IF c \in R THEN "reaped" ELSE child[c]]
  PROVE  /\ child' \in [Children -> {"unborn", "running", "zombie", "reaped"}]
         /\ Cardinality(Reaped') = Cardinality(Reaped) + Cardinality(R)
         /\ Exited' = Exited
         /\ R \in SUBSET Children
<1>1. R \in SUBSET Children /\ Reaped \in SUBSET Children
  BY DEF Zombies, Reaped
<1>2. child' \in [Children -> {"unborn", "running", "zombie", "reaped"}]
  BY DEF CoreType
<1>3. Reaped' = Reaped \cup R /\ Reaped \cap R = {}
  BY DEF Reaped, Zombies
<1>4. Exited' = Exited
  BY DEF Exited, Zombies
<1>5. Cardinality(Reaped \cup R) = Cardinality(Reaped) + Cardinality(R) - Cardinality(Reaped \cap R)
  BY <1>1, SubsetCard, FS_Union
<1>6. /\ Cardinality(Reaped \cap R) = 0 /\ Cardinality(Reaped) \in Nat
      /\ Cardinality(R) \in Nat
  BY <1>1, <1>3, SubsetCard, FS_EmptySet
<1>7. Cardinality(Reaped') = Cardinality(Reaped) + Cardinality(R)
  BY <1>3, <1>5, <1>6
<1> QED
  BY <1>1, <1>2, <1>4, <1>7

LEMMA MaxPair ==
  ASSUME NEW a \in Int
  PROVE  Max({0, a}) = IF a >= 0 THEN a ELSE 0
  BY DEF Max

(* A waitchld that reaps them all leaves fewer SIGCHLDs outstanding. *)
LEMMA AfterAllProps ==
  ASSUME NEW chld \in Nat
  PROVE  AfterAll(chld) \in Nat /\ (chld > 0 => AfterAll(chld) < chld) /\ AfterAll(chld) <= chld
<1> DEFINE z == Cardinality(Zombies)
<1>1. z \in Nat
  BY CountTypes
<1> HIDE DEF z
<1>2. AfterAll(chld) = Max({0, chld - z - 1})
  BY DEF AfterAll, z
<1>3. Max({0, chld - z - 1}) = IF chld - z - 1 >= 0 THEN chld - z - 1 ELSE 0
  BY <1>1, MaxPair
<1> QED
  BY <1>1, <1>2, <1>3

Ats == {"wait", "spawn", "queue", "reap", "notify", "handler", "read", "clear"} \union TrapAts

LEMMA FrameProps ==
  \A at \in Ats :
    /\ Frame(at) \in Frames /\ Frame(at).at = at /\ Frame(at).n = 0
    /\ at \notin {"save", "swap"} => FrameOK(Frame(at))
    /\ Firings(Frame(at)) = 0
<1>1. 0 \in 0 .. Cardinality(Children) + 1
  BY SubsetCard
<1> QED
  BY <1>1 DEF Frame, Frames, Ats, FrameOK, Firings

-----------------------------------------------------------------------------
(* waitchld.                                                                *)

Runs(R, chld) == Cardinality(R) > 0 /\ Counts /\ Direct(chld)

Settled == fired + missed + dropped + pending_traps + Due(stack)

(* The trap that waitchld runs on top of s. *)
LEMMA RunProps ==
  ASSUME CoreType, NEW R \in SUBSET Children, Cardinality(R) > 0,
         NEW s \in Seq(Frames), Shape(s), HereOf(s) \notin TopOnly
  PROVE  LET t == s \o RunDeferred \o <<[Frame("save") EXCEPT !.n = Cardinality(R), !.was = in_wait]>>
         IN /\ t \in Seq(Frames) /\ Shape(t)
            /\ HereOf(t) = "save"
            /\ Due(t) = Due(s) + Cardinality(R)
<1> DEFINE r == [Frame("read") EXCEPT !.direct = TRUE]
           v == [Frame("save") EXCEPT !.n = Cardinality(R), !.was = in_wait]
           u == Append(s, r)
<1>1. Cardinality(R) \in 0 .. Cardinality(Children) + 1 /\ Cardinality(R) \in Nat
  BY SubsetCard
<1>2. 0 \in 0 .. Cardinality(Children) + 1
  BY SubsetCard
<1>3. r \in Frames /\ FrameOK(r) /\ r.at = "read" /\ Firings(r) = 0
  BY <1>2 DEF Frame, Frames, FrameOK, Firings, TrapAts
<1>4. in_wait \in BOOLEAN
  BY DEF CoreType
<1>5. v \in Frames /\ FrameOK(v) /\ v.at = "save" /\ Firings(v) = Cardinality(R)
  BY <1>1, <1>4 DEF Frame, Frames, FrameOK, Firings, TrapAts
<1> HIDE DEF r, v, u
<1>6. /\ u \in Seq(Frames) /\ Shape(u) /\ HereOf(u) = "read" /\ Due(u) = Due(s) + 0
  BY <1>3, PushProps DEF u
<1>7. HereOf(u) \notin TopOnly
  BY <1>6 DEF TopOnly
<1>8. /\ Append(u, v) \in Seq(Frames) /\ Shape(Append(u, v)) /\ HereOf(Append(u, v)) = "save"
      /\ Due(Append(u, v)) = Due(u) + Cardinality(R)
  BY <1>5, <1>6, <1>7, PushProps
<1>9. s \o <<r>> \o <<v>> = Append(u, v)
  BY <1>3, <1>5, <1>6, AppendIsConcat DEF u
<1>10. Due(s) \in Nat
  BY DueType
<1>11. Due(Append(u, v)) = Due(s) + Cardinality(R)
  BY <1>6, <1>8, <1>10
<1> QED
  BY <1>8, <1>9, <1>11 DEF RunDeferred, r, v

LEMMA WaitChldProps ==
  ASSUME CoreType, CountInv, NEW R \in SUBSET Zombies, NEW chld, NEW s \in Seq(Frames),
         Shape(s), Due(s) = Due(stack), Runs(R, chld) => HereOf(s) \notin TopOnly,
         WaitChld(R, chld, s)
  PROVE  /\ child' \in [Children -> {"unborn", "running", "zombie", "reaped"}]
         /\ stack' \in Seq(Frames) /\ Shape(stack')
         /\ ~ Runs(R, chld) => stack' = s
         /\ Runs(R, chld) => HereOf(stack') = "save" /\ Children # {}
         /\ {pending_traps', owed', missed', fired', dropped'} \subseteq Nat
         /\ catch_flag' \in BOOLEAN /\ left' \in BOOLEAN
         /\ owed' <= Cardinality(Reaped')
         /\ Settled' <= Cardinality(Reaped')
         /\ Exited' = Exited
         /\ (installed \/ ~ Counts) => owed' + Settled = owed + Settled'
<1> DEFINE n == Cardinality(R)
<1>1. R \in SUBSET Children
  BY DEF Zombies
<1>2. n \in Nat /\ (n > 0 => Children # {})
  BY <1>1, SubsetCard
<1>3. /\ child' \in [Children -> {"unborn", "running", "zombie", "reaped"}]
      /\ Cardinality(Reaped') = Cardinality(Reaped) + n
      /\ Exited' = Exited
  BY ReapCount DEF WaitChld
<1>4. /\ Cardinality(Reaped) \in Nat /\ Due(stack) \in Nat
      /\ pending_traps \in Nat /\ owed \in Nat /\ missed \in Nat /\ fired \in Nat
      /\ dropped \in Nat /\ left \in BOOLEAN /\ catch_flag \in BOOLEAN /\ installed \in BOOLEAN
      /\ owed <= Cardinality(Reaped) /\ Settled <= Cardinality(Reaped)
  BY CountTypes, DueType DEF CoreType, CountInv, Settled
<1>5. /\ owed' = IF installed THEN owed + n ELSE owed
      /\ missed' = IF installed /\ ~Counts THEN missed + n ELSE missed
      /\ pending_traps' = IF n > 0 /\ Counts /\ ~ Direct(chld) THEN pending_traps + n
                                                               ELSE pending_traps
      /\ catch_flag' = (catch_flag \/ (n > 0 /\ Counts /\ ~ Direct(chld)))
      /\ fired' = fired /\ dropped' = dropped /\ left' = left
  BY DEF WaitChld, left_behind
<1>6. /\ stack' \in Seq(Frames) /\ Shape(stack')
      /\ ~ Runs(R, chld) => stack' = s
      /\ Runs(R, chld) => HereOf(stack') = "save" /\ Children # {}
      /\ Due(stack') = IF Runs(R, chld) THEN Due(stack) + n ELSE Due(stack)
  <2>1. CASE Runs(R, chld)
    <3>1. stack' = s \o RunDeferred \o <<[Frame("save") EXCEPT !.n = n, !.was = in_wait]>>
      BY <2>1 DEF WaitChld, Runs
    <3>2. n > 0
      BY <2>1 DEF Runs
    <3> QED
      BY <1>1, <1>2, <2>1, <3>1, <3>2, RunProps
  <2>2. CASE ~ Runs(R, chld)
    BY <2>2 DEF WaitChld, Runs
  <2> QED
    BY <2>1, <2>2
<1>7. \/ /\ Counts /\ n > 0 /\ missed' = missed
         /\ \/ pending_traps' = pending_traps + n /\ Due(stack') = Due(stack)
            \/ pending_traps' = pending_traps /\ Due(stack') = Due(stack) + n
      \/ /\ ~ Counts /\ missed' = (IF installed THEN missed + n ELSE missed)
         /\ pending_traps' = pending_traps /\ Due(stack') = Due(stack)
      \/ /\ n = 0 /\ missed' = missed /\ pending_traps' = pending_traps
         /\ Due(stack') = Due(stack)
  BY <1>2, <1>4, <1>5, <1>6 DEF Runs
<1>8. {pending_traps', owed', missed', fired', dropped'} \subseteq Nat /\ Due(stack') \in Nat
  <2> DEFINE d == Due(stack)
             e == Due(stack)'
  <2>1. d \in Nat /\ n \in Nat /\ (e = d \/ e = d + n)
    BY <1>2, <1>4, <1>7
  <2> HIDE DEF d, e, n
  <2>2. e \in Nat
    BY <2>1
  <2>3. owed' \in Nat
    BY <1>4, <1>5, <2>1
  <2>4. missed' \in Nat
    BY <1>4, <1>5, <2>1
  <2>5. pending_traps' \in Nat
    BY <1>4, <1>5, <2>1
  <2>6. fired' \in Nat /\ dropped' \in Nat
    BY <1>4, <1>5
  <2> QED
    BY <2>2, <2>3, <2>4, <2>5, <2>6 DEF e
<1>9. /\ owed' <= Cardinality(Reaped') /\ Settled' <= Cardinality(Reaped')
      /\ (installed \/ ~ Counts) => owed' + Settled = owed + Settled'
  <2> DEFINE d == Due(stack)
             e == Due(stack)'
             k == Cardinality(Reaped)
             m == Cardinality(Reaped)'
  <2>1. /\ Settled = fired + missed + dropped + pending_traps + d
        /\ Settled' = fired' + missed' + dropped' + pending_traps' + e
    BY DEF Settled
  <2>2. d \in Nat /\ e \in Nat /\ k \in Nat /\ m = k + n
    BY <1>3, <1>4, <1>8
  <2> HIDE DEF d, e, k, m, n
  <2>3. \/ Counts /\ Settled' = Settled + n
        \/ ~ Counts /\ Settled' = (IF installed THEN Settled + n ELSE Settled)
        \/ n = 0 /\ Settled' = Settled
    <3>1. \/ /\ Counts /\ missed' = missed
             /\ \/ pending_traps' = pending_traps + n /\ e = d
                \/ pending_traps' = pending_traps /\ e = d + n
          \/ /\ ~ Counts /\ missed' = (IF installed THEN missed + n ELSE missed)
             /\ pending_traps' = pending_traps /\ e = d
          \/ n = 0 /\ missed' = missed /\ pending_traps' = pending_traps /\ e = d
      BY <1>7 DEF d, e, n
    <3>2. /\ n \in Nat /\ pending_traps \in Nat /\ missed \in Nat /\ fired \in Nat
          /\ dropped \in Nat
      BY <1>2, <1>4
    <3>3. fired' = fired /\ dropped' = dropped
      BY <1>5
    <3>4. /\ Settled = fired + missed + dropped + pending_traps + d
          /\ Settled' = fired + missed' + dropped + pending_traps' + e
      BY <2>1, <3>3
    <3>5. CASE Counts /\ missed' = missed
      <4>1. \/ pending_traps' = pending_traps + n /\ e = d
            \/ pending_traps' = pending_traps /\ e = d + n
            \/ n = 0 /\ pending_traps' = pending_traps /\ e = d
        BY <3>1, <3>5
      <4>2. Settled' = Settled + n
        BY <2>2, <3>2, <3>4, <3>5, <4>1
      <4> QED
        BY <3>5, <4>2
    <3>6. CASE /\ ~ Counts /\ missed' = (IF installed THEN missed + n ELSE missed)
               /\ pending_traps' = pending_traps /\ e = d
      BY <2>2, <3>2, <3>4, <3>6
    <3>7. CASE n = 0 /\ missed' = missed /\ pending_traps' = pending_traps /\ e = d
      BY <3>4, <3>7
    <3> QED
      BY <3>1, <3>5, <3>6, <3>7
  <2>4. Settled \in Nat
    BY <1>4, <2>1, <2>2
  <2>5. owed <= k /\ Settled <= k /\ owed' = (IF installed THEN owed + n ELSE owed)
    BY <1>4, <1>5 DEF k, n
  <2>6. owed' <= m /\ Settled' <= m
    BY <1>2, <1>4, <2>2, <2>3, <2>4, <2>5
  <2>7. (installed \/ ~ Counts) => owed' + Settled = owed + Settled'
    BY <1>2, <1>4, <2>3, <2>4, <2>5
  <2> QED
    BY <2>6, <2>7 DEF m
<1>10. catch_flag' \in BOOLEAN /\ left' \in BOOLEAN
  BY <1>4, <1>5
<1> QED
  BY <1>3, <1>6, <1>8, <1>9, <1>10

-----------------------------------------------------------------------------
(* Every action preserves the invariant and the account.                    *)

(* What a step adds to the children owed a firing, it adds to those settled. *)
Kept == (installed \/ ~ Counts) => owed' + Settled = owed + Settled'

LEMMA AtProps ==
  ASSUME NEW a, At(a)
  PROVE  stack # <<>> /\ Here = a /\ Top = Last(stack) /\ Top.at = a
  BY DEF At, Here, HereOf, Top

LEMMA BetweenProps ==
  ASSUME BetweenCommands
  PROVE  Here \in {"none", "body"} /\ Here \notin TopOnly
  BY DEF BetweenCommands, At, Here, HereOf, Top, TopOnly

LEMMA SettledType ==
  ASSUME IInv
  PROVE  Settled \in Nat /\ owed \in Nat /\ Due(stack) \in Nat
<1>1. fired \in Nat /\ missed \in Nat /\ dropped \in Nat /\ pending_traps \in Nat /\ owed \in Nat
  BY DEF IInv, CoreType
<1>2. Due(stack) \in Nat
  BY DueType DEF IInv, CoreType
<1> QED
  BY <1>1, <1>2 DEF Settled

(* A step that neither reaps nor settles anything. *)
LEMMA SameCounts ==
  ASSUME IInv, UNCHANGED <<child, signalled, sigchld, owed>>, Settled' = Settled
  PROVE  CountInv' /\ Kept
<1>1. Reaped' = Reaped /\ Exited' = Exited
  BY DEF Reaped, Exited
<1>2. Settled' <= Cardinality(Reaped)
  BY DEF IInv, CountInv, Settled
<1>3. CountInv'
  BY <1>1, <1>2 DEF IInv, CountInv, Settled
<1> QED
  BY <1>3, SettledType DEF Kept

(* After it the shell is somewhere frames may be pushed. *)
LEMMA QuietTop ==
  ASSUME HereOf(stack') \notin TopOnly, queue_sigchld' \in 0 .. IF Children = {} THEN 0 ELSE 1
  PROVE  TopInv' /\ QueueInv'
<1>1. Here' \notin TopOnly
  BY DEF Here
<1> QED
  BY <1>1 DEF TopInv, QueueInv, TopOnly

LEMMA InitIInv == Init => IInv
<1> SUFFICES ASSUME Init PROVE IInv
  OBVIOUS
<1>1. stack \in Seq(Frames) /\ Len(stack) = 0 /\ Due(stack) = 0 /\ Here = "none"
  BY EmptySeq, DueEmpty DEF Init, Here, HereOf
<1>2. CoreType
  <2>1. child \in [Children -> {"unborn", "running", "zombie", "reaped"}]
    BY DEF Init
  <2>2. {signalled, blocked, catch_flag, running_trap, trapped, in_progress, in_wait, installed,
         left} \subseteq BOOLEAN
    BY DEF Init
  <2>3. {sigchld, queue_sigchld, pending_traps, owed, fired, missed, dropped} \subseteq Nat
    BY DEF Init
  <2> QED
    BY <1>1, <2>1, <2>2, <2>3 DEF Init, CoreType, Traps
<1>3. Shape(stack)
  BY <1>1 DEF Shape
<1>4. TopInv /\ QueueInv
  BY <1>1 DEF Init, TopInv, QueueInv
<1>5. CountInv
  BY <1>1, CountTypes DEF Init, CountInv
<1> QED
  BY <1>2, <1>3, <1>4, <1>5 DEF IInv

LEMMA ChildExitsIInv == ASSUME IInv, ChildExits PROVE IInv' /\ Kept
<1>1. PICK c \in Children : child[c] = "running" /\ child' = [child EXCEPT ![c] = "zombie"]
  BY DEF ChildExits
<1>2. /\ signalled' = TRUE
      /\ UNCHANGED <<blocked, sigchld, queue_sigchld, stack, traps, in_wait, history>>
  BY DEF ChildExits
<1>3. Here' = Here /\ Top' = Top /\ Due(stack') = Due(stack)
  BY <1>2 DEF Here, HereOf, Top
<1>4. CoreType'
  BY <1>1, <1>2 DEF IInv, CoreType, traps, history, counters, left_behind
<1>5. Shape(stack')
  BY <1>2 DEF IInv
<1>6. TopInv'
  <2>1. Here = "spawn" => child'[Top.pid] \in {"running", "zombie"}
    BY <1>1 DEF IInv, TopInv, CoreType
  <2> QED
    BY <1>2, <1>3, <2>1 DEF IInv, TopInv, traps
<1>7. QueueInv'
  BY <1>2, <1>3 DEF IInv, QueueInv
<1>8. CountInv'
  <2>1. Reaped' = Reaped /\ Exited' = Exited \cup {c} /\ c \notin Exited
    BY <1>1 DEF IInv, CoreType, Reaped, Exited
  <2>2. IsFiniteSet(Exited) /\ Cardinality(Exited) \in Nat
    BY SubsetCard DEF Exited
  <2>3. Cardinality(Exited') = Cardinality(Exited) + 1
    BY <2>1, <2>2, FS_AddElement
  <2>4. sigchld \in Nat /\ sigchld <= Cardinality(Exited)
    BY <2>2 DEF IInv, CoreType, CountInv
  <2>5. sigchld' + (IF signalled' THEN 1 ELSE 0) <= Cardinality(Exited')
    BY <1>2, <2>2, <2>3, <2>4
  <2> QED
    BY <1>2, <1>3, <2>1, <2>5 DEF IInv, CountInv, traps, history, counters, left_behind
<1>9. Kept
  BY <1>2, <1>3, SettledType DEF Kept, Settled, traps, history, counters, left_behind
<1> QED
  BY <1>4, <1>5, <1>6, <1>7, <1>8, <1>9 DEF IInv

(* The handler finds the shell where the trap may be run on top of it, or    *)
(* nothing to run.                                                          *)
LEMMA HandlerReapsIInv == ASSUME IInv, HandlerReaps PROVE IInv' /\ Kept
<1> DEFINE chld == AfterAll(sigchld + 1)
           run == Runs(Zombies, chld)
           s == IF run THEN Append(stack, Frame("handler")) ELSE stack
<1>1. ~ blocked /\ queue_sigchld = 0 /\ signalled' = FALSE /\ queue_sigchld' = 0
  BY DEF HandlerReaps
<1>2. Here \notin {"spawn", "clear", "queue", "notify", "reap"}
  BY <1>1 DEF IInv, TopInv, QueueInv
<1>3. run => Here \notin TopOnly
  BY <1>2 DEF Runs, Counts, IInv, TopInv, TopOnly
<1>4. sigchld \in Nat /\ chld \in Nat /\ chld <= sigchld
  <2>1. sigchld \in Nat /\ sigchld + 1 \in Nat /\ sigchld + 1 > 0
    BY DEF IInv, CoreType
  <2> QED
    BY <2>1, AfterAllProps
<1>5. Zombies # {} <=> Cardinality(Zombies) > 0
  <2>1. IsFiniteSet(Zombies) /\ Cardinality(Zombies) \in Nat
    BY SubsetCard DEF Zombies
  <2> QED
    BY <2>1, FS_EmptySet
<1>6. WaitChld(Zombies, chld, s)
  BY <1>5 DEF HandlerReaps, Runs
<1>6a. blocked' \in BOOLEAN
  BY DEF HandlerReaps
<1>7. /\ s \in Seq(Frames) /\ Shape(s) /\ Due(s) = Due(stack)
      /\ run => HereOf(s) \notin TopOnly
  <2>1. CASE run
    <3>1. /\ Frame("handler") \in Frames /\ FrameOK(Frame("handler"))
          /\ Frame("handler").at = "handler" /\ Firings(Frame("handler")) = 0
      BY FrameProps DEF Ats
    <3>2. /\ s \in Seq(Frames) /\ Shape(s) /\ HereOf(s) = "handler"
          /\ Due(s) = Due(stack) + 0
      BY <1>3, <2>1, <3>1, PushProps DEF IInv, CoreType, Here
    <3> QED
      BY <3>2, SettledType DEF TopOnly
  <2>2. CASE ~ run
    BY <2>2 DEF IInv, CoreType
  <2> QED
    BY <2>1, <2>2
<1> HIDE DEF s, run, chld
<1>8. /\ child' \in [Children -> {"unborn", "running", "zombie", "reaped"}]
      /\ stack' \in Seq(Frames) /\ Shape(stack')
      /\ ~ run => stack' = s
      /\ run => HereOf(stack') = "save" /\ Children # {}
      /\ {pending_traps', owed', missed', fired', dropped'} \subseteq Nat
      /\ catch_flag' \in BOOLEAN
      /\ owed' <= Cardinality(Reaped')
      /\ Settled' <= Cardinality(Reaped')
      /\ Exited' = Exited
      /\ Kept
  BY <1>6, <1>7, WaitChldProps DEF IInv, run, Kept
<1>9. /\ sigchld' = chld
      /\ UNCHANGED <<running_trap, trap_list, trapped, in_progress, in_wait, installed, fired,
                  left>>
  BY <1>6 DEF WaitChld, left_behind
<1>10. CoreType'
  BY <1>1, <1>4, <1>6a, <1>8, <1>9 DEF IInv, CoreType
<1>11. TopInv' /\ QueueInv'
  <2>1. CASE run
    BY <1>1, <1>8, <2>1, QuietTop DEF TopOnly
  <2>2. CASE ~ run
    <3>1. Here' = Here
      BY <1>8, <2>2 DEF s, Here
    <3> QED
      BY <1>1, <1>2, <1>9, <3>1 DEF IInv, TopInv, QueueInv
  <2> QED
    BY <2>1, <2>2
<1>12. CountInv'
  <2>1. sigchld <= Cardinality(Exited) /\ Cardinality(Exited) \in Nat
    BY <1>4, CountTypes DEF IInv, CountInv
  <2>2. sigchld' + (IF signalled' THEN 1 ELSE 0) <= Cardinality(Exited')
    BY <1>1, <1>4, <1>8, <1>9, <2>1
  <2> QED
    BY <1>8, <2>2 DEF CountInv, Settled
<1> QED
  BY <1>8, <1>10, <1>11, <1>12 DEF IInv

LEMMA HandlerQueuesIInv == ASSUME IInv, HandlerQueues PROVE IInv' /\ Kept
<1>1. /\ signalled /\ signalled' = FALSE /\ sigchld' = sigchld + 1
      /\ UNCHANGED <<blocked, queue_sigchld, child, stack, traps, in_wait, history>>
  BY DEF HandlerQueues
<1>2. /\ Here' = Here /\ Top' = Top /\ Settled' = Settled
      /\ Reaped' = Reaped /\ Exited' = Exited
  BY <1>1 DEF Here, Top, Settled, Reaped, Exited, traps, history, counters, left_behind
<1>3. CoreType'
  <2>1. sigchld' \in Nat
    BY <1>1 DEF IInv, CoreType
  <2> QED
    BY <1>1, <2>1 DEF IInv, CoreType, traps, history, counters, left_behind
<1>4. Shape(stack') /\ TopInv' /\ QueueInv'
  BY <1>1, <1>2 DEF IInv, TopInv, QueueInv, traps
<1>5. CountInv'
  <2>1. sigchld \in Nat /\ sigchld + 1 <= Cardinality(Exited)
    BY <1>1 DEF IInv, CoreType, CountInv
  <2> QED
    BY <1>1, <1>2, <2>1 DEF IInv, CountInv, Settled, traps, history, counters, left_behind
<1>6. Kept
  BY <1>1, <1>2, SettledType DEF Kept, history, counters, left_behind
<1> QED
  BY <1>3, <1>4, <1>5, <1>6 DEF IInv

(* A frame that owes nothing is left. *)
LEMMA PopQuiet ==
  ASSUME IInv, stack # <<>>, Top.at \notin TrapAts \/ Top.n = 0, Pop
  PROVE  /\ stack' \in Seq(Frames) /\ Shape(stack') /\ HereOf(stack') \notin TopOnly
         /\ Due(stack') = Due(stack) /\ Top \in Frames
<1>1. /\ stack' \in Seq(Frames) /\ Shape(stack') /\ HereOf(stack') \notin TopOnly
      /\ Due(stack) = Due(stack') + Firings(Top) /\ Top \in Frames
  BY PopProps DEF IInv, CoreType, Pop, Top
<1>2. Firings(Top) = 0
  BY DEF Firings
<1>3. Due(stack') \in Nat
  BY <1>1, DueType
<1> QED
  BY <1>1, <1>2, <1>3

LEMMA HandlerReturnsIInv == ASSUME IInv, HandlerReturns PROVE IInv' /\ Kept
<1>1. /\ Pop /\ blocked' = FALSE
      /\ UNCHANGED <<signalled, sigchld, queue_sigchld, child, traps, in_wait, history>>
  BY DEF HandlerReturns
<1>2. stack # <<>> /\ Here = "handler" /\ Top.at = "handler"
  BY AtProps DEF HandlerReturns
<1>3. /\ stack' \in Seq(Frames) /\ Shape(stack') /\ HereOf(stack') \notin TopOnly
      /\ Due(stack') = Due(stack)
  BY <1>1, <1>2, PopQuiet DEF TrapAts
<1>4. TopInv' /\ QueueInv'
  BY <1>1, <1>2, <1>3, QuietTop DEF IInv, QueueInv
<1>5. CountInv' /\ Kept
  BY <1>1, <1>3, SameCounts DEF Settled, traps, history, counters, left_behind
<1>6. CoreType'
  BY <1>1, <1>3 DEF IInv, CoreType, traps, history, counters, left_behind
<1> QED
  BY <1>3, <1>4, <1>5, <1>6 DEF IInv

LEMMA ForkIInv == ASSUME IInv, Fork PROVE IInv' /\ Kept
<1>1. PICK c \in Children : child[c] = "unborn" /\ child' = [child EXCEPT ![c] = "running"]
  BY DEF Fork
<1>2. in_wait' = FALSE /\ UNCHANGED <<signals, stack, traps, history>> /\ BetweenCommands
  BY DEF Fork, MayStart
<1>3. Here' = Here /\ Settled' = Settled
  BY <1>2 DEF Here, Settled, traps, history, counters, left_behind
<1>4. Reaped' = Reaped /\ Exited' = Exited
  BY <1>1 DEF IInv, CoreType, Reaped, Exited
<1>5. CoreType'
  BY <1>1, <1>2 DEF IInv, CoreType, signals, traps, history, counters, left_behind
<1>6. Shape(stack') /\ TopInv' /\ QueueInv'
  <2>1. HereOf(stack') \notin TopOnly
    BY <1>2, <1>3, BetweenProps DEF Here
  <2>2. queue_sigchld' \in 0 .. IF Children = {} THEN 0 ELSE 1
    BY <1>2, BetweenProps DEF IInv, QueueInv, signals
  <2> QED
    BY <1>2, <2>1, <2>2, QuietTop DEF IInv
<1>7. CountInv' /\ Kept
  BY <1>2, <1>3, <1>4, SettledType DEF IInv, CountInv, Settled, Kept, signals, traps, history,
     counters, left_behind
<1> QED
  BY <1>5, <1>6, <1>7 DEF IInv

(* A command puts a frame on the stack. *)
LEMMA PushQuiet ==
  ASSUME IInv, BetweenCommands, NEW f \in Frames, FrameOK(f), f.at \notin TrapAts, Push(f)
  PROVE  /\ stack' \in Seq(Frames) /\ Shape(stack') /\ HereOf(stack') = f.at
         /\ Last(stack') = f /\ Here' = f.at /\ Top' = f
         /\ Due(stack') = Due(stack)
         /\ queue_sigchld \in 0 .. IF Children = {} THEN 0 ELSE 1
<1>1. /\ stack' \in Seq(Frames) /\ Shape(stack') /\ HereOf(stack') = f.at
      /\ Last(stack') = f /\ Due(stack') = Due(stack) + Firings(f)
  BY BetweenProps, PushProps DEF IInv, CoreType, Push, Here
<1>2. Firings(f) = 0
  BY DEF Firings
<1>3. queue_sigchld \in 0 .. IF Children = {} THEN 0 ELSE 1
  BY BetweenProps DEF IInv, QueueInv
<1> QED
  BY <1>1, <1>2, <1>3, SettledType DEF Here, Top

LEMMA WaitIInv == ASSUME IInv, Wait PROVE IInv' /\ Kept
<1>1. PICK c \in Children, builtin \in BOOLEAN :
        /\ Push([Frame("wait") EXCEPT !.pid = c, !.mask = blocked])
        /\ in_wait' = builtin
  BY DEF Wait
<1>2. /\ BetweenCommands /\ blocked' = TRUE
      /\ UNCHANGED <<signalled, sigchld, queue_sigchld, child, traps, history>>
  BY DEF Wait, MayStart
<1> DEFINE f == [Frame("wait") EXCEPT !.pid = c, !.mask = blocked]
<1>3. blocked \in BOOLEAN /\ 0 \in 0 .. Cardinality(Children) + 1
  BY SubsetCard DEF IInv, CoreType
<1>4. f \in Frames /\ FrameOK(f) /\ f.at = "wait" /\ f.at \notin TrapAts
  BY <1>3 DEF Frame, Frames, FrameOK, TrapAts
<1> HIDE DEF f
<1>5. /\ stack' \in Seq(Frames) /\ Shape(stack') /\ HereOf(stack') = "wait"
      /\ Due(stack') = Due(stack)
      /\ queue_sigchld \in 0 .. IF Children = {} THEN 0 ELSE 1
  BY <1>1, <1>2, <1>4, PushQuiet DEF f
<1>6. TopInv' /\ QueueInv'
  BY <1>2, <1>5, QuietTop DEF TopOnly
<1>7. CountInv' /\ Kept
  BY <1>2, <1>5, SameCounts DEF Settled, traps, history, counters, left_behind
<1>8. CoreType'
  BY <1>1, <1>2, <1>5 DEF IInv, CoreType, traps, history, counters, left_behind
<1> QED
  BY <1>5, <1>6, <1>7, <1>8 DEF IInv

LEMMA WaitBlocksIInv == ASSUME IInv, WaitBlocks PROVE IInv' /\ Kept
<1> DEFINE n == Cardinality(Zombies)
           e == [Top EXCEPT !.was = TRUE]
           s == Append(Front(stack), e)
           chld == IF n < sigchld THEN sigchld - n - 1 ELSE 0
<1>1. stack # <<>> /\ Here = "wait" /\ Top.at = "wait" /\ Top = Last(stack)
  BY AtProps DEF WaitBlocks
<1>2. PICK R \in SUBSET Zombies : WaitChld(R, chld, s)
  BY DEF WaitBlocks
<1>3. queue_sigchld' = (IF stack' = s THEN 0 ELSE 1) /\ UNCHANGED <<signalled, blocked>>
  BY DEF WaitBlocks
<1>4. Top \in Frames
  BY <1>1, PopProps DEF IInv, CoreType
<1>5. e \in Frames /\ FrameOK(e) /\ e.at = "wait" /\ Firings(e) = 0 /\ Firings(Top) = 0
  BY <1>1, <1>4 DEF Frames, FrameOK, Firings, TrapAts
<1>6. s \in Seq(Frames) /\ Shape(s) /\ Due(s) = Due(stack) /\ HereOf(s) \notin TopOnly
  <2> HIDE DEF e
  <2>1. s \in Seq(Frames) /\ Shape(s) /\ HereOf(s) = "wait" /\ Due(s) + 0 = Due(stack) + 0
    BY <1>1, <1>5, BecomeProps DEF IInv, CoreType
  <2> HIDE DEF s
  <2>2. Due(s) \in Nat /\ Due(stack) \in Nat
    BY <2>1, DueType, SettledType
  <2>3. HereOf(s) \notin TopOnly
    BY <2>1 DEF TopOnly
  <2> QED
    BY <2>1, <2>2, <2>3
<1>7. n \in Nat /\ sigchld \in Nat /\ chld \in Nat /\ chld <= sigchld
  BY CountTypes DEF IInv, CoreType
<1> HIDE DEF s, chld, n, e
<1>8. /\ child' \in [Children -> {"unborn", "running", "zombie", "reaped"}]
      /\ stack' \in Seq(Frames) /\ Shape(stack')
      /\ ~ Runs(R, chld) => stack' = s
      /\ Runs(R, chld) => HereOf(stack') = "save" /\ Children # {}
      /\ {pending_traps', owed', missed', fired', dropped'} \subseteq Nat
      /\ catch_flag' \in BOOLEAN
      /\ owed' <= Cardinality(Reaped')
      /\ Settled' <= Cardinality(Reaped')
      /\ Exited' = Exited
      /\ Kept
  BY <1>2, <1>6, WaitChldProps DEF IInv, Kept
<1>9. /\ sigchld' = chld
      /\ UNCHANGED <<running_trap, trap_list, trapped, in_progress, in_wait, installed, fired,
                  left>>
  BY <1>2 DEF WaitChld, left_behind
<1>10. queue_sigchld' \in 0 .. IF Children = {} THEN 0 ELSE 1
  BY <1>3, <1>8
<1>11. CoreType'
  BY <1>3, <1>7, <1>8, <1>9, <1>10 DEF IInv, CoreType
<1>12. HereOf(stack') \notin TopOnly
  <2>1. HereOf(stack') = "save" \/ stack' = s
    BY <1>8
  <2> QED
    BY <1>6, <2>1 DEF TopOnly
<1>13. CountInv'
  <2>1. /\ sigchld + (IF signalled THEN 1 ELSE 0) <= Cardinality(Exited)
        /\ Cardinality(Exited) \in Nat
    BY CountTypes DEF IInv, CountInv
  <2>2. sigchld' + (IF signalled' THEN 1 ELSE 0) <= Cardinality(Exited')
    BY <1>3, <1>7, <1>8, <1>9, <2>1
  <2> QED
    BY <1>8, <2>2 DEF CountInv, Settled
<1> QED
  BY <1>8, <1>10, <1>11, <1>12, <1>13, QuietTop DEF IInv

LEMMA WaitReturnsIInv == ASSUME IInv, WaitReturns PROVE IInv' /\ Kept
<1>1. /\ Pop /\ blocked' = Top.mask /\ queue_sigchld' \in {0, queue_sigchld}
      /\ UNCHANGED <<signalled, sigchld, child, traps, in_wait, history>>
  BY DEF WaitReturns, Unmask
<1>2. stack # <<>> /\ Here = "wait" /\ Top.at = "wait"
  BY AtProps DEF WaitReturns
<1>3. /\ stack' \in Seq(Frames) /\ Shape(stack') /\ HereOf(stack') \notin TopOnly
      /\ Due(stack') = Due(stack) /\ Top \in Frames
  BY <1>1, <1>2, PopQuiet DEF TrapAts
<1>4. queue_sigchld' \in 0 .. IF Children = {} THEN 0 ELSE 1
  BY <1>1, <1>2 DEF IInv, QueueInv
<1>5. CountInv' /\ Kept
  BY <1>1, <1>3, SameCounts DEF Settled, traps, history, counters, left_behind
<1>6. CoreType'
  <2>1. Top.mask \in BOOLEAN
    BY <1>3 DEF Frames
  <2> QED
    BY <1>1, <1>3, <1>4, <2>1 DEF IInv, CoreType, traps, history, counters, left_behind
<1> QED
  BY <1>3, <1>4, <1>5, <1>6, QuietTop DEF IInv

LEMMA SpawnIInv == ASSUME IInv, Spawn PROVE IInv' /\ Kept
<1>1. PICK c \in Children :
        /\ child[c] = "unborn" /\ child' = [child EXCEPT ![c] = "running"]
        /\ Push([Frame("spawn") EXCEPT !.pid = c, !.mask = blocked])
  BY DEF Spawn
<1>2. /\ BetweenCommands /\ blocked' = TRUE /\ in_wait' = FALSE
      /\ UNCHANGED <<signalled, sigchld, queue_sigchld, traps, history>>
  BY DEF Spawn, MayStart, SpawnMask
<1> DEFINE f == [Frame("spawn") EXCEPT !.pid = c, !.mask = blocked]
<1>3. blocked \in BOOLEAN /\ 0 \in 0 .. Cardinality(Children) + 1
  BY SubsetCard DEF IInv, CoreType
<1>4. f \in Frames /\ FrameOK(f) /\ f.at = "spawn" /\ f.at \notin TrapAts /\ f.pid = c
  BY <1>3 DEF Frame, Frames, FrameOK, TrapAts
<1> HIDE DEF f
<1>5. /\ stack' \in Seq(Frames) /\ Shape(stack') /\ Here' = "spawn" /\ Top' = f
      /\ Due(stack') = Due(stack)
      /\ queue_sigchld \in 0 .. IF Children = {} THEN 0 ELSE 1
  BY <1>1, <1>2, <1>4, PushQuiet DEF f
<1>6. child' \in [Children -> {"unborn", "running", "zombie", "reaped"}] /\ child'[c] = "running"
  BY <1>1 DEF IInv, CoreType
<1>7. TopInv' /\ QueueInv'
  BY <1>2, <1>4, <1>5, <1>6 DEF TopInv, QueueInv
<1>8. Reaped' = Reaped /\ Exited' = Exited /\ Settled' = Settled
  BY <1>1, <1>2, <1>5 DEF IInv, CoreType, Reaped, Exited, Settled, traps, history,
     counters, left_behind
<1>9. CountInv' /\ Kept
  BY <1>2, <1>8, SettledType DEF IInv, CountInv, Settled, Kept, traps, history, counters,
     left_behind
<1>10. CoreType'
  BY <1>2, <1>5, <1>6 DEF IInv, CoreType, traps, history, counters, left_behind
<1> QED
  BY <1>5, <1>7, <1>9, <1>10 DEF IInv

LEMMA SpawnReturnsIInv == ASSUME IInv, SpawnReturns PROVE IInv' /\ Kept
<1>1. /\ child[Top.pid] = "zombie" /\ child' = [child EXCEPT ![Top.pid] = "reaped"]
      /\ Pop /\ blocked' = Top.mask
      /\ UNCHANGED <<signalled, sigchld, queue_sigchld, traps, in_wait, history>>
  BY DEF SpawnReturns, Unmask
<1>2. stack # <<>> /\ Here = "spawn" /\ Top.at = "spawn"
  BY AtProps DEF SpawnReturns
<1>3. /\ stack' \in Seq(Frames) /\ Shape(stack') /\ HereOf(stack') \notin TopOnly
      /\ Due(stack') = Due(stack) /\ Top \in Frames
  BY <1>1, <1>2, PopQuiet DEF TrapAts
<1>4. queue_sigchld' \in 0 .. IF Children = {} THEN 0 ELSE 1
  BY <1>1, <1>2 DEF IInv, QueueInv
<1>5. /\ Top.pid \in Children /\ Settled' = Settled
      /\ child' \in [Children -> {"unborn", "running", "zombie", "reaped"}]
  BY <1>1, <1>2, <1>3 DEF IInv, TopInv, CoreType, Settled, traps, history, counters, left_behind
<1>6. Reaped' = Reaped \cup {Top.pid} /\ Exited' = Exited /\ Top.pid \notin Reaped
  BY <1>1, <1>5 DEF IInv, CoreType, Reaped, Exited
<1>7. Cardinality(Reaped) \in Nat /\ Cardinality(Reaped') = Cardinality(Reaped) + 1
  <2>1. IsFiniteSet(Reaped) /\ Cardinality(Reaped) \in Nat
    BY SubsetCard DEF Reaped
  <2> QED
    BY <1>6, <2>1, FS_AddElement
<1>8. CountInv'
  <2>1. /\ owed \in Nat /\ owed <= Cardinality(Reaped)
        /\ Settled \in Nat /\ Settled <= Cardinality(Reaped)
    BY SettledType DEF IInv, CountInv, Settled
  <2>2. owed' <= Cardinality(Reaped') /\ Settled' <= Cardinality(Reaped')
    BY <1>1, <1>5, <1>7, <2>1 DEF history, counters, left_behind
  <2> QED
    BY <1>1, <1>6, <2>2 DEF IInv, CountInv, Settled
<1>9. Kept
  BY <1>1, <1>5, SettledType DEF Kept, history, counters, left_behind
<1>10. CoreType'
  <2>1. Top.mask \in BOOLEAN
    BY <1>3 DEF Frames
  <2> QED
    BY <1>1, <1>3, <1>5, <2>1 DEF IInv, CoreType, traps, history, counters, left_behind
<1> QED
  BY <1>3, <1>4, <1>8, <1>9, <1>10, QuietTop DEF IInv

(* QUEUE_SIGCHLD: the sections that defer reaping. *)
LEMMA QueueIInv == ASSUME IInv, Queue \/ Notify PROVE IInv' /\ Kept
<1>1. PICK f \in Frames :
        /\ FrameOK(f) /\ f.at \in {"queue", "notify"} /\ Push(f)
  <2>1. 0 \in 0 .. Cardinality(Children) + 1 /\ sigchld \in 0 .. Cardinality(Children) + 1
    BY SubsetCard, Bounds
  <2>2. CASE Queue
    <3> DEFINE f == [Frame("queue") EXCEPT !.n = sigchld]
    <3>1. f \in Frames /\ FrameOK(f) /\ f.at = "queue"
      BY <2>1 DEF Frame, Frames, FrameOK
    <3>2. Push(f)
      BY <2>2 DEF Queue
    <3> QED
      BY <3>1, <3>2
  <2>3. CASE Notify
    <3>1. Frame("notify") \in Frames /\ FrameOK(Frame("notify")) /\ Frame("notify").at = "notify"
      BY FrameProps DEF Ats
    <3> QED
      BY <2>3, <3>1 DEF Notify
  <2> QED
    BY <2>2, <2>3
<1>2. /\ BetweenCommands /\ queue_sigchld' = queue_sigchld + 1
      /\ UNCHANGED <<signalled, blocked, sigchld, child, traps, in_wait, history>>
  BY DEF Queue, Notify, MayStart
<1>3. /\ stack' \in Seq(Frames) /\ Shape(stack') /\ Here' = f.at
      /\ Due(stack') = Due(stack)
      /\ queue_sigchld \in 0 .. IF Children = {} THEN 0 ELSE 1
  BY <1>1, <1>2, PushQuiet DEF TrapAts
<1>4. TopInv'
  BY <1>1, <1>3 DEF TopInv
<1>5. QueueInv'
  BY <1>1, <1>2, <1>3 DEF QueueInv
<1>6. CountInv' /\ Kept
  BY <1>2, <1>3, SameCounts DEF Settled, traps, history, counters, left_behind
<1>7. CoreType'
  <2>1. queue_sigchld' \in Nat
    BY <1>2, <1>3
  <2> QED
    BY <1>2, <1>3, <2>1 DEF IInv, CoreType, traps, history, counters, left_behind
<1> QED
  BY <1>3, <1>4, <1>5, <1>6, <1>7 DEF IInv

LEMMA NotifyReturnsIInv ==
  ASSUME IInv, Here \in {"queue", "notify"}, stack # <<>>, Pop,
         queue_sigchld' = queue_sigchld - 1,
         UNCHANGED <<signalled, blocked, sigchld, child, traps, in_wait, history>>
  PROVE  IInv' /\ Kept
<1>1. Top.at \in {"queue", "notify"}
  BY DEF Here, HereOf, Top
<1>2. /\ stack' \in Seq(Frames) /\ Shape(stack') /\ HereOf(stack') \notin TopOnly
      /\ Due(stack') = Due(stack)
  BY <1>1, PopQuiet DEF TrapAts
<1>3. queue_sigchld' \in 0 .. IF Children = {} THEN 0 ELSE 1
  BY DEF IInv, QueueInv
<1>4. CountInv' /\ Kept
  BY <1>2, SameCounts DEF Settled, traps, history, counters, left_behind
<1>5. CoreType'
  BY <1>2, <1>3 DEF IInv, CoreType, traps, history, counters, left_behind
<1> QED
  BY <1>2, <1>3, <1>4, <1>5, QuietTop DEF IInv

(* The frame on top changes, and owes as much as before. *)
LEMMA BecomeQuiet ==
  ASSUME IInv, stack # <<>>, NEW f \in Frames, FrameOK(f), Firings(f) = Firings(Top), Become(f)
  PROVE  /\ stack' \in Seq(Frames) /\ Shape(stack') /\ HereOf(stack') = f.at
         /\ Here' = f.at /\ Top' = f /\ Due(stack') = Due(stack)
<1>1. /\ stack' \in Seq(Frames) /\ Shape(stack') /\ HereOf(stack') = f.at /\ Last(stack') = f
      /\ Due(stack') + Firings(Top) = Due(stack) + Firings(f)
  BY BecomeProps DEF IInv, CoreType, Become, Top
<1>2. Due(stack') \in Nat /\ Due(stack) \in Nat /\ Firings(f) \in Nat
  BY <1>1, DueType, SettledType, FiringsType
<1> QED
  BY <1>1, <1>2 DEF Here, Top

LEMMA UnqueueIInv == ASSUME IInv, Unqueue PROVE IInv' /\ Kept
<1>1. stack # <<>> /\ Here = "queue" /\ Top.at = "queue"
  BY AtProps DEF Unqueue
<1>2. UNCHANGED <<signalled, blocked, sigchld, child, traps, in_wait, history>>
  BY DEF Unqueue
<1>3. CASE queue_sigchld = 1 /\ Top.n # sigchld
  <2>1. queue_sigchld' = 1 /\ Become(Frame("reap"))
    BY <1>3 DEF Unqueue
  <2>2. /\ Frame("reap") \in Frames /\ FrameOK(Frame("reap")) /\ Frame("reap").at = "reap"
        /\ Firings(Frame("reap")) = 0 /\ Firings(Top) = 0
    BY <1>1, FrameProps DEF Ats, Firings, TrapAts
  <2>3. /\ stack' \in Seq(Frames) /\ Shape(stack') /\ Here' = "reap" /\ Due(stack') = Due(stack)
    BY <1>1, <2>1, <2>2, BecomeQuiet
  <2>4. TopInv' /\ QueueInv'
    BY <2>1, <2>3 DEF TopInv, QueueInv
  <2>5. CountInv' /\ Kept
    BY <1>2, <2>3, SameCounts DEF Settled, traps, history, counters, left_behind
  <2>6. CoreType'
    BY <1>2, <2>1, <2>3 DEF IInv, CoreType, traps, history, counters, left_behind
  <2> QED
    BY <2>3, <2>4, <2>5, <2>6 DEF IInv
<1>4. CASE ~ (queue_sigchld = 1 /\ Top.n # sigchld)
  <2>1. queue_sigchld' = queue_sigchld - 1 /\ Pop
    BY <1>4 DEF Unqueue
  <2> QED
    BY <1>1, <1>2, <2>1, NotifyReturnsIInv
<1> QED
  BY <1>3, <1>4

LEMMA UnqueueReapsIInv == ASSUME IInv, UnqueueReaps PROVE IInv' /\ Kept
<1> DEFINE chld == AfterAll(sigchld)
           s == Front(stack)
<1>1. stack # <<>> /\ Here = "reap" /\ Top.at = "reap" /\ Top = Last(stack)
  BY AtProps DEF UnqueueReaps
<1>2. WaitChld(Zombies, chld, s) /\ queue_sigchld' = 0 /\ UNCHANGED <<signalled, blocked>>
  BY DEF UnqueueReaps
<1>3. Firings(Top) = 0
  BY <1>1 DEF Firings, TrapAts
<1>4. s \in Seq(Frames) /\ Shape(s) /\ Due(s) = Due(stack) /\ HereOf(s) \notin TopOnly
  <2>1. s \in Seq(Frames) /\ Shape(s) /\ Due(stack) = Due(s) + 0 /\ HereOf(s) \notin TopOnly
    BY <1>1, <1>3, PopProps DEF IInv, CoreType
  <2> HIDE DEF s
  <2>2. Due(s) \in Nat
    BY <2>1, DueType
  <2> QED
    BY <2>1, <2>2
<1>5. sigchld \in Nat /\ chld \in Nat /\ chld <= sigchld
  BY AfterAllProps DEF IInv, CoreType
<1> HIDE DEF s, chld
<1>6. /\ child' \in [Children -> {"unborn", "running", "zombie", "reaped"}]
      /\ stack' \in Seq(Frames) /\ Shape(stack')
      /\ ~ Runs(Zombies, chld) => stack' = s
      /\ Runs(Zombies, chld) => HereOf(stack') = "save" /\ Children # {}
      /\ {pending_traps', owed', missed', fired', dropped'} \subseteq Nat
      /\ catch_flag' \in BOOLEAN
      /\ owed' <= Cardinality(Reaped')
      /\ Settled' <= Cardinality(Reaped')
      /\ Exited' = Exited
      /\ Kept
  BY <1>2, <1>4, WaitChldProps DEF IInv, Kept
<1>7. /\ sigchld' = chld
      /\ UNCHANGED <<running_trap, trap_list, trapped, in_progress, in_wait, installed, fired,
                  left>>
  BY <1>2 DEF WaitChld, left_behind
<1>8. CoreType'
  BY <1>2, <1>5, <1>6, <1>7 DEF IInv, CoreType
<1>9. HereOf(stack') \notin TopOnly
  <2>1. HereOf(stack') = "save" \/ stack' = s
    BY <1>6
  <2> QED
    BY <1>4, <2>1 DEF TopOnly
<1>10. CountInv'
  <2>1. /\ sigchld + (IF signalled THEN 1 ELSE 0) <= Cardinality(Exited)
        /\ Cardinality(Exited) \in Nat
    BY CountTypes DEF IInv, CountInv
  <2>2. sigchld' + (IF signalled' THEN 1 ELSE 0) <= Cardinality(Exited')
    BY <1>2, <1>5, <1>6, <1>7, <2>1
  <2> QED
    BY <1>6, <2>2 DEF CountInv, Settled
<1> QED
  BY <1>2, <1>6, <1>8, <1>9, <1>10, QuietTop DEF IInv

LEMMA SetTrapIInv == ASSUME IInv, SetTrap PROVE IInv' /\ Kept
<1>1. /\ BetweenCommands /\ in_wait' = FALSE
      /\ UNCHANGED <<child, signals, stack, pending_traps, catch_flag, running_trap,
                     in_progress, owed, fired, missed, left_behind>>
  BY DEF SetTrap
<1>2. trap_list' \in Traps /\ trapped' \in BOOLEAN /\ installed' \in BOOLEAN
  BY DEF SetTrap, IInv, CoreType
<1>3. HereOf(stack') \notin TopOnly /\ queue_sigchld' \in 0 .. IF Children = {} THEN 0 ELSE 1
  BY <1>1, BetweenProps DEF IInv, QueueInv, Here, signals
<1>4. CountInv' /\ Kept
  BY <1>1, SameCounts DEF Settled, signals, left_behind
<1>5. CoreType'
  BY <1>1, <1>2 DEF IInv, CoreType, signals, left_behind
<1> QED
  BY <1>1, <1>3, <1>4, <1>5, QuietTop DEF IInv

(* run_pending_traps clears the counter only if there is nothing in it. *)
LEMMA RunPendingTrapsIInv == ASSUME IInv, RunPendingTraps PROVE IInv' /\ Kept
<1> DEFINE start == pending_traps > 0 /\ trap_list # "impossible" /\ ~in_progress
<1>1. /\ BetweenCommands /\ catch_flag' = FALSE
      /\ in_progress' = (in_progress \/ start)
      /\ running_trap' = (IF pending_traps > 0 THEN start ELSE running_trap)
      /\ UNCHANGED <<child, signals, trap_list, trapped, in_wait, history>>
  BY DEF RunPendingTraps
<1>2. pending_traps' = pending_traps
  <2>1. pending_traps' = IF start \/ KeepsFirings THEN pending_traps ELSE 0
    BY DEF RunPendingTraps
  <2>2. pending_traps \in Nat
    BY DEF IInv, CoreType
  <2> QED
    BY <2>1, <2>2 DEF KeepsFirings
<1>3. IF start THEN Push(Frame("read")) ELSE stack' = stack
  BY DEF RunPendingTraps
<1>4. /\ stack' \in Seq(Frames) /\ Shape(stack') /\ HereOf(stack') \notin TopOnly
      /\ Due(stack') = Due(stack)
  <2>1. CASE start
    <3>1. /\ Frame("read") \in Frames /\ FrameOK(Frame("read")) /\ Frame("read").at = "read"
      BY FrameProps DEF Ats
    <3>2. /\ stack' \in Seq(Frames) /\ Shape(stack') /\ HereOf(stack') = "read"
          /\ Due(stack') = Due(stack)
      BY <1>1, <1>3, <2>1, <3>1, PushQuiet DEF TrapAts
    <3> QED
      BY <3>2 DEF TopOnly
  <2>2. CASE ~ start
    BY <1>1, <1>3, <2>2, BetweenProps DEF IInv, CoreType, Here
  <2> QED
    BY <2>1, <2>2
<1>5. queue_sigchld' \in 0 .. IF Children = {} THEN 0 ELSE 1
  BY <1>1, BetweenProps DEF IInv, QueueInv, signals
<1>6. CountInv' /\ Kept
  BY <1>1, <1>2, <1>4, SameCounts DEF Settled, signals, history, counters, left_behind
<1>7. CoreType'
  <2>1. in_progress' \in BOOLEAN /\ running_trap' \in BOOLEAN
    BY <1>1 DEF IInv, CoreType
  <2> QED
    BY <1>1, <1>2, <1>4, <2>1 DEF IInv, CoreType, signals, history, counters, left_behind
<1> QED
  BY <1>4, <1>5, <1>6, <1>7, QuietTop DEF IInv

LEMMA DrainReadIInv == ASSUME IInv, DrainRead PROVE IInv' /\ Kept
<1> DEFINE f == [Top EXCEPT !.at = "clear", !.n = pending_traps, !.mask = blocked]
<1>1. /\ Become(f) /\ blocked' = TRUE
      /\ UNCHANGED <<signalled, sigchld, queue_sigchld, child, traps, in_wait, history>>
  BY DEF DrainRead, DrainMask
<1>2. stack # <<>> /\ Here = "read" /\ Top.at = "read" /\ Top = Last(stack)
  BY AtProps DEF DrainRead
<1>3. Top \in Frames
  BY <1>2, PopProps DEF IInv, CoreType
<1>4. blocked \in BOOLEAN /\ pending_traps \in 0 .. Cardinality(Children) + 1
  BY Bounds, SubsetCard DEF IInv, CoreType
<1>5. /\ f \in Frames /\ FrameOK(f) /\ f.at = "clear" /\ f.n = pending_traps
      /\ Firings(f) = 0 /\ Firings(Top) = 0
  BY <1>2, <1>3, <1>4 DEF Frames, FrameOK, Firings, TrapAts
<1> HIDE DEF f
<1>6. /\ stack' \in Seq(Frames) /\ Shape(stack') /\ Here' = "clear" /\ Top' = f
      /\ Due(stack') = Due(stack)
  BY <1>1, <1>2, <1>5, BecomeQuiet
<1>7. TopInv' /\ QueueInv'
  BY <1>1, <1>2, <1>5, <1>6 DEF IInv, TopInv, QueueInv, traps
<1>8. CountInv' /\ Kept
  BY <1>1, <1>6, SameCounts DEF Settled, traps, history, counters, left_behind
<1>9. CoreType'
  BY <1>1, <1>6 DEF IInv, CoreType, traps, history, counters, left_behind
<1> QED
  BY <1>6, <1>7, <1>8, <1>9 DEF IInv

(* The firings read are the firings cleared: they move to the trap. *)
LEMMA DrainClearIInv == ASSUME IInv, DrainClear PROVE IInv' /\ Kept
<1>1. /\ pending_traps' = 0 /\ blocked' = Top.mask
      /\ UNCHANGED <<signalled, sigchld, queue_sigchld, child, catch_flag, trap_list, trapped,
                     in_wait, history>>
  BY DEF DrainClear, Unmask
<1>2. /\ stack # <<>> /\ Here = "clear" /\ Top.at = "clear" /\ Top = Last(stack)
      /\ Top.n = pending_traps
  BY AtProps DEF DrainClear, IInv, TopInv
<1>3. /\ Top \in Frames /\ Front(stack) \in Seq(Frames) /\ Shape(Front(stack))
      /\ HereOf(Front(stack)) \notin TopOnly
      /\ Due(stack) = Due(Front(stack)) + Firings(Top)
  BY <1>2, PopProps DEF IInv, CoreType
<1>4. Firings(Top) = 0 /\ Top.mask \in BOOLEAN /\ Top.direct \in BOOLEAN /\ Top.n \in Nat
  BY <1>2, <1>3, SubsetCard DEF Firings, TrapAts, Frames
<1>5. queue_sigchld' \in 0 .. IF Children = {} THEN 0 ELSE 1
  BY <1>1, <1>2 DEF IInv, QueueInv
<1>6. Due(Front(stack)) \in Nat /\ Due(stack) = Due(Front(stack))
  BY <1>3, <1>4, DueType
<1>7. /\ stack' \in Seq(Frames) /\ Shape(stack') /\ HereOf(stack') \notin TopOnly
      /\ Due(stack') = Due(stack) + pending_traps
      /\ running_trap' \in BOOLEAN /\ in_progress' \in BOOLEAN
  <2>1. CASE Top.n > 0
    <3> DEFINE g == [Top EXCEPT !.at = "read", !.n = 0]
               v == [Frame("save") EXCEPT !.n = Top.n, !.was = in_wait]
               b == Front(stack)
               u == Append(b, g)
    <3>1. stack' = b \o <<g, v>> /\ UNCHANGED <<running_trap, in_progress>>
      BY <2>1 DEF DrainClear
    <3>2. 0 \in 0 .. Cardinality(Children) + 1 /\ in_wait \in BOOLEAN
      BY SubsetCard DEF IInv, CoreType
    <3>3. g \in Frames /\ FrameOK(g) /\ g.at = "read" /\ Firings(g) = 0
      BY <1>3, <3>2 DEF Frames, FrameOK, Firings, TrapAts
    <3>4. v \in Frames /\ FrameOK(v) /\ v.at = "save" /\ Firings(v) = Top.n
      BY <1>3, <2>1, <3>2 DEF Frame, Frames, FrameOK, Firings, TrapAts
    <3> HIDE DEF g, v, b, u
    <3>5. u \in Seq(Frames) /\ Shape(u) /\ HereOf(u) = "read" /\ Due(u) = Due(b) + 0
      BY <1>3, <3>3, PushProps DEF u, b
    <3>6. HereOf(u) \notin TopOnly
      BY <3>5 DEF TopOnly
    <3>7. /\ Append(u, v) \in Seq(Frames) /\ Shape(Append(u, v)) /\ HereOf(Append(u, v)) = "save"
          /\ Due(Append(u, v)) = Due(u) + Top.n
      BY <3>4, <3>5, <3>6, PushProps
    <3>8. b \o <<g, v>> = Append(u, v)
      BY <1>3, <3>3, <3>4 DEF u, b
    <3>9. Due(Append(u, v)) = Due(stack) + pending_traps
      BY <1>2, <1>4, <1>6, <3>5, <3>7 DEF b
    <3> QED
      BY <3>1, <3>7, <3>8, <3>9 DEF IInv, CoreType, TopOnly
  <2>2. CASE Top.n = 0
    <3>1. /\ Pop /\ running_trap' = (running_trap /\ Top.direct)
          /\ in_progress' = (in_progress /\ Top.direct)
      BY <2>2 DEF DrainClear
    <3>2. running_trap' \in BOOLEAN /\ in_progress' \in BOOLEAN
      BY <1>4, <3>1 DEF IInv, CoreType
    <3>3. Due(stack') = Due(stack) + pending_traps
      BY <1>2, <1>6, <2>2, <3>1 DEF Pop
    <3> QED
      BY <1>3, <3>1, <3>2, <3>3 DEF Pop
  <2> QED
    BY <1>4, <2>1, <2>2
<1>8. Settled' = Settled
  <2>1. /\ pending_traps \in Nat /\ fired \in Nat /\ missed \in Nat /\ dropped \in Nat
        /\ Due(stack) \in Nat
    BY <1>6 DEF IInv, CoreType
  <2>2. /\ Settled = fired + missed + dropped + pending_traps + Due(stack)
        /\ Settled' = fired + missed + dropped + 0 + Due(stack')
    BY <1>1 DEF Settled, history, counters, left_behind
  <2> QED
    BY <1>7, <2>1, <2>2
<1>9. CountInv' /\ Kept
  BY <1>1, <1>8, SameCounts DEF history, counters, left_behind
<1>10. CoreType'
  <2>1. pending_traps' \in Nat
    BY <1>1
  <2> QED
    BY <1>1, <1>4, <1>7, <2>1 DEF IInv, CoreType, history, counters, left_behind
<1> QED
  BY <1>5, <1>7, <1>9, <1>10, QuietTop DEF IInv

(* The frame of run_sigchld_trap changes. *)
LEMMA BecomeTrap ==
  ASSUME IInv, stack # <<>>, Top.at \in TrapAts,
         NEW f \in Frames, FrameOK(f), f.at \in TrapAts, Become(f)
  PROVE  /\ stack' \in Seq(Frames) /\ Shape(stack') /\ HereOf(stack') = f.at /\ Here' = f.at
         /\ Due(stack) \in Nat /\ Due(stack') \in Nat
         /\ Due(stack') + Top.n = Due(stack) + f.n
         /\ queue_sigchld \in 0 .. IF Children = {} THEN 0 ELSE 1
<1>1. /\ stack' \in Seq(Frames) /\ Shape(stack') /\ HereOf(stack') = f.at
      /\ Due(stack') + Firings(Top) = Due(stack) + Firings(f)
  BY BecomeProps DEF IInv, CoreType, Become, Top
<1>2. Here \notin {"queue", "notify", "reap"}
  BY DEF Here, HereOf, Top, TrapAts
<1> QED
  BY <1>1, <1>2, DueType, SettledType DEF Here, Firings, IInv, QueueInv

LEMMA TrapTop ==
  ASSUME IInv, NEW a \in TrapAts, At(a)
  PROVE  stack # <<>> /\ Top \in Frames /\ FrameOK(Top) /\ Top.at = a /\ Top.n \in Nat
<1>1. stack # <<>> /\ Top = Last(stack) /\ Top.at = a
  BY AtProps
<1>2. Top \in Frames /\ FrameOK(Top)
  BY <1>1, PopProps DEF IInv, CoreType
<1> QED
  BY <1>1, <1>2, SubsetCard DEF Frames

LEMMA TrapSavesIInv == ASSUME IInv, TrapSaves PROVE IInv' /\ Kept
<1> DEFINE f == [Top EXCEPT !.at = "swap"]
<1>1. /\ running_trap' = TRUE /\ trap_list' = "default" /\ trapped' = FALSE /\ Become(f)
      /\ UNCHANGED <<child, signals, pending_traps, catch_flag, in_progress, in_wait, history>>
  BY DEF TrapSaves
<1>2. stack # <<>> /\ Top \in Frames /\ FrameOK(Top) /\ Top.at = "save" /\ Top.n \in Nat
  BY TrapTop DEF TrapSaves, TrapAts
<1>3. f \in Frames /\ FrameOK(f) /\ f.at = "swap" /\ f.n = Top.n
  BY <1>2 DEF Frames, FrameOK, TrapAts
<1> HIDE DEF f
<1>4. /\ stack' \in Seq(Frames) /\ Shape(stack') /\ Here' = "swap"
      /\ Due(stack) \in Nat /\ Due(stack') \in Nat /\ Due(stack') + Top.n = Due(stack) + f.n
      /\ queue_sigchld \in 0 .. IF Children = {} THEN 0 ELSE 1
  BY <1>1, <1>2, <1>3, BecomeTrap DEF TrapAts
<1>5. Due(stack') = Due(stack)
  BY <1>2, <1>3, <1>4
<1>6. TopInv' /\ QueueInv'
  BY <1>1, <1>4 DEF TopInv, QueueInv, signals
<1>7. CountInv' /\ Kept
  BY <1>1, <1>5, SameCounts DEF Settled, signals, history, counters, left_behind
<1>8. CoreType'
  BY <1>1, <1>4 DEF IInv, CoreType, Traps, signals, history, counters, left_behind
<1> QED
  BY <1>4, <1>6, <1>7, <1>8 DEF IInv

(* One firing is run. *)
LEMMA FireProps ==
  ASSUME IInv, stack # <<>>, Top \in Frames, Top.at \in {"swap", "body"}, Top.n \in Nat, Top.n > 0,
         Become([Top EXCEPT !.at = "body", !.n = Top.n - 1]),
         fired' = fired + 1,
         UNCHANGED <<missed, dropped, pending_traps, owed, child, signalled, sigchld>>
  PROVE  /\ stack' \in Seq(Frames) /\ Shape(stack') /\ HereOf(stack') \notin TopOnly
         /\ queue_sigchld \in 0 .. IF Children = {} THEN 0 ELSE 1
         /\ CountInv' /\ Kept /\ fired' \in Nat
<1> DEFINE f == [Top EXCEPT !.at = "body", !.n = Top.n - 1]
<1>1. f \in Frames /\ FrameOK(f) /\ f.at = "body" /\ f.n = Top.n - 1
  <2>1. Top.n \in 0 .. Cardinality(Children) + 1 /\ Cardinality(Children) \in Nat
    BY SubsetCard DEF Frames
  <2>2. Top.n - 1 \in 0 .. Cardinality(Children) + 1
    BY <2>1
  <2>3. f \in Frames /\ f.at = "body" /\ f.n = Top.n - 1
    BY <2>2 DEF Frames, TrapAts
  <2> QED
    BY <2>3 DEF FrameOK
<1> HIDE DEF f
<1>2. /\ stack' \in Seq(Frames) /\ Shape(stack') /\ HereOf(stack') = "body"
      /\ Due(stack) \in Nat /\ Due(stack') \in Nat /\ Due(stack') + Top.n = Due(stack) + f.n
      /\ queue_sigchld \in 0 .. IF Children = {} THEN 0 ELSE 1
  BY <1>1, BecomeTrap DEF TrapAts, f
<1>3. Due(stack') = Due(stack) - 1
  BY <1>1, <1>2
<1>4. fired \in Nat /\ missed \in Nat /\ dropped \in Nat /\ pending_traps \in Nat
  BY DEF IInv, CoreType
<1>5. Settled' = Settled
  <2>1. Settled' = (fired + 1) + missed + dropped + pending_traps + Due(stack')
    BY DEF Settled
  <2> QED
    BY <1>2, <1>3, <1>4, <2>1 DEF Settled
<1> QED
  BY <1>2, <1>4, <1>5, SameCounts DEF TopOnly

LEMMA FireIInv == ASSUME IInv, TrapSwaps \/ BodyAgain PROVE IInv' /\ Kept
<1>1. CASE TrapSwaps
  <2>1. /\ trap_list' = "impossible" /\ fired' = fired + 1
        /\ Become([Top EXCEPT !.at = "body", !.n = Top.n - 1])
        /\ UNCHANGED <<child, signals, pending_traps, catch_flag, running_trap, trapped,
                       in_progress, in_wait, installed, owed, missed, left_behind>>
    BY <1>1 DEF TrapSwaps
  <2>2. stack # <<>> /\ Top \in Frames /\ Top.at = "swap" /\ Top.n \in Nat /\ Top.n > 0
    BY <1>1, TrapTop DEF TrapSwaps, TrapAts, FrameOK
  <2>3. /\ stack' \in Seq(Frames) /\ Shape(stack') /\ HereOf(stack') \notin TopOnly
        /\ queue_sigchld \in 0 .. IF Children = {} THEN 0 ELSE 1
        /\ CountInv' /\ Kept /\ fired' \in Nat
    BY <2>1, <2>2, FireProps DEF signals, left_behind
  <2>4. CoreType'
    BY <2>1, <2>3 DEF IInv, CoreType, Traps, signals, left_behind
  <2> QED
    BY <2>1, <2>3, <2>4, QuietTop DEF IInv, signals
<1>2. CASE BodyAgain
  <2>1. /\ fired' = fired + 1 /\ Become([Top EXCEPT !.n = Top.n - 1])
        /\ UNCHANGED <<child, signals, traps, in_wait, installed, owed, missed, left_behind>>
    BY <1>2 DEF BodyAgain
  <2>2. stack # <<>> /\ Top \in Frames /\ Top.at = "body" /\ Top.n \in Nat /\ Top.n > 0
    BY <1>2, TrapTop DEF BodyAgain, TrapAts
  <2>3. [Top EXCEPT !.n = Top.n - 1] = [Top EXCEPT !.at = "body", !.n = Top.n - 1]
    BY <2>2 DEF Frames
  <2>4. /\ stack' \in Seq(Frames) /\ Shape(stack') /\ HereOf(stack') \notin TopOnly
        /\ queue_sigchld \in 0 .. IF Children = {} THEN 0 ELSE 1
        /\ CountInv' /\ Kept /\ fired' \in Nat
    BY <2>1, <2>2, <2>3, FireProps DEF signals, traps, left_behind
  <2>5. CoreType'
    BY <2>1, <2>4 DEF IInv, CoreType, signals, traps, left_behind
  <2> QED
    BY <2>1, <2>4, <2>5, QuietTop DEF IInv, signals
<1> QED
  BY <1>1, <1>2

LEMMA BodyEndsIInv == ASSUME IInv, BodyEnds PROVE IInv' /\ Kept
<1> DEFINE put == trap_list = "impossible" /\ ~trapped
           a == IF put THEN "restore" ELSE "restored"
           f == [Top EXCEPT !.at = a]
<1>1. /\ Top.n = 0 /\ trap_list' = (IF put THEN "command" ELSE trap_list) /\ Become(f)
      /\ UNCHANGED <<child, signals, pending_traps, catch_flag, running_trap, trapped, in_progress,
                     in_wait, history>>
  BY DEF BodyEnds
<1>2. stack # <<>> /\ Top \in Frames /\ Top.at = "body"
  BY TrapTop DEF BodyEnds, TrapAts
<1>3. f \in Frames /\ FrameOK(f) /\ f.at = a /\ a \in TrapAts /\ f.n = 0
  BY <1>1, <1>2 DEF Frames, FrameOK, TrapAts
<1> HIDE DEF f
<1>4. /\ stack' \in Seq(Frames) /\ Shape(stack') /\ Here' = a
      /\ Due(stack) \in Nat /\ Due(stack') \in Nat /\ Due(stack') + Top.n = Due(stack) + f.n
      /\ queue_sigchld \in 0 .. IF Children = {} THEN 0 ELSE 1
  BY <1>1, <1>2, <1>3, BecomeTrap DEF TrapAts
<1>5. Due(stack') = Due(stack)
  BY <1>1, <1>3, <1>4
<1>6. TopInv' /\ QueueInv'
  BY <1>1, <1>4 DEF TopInv, QueueInv, signals
<1>7. CountInv' /\ Kept
  BY <1>1, <1>5, SameCounts DEF Settled, signals, history, counters, left_behind
<1>8. CoreType'
  BY <1>1, <1>4 DEF IInv, CoreType, Traps, signals, history, counters, left_behind
<1> QED
  BY <1>4, <1>6, <1>7, <1>8 DEF IInv

LEMMA TrapRestoresIInv == ASSUME IInv, TrapRestores PROVE IInv' /\ Kept
<1> DEFINE f == [Top EXCEPT !.at = "restored"]
<1>1. /\ trapped' = TRUE
      /\ Pop \/ Become(f)
      /\ UNCHANGED <<child, signals, pending_traps, catch_flag, running_trap, trap_list,
                     in_progress, in_wait, history>>
  BY DEF TrapRestores
<1>2. stack # <<>> /\ Top \in Frames /\ Top.at = "restore" /\ Top.n = 0
  BY TrapTop DEF TrapRestores, TrapAts, FrameOK
<1>3. f \in Frames /\ FrameOK(f) /\ f.at = "restored" /\ f.n = 0
  BY <1>2 DEF Frames, FrameOK, TrapAts
<1> HIDE DEF f
<1>4. queue_sigchld \in 0 .. IF Children = {} THEN 0 ELSE 1
  BY <1>2 DEF IInv, QueueInv, Here, HereOf, Top
<1>5. /\ stack' \in Seq(Frames) /\ Shape(stack') /\ HereOf(stack') \notin TopOnly
      /\ Due(stack') = Due(stack)
  <2>1. CASE Pop
    BY <1>2, <2>1, PopQuiet
  <2>2. CASE Become(f)
    <3>1. /\ stack' \in Seq(Frames) /\ Shape(stack') /\ HereOf(stack') = "restored"
          /\ Due(stack) \in Nat /\ Due(stack') \in Nat
          /\ Due(stack') + Top.n = Due(stack) + f.n
      BY <1>2, <1>3, <2>2, BecomeTrap DEF TrapAts
    <3> QED
      BY <1>2, <1>3, <3>1 DEF TopOnly
  <2> QED
    BY <1>1, <2>1, <2>2
<1>6. TopInv' /\ QueueInv'
  BY <1>1, <1>4, <1>5, QuietTop DEF signals
<1>7. CountInv' /\ Kept
  BY <1>1, <1>5, SameCounts DEF Settled, signals, history, counters, left_behind
<1>8. CoreType'
  BY <1>1, <1>5 DEF IInv, CoreType, signals, history, counters, left_behind
<1> QED
  BY <1>5, <1>6, <1>7, <1>8 DEF IInv

LEMMA TrapReturnsIInv == ASSUME IInv, TrapReturns PROVE IInv' /\ Kept
<1>1. /\ Pop /\ running_trap' = FALSE /\ in_wait' = Top.was
      /\ UNCHANGED <<child, signals, pending_traps, catch_flag, trap_list, trapped, in_progress,
                     history>>
  BY DEF TrapReturns
<1>2. stack # <<>> /\ Top \in Frames /\ Top.at = "restored" /\ Top.n = 0
  BY TrapTop DEF TrapReturns, TrapAts, FrameOK
<1>3. /\ stack' \in Seq(Frames) /\ Shape(stack') /\ HereOf(stack') \notin TopOnly
      /\ Due(stack') = Due(stack)
  BY <1>1, <1>2, PopQuiet
<1>4. queue_sigchld' \in 0 .. IF Children = {} THEN 0 ELSE 1
  BY <1>1, <1>2 DEF IInv, QueueInv, Here, HereOf, Top, signals
<1>5. CountInv' /\ Kept
  BY <1>1, <1>3, SameCounts DEF Settled, signals, history, counters, left_behind
<1>6. CoreType'
  <2>1. Top.was \in BOOLEAN
    BY <1>2 DEF Frames
  <2> QED
    BY <1>1, <1>3, <2>1 DEF IInv, CoreType, signals, history, counters, left_behind
<1> QED
  BY <1>3, <1>4, <1>5, <1>6, QuietTop DEF IInv

(* Firings that go from those due to those dropped stay settled. *)
LEMMA GivesUp ==
  ASSUME fired \in Nat /\ missed \in Nat /\ dropped \in Nat /\ pending_traps \in Nat
           /\ UNCHANGED <<fired, missed, pending_traps>>,
         NEW d, d \in Nat /\ Due(stack) \in Nat /\ d <= Due(stack) /\ Due(stack') = d,
         dropped' = dropped + (Due(stack) - d)
  PROVE  dropped' \in Nat /\ Settled' = Settled
<1> DEFINE e == Due(stack)
           e1 == Due(stack)'
<1>1. /\ Settled = fired + missed + dropped + pending_traps + e
      /\ Settled' = fired + missed + dropped' + pending_traps + e1
  BY DEF Settled
<1>2. e \in Nat /\ e1 \in Nat /\ e1 <= e /\ dropped' = dropped + (e - e1)
  OBVIOUS
<1> HIDE DEF e, e1
<1> QED
  BY <1>1, <1>2

(* A return from the trap: what it gives up is no longer due. *)
LEMMA BodyLeavesIInv == ASSUME IInv, BodyLeaves PROVE IInv' /\ Kept
<1> DEFINE put == trap_list = "impossible" /\ ~trapped
           f == [Frame("restore") EXCEPT !.direct = TRUE]
<1>1. PICK k \in {0} \union {i \in 1 .. Len(stack) - 1 : stack[i].at = "body"} :
        /\ stack' = (IF put THEN Append(SubSeq(stack, 1, k), f) ELSE SubSeq(stack, 1, k))
        /\ trap_list' = (IF put THEN "command" ELSE trap_list)
        /\ in_wait' = stack[Min({i \in k + 1 .. Len(stack) : stack[i].at \in TrapAts})].was
        /\ dropped' = dropped + (Due(stack) - Due(SubSeq(stack, 1, k)))
  BY DEF BodyLeaves
<1>2. /\ At("body") /\ left' = TRUE
      /\ UNCHANGED <<child, signals, pending_traps, catch_flag, running_trap, trapped, in_progress,
                     counters>>
  BY DEF BodyLeaves
<1> DEFINE kept == SubSeq(stack, 1, k)
<1>3. stack # <<>> /\ Top \in Frames /\ Top.at = "body"
  BY <1>2, TrapTop DEF TrapAts
<1>4. /\ stack \in Seq(Frames) /\ Shape(stack) /\ Len(stack) \in Nat \ {0}
      /\ k \in Nat /\ k < Len(stack)
  BY <1>3, EmptySeq, LenProperties DEF IInv, CoreType
<1>5. /\ kept \in Seq(Frames) /\ Shape(kept) /\ HereOf(kept) \in {"none", "body"}
      /\ HereOf(kept) \notin TopOnly
      /\ Due(kept) \in Nat /\ Due(kept) <= Due(stack) /\ Due(stack) \in Nat
  BY <1>4, PrefixProps, DueType
<1> HIDE DEF kept
<1>6. f \in Frames /\ FrameOK(f) /\ f.at = "restore" /\ Firings(f) = 0
  <2>1. 0 \in 0 .. Cardinality(Children) + 1
    BY SubsetCard
  <2> QED
    BY <2>1 DEF Frame, Frames, FrameOK, Firings, TrapAts
<1> HIDE DEF f
<1>7. /\ stack' \in Seq(Frames) /\ Shape(stack') /\ Due(stack') = Due(kept)
      /\ HereOf(stack') = IF put THEN "restore" ELSE HereOf(kept)
  <2>1. CASE put
    <3>1. stack' = Append(kept, f)
      BY <1>1, <2>1 DEF kept
    <3> QED
      BY <1>5, <1>6, <2>1, <3>1, PushProps
  <2>2. CASE ~put
    BY <1>1, <1>5, <2>2 DEF kept
  <2> QED
    BY <2>1, <2>2
<1>8. in_wait' \in BOOLEAN
  <2> DEFINE T == {i \in k + 1 .. Len(stack) : stack[i].at \in TrapAts}
  <2>1. Len(stack) \in T
    BY <1>3, <1>4 DEF Top, Last, TrapAts
  <2>2. T \subseteq Nat /\ T \subseteq 1 .. Len(stack)
    BY <1>4
  <2>3. in_wait' = stack[Min(T)].was
    BY <1>1
  <2> HIDE DEF T
  <2>4. Min(T) \in T
    BY <2>1, <2>2, LeastOfSet DEF Min
  <2>5. stack[Min(T)] \in Frames
    BY <1>4, <2>2, <2>4, ElementOfSeq
  <2> QED
    BY <2>3, <2>5 DEF Frames
<1>9. dropped' \in Nat /\ Settled' = Settled
  <2>1. /\ fired \in Nat /\ missed \in Nat /\ dropped \in Nat /\ pending_traps \in Nat
        /\ UNCHANGED <<fired, missed, pending_traps>>
    BY <1>2 DEF IInv, CoreType, counters
  <2>2. dropped' = dropped + (Due(stack) - Due(kept))
    BY <1>1 DEF kept
  <2>3. Due(kept) \in Nat /\ Due(stack) \in Nat /\ Due(kept) <= Due(stack)
        /\ Due(stack') = Due(kept)
    BY <1>5, <1>7
  <2> QED
    BY <2>1, <2>2, <2>3, GivesUp, Zenon
<1>10. CountInv' /\ Kept
  BY <1>2, <1>9, SameCounts DEF signals, counters
<1>11. CoreType'
  BY <1>1, <1>2, <1>7, <1>8, <1>9 DEF IInv, CoreType, Traps, signals, counters
<1>12. TopInv' /\ QueueInv'
  <2>1. queue_sigchld' \in 0 .. IF Children = {} THEN 0 ELSE 1
    BY <1>2, <1>3 DEF IInv, QueueInv, Here, HereOf, Top, signals
  <2>2. Here' = IF put THEN "restore" ELSE HereOf(kept)
    BY <1>7 DEF Here
  <2>3. put => trap_list' = "command" /\ ~trapped'
    BY <1>1, <1>2
  <2> QED
    BY <1>5, <2>1, <2>2, <2>3 DEF TopInv, QueueInv
<1> QED
  BY <1>7, <1>10, <1>11, <1>12 DEF IInv

LEMMA NextIInv == IInv /\ [Next]_vars => IInv' /\ Kept
<1> SUFFICES ASSUME IInv, [Next]_vars PROVE IInv' /\ Kept
  OBVIOUS
<1>1. CASE UNCHANGED vars
  <2> USE <1>1 DEF vars, signals, traps, history, counters, left_behind
  <2>1. Here' = Here /\ Top' = Top /\ Settled' = Settled
    BY DEF Here, Top, Settled
  <2>2. CoreType' /\ Shape(stack')
    BY DEF IInv, CoreType
  <2>3. TopInv' /\ QueueInv'
    BY <2>1 DEF IInv, TopInv, QueueInv
  <2>4. CountInv' /\ Kept
    BY <2>1, SameCounts
  <2> QED
    BY <2>2, <2>3, <2>4 DEF IInv
<1>2. CASE NotifyReturns
  BY <1>2, AtProps, NotifyReturnsIInv DEF NotifyReturns
<1>3. CASE Trap
  BY <1>3, DrainReadIInv, DrainClearIInv, TrapSavesIInv, FireIInv, BodyEndsIInv, TrapRestoresIInv,
     TrapReturnsIInv DEF Trap
<1> QED
  BY <1>1, <1>2, <1>3, ChildExitsIInv, HandlerReapsIInv, HandlerQueuesIInv, HandlerReturnsIInv,
     ForkIInv, WaitIInv, WaitBlocksIInv, WaitReturnsIInv, SpawnIInv, SpawnReturnsIInv, QueueIInv,
     UnqueueIInv, UnqueueReapsIInv, SetTrapIInv, RunPendingTrapsIInv, BodyLeavesIInv DEF Next

LEMMA Invariance == Spec => []IInv
<1>1. IInv /\ [Next]_vars => IInv'
  BY NextIInv
<1> QED
  BY <1>1, InitIInv, PTL DEF Spec

-----------------------------------------------------------------------------
(* Whatever `trap` sets.                                                    *)

(* The state of the signal machinery keeps its type: sigchld, queue_sigchld  *)
(* and the firings never drop below zero nor outgrow the children there are. *)
THEOREM ChildTypeCorrect == Spec => []ChildTypeOK
<1>1. IInv => ChildTypeOK
  <2> SUFFICES ASSUME IInv PROVE ChildTypeOK
    OBVIOUS
  <2>1. Cardinality(Children) \in Nat /\ (Children # {} => Cardinality(Children) > 0)
    BY SubsetCard, FS_EmptySet
  <2>2. queue_sigchld \in 0 .. Cardinality(Children) + 1
    BY <2>1 DEF IInv, QueueInv
  <2>3. sigchld \in 0 .. Cardinality(Children) + 1
    BY <2>1, Bounds
  <2>4. {pending_traps, owed, fired, missed, dropped} \subseteq 0 .. Cardinality(Children)
    BY Bounds
  <2> QED
    BY <2>2, <2>3, <2>4 DEF IInv, CoreType, ChildTypeOK
<1> QED
  BY <1>1, Invariance, PTL

(* Nobody but rash.spawn reaps the child it waits for: neither the signal    *)
(* handler nor a wait or a trap nested above it.                            *)
THEOREM SpawnKeeps == Spec => []SpawnKeepsChild
<1>1. IInv => SpawnKeepsChild
  <2> SUFFICES ASSUME IInv, NEW i \in DOMAIN stack, stack[i].at = "spawn"
               PROVE  child[stack[i].pid] # "reaped"
    BY DEF SpawnKeepsChild
  <2>1. stack \in Seq(Frames) /\ i \in 1 .. Len(stack)
    BY LenProperties DEF IInv, CoreType
  <2>2. i = Len(stack)
    BY <2>1 DEF IInv, Shape, TopOnly
  <2>3. stack # <<>> /\ Top = stack[i]
    BY <2>1, <2>2, EmptySeq DEF Top, Last
  <2> QED
    BY <2>3 DEF IInv, TopInv, Here, HereOf, Top
<1> QED
  BY <1>1, Invariance, PTL

-----------------------------------------------------------------------------
(* As long as `trap - CHLD` is not used.                                    *)

(* A return from the trap puts the command back. *)
LEMMA LeavesTo ==
  ASSUME IInv, BodyLeaves, trap_list = "impossible", ~trapped
  PROVE  Here' = "restore"
<1> DEFINE f == [Frame("restore") EXCEPT !.direct = TRUE]
<1>1. PICK k \in Nat : k < Len(stack) /\ stack' = Append(SubSeq(stack, 1, k), f)
  <2>1. At("body") /\ Len(stack) \in Nat \ {0}
    BY AtProps, EmptySeq, LenProperties DEF BodyLeaves, IInv, CoreType
  <2> QED
    BY <2>1 DEF BodyLeaves
<1>2. SubSeq(stack, 1, k) \in Seq(Frames)
  BY <1>1, PrefixProps DEF IInv, CoreType
<1>3. f \in Frames /\ f.at = "restore"
  <2>1. 0 \in 0 .. Cardinality(Children) + 1
    BY SubsetCard
  <2> QED
    BY <2>1 DEF Frame, Frames, TrapAts
<1> HIDE DEF f
<1>4. stack' # <<>> /\ Last(stack') = f
  <2>1. \A s \in Seq(Frames) : Append(s, f) # <<>> /\ Last(Append(s, f)) = f
    BY <1>3, PushTop
  <2> QED
    BY <1>1, <1>2, <2>1
<1> QED
  BY <1>3, <1>4 DEF Here, HereOf

(* The trap is in place outside the exchange. *)
LEMMA NextTrapInv ==
  ASSUME "default" \notin Settings, IInv, TrapInv, [Next]_vars
  PROVE  TrapInv'
<1>1. IInv'
  BY NextIInv
<1>2. CASE /\ UNCHANGED <<trap_list, trapped, installed>>
           /\ Here \notin {"swap", "restore"} /\ Here' \notin {"swap", "restore"}
  BY <1>2 DEF TrapInv
<1>3. CASE UNCHANGED <<trap_list, trapped, installed>> /\ Here' = Here
  BY <1>3 DEF TrapInv
<1>4. CASE ChildExits \/ HandlerQueues \/ Fork \/ UNCHANGED vars
  BY <1>3, <1>4 DEF ChildExits, HandlerQueues, Fork, vars, traps, history, counters, left_behind,
     Here
<1>5. CASE HandlerReaps
  <2>1. UNCHANGED <<trap_list, trapped, installed>>
    BY <1>5 DEF HandlerReaps, WaitChld
  <2>2. CASE stack' = stack
    BY <1>3, <2>1, <2>2 DEF Here
  <2>3. CASE stack' # stack
    <3>1. Counts
      BY <1>5, <2>3 DEF HandlerReaps, WaitChld
    <3>2. Here \notin {"swap", "restore"} /\ Counts'
      BY <2>1, <3>1 DEF IInv, TopInv, Counts
    <3>3. Here' \notin {"swap", "restore"}
      BY <1>1, <3>2 DEF IInv, TopInv, Counts
    <3> QED
      BY <1>2, <2>1, <3>2, <3>3
  <2> QED
    BY <2>2, <2>3
<1>6. CASE WaitBlocks \/ UnqueueReaps
  <2>1. UNCHANGED <<trap_list, trapped, installed>> /\ Here \in {"wait", "reap"}
    BY <1>6, AtProps DEF WaitBlocks, UnqueueReaps, WaitChld
  <2>2. trapped \/ trap_list = "impossible"
    BY <2>1 DEF TrapInv
  <2>3. Here' \notin {"swap", "restore"}
    BY <1>1, <2>1, <2>2 DEF IInv, TopInv
  <2> QED
    BY <1>2, <2>1, <2>3
<1>7. CASE \/ HandlerReturns \/ Wait \/ WaitReturns \/ Spawn \/ SpawnReturns \/ Queue \/ Unqueue
           \/ Notify \/ NotifyReturns \/ RunPendingTraps \/ DrainRead \/ DrainClear
           \/ BodyAgain \/ TrapReturns
  <2>1. UNCHANGED <<trap_list, trapped, installed>>
    BY <1>7 DEF HandlerReturns, Wait, WaitReturns, Spawn, SpawnReturns, Queue, Unqueue, Notify,
       NotifyReturns, RunPendingTraps, DrainRead, DrainClear, BodyAgain, TrapReturns, traps,
       history, counters, left_behind
  <2>2. Here \notin {"swap", "restore"}
    <3>1. CASE BetweenCommands
      BY <3>1, BetweenProps DEF TopOnly
    <3>2. CASE At("handler") \/ At("wait") \/ At("spawn") \/ At("queue") \/ At("notify")
               \/ At("read") \/ At("clear") \/ At("body") \/ At("restored")
      BY <3>2 DEF At, Here, HereOf, Top
    <3> QED
      BY <1>7, <3>1, <3>2 DEF HandlerReturns, Wait, WaitReturns, Spawn, SpawnReturns,
         Queue, Unqueue, Notify, NotifyReturns, RunPendingTraps, DrainRead, DrainClear, BodyAgain,
         TrapReturns, MayStart
  <2>3. trapped \/ trap_list = "impossible"
    BY <2>2 DEF TrapInv
  <2>4. Here' \notin {"swap", "restore"}
    BY <1>1, <2>1, <2>3 DEF IInv, TopInv
  <2> QED
    BY <1>2, <2>1, <2>2, <2>4
<1>8. CASE SetTrap
  <2>1. PICK value \in Settings :
          LET same == value = "default" /\ ~trapped /\ ~(in_progress /\ trap_list = "impossible")
          IN /\ trap_list' = IF same THEN trap_list ELSE value
             /\ trapped' = IF same THEN trapped ELSE value # "default"
             /\ installed' = (value = "command")
    BY <1>8 DEF SetTrap
  <2>2. value \in {"command", "ignore"}
    BY DEF Traps
  <2>3. trap_list' = value /\ trapped' /\ (installed' <=> value = "command")
    BY <2>1, <2>2
  <2>4. Here' \notin {"swap", "restore"}
    BY <1>8, BetweenProps DEF SetTrap, Here, TopOnly
  <2> QED
    BY <2>2, <2>3, <2>4 DEF TrapInv
<1>9. CASE TrapSaves
  <2>1. /\ At("save") /\ trap_list = "command" /\ installed' = installed
        /\ Become([Top EXCEPT !.at = "swap"])
    BY <1>9 DEF TrapSaves, history, counters, left_behind
  <2>2. Here = "save" /\ stack # <<>> /\ Top \in Frames /\ FrameOK(Top) /\ Top.at = "save"
    BY <2>1, AtProps, TrapTop DEF TrapAts
  <2> DEFINE f == [Top EXCEPT !.at = "swap"]
  <2>3. f \in Frames /\ FrameOK(f) /\ f.at = "swap"
    BY <2>2 DEF Frames, FrameOK, TrapAts
  <2> HIDE DEF f
  <2>4. Here' = "swap"
    BY <2>1, <2>2, <2>3, BecomeTrap DEF TrapAts, f
  <2>5. installed
    BY <2>1, <2>2 DEF TrapInv
  <2> QED
    BY <2>1, <2>4, <2>5 DEF TrapInv
<1>10. CASE TrapSwaps
  <2>1. /\ At("swap") /\ trap_list' = "impossible" /\ installed' = installed /\ trapped' = trapped
    BY <1>10 DEF TrapSwaps
  <2>2. installed /\ ~ trapped
    BY <2>1, AtProps DEF TrapInv, IInv, TopInv
  <2>3. Here' \notin {"swap", "restore"}
    BY <1>1, <2>1 DEF IInv, TopInv
  <2> QED
    BY <2>1, <2>2, <2>3 DEF TrapInv
<1>11. CASE BodyEnds
  <2>1. /\ Here = "body" /\ installed' = installed /\ trapped' = trapped
        /\ trap_list' = (IF trap_list = "impossible" /\ ~trapped THEN "command" ELSE trap_list)
    BY <1>11, AtProps DEF BodyEnds, history, counters, left_behind
  <2>2. CASE trap_list = "impossible"
    <3>1. installed' /\ ~ trapped /\ stack # <<>> /\ Top \in Frames /\ Top.at = "body" /\ Top.n = 0
      BY <1>11, <2>1, <2>2, TrapTop DEF TrapInv, BodyEnds, TrapAts
    <3> DEFINE f == [Top EXCEPT !.at = "restore"]
    <3>2. f \in Frames /\ FrameOK(f) /\ f.at = "restore"
      BY <3>1 DEF Frames, FrameOK, TrapAts
    <3>3. Become(f)
      BY <1>11, <2>2, <3>1 DEF BodyEnds
    <3> HIDE DEF f
    <3>4. Here' = "restore"
      BY <3>1, <3>2, <3>3, BecomeTrap DEF TrapAts
    <3> QED
      BY <3>1, <3>4 DEF TrapInv
  <2>3. CASE trap_list # "impossible"
    <3>1. trap_list' = trap_list /\ trapped'
      BY <2>1, <2>3 DEF TrapInv
    <3>2. Here' \notin {"swap", "restore"}
      BY <1>1, <3>1 DEF IInv, TopInv
    <3> QED
      BY <1>2, <2>1, <3>1, <3>2
  <2> QED
    BY <2>2, <2>3
<1>12. CASE TrapRestores
  <2>1. Here = "restore" /\ installed' = installed /\ trapped' = TRUE /\ trap_list' = trap_list
    BY <1>12, AtProps DEF TrapRestores, history, counters, left_behind
  <2>2. installed /\ trap_list = "command"
    BY <2>1 DEF TrapInv, IInv, TopInv
  <2>3. Here' \notin {"swap", "restore"}
    BY <1>1, <2>1, <2>2 DEF IInv, TopInv
  <2> QED
    BY <2>1, <2>2, <2>3 DEF TrapInv
<1>13. CASE BodyLeaves
  <2>1. /\ At("body") /\ installed' = installed /\ trapped' = trapped
        /\ trap_list' = (IF trap_list = "impossible" /\ ~trapped THEN "command" ELSE trap_list)
    BY <1>13 DEF BodyLeaves, counters
  <2>2. Here = "body"
    BY <2>1, AtProps
  <2>3. CASE trap_list = "impossible" /\ ~trapped
    <3>1. installed' /\ trap_list' = "command"
      BY <2>1, <2>2, <2>3 DEF TrapInv
    <3>2. Here' = "restore"
      BY <1>13, <2>3, LeavesTo
    <3> QED
      BY <3>1, <3>2 DEF TrapInv
  <2>4. CASE ~(trap_list = "impossible" /\ ~trapped)
    <3>1. trap_list' = trap_list /\ trapped'
      BY <2>1, <2>2, <2>4 DEF TrapInv
    <3>2. Here' \notin {"swap", "restore"}
      BY <1>1, <3>1 DEF IInv, TopInv
    <3> QED
      BY <1>2, <2>1, <2>2, <2>4, <3>1, <3>2
  <2> QED
    BY <2>3, <2>4
<1> QED
  BY <1>4, <1>5, <1>6, <1>7, <1>8, <1>9, <1>10, <1>11, <1>12, <1>13 DEF Next, Trap

LEMMA AccountStep ==
  ASSUME "default" \notin Settings
  PROVE  IInv /\ AccountInv /\ [Next]_vars => AccountInv'
<1> SUFFICES ASSUME IInv, AccountInv, [Next]_vars PROVE AccountInv'
  OBVIOUS
<1>1. TrapInv'
  BY NextTrapInv DEF AccountInv
<1>2. installed \/ ~ Counts
  <2>1. Here \in {"swap", "restore"} => installed
    BY DEF AccountInv, TrapInv
  <2>2. Here \notin {"swap", "restore"} /\ ~ installed => trap_list = "ignore"
    BY DEF AccountInv, TrapInv
  <2> QED
    BY <2>1, <2>2 DEF Counts
<1>3. owed' + Settled = owed + Settled'
  BY <1>2, NextIInv DEF Kept
<1>4. owed = Settled
  BY DEF AccountInv, OneFiringPerChild, Settled
<1>5. Settled \in Nat /\ owed' \in Nat /\ Settled' \in Nat
  <2>1. IInv'
    BY NextIInv
  <2>2. Settled \in Nat
    BY SettledType
  <2>3. /\ fired' \in Nat /\ missed' \in Nat /\ dropped' \in Nat
        /\ pending_traps' \in Nat /\ owed' \in Nat
        /\ stack' \in Seq(Frames)
    BY <2>1 DEF IInv, CoreType
  <2>4. Due(stack') \in Nat
    BY <2>3, DueType
  <2> QED
    BY <2>2, <2>3, <2>4 DEF Settled
<1>6. owed' = Settled'
  BY <1>3, <1>4, <1>5
<1> QED
  BY <1>1, <1>6 DEF AccountInv, OneFiringPerChild, Settled

LEMMA AccountInit == Init => AccountInv
<1> SUFFICES ASSUME Init PROVE AccountInv
  OBVIOUS
<1>1. TrapInv
  BY DEF Init, TrapInv, Here, HereOf
<1>2. OneFiringPerChild
  BY DueEmpty DEF Init, OneFiringPerChild
<1> QED
  BY <1>1, <1>2 DEF AccountInv

(* Every child reaped while a trap is installed has had its firing run,      *)
(* queued, due in a running trap, given up by a `return` that left the trap,  *)
(* or left uncounted by waitchld in the exchange (missed), for any            *)
(* interleaving of the handler, wait_for, the queueing sections and the      *)
(* drain loops, as long as the trap is not reset to the default.            *)
THEOREM OneFiringTheorem ==
  ASSUME "default" \notin Settings
  PROVE  Spec => []OneFiringPerChild
<1>1. IInv /\ AccountInv /\ [Next]_vars => AccountInv'
  BY AccountStep
<1>2. AccountInv => OneFiringPerChild
  BY DEF AccountInv
<1> QED
  BY <1>1, <1>2, AccountInit, Invariance, PTL DEF Spec

(* waitchld leaves a child uncounted only while run_sigchld_trap exchanges   *)
(* the command and the sentinel: neither the sentinel itself nor a nested    *)
(* trap makes it lose one.                                                  *)
THEOREM MissedTheorem ==
  ASSUME "default" \notin Settings
  PROVE  Spec => MissedOnlyInExchange
<1> DEFINE InExchange == missed' # missed => stack # <<>> /\ Top.at \in {"swap", "restore"}
<1>1. IInv /\ AccountInv /\ [Next]_vars => AccountInv'
  BY AccountStep
<1>2. AccountInv /\ [Next]_vars => [InExchange]_vars
  <2> SUFFICES ASSUME AccountInv, Next, missed' # missed
               PROVE  stack # <<>> /\ Top.at \in {"swap", "restore"}
    OBVIOUS
  <2>1. HandlerReaps \/ WaitBlocks \/ UnqueueReaps
    BY DEF Next, Trap, ChildExits, HandlerQueues, HandlerReturns, Fork, Wait, WaitReturns, Spawn,
       SpawnReturns, Queue, Unqueue, Notify, NotifyReturns, SetTrap, RunPendingTraps, DrainRead,
       DrainClear, TrapSaves, TrapSwaps, BodyAgain, BodyEnds, TrapRestores, TrapReturns,
       BodyLeaves, history, counters, left_behind
  <2>2. installed /\ ~ Counts
    BY <2>1 DEF HandlerReaps, WaitBlocks, UnqueueReaps, WaitChld
  <2>3. Here \in {"swap", "restore"}
    BY <2>2 DEF AccountInv, TrapInv, Counts
  <2> QED
    BY <2>3 DEF Here, HereOf, Top
<1> QED
  BY <1>1, <1>2, AccountInit, Invariance, PTL DEF Spec, MissedOnlyInExchange
=============================================================================
