------------------------- MODULE RedirectionsProofs -------------------------
(***************************************************************************)
(* Theorems about Redirections for every number of descriptors, every set    *)
(* of redirections a script may use, every number and nesting of commands.  *)
(***************************************************************************)
EXTENDS Redirections, Integers, SequenceTheorems, WellFoundedInduction, TLAPS

-----------------------------------------------------------------------------
(* A stack is a sequence of frames; the one that runs is Last.               *)

(* Popping a frame. *)
LEMMA FrontLast ==
  ASSUME NEW S, NEW s \in Seq(S), s # <<>>
  PROVE  /\ Front(s) \in Seq(S)
         /\ Last(s) \in S
         /\ Len(s) \in Nat \ {0}
         /\ Len(Front(s)) = Len(s) - 1
         /\ \A k \in 1 .. Len(s) - 1 : Front(s)[k] = s[k]
<1> DEFINE n == Len(s) - 1
<1>1. Len(s) \in Nat \ {0} /\ n \in Nat /\ Len(s) = n + 1
  BY EmptySeq, LenProperties
<1>2. Last(s) \in S /\ \A i \in 1 .. n : s[i] \in S
  BY <1>1, ElementOfSeq DEF Last
<1>3. Front(s) = SubSeq(s, 1, n)
  BY DEF Front
<1> HIDE DEF n
<1>4. /\ SubSeq(s, 1, n) \in Seq(S)
      /\ Len(SubSeq(s, 1, n)) = IF 1 <= n THEN n - 1 + 1 ELSE 0
      /\ \A i \in 1 .. n - 1 + 1 : SubSeq(s, 1, n)[i] = s[1 + i - 1]
  BY <1>1, <1>2, SubSeqProperties
<1>5. n - 1 + 1 = n /\ (~(1 <= n) => n = 0) /\ Len(s) - 1 = n
  BY <1>1
<1>6. Len(Front(s)) = n
  BY <1>3, <1>4, <1>5
<1>7. \A k \in 1 .. n : k \in 1 .. n - 1 + 1 /\ 1 + k - 1 = k
  BY <1>1
<1> QED
  BY <1>1, <1>2, <1>3, <1>4, <1>5, <1>6, <1>7

(* Pushing a frame. *)
LEMMA PushTop ==
  ASSUME NEW S, NEW s \in Seq(S), NEW e \in S
  PROVE  /\ Append(s, e) \in Seq(S)
         /\ Append(s, e) # <<>>
         /\ Len(s) \in Nat
         /\ Len(Append(s, e)) = Len(s) + 1
         /\ \A k \in 1 .. Len(s) : Append(s, e)[k] = s[k]
         /\ Append(s, e)[Len(s) + 1] = e
         /\ Last(Append(s, e)) = e
         /\ Front(Append(s, e)) = s
<1> DEFINE t == Append(s, e)
<1>1. /\ t \in Seq(S) /\ t # <<>> /\ Len(s) \in Nat /\ Len(t) = Len(s) + 1
      /\ \A k \in 1 .. Len(s) : t[k] = s[k]
      /\ t[Len(s) + 1] = e
  BY AppendProperties, LenProperties
<1> HIDE DEF t
<1>2. /\ Front(t) \in Seq(S) /\ Len(Front(t)) = Len(s)
      /\ \A k \in 1 .. Len(s) : Front(t)[k] = s[k]
  BY <1>1, FrontLast
<1>3. Front(t) = s /\ Last(t) = e
  BY <1>1, <1>2, SeqEqual DEF Last
<1> QED
  BY <1>1, <1>3 DEF t

(* Exchanging the frame on top. *)
LEMMA ReplaceTop ==
  ASSUME NEW S, NEW s \in Seq(S), s # <<>>, NEW e \in S
  PROVE  /\ Append(Front(s), e) \in Seq(S)
         /\ Append(Front(s), e) # <<>>
         /\ Len(s) \in Nat \ {0}
         /\ Len(Append(Front(s), e)) = Len(s)
         /\ \A k \in 1 .. Len(s) - 1 : Append(Front(s), e)[k] = s[k]
         /\ Append(Front(s), e)[Len(s)] = e
         /\ Last(Append(Front(s), e)) = e
         /\ Front(Append(Front(s), e)) = Front(s)
<1> DEFINE b == Front(s)
<1>1. /\ b \in Seq(S) /\ Len(s) \in Nat \ {0} /\ Len(b) = Len(s) - 1 /\ Len(s) = Len(b) + 1
      /\ \A k \in 1 .. Len(b) : b[k] = s[k]
  BY FrontLast
<1> HIDE DEF b
<1>2. /\ Append(b, e) \in Seq(S) /\ Append(b, e) # <<>> /\ Len(Append(b, e)) = Len(b) + 1
      /\ \A k \in 1 .. Len(b) : Append(b, e)[k] = b[k]
      /\ Append(b, e)[Len(b) + 1] = e /\ Last(Append(b, e)) = e /\ Front(Append(b, e)) = b
  BY <1>1, PushTop
<1> QED
  BY <1>1, <1>2 DEF b

(* A stack is what is below its top, and the top. *)
LEMMA TopAndRest ==
  ASSUME NEW S, NEW s \in Seq(S), s # <<>>
  PROVE  /\ s = Append(Front(s), Last(s))
         /\ s[Len(s)] = Last(s)
<1> DEFINE t == Append(Front(s), Last(s))
<1>1. /\ Front(s) \in Seq(S) /\ Last(s) \in S /\ Len(s) \in Nat \ {0}
      /\ Len(Front(s)) = Len(s) - 1 /\ \A k \in 1 .. Len(s) - 1 : Front(s)[k] = s[k]
  BY FrontLast
<1>2. /\ t \in Seq(S) /\ Len(t) = Len(Front(s)) + 1
      /\ \A k \in 1 .. Len(Front(s)) : t[k] = Front(s)[k]
      /\ t[Len(Front(s)) + 1] = Last(s)
  BY <1>1, AppendProperties
<1> HIDE DEF t
<1>3. Len(t) = Len(s) /\ s[Len(s)] = Last(s) /\ t[Len(s)] = Last(s)
  BY <1>1, <1>2 DEF Last
<1>4. \A k \in 1 .. Len(s) : s[k] = t[k]
  BY <1>1, <1>2, <1>3
<1>5. s = t
  BY <1>2, <1>3, <1>4, SeqEqual
<1> QED
  BY <1>3, <1>5 DEF t

-----------------------------------------------------------------------------
(* Natural numbers.                                                         *)

(* A set of natural numbers that is not empty has a least one. *)
LEMMA LeastOfSet ==
  ASSUME NEW S, S \subseteq Nat, S # {}
  PROVE  \E m \in S : \A k \in S : m <= k
<1> DEFINE R == {p \in Nat \X Nat : p[1] < p[2]}
<1>1. IsWellFoundedOn(R, Nat)
  BY NatLessThanWellFounded DEF OpToRel
<1> HIDE DEF R
<1>2. PICK m \in S : \A k \in S : ~ (<<k, m>> \in R)
  BY <1>1, WFMin
<1>3. \A k \in S : ~ (k < m)
  BY <1>2 DEF R
<1> QED
  BY <1>3

(* Induction over the natural numbers, for a set. *)
LEMMA NatSetInduction ==
  ASSUME NEW S, 0 \in S, \A n \in Nat : n \in S => n + 1 \in S
  PROVE  \A n \in Nat : n \in S
<1>1. ASSUME Nat \ S # {} PROVE FALSE
  <2>1. PICK m \in Nat \ S : \A k \in Nat \ S : m <= k
    BY <1>1, LeastOfSet
  <2>2. m - 1 \in Nat /\ ~(m <= m - 1) /\ (m - 1) + 1 = m
    BY <2>1
  <2> QED
    BY <2>1, <2>2
<1> QED
  BY <1>1

-----------------------------------------------------------------------------
\* What u leaves under u.to.
Value(u, ds) == IF u.op = "close" THEN Closed ELSE ds[u.from]

\* Entry k is the last of the first n of list for its number.
LastOf(list, n, k) == \A j \in k + 1 .. n : list[j].to # list[k].to

\* The numbers for copies that list closes, and those a capture took.
Numbers(list) == {list[k].to : k \in 1 .. Len(list)} \ UserFds
Captured(f) == {f.cap, f.saved} \ (UserFds \union {0})
HeldBy(f) == Numbers(f.undo) \union Captured(f)

\* Every copy that list puts back it also closes, and only afterwards.
WellFormed(list) ==
  \A k \in 1 .. Len(list) :
    list[k].op = "dup" => /\ list[k].to \in UserFds
                          /\ list[k].from \in Numbers(list)
                          /\ \A j \in 1 .. k - 1 : list[j].to # list[k].from

\* The script's descriptors as the redirections of f found them: 1 is on the
\* capture file if there is one.
Start(f) ==
  [d \in FDs |-> IF f.cap # 0 /\ d \in {1, f.cap} THEN Cap
                 ELSE IF f.cap # 0 /\ d = f.saved THEN f.before[1] ELSE f.before[d]]

\* list does not name d; its last entry for d gives it x.
Unnamed(list, d) == \A k \in 1 .. Len(list) : list[k].to # d
Gives(list, ds, d, x) ==
  \E k \in 1 .. Len(list) : /\ list[k].to = d
                            /\ LastOf(list, Len(list), k)
                            /\ Value(list[k], ds) = x

\* Undoing list gives every descriptor f touched what it was at the start, and
\* does not name the others.
Restores(f, list, ds) ==
  \A d \in UserFds \ f.besides :
    IF d \in f.touched THEN Gives(list, ds, d, Start(f)[d]) ELSE Unnamed(list, d)

\* A capture has a copy of a standard output that was open.
CaptureOK(f) ==
  /\ f.cap = 0 <=> f.saved = 0
  /\ f.cap # 0 => /\ f.before[1] # Closed
                  /\ f.before[f.cap] = Closed /\ f.before[f.saved] = Closed
                  /\ f.cap # f.saved

\* The commands inside frame i of s, and frame i, that assign its capture's copy.
Inside(s, i) ==
  {j \in i .. Len(s) : \/ s[i].saved \in s[j].touched
                       \/ j > i /\ s[i].saved \in Assigned(s[j])}

\* When all commands inside frame i of s have ended, its capture's copy is of
\* what standard output was.
SavedOK(s, i, ds) ==
  /\ \A j \in i .. Len(s) : s[i].saved \notin s[j].besides
  /\ Inside(s, i) = {} => ds[s[i].saved] = s[i].before[1]
  /\ \A m \in Inside(s, i) :
       (\A j \in Inside(s, i) : m <= j) => m = i \/ s[m].before[s[i].saved] = s[i].before[1]

\* A stack of commands whose descriptors are ds.  No copy is in two places, and
\* a number for copies is open if and only if one of them holds it.
StackOK(s, ds) ==
  /\ \A i \in 1 .. Len(s) : /\ WellFormed(s[i].undo)
                            /\ Numbers(s[i].undo) \cap Captured(s[i]) = {}
                            /\ Restores(s[i], s[i].undo, ds)
                            /\ CaptureOK(s[i])
                            /\ s[i].cap # 0 => SavedOK(s, i, ds)
  /\ \A i, j \in 1 .. Len(s) : i # j => HeldBy(s[i]) \cap HeldBy(s[j]) = {}
  /\ \A d \in FDs \ UserFds : ds[d] # Closed <=> \E i \in 1 .. Len(s) : d \in HeldBy(s[i])

\* The stack, with the list the command on top has still to put away.
Stack == IF pc = "run" THEN frames
         ELSE Append(Front(frames), [Top EXCEPT !.undo = redirection_undo_list])

\* exec's other list closes the copies and nothing else.
ClosesCopies(list, undo) ==
  /\ Numbers(list) = Numbers(undo)
  /\ \A k \in 1 .. Len(list) : list[k].op = "close" /\ list[k].to \notin UserFds

ControlInv ==
  /\ pc # "run" => frames # <<>>
  /\ pc = "run" => redirection_undo_list = <<>> /\ exec_redirection_undo_list = <<>>
  /\ pc = "apply" => Top.undo = <<>>
  /\ pc = "apply" /\ Top.done = 0 => redirection_undo_list = <<>> /\ exec_redirection_undo_list = <<>>
  /\ pc = "exec" => Top.kind = "exec" /\ exec_redirection_undo_list = <<>>
  /\ \A i \in 1 .. Len(frames) : frames[i].cap = 0 <=> frames[i].saved = 0

\* What the command on top has not touched is as at its start.
FreshInv ==
  pc # "run" /\ ~tangled =>
    \A d \in UserFds \ (Top.touched \union Top.besides) : fds[d] = Start(Top)[d]

ExecInv ==
  ~tangled =>
    /\ pc = "apply" => ClosesCopies(exec_redirection_undo_list, redirection_undo_list)
    /\ pc = "exec" => ClosesCopies(Top.undo, redirection_undo_list)

IInv == RedirTypeOK /\ ControlInv /\ ExecInv /\ FreshInv /\ (~tangled => StackOK(Stack, fds))

-----------------------------------------------------------------------------
(* Numbers of descriptors.                                                  *)

LEMMA FdFacts ==
  /\ MaxFd \in Nat /\ SHELL_FD_BASE \in Nat
  /\ FDs \subseteq Nat /\ UserFds \subseteq FDs
  /\ 0 \notin FDs
  /\ 1 \in UserFds /\ 2 \in UserFds
  /\ \A d \in FDs : d \notin UserFds <=> d >= SHELL_FD_BASE
  BY FdAssumption DEF FDs, UserFds

LEMMA MinOf == \A S \in SUBSET FDs : S # {} => Min(S) \in S
<1> SUFFICES ASSUME NEW S \in SUBSET FDs, S # {} PROVE Min(S) \in S
  OBVIOUS
<1>1. S \subseteq Nat
  BY FdFacts
<1>2. PICK m \in S : \A k \in S : m <= k
  BY <1>1, LeastOfSet
<1> QED
  BY <1>2, Zenon DEF Min

(* N steps from z: a recursive function that makes them exists. *)
Iterates(g, V, z, N, F) ==
  /\ g \in [0 .. N -> V]
  /\ g[0] = z
  /\ \A n \in 1 .. N : g[n] = F[n][g[n - 1]]

LEMMA IterationExists ==
  ASSUME NEW V, NEW z \in V, NEW N \in Nat, NEW F \in [1 .. N -> [V -> V]]
  PROVE  \E g : Iterates(g, V, z, N, F)
<1> DEFINE Partial(n, g) ==
             /\ g \in [0 .. n -> V]
             /\ \A k \in 0 .. n : g[k] = IF k = 0 THEN z ELSE F[k][g[k - 1]]
           S == {n \in Nat : n <= N => \E g : Partial(n, g)}
<1>1. 0 \in S
  <2> DEFINE g == [k \in 0 .. 0 |-> z]
  <2>1. g \in [0 .. 0 -> V] /\ \A k \in 0 .. 0 : k = 0 /\ g[k] = z
    OBVIOUS
  <2> HIDE DEF g
  <2>2. Partial(0, g)
    BY <2>1
  <2> QED
    BY <2>2
<1>2. \A n \in Nat : n \in S => n + 1 \in S
  <2> SUFFICES ASSUME NEW n \in Nat, n \in S, n + 1 <= N PROVE \E h : Partial(n + 1, h)
    <3>1. \A n \in Nat : n + 1 \in Nat
      OBVIOUS
    <3> HIDE DEF Partial
    <3> QED
      BY <3>1
  <2>1. PICK g : Partial(n, g)
    OBVIOUS
  <2> DEFINE v == F[n + 1][g[n]]
             h == [k \in 0 .. n + 1 |-> IF k = n + 1 THEN v ELSE g[k]]
  <2>2. v \in V
    <3>1. g[n] \in V /\ n + 1 \in 1 .. N
      BY <2>1
    <3> QED
      BY <3>1
  <2> HIDE DEF v
  <2>3. h \in [0 .. n + 1 -> V]
    BY <2>1, <2>2
  <2>4. ASSUME NEW k \in 0 .. n + 1
        PROVE  h[k] = IF k = 0 THEN z ELSE F[k][h[k - 1]]
    <3>1. CASE k = n + 1
      <4>1. k # 0 /\ k - 1 = n /\ n \in 0 .. n + 1 /\ n # n + 1
        BY <3>1
      <4>2. h[k] = v /\ h[k - 1] = g[n]
        BY <3>1, <4>1
      <4>3. v = F[n + 1][g[n]]
        BY DEF v
      <4> HIDE DEF h
      <4> QED
        BY <3>1, <4>1, <4>2, <4>3, Zenon
    <3>2. CASE k \in 1 .. n
      <4>1. /\ k \in 0 .. n /\ k # 0 /\ k # n + 1
            /\ k - 1 \in 0 .. n + 1 /\ k - 1 # n + 1
        BY <3>2
      <4>2. g[k] = F[k][g[k - 1]]
        BY <2>1, <4>1, Zenon
      <4>3. h[k] = g[k] /\ h[k - 1] = g[k - 1]
        BY <4>1
      <4> QED
        BY <4>1, <4>2, <4>3, Zenon
    <3>3. CASE k = 0
      <4>1. k \in 0 .. n + 1 /\ k # n + 1 /\ k \in 0 .. n
        BY <3>3
      <4>2. g[k] = z
        BY <2>1, <3>3, <4>1, Zenon
      <4>3. h[k] = g[k]
        BY <4>1
      <4> QED
        BY <3>3, <4>2, <4>3, Zenon
    <3> QED
      BY <3>1, <3>2, <3>3
  <2> QED
    BY <2>3, <2>4
<1>3. PICK g : Partial(N, g)
  <2> HIDE DEF S
  <2>1. N \in S
    BY <1>1, <1>2, NatSetInduction
  <2> QED
    BY <2>1 DEF S
<1>4. \A k \in 0 .. N : g[k] = IF k = 0 THEN z ELSE F[k][g[k - 1]]
  BY <1>3
<1>5. 0 \in 0 .. N /\ \A k \in 1 .. N : k \in 0 .. N /\ k # 0
  OBVIOUS
<1>6. g[0] = z /\ \A k \in 1 .. N : g[k] = F[k][g[k - 1]]
  BY <1>4, <1>5
<1> QED
  BY <1>3, <1>6 DEF Iterates

-----------------------------------------------------------------------------
(* Tables, and what each step on one does.                                  *)

Descriptors == [FDs -> Files \union {Tty, Cap, Closed}]

Tables == [fds: Descriptors, clexec: SUBSET FDs,
           undo: Seq(Undos), exec: Seq(Undos), ok: BOOLEAN]

LEMMA EntryFacts ==
  ASSUME NEW u \in Undos
  PROVE  /\ u.to \in FDs /\ u.op \in {"dup", "close"}
         /\ u.op = "dup" => u.from \in FDs
  BY DEF Undos

LEMMA CloseEntry ==
  ASSUME NEW d \in FDs
  PROVE  /\ [op |-> "close", to |-> d] \in Undos
         /\ [op |-> "close", to |-> d].op = "close"
         /\ [op |-> "close", to |-> d].to = d
  BY DEF Undos

LEMMA DupEntry ==
  ASSUME NEW t, NEW d \in FDs, NEW c \in FDs
  PROVE  /\ SavedDup(t, d, c) \in Undos
         /\ SavedDup(t, d, c).op = "dup"
         /\ SavedDup(t, d, c).to = d
         /\ SavedDup(t, d, c).from = c
<1> DEFINE b == d \notin t.clexec /\ d >= 3
<1>1. b \in BOOLEAN
  OBVIOUS
<1>2. SavedDup(t, d, c) = [op |-> "dup", to |-> d, from |-> c, open |-> b]
  BY DEF SavedDup
<1> HIDE DEF b
<1> QED
  BY <1>1, <1>2 DEF Undos

LEMMA TableFields ==
  ASSUME NEW t \in Tables
  PROVE  /\ t.fds \in Descriptors /\ t.clexec \in SUBSET FDs
         /\ t.undo \in Seq(Undos) /\ t.exec \in Seq(Undos) /\ t.ok \in BOOLEAN
  BY DEF Tables

LEMMA FailResult ==
  ASSUME NEW t \in Tables
  PROVE  /\ Fail(t) \in Tables
         /\ ~Fail(t).ok
         /\ Fail(t).fds = t.fds /\ Fail(t).undo = t.undo /\ Fail(t).exec = t.exec
  BY DEF Tables, Fail

LEMMA CloseResult ==
  ASSUME NEW t \in Tables, NEW d \in FDs
  PROVE  /\ Close(t, d) \in Tables
         /\ Close(t, d).fds = [t.fds EXCEPT ![d] = Closed]
         /\ Close(t, d).undo = t.undo /\ Close(t, d).exec = t.exec
         /\ Close(t, d).ok = t.ok
  BY DEF Tables, Descriptors, Close

LEMMA Dup2Result ==
  ASSUME NEW t \in Tables, NEW from \in FDs, NEW to \in FDs, t.fds[from] # Closed
  PROVE  /\ Dup2(t, from, to) \in Tables
         /\ Dup2(t, from, to).fds = [t.fds EXCEPT ![to] = t.fds[from]]
         /\ Dup2(t, from, to).undo = t.undo /\ Dup2(t, from, to).exec = t.exec
         /\ Dup2(t, from, to).ok = t.ok
  BY DEF Tables, Descriptors, Dup2, IsOpen

LEMMA Dup2Closed ==
  ASSUME NEW t, NEW from, NEW to, t.fds[from] = Closed
  PROVE  Dup2(t, from, to) = Fail(t)
  BY DEF Dup2, IsOpen

(* An entry of an undo list whose copy is there is undone. *)
LEMMA UndoOneResult ==
  ASSUME NEW t \in Tables, t.ok, NEW u \in Undos,
         u.op = "dup" => t.fds[u.from] # Closed
  PROVE  /\ UndoOne(t, u) \in Tables
         /\ UndoOne(t, u).fds = [t.fds EXCEPT ![u.to] = Value(u, t.fds)]
         /\ UndoOne(t, u).undo = t.undo /\ UndoOne(t, u).exec = t.exec
         /\ UndoOne(t, u).ok
<1>1. u.to \in FDs /\ u.op \in {"dup", "close"}
  BY EntryFacts
<1>2. CASE u.op = "close"
  <2>1. UndoOne(t, u) = Close(t, u.to)
    BY <1>2 DEF UndoOne
  <2> QED
    BY <1>1, <1>2, <2>1, CloseResult DEF Value
<1>3. CASE u.op = "dup"
  <2> DEFINE back == Dup2(t, u.from, u.to)
             flag == u.from \in t.clexec /\ u.to > 2 /\ ~u.open
  <2>1. UndoOne(t, u) = IF flag THEN [back EXCEPT !.clexec = @ \union {u.to}] ELSE back
    BY <1>3 DEF UndoOne
  <2>2. /\ back \in Tables /\ back.fds = [t.fds EXCEPT ![u.to] = t.fds[u.from]]
        /\ back.undo = t.undo /\ back.exec = t.exec /\ back.ok = t.ok
    <3>1. u.from \in FDs /\ u.to \in FDs /\ t.fds[u.from] # Closed
      BY <1>1, <1>3, EntryFacts
    <3>2. /\ Dup2(t, u.from, u.to) \in Tables
          /\ Dup2(t, u.from, u.to).fds = [t.fds EXCEPT ![u.to] = t.fds[u.from]]
          /\ Dup2(t, u.from, u.to).undo = t.undo /\ Dup2(t, u.from, u.to).exec = t.exec
          /\ Dup2(t, u.from, u.to).ok = t.ok
      BY <3>1, Dup2Result, Zenon
    <3> QED
      BY <3>2 DEF back
  <2> HIDE DEF back, flag
  <2>3. /\ UndoOne(t, u) \in Tables /\ UndoOne(t, u).fds = back.fds
        /\ UndoOne(t, u).undo = back.undo /\ UndoOne(t, u).exec = back.exec
        /\ UndoOne(t, u).ok = back.ok
    <3>1. CASE flag
      <4>1. UndoOne(t, u) = [back EXCEPT !.clexec = @ \union {u.to}]
        BY <2>1, <3>1
      <4>2. back.clexec \union {u.to} \in SUBSET FDs
        BY <1>1, <2>2, TableFields
      <4> DEFINE c == back.clexec \union {u.to}
      <4>3. UndoOne(t, u) = [back EXCEPT !.clexec = c]
        BY <4>1
      <4> HIDE DEF c
      <4> QED
        BY <2>2, <4>2, <4>3 DEF Tables, c
    <3>2. CASE ~flag
      BY <2>1, <2>2, <3>2
    <3> QED
      BY <3>1, <3>2
  <2> QED
    BY <1>3, <2>2, <2>3 DEF Value
<1> QED
  BY <1>1, <1>2, <1>3

(* Whether or not the copy is there. *)
LEMMA UndoOneType ==
  ASSUME NEW t \in Tables, NEW u \in Undos
  PROVE  /\ UndoOne(t, u) \in Tables
         /\ UndoOne(t, u).undo = t.undo /\ UndoOne(t, u).exec = t.exec
<1>1. CASE ~t.ok
  BY <1>1 DEF UndoOne
<1>2. CASE t.ok /\ (u.op = "dup" => t.fds[u.from] # Closed)
  BY <1>2, UndoOneResult
<1>3. CASE t.ok /\ u.op = "dup" /\ t.fds[u.from] = Closed
  <2> DEFINE flag == u.from \in t.clexec /\ u.to > 2 /\ ~u.open
  <2>1. UndoOne(t, u) = IF flag THEN [Fail(t) EXCEPT !.clexec = @ \union {u.to}] ELSE Fail(t)
    BY <1>3, Dup2Closed DEF UndoOne
  <2> HIDE DEF flag
  <2>2. Fail(t) \in Tables /\ Fail(t).undo = t.undo /\ Fail(t).exec = t.exec
    BY FailResult
  <2> QED
    BY <2>1, <2>2, EntryFacts DEF Tables
<1> QED
  BY <1>1, <1>2, <1>3

-----------------------------------------------------------------------------
(* Undo lists.                                                              *)

IsUndone(g, t, N, list) ==
  /\ g \in [0 .. N -> Tables]
  /\ g[0] = t
  /\ \A n \in 1 .. N : g[n] = UndoOne(g[n - 1], list[n])

LEMMA UndoneExists ==
  ASSUME NEW t \in Tables, NEW N \in Nat, NEW list, \A n \in 1 .. N : list[n] \in Undos
  PROVE  \E g : IsUndone(g, t, N, list)
<1> DEFINE F == [n \in 1 .. N |-> [x \in Tables |-> UndoOne(x, list[n])]]
<1>1. F \in [1 .. N -> [Tables -> Tables]]
  <2> SUFFICES ASSUME NEW n \in 1 .. N, NEW x \in Tables PROVE UndoOne(x, list[n]) \in Tables
    OBVIOUS
  <2> QED
    BY UndoOneType
<1>2. \A x \in Tables, n \in 1 .. N : F[n][x] = UndoOne(x, list[n])
  OBVIOUS
<1> HIDE DEF F
<1>3. PICK g : Iterates(g, Tables, t, N, F)
  BY <1>1, IterationExists
<1>4. g \in [0 .. N -> Tables] /\ g[0] = t /\ \A n \in 1 .. N : g[n] = F[n][g[n - 1]]
  BY <1>3 DEF Iterates
<1>5. ASSUME NEW n \in 1 .. N PROVE g[n] = UndoOne(g[n - 1], list[n])
  <2>1. g[n - 1] \in Tables
    BY <1>4
  <2> QED
    BY <1>2, <1>4, <2>1
<1> QED
  BY <1>4, <1>5 DEF IsUndone

LEMMA UndoneSteps ==
  ASSUME NEW t \in Tables, NEW list \in Seq(Undos)
  PROVE  \E g : IsUndone(g, t, Len(list), list) /\ Undone(t, list) = g[Len(list)]
<1> DEFINE N == Len(list)
           Is(g) == g = [n \in 0 .. N |-> IF n = 0 THEN t ELSE UndoOne(g[n - 1], list[n])]
           undone == CHOOSE h : Is(h)
<1>1. N \in Nat /\ \A n \in 1 .. N : list[n] \in Undos
  BY LenProperties, ElementOfSeq
<1>2. PICK g : IsUndone(g, t, N, list)
  <2> HIDE DEF N
  <2> QED
    BY <1>1, UndoneExists
<1>3. Is(g)
  <2>1. \A n \in 0 .. N : g[n] = IF n = 0 THEN t ELSE UndoOne(g[n - 1], list[n])
    BY <1>1, <1>2 DEF IsUndone
  <2> QED
    BY <1>2, <2>1 DEF IsUndone
<1>4. Is(undone)
  BY <1>3
<1>5. Undone(t, list) = undone[N]
  BY Zenon DEF Undone
<1> HIDE DEF undone
<1>6. undone[0] = t /\ \A n \in 1 .. N : undone[n] = UndoOne(undone[n - 1], list[n])
  BY <1>1, <1>4
<1>7. undone \in [0 .. N -> Tables]
  <2> DEFINE S == {n \in Nat : n <= N => undone[n] \in Tables}
  <2>1. 0 \in S
    BY <1>6
  <2>2. ASSUME NEW n \in Nat, n \in S PROVE n + 1 \in S
    <3> SUFFICES ASSUME n + 1 <= N PROVE undone[n + 1] \in Tables
      OBVIOUS
    <3>1. n + 1 \in 1 .. N /\ (n + 1) - 1 = n /\ n <= N
      BY <1>1
    <3>2. undone[n + 1] = UndoOne(undone[n], list[n + 1]) /\ list[n + 1] \in Undos
      BY <1>1, <1>6, <3>1
    <3>3. undone[n] \in Tables
      BY <2>2, <3>1
    <3> QED
      BY <3>2, <3>3, UndoOneType
  <2>3. \A n \in Nat : n \in S
    <3> HIDE DEF S
    <3> QED
      BY <2>1, <2>2, NatSetInduction
  <2>4. \A n \in 0 .. N : undone[n] \in Tables
    BY <1>1, <2>3
  <2> QED
    BY <1>4, <2>4
<1> QED
  BY <1>5, <1>6, <1>7 DEF IsUndone

(* Undoing any list gives a table again. *)
LEMMA CleanupType ==
  ASSUME NEW t \in Tables, NEW list \in Seq(Undos)
  PROVE  /\ cleanup_redirects(t, list) \in Tables
         /\ cleanup_redirects(t, list).undo = t.undo
         /\ cleanup_redirects(t, list).exec = t.exec
         /\ cleanup_redirects(t, list).ok
<1>1. PICK g : IsUndone(g, t, Len(list), list) /\ Undone(t, list) = g[Len(list)]
  BY UndoneSteps
<1> DEFINE S == {n \in Nat : n <= Len(list) =>
                   g[n] \in Tables /\ g[n].undo = t.undo /\ g[n].exec = t.exec}
<1>2. Len(list) \in Nat /\ \A n \in 1 .. Len(list) : list[n] \in Undos
  BY LenProperties, ElementOfSeq
<1>3. 0 \in S
  BY <1>1 DEF IsUndone
<1>4. ASSUME NEW n \in Nat, n \in S PROVE n + 1 \in S
  <2> SUFFICES ASSUME n + 1 <= Len(list)
               PROVE  /\ g[n + 1] \in Tables
                      /\ g[n + 1].undo = t.undo /\ g[n + 1].exec = t.exec
    OBVIOUS
  <2>1. n + 1 \in 1 .. Len(list) /\ (n + 1) - 1 = n /\ n <= Len(list)
    BY <1>2
  <2>2. g[n + 1] = UndoOne(g[n], list[n + 1]) /\ list[n + 1] \in Undos
    BY <1>1, <1>2, <2>1 DEF IsUndone
  <2>3. g[n] \in Tables /\ g[n].undo = t.undo /\ g[n].exec = t.exec
    BY <1>4, <2>1
  <2> QED
    BY <2>2, <2>3, UndoOneType
<1>5. Len(list) \in S
  <2> HIDE DEF S
  <2> QED
    BY <1>2, <1>3, <1>4, NatSetInduction
<1> DEFINE c == Undone(t, list)
<1>6. c \in Tables /\ c.undo = t.undo /\ c.exec = t.exec
  BY <1>1, <1>2, <1>5
<1>7. cleanup_redirects(t, list) = [c EXCEPT !.ok = TRUE]
  BY DEF cleanup_redirects
<1> HIDE DEF c
<1> QED
  BY <1>6, <1>7 DEF Tables

\* Each copy that list puts back is there, and is put back before anything
\* in the list assigns its number.
Sound(list, descriptors) ==
  \A k \in 1 .. Len(list) :
    list[k].op = "dup" => /\ descriptors[list[k].from] # Closed
                          /\ \A j \in 1 .. k - 1 : list[j].to # list[k].from

(* A sound list is undone to its end.  A number it does not name keeps its    *)
(* file, and one it names gets what its last entry says, in terms of the    *)
(* descriptors before the first one.                                        *)
LEMMA CleanupEffect ==
  ASSUME NEW t \in Tables, t.ok, NEW list \in Seq(Undos), Sound(list, t.fds)
  PROVE  /\ \A d \in FDs : (\A k \in 1 .. Len(list) : list[k].to # d)
                           => cleanup_redirects(t, list).fds[d] = t.fds[d]
         /\ \A k \in 1 .. Len(list) : LastOf(list, Len(list), k)
              => cleanup_redirects(t, list).fds[list[k].to] = Value(list[k], t.fds)
<1>1. PICK g : IsUndone(g, t, Len(list), list) /\ Undone(t, list) = g[Len(list)]
  BY UndoneSteps
<1> DEFINE N == Len(list)
           Kept(n) == \A d \in FDs : (\A k \in 1 .. n : list[k].to # d) => g[n].fds[d] = t.fds[d]
           Given(n) == \A k \in 1 .. n : LastOf(list, n, k)
                                         => g[n].fds[list[k].to] = Value(list[k], t.fds)
           S == {n \in Nat : n <= N => g[n] \in Tables /\ g[n].ok /\ Kept(n) /\ Given(n)}
<1>2. N \in Nat /\ \A n \in 1 .. N : list[n] \in Undos
  BY LenProperties, ElementOfSeq
<1>3. g[0] = t /\ \A n \in 1 .. N : g[n] = UndoOne(g[n - 1], list[n])
  BY <1>1 DEF IsUndone
<1>4. 0 \in S
  BY <1>3
<1>5. ASSUME NEW n \in Nat, n \in S PROVE n + 1 \in S
  <2> SUFFICES ASSUME n + 1 <= N
               PROVE  g[n + 1] \in Tables /\ g[n + 1].ok /\ Kept(n + 1) /\ Given(n + 1)
    OBVIOUS
  <2> DEFINE u == list[n + 1]
  <2>1. n + 1 \in 1 .. N /\ (n + 1) - 1 = n /\ n <= N
    BY <1>2
  <2>2. g[n + 1] = UndoOne(g[n], u) /\ u \in Undos /\ u.to \in FDs
    BY <1>2, <1>3, <2>1, EntryFacts
  <2>3. g[n] \in Tables /\ g[n].ok /\ Kept(n) /\ Given(n)
    BY <1>5, <2>1
  <2>4. u.op = "dup" => /\ u.from \in FDs /\ g[n].fds[u.from] = t.fds[u.from]
                        /\ t.fds[u.from] # Closed
    <3> SUFFICES ASSUME u.op = "dup"
                 PROVE  /\ u.from \in FDs /\ g[n].fds[u.from] = t.fds[u.from]
                        /\ t.fds[u.from] # Closed
      OBVIOUS
    <3>1. u.from \in FDs
      BY <2>2, EntryFacts
    <3>2. t.fds[u.from] # Closed /\ \A j \in 1 .. (n + 1) - 1 : list[j].to # u.from
      BY <2>1, Zenon DEF Sound
    <3>3. \A j \in 1 .. n : list[j].to # u.from
      BY <2>1, <3>2
    <3> QED
      BY <2>3, <3>1, <3>2, <3>3
  <2>5. Value(u, g[n].fds) = Value(u, t.fds)
    BY <2>2, <2>4, EntryFacts DEF Value
  <2>6. /\ g[n + 1] \in Tables /\ g[n + 1].ok
        /\ g[n + 1].fds = [g[n].fds EXCEPT ![u.to] = Value(u, t.fds)]
    <3> HIDE DEF u
    <3>1. u.op = "dup" => g[n].fds[u.from] # Closed
      BY <2>4
    <3> DEFINE v == g[n]
    <3>2. v \in Tables /\ v.ok /\ u \in Undos /\ (u.op = "dup" => v.fds[u.from] # Closed)
      BY <2>2, <2>3, <3>1
    <3> HIDE DEF v
    <3>3. /\ UndoOne(v, u) \in Tables /\ UndoOne(v, u).ok
          /\ UndoOne(v, u).fds = [v.fds EXCEPT ![u.to] = Value(u, v.fds)]
      BY <3>2, UndoOneResult
    <3> QED
      BY <2>2, <2>5, <3>3 DEF v
  <2>7. DOMAIN g[n].fds = FDs
    BY <2>3, TableFields DEF Descriptors
  <2>8. Kept(n + 1)
    <3> SUFFICES ASSUME NEW d \in FDs, \A k \in 1 .. n + 1 : list[k].to # d
                 PROVE  g[n + 1].fds[d] = t.fds[d]
      OBVIOUS
    <3>1. d # u.to /\ \A k \in 1 .. n : list[k].to # d
      OBVIOUS
    <3> QED
      BY <2>3, <2>6, <2>7, <3>1
  <2>9. Given(n + 1)
    <3> SUFFICES ASSUME NEW k \in 1 .. n + 1, LastOf(list, n + 1, k)
                 PROVE  g[n + 1].fds[list[k].to] = Value(list[k], t.fds)
      OBVIOUS
    <3>1. CASE k = n + 1
      BY <2>2, <2>6, <2>7, <3>1
    <3>2. CASE k \in 1 .. n
      <4>1. list[k].to # u.to /\ LastOf(list, n, k)
        BY <3>2 DEF LastOf
      <4>2. list[k].to \in FDs
        BY <1>2, <2>1, <3>2, EntryFacts
      <4>3. g[n].fds[list[k].to] = Value(list[k], t.fds)
        BY <2>3, <3>2, <4>1
      <4> QED
        BY <2>6, <2>7, <4>1, <4>2, <4>3
    <3> QED
      BY <3>1, <3>2
  <2> QED
    BY <2>6, <2>8, <2>9
<1>6. N \in S
  <2> HIDE DEF S
  <2> QED
    BY <1>2, <1>4, <1>5, NatSetInduction
<1>7. g[N] \in Tables /\ Kept(N) /\ Given(N)
  BY <1>2, <1>6
<1>8. cleanup_redirects(t, list).fds = g[N].fds
  BY <1>1, <1>7 DEF cleanup_redirects, Tables
<1> QED
  BY <1>7, <1>8

-----------------------------------------------------------------------------
(* Putting entries in front of a list.                                      *)

\* l is list with the entry a in front.
Longer(l, a, list) == l = <<a>> \o list

LEMMA OneMore ==
  ASSUME NEW a \in Undos, NEW list \in Seq(Undos), NEW l, Longer(l, a, list)
  PROVE  /\ l \in Seq(Undos) /\ Len(list) \in Nat /\ Len(l) = Len(list) + 1
         /\ l[1] = a
         /\ \A k \in 1 .. Len(list) : l[k + 1] = list[k]
         /\ \A k \in 2 .. Len(l) : k - 1 \in 1 .. Len(list) /\ l[k] = list[k - 1]
<1>1. <<a>> \in Seq(Undos) /\ Len(<<a>>) = 1 /\ <<a>>[1] = a
  OBVIOUS
<1>2. Len(list) \in Nat
  BY LenProperties
<1>3. /\ l \in Seq(Undos) /\ Len(l) = Len(list) + 1
      /\ \A k \in 1 .. Len(list) + 1 : l[k] = IF k <= 1 THEN <<a>>[k] ELSE list[k - 1]
  BY <1>1, <1>2, ConcatProperties DEF Longer
<1>4. l[1] = a
  BY <1>1, <1>2, <1>3
<1>5. ASSUME NEW k \in 2 .. Len(l) PROVE k - 1 \in 1 .. Len(list) /\ l[k] = list[k - 1]
  BY <1>2, <1>3
<1>6. ASSUME NEW k \in 1 .. Len(list) PROVE l[k + 1] = list[k]
  <2>1. k + 1 \in 2 .. Len(l) /\ (k + 1) - 1 = k
    BY <1>2, <1>3
  <2> QED
    BY <1>5, <2>1
<1> QED
  BY <1>2, <1>3, <1>4, <1>5, <1>6

LEMMA TwoMore ==
  ASSUME NEW a \in Undos, NEW b \in Undos, NEW list \in Seq(Undos), NEW l,
         l = <<a, b>> \o list
  PROVE  /\ l \in Seq(Undos) /\ Len(list) \in Nat /\ Len(l) = Len(list) + 2
         /\ l[1] = a /\ l[2] = b
         /\ \A k \in 1 .. Len(list) : l[k + 2] = list[k]
         /\ \A k \in 3 .. Len(l) : k - 2 \in 1 .. Len(list) /\ l[k] = list[k - 2]
<1>1. <<a, b>> \in Seq(Undos) /\ Len(<<a, b>>) = 2 /\ <<a, b>>[1] = a /\ <<a, b>>[2] = b
  OBVIOUS
<1>2. Len(list) \in Nat
  BY LenProperties
<1>3. /\ l \in Seq(Undos) /\ Len(l) = Len(list) + 2
      /\ \A k \in 1 .. Len(list) + 2 : l[k] = IF k <= 2 THEN <<a, b>>[k] ELSE list[k - 2]
  BY <1>1, <1>2, ConcatProperties
<1>4. l[1] = a /\ l[2] = b
  BY <1>1, <1>2, <1>3
<1>5. ASSUME NEW k \in 3 .. Len(l) PROVE k - 2 \in 1 .. Len(list) /\ l[k] = list[k - 2]
  BY <1>2, <1>3
<1>6. ASSUME NEW k \in 1 .. Len(list) PROVE l[k + 2] = list[k]
  <2>1. k + 2 \in 3 .. Len(l) /\ (k + 2) - 2 = k
    BY <1>2, <1>3
  <2> QED
    BY <1>5, <2>1
<1> QED
  BY <1>2, <1>3, <1>4, <1>5, <1>6

(* An entry in front of another. *)
LEMMA OneByOne ==
  ASSUME NEW a \in Undos, NEW b \in Undos, NEW list \in Seq(Undos), NEW l,
         l = <<a, b>> \o list
  PROVE  \E m \in Seq(Undos) : Longer(m, b, list) /\ Longer(l, a, m)
<1> DEFINE m == <<b>> \o list
           n == <<a>> \o m
<1>0. Longer(m, b, list) /\ Longer(n, a, m)
  BY DEF Longer
<1> HIDE DEF m, n
<1>1. /\ m \in Seq(Undos) /\ Len(list) \in Nat /\ Len(m) = Len(list) + 1
      /\ m[1] = b
      /\ \A k \in 2 .. Len(m) : k - 1 \in 1 .. Len(list) /\ m[k] = list[k - 1]
  BY <1>0, OneMore
<1>2. /\ n \in Seq(Undos) /\ Len(n) = Len(m) + 1
      /\ n[1] = a
      /\ \A k \in 2 .. Len(n) : k - 1 \in 1 .. Len(m) /\ n[k] = m[k - 1]
  BY <1>0, <1>1, OneMore
<1>3. /\ l \in Seq(Undos) /\ Len(l) = Len(list) + 2
      /\ l[1] = a /\ l[2] = b
      /\ \A k \in 3 .. Len(l) : k - 2 \in 1 .. Len(list) /\ l[k] = list[k - 2]
  BY TwoMore
<1>4. ASSUME NEW k \in 1 .. Len(n) PROVE n[k] = l[k]
  <2>1. CASE k = 1
    BY <1>2, <1>3, <2>1
  <2>2. CASE k = 2
    <3>1. n[2] = m[1]
      BY <1>1, <1>2
    <3> QED
      BY <1>1, <1>3, <2>2, <3>1
  <2>3. CASE k # 1 /\ k # 2
    <3>1. k \in 2 .. Len(n) /\ k - 1 \in 2 .. Len(m) /\ (k - 1) - 1 = k - 2
      BY <1>1, <1>2, <2>3
    <3>2. k \in 3 .. Len(l)
      BY <1>1, <1>2, <1>3, <2>3
    <3> QED
      BY <1>1, <1>2, <1>3, <3>1, <3>2
  <2> QED
    BY <2>1, <2>2, <2>3
<1>5. Len(n) = Len(l)
  BY <1>1, <1>2, <1>3
<1>6. n = l
  BY <1>2, <1>3, <1>4, <1>5, SeqEqual
<1> QED
  BY <1>0, <1>1, <1>6

-----------------------------------------------------------------------------
(* The two ways of remembering a descriptor.                                *)

\* u is t with a copy of d under c, and the way back in front of its lists.
Copied(t, u, d, c) ==
  /\ u.fds = [t.fds EXCEPT ![c] = t.fds[d]]
  /\ \E a, b \in Undos, m \in Seq(Undos) :
       /\ a.op = "dup" /\ a.to = d /\ a.from = c
       /\ b.op = "close" /\ b.to = c
       /\ Longer(m, b, t.undo) /\ Longer(u.undo, a, m)
       /\ Longer(u.exec, b, t.exec)

\* u is t with the closing of d in front of its list.
Noted(t, u, d) ==
  /\ u.fds = t.fds /\ u.exec = t.exec
  /\ \E b \in Undos : /\ b.op = "close" /\ b.to = d
                      /\ Longer(u.undo, b, t.undo)

LEMMA FreeFacts ==
  ASSUME NEW t, NEW base \in Nat
  PROVE  /\ Free(t, base) \subseteq FDs
         /\ \A d \in Free(t, base) : t.fds[d] = Closed
         /\ Free(t, base) # {} => Min(Free(t, base)) \in Free(t, base)
<1>1. Free(t, base) \in SUBSET FDs /\ \A d \in Free(t, base) : t.fds[d] = Closed
  BY DEF Free
<1> QED
  BY <1>1, MinOf

LEMMA AddUndoResult ==
  ASSUME NEW t \in Tables, NEW d \in FDs
  PROVE  LET u == add_undo_redirect(t, d)
         IN \/ /\ t.fds[d] = Closed \/ Free(t, 1) = {}
               /\ u = Fail(t)
            \/ /\ t.fds[d] # Closed /\ Free(t, 1) # {}
               /\ u \in Tables /\ u.ok = t.ok
               /\ \E c \in FDs : t.fds[c] = Closed /\ Copied(t, u, d, c)
<1> DEFINE u == add_undo_redirect(t, d)
           c == Min(IF Free(t, SHELL_FD_BASE) # {} THEN Free(t, SHELL_FD_BASE) ELSE Free(t, 1))
           a == SavedDup(t, d, c)
           b == [op |-> "close", to |-> c]
<1>1. CASE t.fds[d] = Closed \/ Free(t, 1) = {}
  BY <1>1 DEF add_undo_redirect, IsOpen
<1>2. ASSUME t.fds[d] # Closed /\ Free(t, 1) # {}
      PROVE  u \in Tables /\ u.ok = t.ok /\ \E e \in FDs : t.fds[e] = Closed /\ Copied(t, u, d, e)
  <2>1. c \in FDs /\ t.fds[c] = Closed
    <3>1. CASE Free(t, SHELL_FD_BASE) # {}
      BY <3>1, FdFacts, FreeFacts
    <3>2. CASE Free(t, SHELL_FD_BASE) = {}
      BY <1>2, <3>2, FreeFacts
    <3> QED
      BY <3>1, <3>2
  <2>2. u = [t EXCEPT !.fds[c] = t.fds[d], !.clexec = @ \union {c},
                      !.undo = <<a, b>> \o @, !.exec = <<b>> \o @]
    BY <1>2 DEF add_undo_redirect, IsOpen, ExecUndo
  <2> HIDE DEF u, c
  <2>3. a \in Undos /\ a.op = "dup" /\ a.to = d /\ a.from = c
    BY <2>1, DupEntry
  <2>4. b \in Undos /\ b.op = "close" /\ b.to = c
    BY <2>1, CloseEntry
  <2> HIDE DEF a, b
  <2>5. <<a, b>> \o t.undo \in Seq(Undos) /\ <<b>> \o t.exec \in Seq(Undos)
    BY <2>3, <2>4, TableFields, OneMore, TwoMore DEF Longer
  <2> DEFINE nfds == [t.fds EXCEPT ![c] = t.fds[d]]
             nclexec == t.clexec \union {c}
             nundo == <<a, b>> \o t.undo
             nexec == <<b>> \o t.exec
  <2>6. nfds \in Descriptors /\ nclexec \in SUBSET FDs
    BY <2>1, TableFields DEF Descriptors
  <2>7. u = [t EXCEPT !.fds = nfds, !.clexec = nclexec, !.undo = nundo, !.exec = nexec]
    BY <2>2
  <2>8. u.fds = nfds /\ u.undo = nundo /\ u.exec = nexec
    <3> HIDE DEF nfds, nclexec, nundo, nexec
    <3> QED
      BY <2>7 DEF Tables
  <2>9. u \in Tables /\ u.ok = t.ok
    <3>1. nundo \in Seq(Undos) /\ nexec \in Seq(Undos)
      BY <2>5
    <3> HIDE DEF nfds, nclexec, nundo, nexec
    <3> QED
      BY <2>6, <2>7, <3>1 DEF Tables
  <2>10. Copied(t, u, d, c)
    <3>1. \E m \in Seq(Undos) : Longer(m, b, t.undo) /\ Longer(nundo, a, m)
      BY <2>3, <2>4, TableFields, OneByOne
    <3>2. Longer(nexec, b, t.exec)
      BY DEF Longer
    <3>3. u.fds = [t.fds EXCEPT ![c] = t.fds[d]] /\ u.undo = nundo /\ u.exec = nexec
      BY <2>8
    <3> HIDE DEF nfds, nclexec, nundo, nexec
    <3>4. \E m \in Seq(Undos) : Longer(m, b, t.undo) /\ Longer(u.undo, a, m)
      BY <3>1, <3>3
    <3>5. Longer(u.exec, b, t.exec)
      BY <3>2, <3>3
    <3> QED
      BY <2>3, <2>4, <3>3, <3>4, <3>5, Zenon DEF Copied
  <2> QED
    BY <2>1, <2>9, <2>10
<1> QED
  BY <1>1, <1>2

LEMMA AddCloseResult ==
  ASSUME NEW t \in Tables, NEW d \in FDs
  PROVE  /\ add_undo_close_redirect(t, d) \in Tables
         /\ add_undo_close_redirect(t, d).ok = t.ok
         /\ Noted(t, add_undo_close_redirect(t, d), d)
<1> DEFINE b == [op |-> "close", to |-> d]
           nundo == <<b>> \o t.undo
<1>1. b \in Undos /\ b.op = "close" /\ b.to = d
  BY CloseEntry
<1>2. add_undo_close_redirect(t, d) = [t EXCEPT !.undo = nundo]
  BY DEF add_undo_close_redirect
<1> HIDE DEF b
<1>3. nundo \in Seq(Undos)
  BY <1>1, TableFields, OneMore DEF Longer
<1>4. add_undo_close_redirect(t, d).undo = nundo
  BY <1>2 DEF Tables
<1>5. /\ add_undo_close_redirect(t, d) \in Tables
      /\ add_undo_close_redirect(t, d).ok = t.ok
      /\ add_undo_close_redirect(t, d).fds = t.fds
      /\ add_undo_close_redirect(t, d).exec = t.exec
  <2> HIDE DEF nundo
  <2> QED
    BY <1>2, <1>3 DEF Tables
<1>6. Noted(t, add_undo_close_redirect(t, d), d)
  BY <1>1, <1>4, <1>5 DEF Noted, Longer
<1> QED
  BY <1>5, <1>6

-----------------------------------------------------------------------------
(* Longer lists.                                                            *)

LEMMA EntriesOf ==
  ASSUME NEW list \in Seq(Undos)
  PROVE  /\ Len(list) \in Nat
         /\ \A k \in 1 .. Len(list) : list[k] \in Undos /\ list[k].to \in FDs
         /\ Numbers(list) \subseteq FDs \ UserFds
         /\ \A k \in 1 .. Len(list) : list[k].to \notin UserFds => list[k].to \in Numbers(list)
<1>1. Len(list) \in Nat /\ \A k \in 1 .. Len(list) : list[k] \in Undos
  BY LenProperties, ElementOfSeq
<1>2. \A k \in 1 .. Len(list) : list[k].to \in FDs
  BY <1>1, EntryFacts
<1> QED
  BY <1>1, <1>2 DEF Numbers

(* One entry a in front of a list. *)
LEMMA MoreEntries ==
  ASSUME NEW a \in Undos, NEW list \in Seq(Undos), NEW l, Longer(l, a, list)
  PROVE  /\ l \in Seq(Undos)
         /\ Numbers(l) = Numbers(list) \union ({a.to} \ UserFds)
         /\ \A d : Unnamed(list, d) /\ a.to # d => Unnamed(l, d)
         /\ \A ds, d, x : Gives(list, ds, d, x) => Gives(l, ds, d, x)
         /\ \A ds : Unnamed(list, a.to) => Gives(l, ds, a.to, Value(a, ds))
<1>1. /\ l \in Seq(Undos) /\ Len(list) \in Nat /\ Len(l) = Len(list) + 1
      /\ l[1] = a
      /\ \A k \in 1 .. Len(list) : l[k + 1] = list[k]
      /\ \A k \in 2 .. Len(l) : k - 1 \in 1 .. Len(list) /\ l[k] = list[k - 1]
  BY OneMore
<1>2. ASSUME NEW k \in 1 .. Len(l), k # 1
      PROVE  k - 1 \in 1 .. Len(list) /\ l[k] = list[k - 1]
  <2>1. k \in 2 .. Len(l)
    BY <1>1, <1>2
  <2> QED
    BY <1>1, <2>1
<1>3. ASSUME NEW k \in 1 .. Len(list) PROVE k + 1 \in 1 .. Len(l) /\ l[k + 1] = list[k]
  BY <1>1
<1>4. 1 \in 1 .. Len(l)
  BY <1>1
<1>5. Numbers(l) = Numbers(list) \union ({a.to} \ UserFds)
  <2>1. ASSUME NEW e \in Numbers(l) PROVE e \in Numbers(list) \union ({a.to} \ UserFds)
    <3>1. PICK k \in 1 .. Len(l) : e = l[k].to /\ e \notin UserFds
      BY DEF Numbers
    <3>2. CASE k = 1
      BY <1>1, <3>1, <3>2
    <3>3. CASE k # 1
      BY <1>2, <3>1, <3>3 DEF Numbers
    <3> QED
      BY <3>2, <3>3
  <2>2. ASSUME NEW e \in Numbers(list) PROVE e \in Numbers(l)
    BY <1>3 DEF Numbers
  <2>3. a.to \notin UserFds => a.to \in Numbers(l)
    BY <1>1, <1>4 DEF Numbers
  <2> QED
    BY <2>1, <2>2, <2>3
<1>6. ASSUME NEW d, Unnamed(list, d), a.to # d PROVE Unnamed(l, d)
  <2> SUFFICES ASSUME NEW k \in 1 .. Len(l) PROVE l[k].to # d
    BY DEF Unnamed
  <2>1. CASE k = 1
    BY <1>1, <1>6, <2>1
  <2>2. CASE k # 1
    BY <1>2, <1>6, <2>2 DEF Unnamed
  <2> QED
    BY <2>1, <2>2
<1>7. ASSUME NEW ds, NEW d, NEW x, Gives(list, ds, d, x) PROVE Gives(l, ds, d, x)
  <2>1. PICK k \in 1 .. Len(list) : /\ list[k].to = d
                                    /\ LastOf(list, Len(list), k)
                                    /\ Value(list[k], ds) = x
    BY <1>7 DEF Gives
  <2>2. LastOf(l, Len(l), k + 1)
    <3> SUFFICES ASSUME NEW j \in (k + 1) + 1 .. Len(l) PROVE l[j].to # l[k + 1].to
      BY DEF LastOf
    <3>1. j \in 1 .. Len(l) /\ j # 1 /\ j - 1 \in k + 1 .. Len(list)
      BY <1>1
    <3> QED
      BY <1>2, <1>3, <2>1, <3>1 DEF LastOf
  <2> QED
    BY <1>3, <2>1, <2>2 DEF Gives
<1>8. ASSUME NEW ds, Unnamed(list, a.to) PROVE Gives(l, ds, a.to, Value(a, ds))
  <2>1. LastOf(l, Len(l), 1)
    <3> SUFFICES ASSUME NEW j \in 1 + 1 .. Len(l) PROVE l[j].to # l[1].to
      BY DEF LastOf
    <3>1. j \in 1 .. Len(l) /\ j # 1
      BY <1>1
    <3> QED
      BY <1>1, <1>2, <1>8, <3>1 DEF Unnamed
  <2> QED
    BY <1>1, <1>4, <2>1 DEF Gives
<1> QED
  BY <1>1, <1>5, <1>6, <1>7, <1>8

\* The list has a copy under a number a script may use.
Exposed(list) == \E k \in 1 .. Len(list) : list[k].op = "dup" /\ list[k].from \in UserFds

LEMMA ExposedMore ==
  ASSUME NEW a \in Undos, NEW list \in Seq(Undos), NEW l, Longer(l, a, list), ~Exposed(l)
  PROVE  ~Exposed(list) /\ (a.op = "dup" => a.from \notin UserFds)
<1>1. /\ Len(list) \in Nat /\ Len(l) = Len(list) + 1
      /\ l[1] = a
      /\ \A k \in 1 .. Len(list) : l[k + 1] = list[k]
  BY OneMore
<1>3. ASSUME NEW k \in 1 .. Len(list) PROVE k + 1 \in 1 .. Len(l) /\ l[k + 1] = list[k]
  BY <1>1
<1>4. 1 \in 1 .. Len(l)
  BY <1>1
<1> QED
  BY <1>1, <1>3, <1>4 DEF Exposed

-----------------------------------------------------------------------------
(* A list of redirections half done.                                        *)

\* t belongs to a command; held are the numbers for copies that others hold,
\* its capture included.
Good(t, held) ==
  /\ t.fds \in Descriptors /\ t.undo \in Seq(Undos) /\ t.exec \in Seq(Undos)
  /\ WellFormed(t.undo)
  /\ Numbers(t.undo) \cap held = {}
  /\ \A d \in FDs \ UserFds : t.fds[d] # Closed <=> d \in held \union Numbers(t.undo)
  /\ ClosesCopies(t.exec, t.undo)

\* The list of t leads back to the descriptors b, but for those in besides.
Undoes(t, b, touched, besides) ==
  \A d \in UserFds \ besides :
    IF d \in touched THEN Gives(t.undo, t.fds, d, b[d])
                     ELSE Unnamed(t.undo, d) /\ t.fds[d] = b[d]

(* The copies of a well-formed list are open. *)
LEMMA SourcesOpen ==
  ASSUME NEW t, NEW held, Good(t, held), NEW k \in 1 .. Len(t.undo), t.undo[k].op = "dup"
  PROVE  /\ t.undo[k].to \in UserFds
         /\ t.undo[k].from \in FDs \ UserFds
         /\ t.fds[t.undo[k].from] # Closed
<1>1. t.undo \in Seq(Undos)
  BY DEF Good
<1>2. t.undo[k].to \in UserFds /\ t.undo[k].from \in Numbers(t.undo)
  BY Zenon DEF Good, WellFormed
<1> QED
  BY <1>1, <1>2, EntriesOf DEF Good

(* What the entries of its list give does not change while the copies stay. *)
LEMMA GivesKept ==
  ASSUME NEW t, NEW held, Good(t, held), NEW ds,
         \A e \in FDs \ UserFds : t.fds[e] # Closed => ds[e] = t.fds[e]
  PROVE  \A d, x : Gives(t.undo, t.fds, d, x) => Gives(t.undo, ds, d, x)
<1>1. ASSUME NEW k \in 1 .. Len(t.undo) PROVE Value(t.undo[k], ds) = Value(t.undo[k], t.fds)
  <2>1. t.undo[k].op \in {"dup", "close"}
    BY EntriesOf, EntryFacts DEF Good
  <2>2. CASE t.undo[k].op = "close"
    BY <2>2 DEF Value
  <2>3. CASE t.undo[k].op = "dup"
    BY <2>3, SourcesOpen DEF Value
  <2> QED
    BY <2>1, <2>2, <2>3
<1> QED
  BY <1>1 DEF Gives

LEMMA WellFormedMore ==
  ASSUME NEW a \in Undos, NEW list \in Seq(Undos), NEW l, Longer(l, a, list),
         WellFormed(list),
         a.op = "dup" => a.to \in UserFds /\ a.from \in Numbers(list),
         \A k \in 1 .. Len(list) : list[k].op = "dup" => list[k].from # a.to
  PROVE  WellFormed(l)
<1>1. /\ l \in Seq(Undos) /\ Len(list) \in Nat /\ Len(l) = Len(list) + 1
      /\ l[1] = a
      /\ \A k \in 2 .. Len(l) : k - 1 \in 1 .. Len(list) /\ l[k] = list[k - 1]
  BY OneMore
<1>2. Numbers(list) \subseteq Numbers(l)
  BY MoreEntries
<1> SUFFICES ASSUME NEW k \in 1 .. Len(l), l[k].op = "dup"
             PROVE  /\ l[k].to \in UserFds /\ l[k].from \in Numbers(l)
                    /\ \A j \in 1 .. k - 1 : l[j].to # l[k].from
  BY DEF WellFormed
<1>3. CASE k = 1
  BY <1>1, <1>2, <1>3
<1>4. CASE k # 1
  <2>1. k \in 2 .. Len(l)
    BY <1>1, <1>4
  <2>2. k - 1 \in 1 .. Len(list) /\ l[k] = list[k - 1]
    BY <1>1, <2>1
  <2>3. /\ l[k].to \in UserFds /\ l[k].from \in Numbers(list)
        /\ \A j \in 1 .. (k - 1) - 1 : list[j].to # l[k].from
    BY <2>2, Zenon DEF WellFormed
  <2>4. ASSUME NEW j \in 1 .. k - 1 PROVE l[j].to # l[k].from
    <3>1. CASE j = 1
      BY <1>1, <2>2, <3>1
    <3>2. CASE j # 1
      <4>1. j \in 2 .. Len(l) /\ j - 1 \in 1 .. (k - 1) - 1
        BY <1>1, <3>2
      <4> QED
        BY <1>1, <2>3, <4>1
    <3> QED
      BY <3>1, <3>2
  <2> QED
    BY <1>2, <2>3, <2>4
<1> QED
  BY <1>3, <1>4

LEMMA CopiedGood ==
  ASSUME NEW t, NEW held, Good(t, held), NEW u,
         NEW d \in UserFds, NEW c \in FDs \ UserFds, t.fds[d] # Closed, t.fds[c] = Closed,
         Copied(t, u, d, c)
  PROVE  Good(u, held)
<1> DEFINE old == t.undo
           new == u.undo
           oldx == t.exec
           newx == u.exec
<1>1. PICK a \in Undos, b \in Undos, mid \in Seq(Undos) :
             /\ a.op = "dup" /\ a.to = d /\ a.from = c
             /\ b.op = "close" /\ b.to = c
             /\ Longer(mid, b, old) /\ Longer(new, a, mid)
             /\ Longer(newx, b, oldx)
  BY DEF Copied
<1>2. /\ old \in Seq(Undos) /\ oldx \in Seq(Undos) /\ t.fds \in Descriptors
      /\ u.fds = [t.fds EXCEPT ![c] = t.fds[d]] /\ d \in FDs
  BY FdFacts DEF Good, Copied
<1>3. WellFormed(old) /\ ClosesCopies(oldx, old)
  BY DEF Good
<1>4. \A k \in 1 .. Len(old) : old[k].op = "dup" =>
        /\ old[k].to \in UserFds /\ old[k].from \in FDs \ UserFds
        /\ t.fds[old[k].from] # Closed
  BY SourcesOpen
<1>5. \A e \in FDs \ UserFds : t.fds[e] # Closed <=> e \in held \union Numbers(old)
  BY DEF Good
<1>6. Numbers(old) \cap held = {}
  BY DEF Good
<1> HIDE DEF old, new, oldx, newx
<1>7. Numbers(mid) = Numbers(old) \union {c} /\ Numbers(newx) = Numbers(oldx) \union {c}
  BY <1>1, <1>2, MoreEntries
<1>8. Numbers(new) = Numbers(old) \union {c} /\ new \in Seq(Undos)
  BY <1>1, <1>7, MoreEntries
<1>9. WellFormed(mid)
  <2>1. \A k \in 1 .. Len(old) : old[k].op = "dup" => old[k].from # b.to
    BY <1>1, <1>4
  <2> QED
    BY <1>1, <1>2, <1>3, <2>1, WellFormedMore
<1>10. WellFormed(new)
  <2>1. ASSUME NEW k \in 1 .. Len(mid), mid[k].op = "dup" PROVE mid[k].from # a.to
    BY <1>1, <1>9, <2>1 DEF WellFormed, Numbers
  <2>2. a.to \in UserFds /\ a.from \in Numbers(mid)
    BY <1>1, <1>7
  <2> QED
    BY <1>1, <1>9, <2>1, <2>2, WellFormedMore
<1>11. ClosesCopies(newx, new) /\ newx \in Seq(Undos)
  <2>1. /\ newx \in Seq(Undos) /\ Len(oldx) \in Nat /\ Len(newx) = Len(oldx) + 1
        /\ newx[1] = b
        /\ \A k \in 2 .. Len(newx) : k - 1 \in 1 .. Len(oldx) /\ newx[k] = oldx[k - 1]
    BY <1>1, <1>2, OneMore
  <2>2. ASSUME NEW k \in 1 .. Len(newx) PROVE newx[k].op = "close" /\ newx[k].to \notin UserFds
    <3>1. CASE k = 1
      BY <1>1, <2>1, <3>1
    <3>2. CASE k # 1
      <4>1. k \in 2 .. Len(newx)
        BY <2>1, <3>2
      <4> QED
        BY <1>3, <2>1, <4>1 DEF ClosesCopies
    <3> QED
      BY <3>1, <3>2
  <2> QED
    BY <1>3, <1>7, <1>8, <2>1, <2>2 DEF ClosesCopies
<1>12. ASSUME NEW e \in FDs \ UserFds
       PROVE  u.fds[e] # Closed <=> e \in held \union Numbers(new)
  <2>1. e # c => u.fds[e] = t.fds[e]
    BY <1>2 DEF Descriptors
  <2>2. u.fds[c] # Closed
    BY <1>2 DEF Descriptors
  <2> QED
    BY <1>5, <1>8, <2>1, <2>2
<1>13. Numbers(new) \cap held = {}
  <2>1. c \notin held
    BY <1>5
  <2> QED
    BY <1>6, <1>8, <2>1
<1>14. u.fds \in Descriptors
  BY <1>2 DEF Descriptors
<1> QED
  BY <1>8, <1>10, <1>11, <1>12, <1>13, <1>14 DEF Good, new, newx

LEMMA CopiedUndoes ==
  ASSUME NEW t, NEW held, Good(t, held), NEW u,
         NEW d \in UserFds, NEW c \in FDs \ UserFds, t.fds[d] # Closed, t.fds[c] = Closed,
         Copied(t, u, d, c),
         NEW b, NEW T, NEW B, Undoes(t, b, T, B)
  PROVE  Undoes(u, b, T \union {d}, B)
<1>1. PICK x \in Undos, y \in Undos, mid \in Seq(Undos) :
             /\ x.op = "dup" /\ x.to = d /\ x.from = c
             /\ y.op = "close" /\ y.to = c
             /\ Longer(mid, y, t.undo) /\ Longer(u.undo, x, mid)
  BY DEF Copied
<1>2. /\ t.undo \in Seq(Undos) /\ t.fds \in Descriptors /\ d \in FDs
      /\ u.fds = [t.fds EXCEPT ![c] = t.fds[d]]
  BY FdFacts DEF Good, Copied
<1>3. /\ \A e : Unnamed(t.undo, e) /\ c # e => Unnamed(mid, e)
      /\ \A ds, e, v : Gives(t.undo, ds, e, v) => Gives(mid, ds, e, v)
  BY <1>1, <1>2, MoreEntries
<1>4. /\ \A e : Unnamed(mid, e) /\ d # e => Unnamed(u.undo, e)
      /\ \A ds, e, v : Gives(mid, ds, e, v) => Gives(u.undo, ds, e, v)
      /\ \A ds : Unnamed(mid, d) => Gives(u.undo, ds, d, Value(x, ds))
  BY <1>1, MoreEntries
<1>6. \A e, v : Gives(t.undo, t.fds, e, v) => Gives(t.undo, u.fds, e, v)
  <2>1. \A e \in FDs \ UserFds : t.fds[e] # Closed => u.fds[e] = t.fds[e]
    BY <1>2 DEF Descriptors
  <2> QED
    BY <2>1, GivesKept
<1>7. Value(x, u.fds) = t.fds[d]
  BY <1>1, <1>2 DEF Value, Descriptors
<1>8. \A e \in UserFds : e \in FDs /\ e # c /\ u.fds[e] = t.fds[e]
  BY <1>2, FdFacts DEF Descriptors
<1> SUFFICES ASSUME NEW e \in UserFds \ B
             PROVE  IF e \in T \union {d} THEN Gives(u.undo, u.fds, e, b[e])
                                           ELSE Unnamed(u.undo, e) /\ u.fds[e] = b[e]
  BY Zenon DEF Undoes
<1>9. IF e \in T THEN Gives(t.undo, t.fds, e, b[e])
                 ELSE Unnamed(t.undo, e) /\ t.fds[e] = b[e]
  BY Zenon DEF Undoes
<1>10. CASE e \in T
  BY <1>3, <1>4, <1>6, <1>9, <1>10
<1>11. CASE e \notin T /\ e = d
  BY <1>3, <1>4, <1>7, <1>8, <1>9, <1>11
<1>12. CASE e \notin T /\ e # d
  BY <1>3, <1>4, <1>8, <1>9, <1>12
<1> QED
  BY <1>10, <1>11, <1>12

LEMMA NotedGood ==
  ASSUME NEW t, NEW held, Good(t, held), NEW u, NEW d \in UserFds, Noted(t, u, d)
  PROVE  Good(u, held)
<1> DEFINE old == t.undo
           new == u.undo
<1>1. PICK b \in Undos : b.op = "close" /\ b.to = d /\ Longer(new, b, old)
  BY DEF Noted
<1>2. /\ old \in Seq(Undos) /\ WellFormed(old) /\ ClosesCopies(t.exec, old)
      /\ u.fds = t.fds /\ u.exec = t.exec
  BY DEF Good, Noted
<1>3. \A k \in 1 .. Len(old) : old[k].op = "dup" => old[k].from \in FDs \ UserFds
  BY SourcesOpen
<1> HIDE DEF old, new
<1>4. Numbers(new) = Numbers(old) /\ new \in Seq(Undos)
  <2>1. Numbers(new) = Numbers(old) \union ({b.to} \ UserFds) /\ new \in Seq(Undos)
    BY <1>1, <1>2, MoreEntries
  <2> QED
    BY <1>1, <2>1
<1>5. WellFormed(new)
  <2>1. \A k \in 1 .. Len(old) : old[k].op = "dup" => old[k].from # b.to
    BY <1>1, <1>3
  <2> QED
    BY <1>1, <1>2, <2>1, WellFormedMore
<1>6. ClosesCopies(u.exec, new)
  BY <1>2, <1>4 DEF ClosesCopies
<1> QED
  BY <1>2, <1>4, <1>5, <1>6 DEF Good, new, old

LEMMA NotedUndoes ==
  ASSUME NEW t, NEW held, Good(t, held), NEW u,
         NEW d \in UserFds, t.fds[d] = Closed, Noted(t, u, d),
         NEW b, NEW T, NEW B, Undoes(t, b, T, B)
  PROVE  Undoes(u, b, T \union {d}, B)
<1>1. PICK x \in Undos : x.op = "close" /\ x.to = d /\ Longer(u.undo, x, t.undo)
  BY DEF Noted
<1>2. t.undo \in Seq(Undos) /\ u.fds = t.fds
  BY DEF Good, Noted
<1>3. /\ \A e : Unnamed(t.undo, e) /\ d # e => Unnamed(u.undo, e)
      /\ \A ds, e, v : Gives(t.undo, ds, e, v) => Gives(u.undo, ds, e, v)
      /\ \A ds : Unnamed(t.undo, d) => Gives(u.undo, ds, d, Value(x, ds))
  BY <1>1, <1>2, MoreEntries
<1>4. Value(x, u.fds) = Closed
  BY <1>1 DEF Value
<1> SUFFICES ASSUME NEW e \in UserFds \ B
             PROVE  IF e \in T \union {d} THEN Gives(u.undo, u.fds, e, b[e])
                                           ELSE Unnamed(u.undo, e) /\ u.fds[e] = b[e]
  BY Zenon DEF Undoes
<1>5. IF e \in T THEN Gives(t.undo, t.fds, e, b[e])
                 ELSE Unnamed(t.undo, e) /\ t.fds[e] = b[e]
  BY Zenon DEF Undoes
<1>6. CASE e \in T
  BY <1>2, <1>3, <1>5, <1>6
<1>7. CASE e \notin T /\ e = d
  BY <1>2, <1>3, <1>4, <1>5, <1>7
<1>8. CASE e \notin T /\ e # d
  BY <1>2, <1>3, <1>5, <1>8
<1> QED
  BY <1>6, <1>7, <1>8

\* What leads t back to its start leads u back, when D has been assigned since
\* and X changed without a way back.
Leads(t, u, D, X) ==
  \A b, T, B : Undoes(t, b, T, B) => Undoes(u, b, T \union D, B \union X)

\* u is t, a few steps later.
Follows(t, u, held, D, X) ==
  /\ Good(u, held)
  /\ Leads(t, u, D, X)
  /\ \A d \in FDs \ UserFds : t.fds[d] # Closed => u.fds[d] = t.fds[d]
  /\ \A d \in UserFds \ (D \union X) : u.fds[d] = t.fds[d]

LEMMA FollowsItself ==
  ASSUME NEW t, NEW held, Good(t, held)
  PROVE  Follows(t, t, held, {}, {})
<1>1. Leads(t, t, {}, {})
  <2> SUFFICES ASSUME NEW b, NEW T, NEW B, Undoes(t, b, T, B)
               PROVE  Undoes(t, b, T \union {}, B \union {})
    BY DEF Leads
  <2>1. T \union {} = T /\ B \union {} = B
    OBVIOUS
  <2> QED
    BY <2>1
<1> QED
  BY <1>1 DEF Follows

LEMMA FollowsOn ==
  ASSUME NEW t, NEW u, NEW v, NEW held, NEW D, NEW X, NEW E, NEW Y,
         Follows(t, u, held, D, X), Follows(u, v, held, E, Y)
  PROVE  Follows(t, v, held, D \union E, X \union Y)
<1>1. Leads(t, v, D \union E, X \union Y)
  <2> SUFFICES ASSUME NEW b, NEW T, NEW B, Undoes(t, b, T, B)
               PROVE  Undoes(v, b, T \union (D \union E), B \union (X \union Y))
    BY DEF Leads
  <2>1. Undoes(u, b, T \union D, B \union X)
    BY Zenon DEF Follows, Leads
  <2>2. Undoes(v, b, (T \union D) \union E, (B \union X) \union Y)
    BY <2>1, Zenon DEF Follows, Leads
  <2>3. (T \union D) \union E = T \union (D \union E) /\ (B \union X) \union Y = B \union (X \union Y)
    OBVIOUS
  <2> QED
    BY <2>2, <2>3
<1> QED
  BY <1>1 DEF Follows

LEMMA CopiedFollows ==
  ASSUME NEW t, NEW held, Good(t, held), NEW u,
         NEW d \in UserFds, NEW c \in FDs \ UserFds, t.fds[d] # Closed, t.fds[c] = Closed,
         Copied(t, u, d, c)
  PROVE  Follows(t, u, held, {d}, {})
<1>1. Leads(t, u, {d}, {})
  <2> SUFFICES ASSUME NEW b, NEW T, NEW B, Undoes(t, b, T, B)
               PROVE  Undoes(u, b, T \union {d}, B \union {})
    BY DEF Leads
  <2>1. B \union {} = B
    OBVIOUS
  <2> QED
    BY <2>1, CopiedUndoes
<1>2. Good(u, held)
  BY CopiedGood
<1>3. t.fds \in Descriptors /\ u.fds = [t.fds EXCEPT ![c] = t.fds[d]]
  BY DEF Good, Copied
<1>4. \A e \in FDs : e # c => u.fds[e] = t.fds[e]
  BY <1>3 DEF Descriptors
<1> QED
  BY <1>1, <1>2, <1>4, FdFacts DEF Follows

LEMMA NotedFollows ==
  ASSUME NEW t, NEW held, Good(t, held), NEW u,
         NEW d \in UserFds, t.fds[d] = Closed, Noted(t, u, d)
  PROVE  Follows(t, u, held, {d}, {})
<1>1. Leads(t, u, {d}, {})
  <2> SUFFICES ASSUME NEW b, NEW T, NEW B, Undoes(t, b, T, B)
               PROVE  Undoes(u, b, T \union {d}, B \union {})
    BY DEF Leads
  <2>1. B \union {} = B
    OBVIOUS
  <2> QED
    BY <2>1, NotedUndoes
<1>2. Good(u, held) /\ u.fds = t.fds
  BY NotedGood DEF Noted
<1> QED
  BY <1>1, <1>2 DEF Follows

LEMMA AssignFollows ==
  ASSUME NEW t, NEW u, NEW v, NEW held, NEW D, NEW X, Follows(t, u, held, D, X),
         NEW d \in UserFds, d \in D \union X, NEW x \in Files \union {Tty, Cap, Closed},
         v.fds = [u.fds EXCEPT ![d] = x], v.undo = u.undo, v.exec = u.exec
  PROVE  Follows(t, v, held, D, X)
<1>1. Good(u, held) /\ u.fds \in Descriptors
  BY DEF Follows, Good
<1>2. v.fds \in Descriptors /\ \A e \in FDs : e # d => v.fds[e] = u.fds[e]
  BY <1>1 DEF Descriptors
<1>3. Good(v, held)
  BY <1>1, <1>2 DEF Good
<1>4. \A e, y : Gives(u.undo, u.fds, e, y) => Gives(v.undo, v.fds, e, y)
  <2>1. \A e \in FDs \ UserFds : u.fds[e] # Closed => v.fds[e] = u.fds[e]
    BY <1>2
  <2> QED
    BY <1>1, <2>1, GivesKept
<1>5. Leads(t, v, D, X)
  <2> SUFFICES ASSUME NEW b, NEW T, NEW B, Undoes(t, b, T, B),
                      NEW e \in UserFds \ (B \union X)
               PROVE  IF e \in T \union D THEN Gives(v.undo, v.fds, e, b[e])
                                          ELSE Unnamed(v.undo, e) /\ v.fds[e] = b[e]
    BY Zenon DEF Leads, Undoes
  <2>1. Undoes(u, b, T \union D, B \union X)
    BY Zenon DEF Follows, Leads
  <2>2. IF e \in T \union D THEN Gives(u.undo, u.fds, e, b[e])
                            ELSE Unnamed(u.undo, e) /\ u.fds[e] = b[e]
    BY <2>1, Zenon DEF Undoes
  <2>3. CASE e \in T \union D
    BY <1>4, <2>2, <2>3
  <2>4. CASE e \notin T \union D
    BY <1>2, <2>2, <2>4, FdFacts
  <2> QED
    BY <2>3, <2>4
<1> QED
  BY <1>2, <1>3, <1>5, FdFacts DEF Follows

LEMMA MoreBesides ==
  ASSUME NEW t, NEW u, NEW held, NEW D, NEW d, Follows(t, u, held, D, {})
  PROVE  Follows(t, u, held, D, {d})
<1>1. Leads(t, u, D, {d})
  <2> SUFFICES ASSUME NEW b, NEW T, NEW B, Undoes(t, b, T, B)
               PROVE  Undoes(u, b, T \union D, B \union {d})
    BY DEF Leads
  <2>1. Undoes(u, b, T \union D, B \union {})
    BY Zenon DEF Follows, Leads
  <2> QED
    BY <2>1 DEF Undoes
<1> QED
  BY <1>1 DEF Follows

-----------------------------------------------------------------------------
(* The steps of a redirection.                                              *)

\* u is t after `remember': with what undoes the assignment of d in its list.
Remembered(t, u, d) ==
  \/ t.fds[d] # Closed /\ \E c \in FDs : t.fds[c] = Closed /\ Copied(t, u, d, c)
  \/ t.fds[d] = Closed /\ Noted(t, u, d)

\* u has the descriptors and the lists of t, but for d, which is x.
Reassigned(t, u, d, x) ==
  /\ u.fds = [t.fds EXCEPT ![d] = x]
  /\ u.undo = t.undo /\ u.exec = t.exec

Same(t, u) == u.fds = t.fds /\ u.undo = t.undo /\ u.exec = t.exec

\* A redirection of t failed with u: it had done nothing, or no more than
\* remember its redirector.
Failed(t, u) == ~u.ok /\ (Same(t, u) \/ \E d \in UserFds : Remembered(t, u, d))

\* A redirection of t failed with u: a close that could not remember d.
Shut(t, u, d) == ~u.ok /\ t.fds[d] # Closed /\ Reassigned(t, u, d, Closed)

LEMMA RememberedFollows ==
  ASSUME NEW t, NEW held, Good(t, held), NEW u, NEW d \in UserFds, Remembered(t, u, d),
         ~Exposed(u.undo)
  PROVE  Follows(t, u, held, {d}, {}) /\ ~Exposed(t.undo)
<1>1. CASE t.fds[d] = Closed /\ Noted(t, u, d)
  <2>1. Follows(t, u, held, {d}, {})
    BY <1>1, NotedFollows
  <2>2. ~Exposed(t.undo)
    <3>1. PICK b \in Undos : Longer(u.undo, b, t.undo)
      BY <1>1 DEF Noted
    <3>2. t.undo \in Seq(Undos)
      BY DEF Good
    <3> QED
      BY <3>1, <3>2, ExposedMore
  <2> QED
    BY <2>1, <2>2
<1>2. CASE t.fds[d] # Closed /\ \E c \in FDs : t.fds[c] = Closed /\ Copied(t, u, d, c)
  <2>1. PICK c \in FDs : t.fds[c] = Closed /\ Copied(t, u, d, c)
    BY <1>2
  <2>2. PICK a \in Undos, b \in Undos, m \in Seq(Undos) :
               /\ a.op = "dup" /\ a.from = c
               /\ Longer(m, b, t.undo) /\ Longer(u.undo, a, m)
    BY <2>1 DEF Copied
  <2>3. t.undo \in Seq(Undos)
    BY DEF Good
  <2>4. ~Exposed(m) /\ c \notin UserFds
    BY <2>2, ExposedMore
  <2>5. ~Exposed(t.undo)
    BY <2>2, <2>3, <2>4, ExposedMore
  <2>6. Follows(t, u, held, {d}, {})
    BY <1>2, <2>1, <2>4, CopiedFollows
  <2> QED
    BY <2>5, <2>6
<1> QED
  BY <1>1, <1>2 DEF Remembered

LEMMA RememberResult ==
  ASSUME NEW t \in Tables, t.ok, NEW d \in FDs, NEW active \in BOOLEAN,
         NEW u, u = Remember(t, d, active)
  PROVE  \/ u = Fail(t)
         \/ /\ u \in Tables /\ u.ok
            /\ active /\ t.fds[d] # Closed
            /\ \E c \in FDs : t.fds[c] = Closed /\ Copied(t, u, d, c)
         \/ u \in Tables /\ u.ok /\ ~active /\ Noted(t, u, d)
<1>1. CASE active
  BY <1>1, AddUndoResult DEF Remember
<1>2. CASE ~active
  BY <1>2, AddCloseResult DEF Remember
<1> QED
  BY <1>1, <1>2

LEMMA RememberOpen ==
  ASSUME NEW t \in Tables, t.ok, NEW d \in FDs, NEW u, u = Remember(t, d, IsOpen(t, d))
  PROVE  \/ u = Fail(t)
         \/ u \in Tables /\ u.ok /\ Remembered(t, u, d)
<1>1. IsOpen(t, d) \in BOOLEAN
  BY DEF IsOpen
<1>2. \/ u = Fail(t)
      \/ /\ u \in Tables /\ u.ok
         /\ IsOpen(t, d) /\ t.fds[d] # Closed
         /\ \E c \in FDs : t.fds[c] = Closed /\ Copied(t, u, d, c)
      \/ u \in Tables /\ u.ok /\ ~IsOpen(t, d) /\ Noted(t, u, d)
  BY <1>1, RememberResult
<1> QED
  BY <1>2 DEF Remembered, IsOpen

LEMMA SameDescriptors ==
  ASSUME NEW x \in Descriptors, NEW y \in Descriptors, \A e \in FDs : x[e] = y[e]
  PROVE  x = y
  BY DEF Descriptors

LEMMA OpenResult ==
  ASSUME NEW t \in Tables, t.ok, NEW to \in UserFds, NEW f \in Files,
         NEW u, u = OpenRedirect(t, to, f)
  PROVE  /\ u \in Tables
         /\ \/ ~u.ok /\ Same(t, u)
            \/ u.ok /\ \E w : Remembered(t, w, to) /\ Reassigned(w, u, to, f)
<1> DEFINE fd == Min(Free(t, 1))
           opened == Open(t, f)
           active == fd # to /\ IsOpen(opened, to)
           kept == Remember(opened, to, active)
<1>1. u = CASE ~opened.ok -> opened
            [] opened.ok /\ ~kept.ok -> Fail(Close(opened, fd))
            [] OTHER -> IF fd = to THEN kept ELSE Close(Dup2(kept, fd, to), fd)
  BY DEF OpenRedirect
<1>2. to \in FDs /\ f # Closed /\ f \in Files \union {Tty, Cap, Closed}
  BY FdFacts, FilesAssumption
<1>3. CASE Free(t, 1) = {}
  <2>1. opened = Fail(t)
    BY <1>3 DEF Open
  <2>2. Fail(t) \in Tables /\ ~Fail(t).ok /\ Same(t, Fail(t))
    BY FailResult DEF Same
  <2> QED
    BY <1>1, <2>1, <2>2
<1>4. CASE Free(t, 1) # {}
  <2>1. fd \in FDs /\ t.fds[fd] = Closed
    BY <1>4, FreeFacts
  <2>2. opened = [t EXCEPT !.fds[fd] = f]
    BY <1>4 DEF Open
  <2> HIDE DEF fd, active
  <2>3. /\ opened \in Tables /\ opened.ok
        /\ opened.fds = [t.fds EXCEPT ![fd] = f]
        /\ opened.undo = t.undo /\ opened.exec = t.exec
    <3> DEFINE n == [t.fds EXCEPT ![fd] = f]
    <3>1. n \in Descriptors
      BY <1>2, <2>1, TableFields DEF Descriptors
    <3>2. opened = [t EXCEPT !.fds = n]
      BY <2>2
    <3> HIDE DEF n, opened
    <3>3. /\ opened \in Tables /\ opened.ok = t.ok /\ opened.fds = n
          /\ opened.undo = t.undo /\ opened.exec = t.exec
      BY <3>1, <3>2 DEF Tables
    <3> QED
      BY <3>3 DEF n
  <2> HIDE DEF opened
  <2>4. /\ t.fds \in Descriptors
        /\ \A e \in FDs : opened.fds[e] = IF e = fd THEN f ELSE t.fds[e]
    BY <2>1, <2>3, TableFields DEF Descriptors
  <2>5. active \in BOOLEAN
    BY DEF active
  <2>6. \/ kept = Fail(opened)
        \/ /\ kept \in Tables /\ kept.ok
           /\ active /\ opened.fds[to] # Closed
           /\ \E c \in FDs : opened.fds[c] = Closed /\ Copied(opened, kept, to, c)
        \/ kept \in Tables /\ kept.ok /\ ~active /\ Noted(opened, kept, to)
    BY <1>2, <2>3, <2>5, RememberResult
  <2> HIDE DEF kept
  <2>7. CASE kept = Fail(opened)
    <3> DEFINE v == Close(opened, fd)
    <3>1. /\ v \in Tables /\ v.fds = [opened.fds EXCEPT ![fd] = Closed]
          /\ v.undo = opened.undo /\ v.exec = opened.exec
      BY <2>1, <2>3, CloseResult
    <3>2. u = Fail(v)
      BY <1>1, <2>3, <2>7, FailResult
    <3> HIDE DEF v
    <3>3. v.fds = t.fds
      <4>1. \A e \in FDs : v.fds[e] = t.fds[e]
        <5>1. ASSUME NEW e \in FDs
              PROVE  v.fds[e] = IF e = fd THEN Closed ELSE opened.fds[e]
          BY <2>1, <2>3, <3>1, TableFields DEF Descriptors
        <5> QED
          BY <2>1, <2>4, <5>1
      <4>2. v.fds \in Descriptors /\ t.fds \in Descriptors
        BY <2>4, <3>1, TableFields
      <4> QED
        BY <4>1, <4>2, SameDescriptors, Zenon
    <3> QED
      BY <2>3, <3>1, <3>2, <3>3, FailResult DEF Same
  <2>8. CASE kept \in Tables /\ kept.ok /\ kept.fds[fd] = f /\ fd # to
    <3> DEFINE v == Dup2(kept, fd, to)
    <3>1. /\ v \in Tables /\ v.ok /\ v.fds = [kept.fds EXCEPT ![to] = f]
          /\ v.undo = kept.undo /\ v.exec = kept.exec
      <4>1. kept \in Tables /\ fd \in FDs /\ to \in FDs /\ kept.fds[fd] # Closed
        BY <1>2, <2>1, <2>8
      <4>2. /\ v \in Tables /\ v.ok = kept.ok
            /\ v.fds = [kept.fds EXCEPT ![to] = kept.fds[fd]]
            /\ v.undo = kept.undo /\ v.exec = kept.exec
        <5>1. ASSUME NEW k \in Tables, NEW a \in FDs, k.fds[a] # Closed, NEW b \in FDs
              PROVE  /\ Dup2(k, a, b) \in Tables
                     /\ Dup2(k, a, b).fds = [k.fds EXCEPT ![b] = k.fds[a]]
                     /\ Dup2(k, a, b).undo = k.undo /\ Dup2(k, a, b).exec = k.exec
                     /\ Dup2(k, a, b).ok = k.ok
          BY <5>1, Dup2Result, Zenon
        <5> QED
          BY <4>1, <5>1
      <4> HIDE DEF v
      <4> QED
        BY <2>8, <4>2
    <3>2. u = Close(v, fd)
      BY <1>1, <2>3, <2>8
    <3> HIDE DEF v
    <3>3. /\ u \in Tables /\ u.ok /\ u.fds = [v.fds EXCEPT ![fd] = Closed]
          /\ u.undo = kept.undo /\ u.exec = kept.exec
      <4>1. ASSUME NEW k \in Tables, NEW w, w = Close(k, fd)
            PROVE  /\ w \in Tables /\ w.fds = [k.fds EXCEPT ![fd] = Closed]
                   /\ w.undo = k.undo /\ w.exec = k.exec /\ w.ok = k.ok
        BY <2>1, <4>1, CloseResult
      <4> QED
        BY <3>1, <3>2, <4>1
    <3>4. \A e \in FDs : u.fds[e] = IF e = fd THEN Closed
                                    ELSE IF e = to THEN f ELSE kept.fds[e]
      BY <1>2, <2>1, <2>8, <3>1, <3>3, TableFields DEF Descriptors
    <3>5. ASSUME NEW w, w.fds \in Descriptors, w.undo = kept.undo, w.exec = kept.exec,
                 \A e \in FDs : e # fd => w.fds[e] = kept.fds[e],
                 w.fds[fd] = Closed
          PROVE  Reassigned(w, u, to, f)
      <4> DEFINE n == [w.fds EXCEPT ![to] = f]
      <4>1. n \in Descriptors /\ \A e \in FDs : n[e] = IF e = to THEN f ELSE w.fds[e]
        BY <1>2, <3>5 DEF Descriptors
      <4> HIDE DEF n
      <4>2. \A e \in FDs : u.fds[e] = n[e]
        BY <2>8, <3>4, <3>5, <4>1
      <4>3. u.fds = n
        BY <3>3, <4>1, <4>2, TableFields, SameDescriptors
      <4> QED
        BY <3>3, <3>5, <4>3 DEF Reassigned, n
    <3>6. CASE opened.fds[to] # Closed /\
               \E c \in FDs : opened.fds[c] = Closed /\ Copied(opened, kept, to, c)
      <4>1. PICK c \in FDs : opened.fds[c] = Closed /\ Copied(opened, kept, to, c)
        BY <3>6
      <4>2. c # fd /\ t.fds[c] = Closed /\ opened.fds[to] = t.fds[to] /\ t.fds[to] # Closed
        BY <1>2, <2>1, <2>4, <2>8, <3>6, <4>1
      <4> DEFINE n == [t.fds EXCEPT ![c] = t.fds[to]]
                 w == [fds |-> n, undo |-> kept.undo, exec |-> kept.exec]
      <4>3. n \in Descriptors /\ \A e \in FDs : n[e] = IF e = c THEN t.fds[to] ELSE t.fds[e]
        BY <1>2, <2>4, <4>1 DEF Descriptors
      <4>4. \A e \in FDs : kept.fds[e] = IF e = c THEN t.fds[to] ELSE opened.fds[e]
        BY <2>3, <4>1, <4>2, TableFields DEF Descriptors, Copied
      <4>5. Copied(t, w, to, c)
        BY <2>3, <4>1 DEF Copied
      <4>6. w.fds = n /\ w.undo = kept.undo /\ w.exec = kept.exec
        OBVIOUS
      <4> HIDE DEF n, w
      <4>7. Reassigned(w, u, to, f)
        BY <2>1, <2>4, <3>5, <4>2, <4>3, <4>4, <4>6
      <4>8. Remembered(t, w, to)
        BY <4>1, <4>2, <4>5 DEF Remembered
      <4> QED
        BY <3>3, <4>7, <4>8
    <3>7. CASE opened.fds[to] = Closed /\ Noted(opened, kept, to)
      <4> DEFINE w == [fds |-> t.fds, undo |-> kept.undo, exec |-> kept.exec]
      <4>1. t.fds[to] = Closed
        BY <1>2, <2>4, <2>8, <3>7
      <4>2. Noted(t, w, to)
        BY <2>3, <3>7 DEF Noted
      <4>3. w.fds = t.fds /\ w.undo = kept.undo /\ w.exec = kept.exec
        OBVIOUS
      <4>4. kept.fds = opened.fds
        BY <3>7 DEF Noted
      <4> HIDE DEF w
      <4>5. Reassigned(w, u, to, f)
        BY <2>1, <2>4, <3>5, <4>3, <4>4
      <4>6. Remembered(t, w, to)
        BY <4>1, <4>2 DEF Remembered
      <4> QED
        BY <3>3, <4>5, <4>6
    <3>8. ~active => opened.fds[to] = Closed
      BY <2>8 DEF active, IsOpen
    <3> QED
      BY <2>6, <2>8, <3>6, <3>7, <3>8, FailResult, <2>3
  <2>9. CASE kept \in Tables /\ kept.ok /\ fd = to
    <3>1. Noted(opened, kept, to) /\ u = kept
      <4>1. ~active
        BY <2>9 DEF active
      <4>2. kept # Fail(opened)
        BY <2>3, <2>9, FailResult
      <4> QED
        BY <1>1, <2>3, <2>6, <2>9, <4>1, <4>2
    <3> DEFINE w == [fds |-> t.fds, undo |-> kept.undo, exec |-> kept.exec]
    <3>2. Noted(t, w, to)
      BY <2>3, <3>1 DEF Noted
    <3>3. Reassigned(w, u, to, f)
      BY <2>3, <2>9, <3>1 DEF Noted, Reassigned
    <3> HIDE DEF w
    <3>4. Remembered(t, w, to)
      BY <2>1, <2>9, <3>2 DEF Remembered
    <3> QED
      BY <2>9, <3>1, <3>3, <3>4
  <2>10. kept = Fail(opened) \/ (kept \in Tables /\ kept.ok /\ (fd # to => kept.fds[fd] = f))
    <3>1. ASSUME NEW c \in FDs, opened.fds[c] = Closed, Copied(opened, kept, to, c)
          PROVE  kept.fds[fd] = f
      <4>1. c # fd
        BY <1>2, <2>4, <3>1
      <4> QED
        BY <2>1, <2>3, <2>4, <3>1, <4>1, TableFields DEF Descriptors, Copied
    <3>2. Noted(opened, kept, to) => kept.fds[fd] = f
      BY <2>1, <2>4 DEF Noted
    <3> QED
      BY <2>6, <3>1, <3>2
  <2> QED
    BY <2>7, <2>8, <2>9, <2>10
<1> QED
  BY <1>3, <1>4

\* A redirection of t that assigns D, and X without a way back, is done with u.
Achieved(t, u, D, X) ==
  /\ u.ok
  /\ \A held : Good(t, held) /\ ~Exposed(u.undo)
               => Follows(t, u, held, D, X) /\ ~Exposed(t.undo)

LEMMA RememberedHead ==
  ASSUME NEW t, t.undo \in Seq(Undos), NEW u, NEW d, Remembered(t, u, d)
  PROVE  Head(u.undo).to = d
<1>1. PICK a \in Undos, m \in Seq(Undos) : a.to = d /\ Longer(u.undo, a, m)
  BY DEF Remembered, Copied, Noted
<1>2. u.undo \in Seq(Undos) /\ Len(u.undo) = Len(m) + 1 /\ u.undo[1] = a /\ Len(m) \in Nat
  BY <1>1, OneMore
<1>3. Head(u.undo) = u.undo[1]
  BY <1>2
<1> QED
  BY <1>1, <1>2, <1>3

(* A redirector remembered, and then given a file. *)
LEMMA ReassignedAchieved ==
  ASSUME NEW t, NEW w, NEW u, NEW d \in UserFds, NEW x \in Files \union {Tty, Cap, Closed},
         Remembered(t, w, d), Reassigned(w, u, d, x), u.ok
  PROVE  Achieved(t, u, {d}, {})
<1> SUFFICES ASSUME NEW held, Good(t, held), ~Exposed(u.undo)
             PROVE  Follows(t, u, held, {d}, {}) /\ ~Exposed(t.undo)
  BY DEF Achieved
<1>1. u.fds = [w.fds EXCEPT ![d] = x] /\ u.undo = w.undo /\ u.exec = w.exec
  BY DEF Reassigned
<1>2. Follows(t, w, held, {d}, {}) /\ ~Exposed(t.undo)
  BY <1>1, RememberedFollows
<1>3. d \in {d} \union {}
  OBVIOUS
<1>4. Follows(t, u, held, {d}, {})
  BY <1>1, <1>2, <1>3, AssignFollows
<1> QED
  BY <1>2, <1>4

LEMMA OpenOutcome ==
  ASSUME NEW t \in Tables, t.ok, NEW to \in UserFds, NEW f \in Files,
         NEW u, u = OpenRedirect(t, to, f)
  PROVE  /\ u \in Tables
         /\ \/ ~u.ok /\ Same(t, u)
            \/ Achieved(t, u, {to}, {}) /\ u.fds[to] = f /\ Head(u.undo).to = to
<1>1. CASE ~u.ok
  BY <1>1, OpenResult
<1>2. CASE u.ok
  <2>1. PICK w : Remembered(t, w, to) /\ Reassigned(w, u, to, f)
    BY <1>2, OpenResult
  <2>2. Achieved(t, u, {to}, {})
    <3>1. f \in Files \union {Tty, Cap, Closed}
      OBVIOUS
    <3> QED
      BY <1>2, <2>1, <3>1, ReassignedAchieved
  <2>3. u \in Tables
    BY OpenResult
  <2>4. Head(u.undo).to = to
    BY <2>1, RememberedHead, TableFields DEF Reassigned
  <2>5. u.fds[to] = f
    <3>1. DOMAIN w.fds = FDs
      BY <2>1, <2>3, TableFields, FdFacts DEF Remembered, Copied, Noted, Descriptors
    <3> QED
      BY <2>1, <3>1, FdFacts DEF Reassigned
  <2> QED
    BY <2>2, <2>3, <2>4, <2>5
<1> QED
  BY <1>1, <1>2

LEMMA OkAgain ==
  ASSUME NEW t \in Tables
  PROVE  /\ [t EXCEPT !.ok = TRUE] \in Tables
         /\ [t EXCEPT !.ok = TRUE].ok
         /\ Same(t, [t EXCEPT !.ok = TRUE])
  BY DEF Tables, Same

LEMMA BothOutcome ==
  ASSUME NEW t \in Tables, t.ok, NEW f \in Files, NEW u, u = BothRedirect(t, f)
  PROVE  /\ u \in Tables
         /\ \/ ~u.ok /\ Same(t, u)
            \/ Achieved(t, u, {1, 2}, {}) /\ Head(u.undo).to = 2
            \/ Achieved(t, u, {1}, {2}) /\ Head(u.undo).to # 2
<1> DEFINE first == OpenRedirect(t, 1, f)
           copied == add_undo_redirect(first, 2)
           k == [copied EXCEPT !.ok = TRUE]
<1>1. u = IF first.ok THEN Dup2(k, 1, 2) ELSE first
  BY DEF BothRedirect
<1>2. /\ first \in Tables
      /\ \/ ~first.ok /\ Same(t, first)
         \/ Achieved(t, first, {1}, {}) /\ first.fds[1] = f /\ Head(first.undo).to = 1
  BY FdFacts, OpenOutcome
<1>3. /\ 1 \in UserFds /\ 2 \in UserFds /\ 1 \in FDs /\ 2 \in FDs /\ f # Closed
      /\ f \in Files \union {Tty, Cap, Closed}
  BY FdFacts, FilesAssumption
<1> HIDE DEF first
<1>4. CASE ~first.ok
  BY <1>1, <1>2, <1>4 DEF Achieved
<1>5. CASE first.ok
  <2>1. Achieved(t, first, {1}, {}) /\ first.fds[1] = f /\ Head(first.undo).to = 1
    BY <1>2, <1>5
  <2>2. ASSUME NEW v \in Tables, Same(v, k), v.fds[1] = f
        PROVE  u \in Tables /\ u.ok /\ Reassigned(v, u, 2, f)
    <3>1. k.fds = v.fds /\ k.undo = v.undo /\ k.exec = v.exec
      BY <2>2 DEF Same
    <3>2. k \in Tables /\ k.ok
      <4>1. copied \in Tables
        BY <1>2, <1>3, <1>5, AddUndoResult, FailResult
      <4> QED
        BY <4>1, OkAgain
    <3> HIDE DEF k
    <3>3. k.fds[1] = f /\ k.fds[1] # Closed
      BY <1>3, <2>2, <3>1
    <3>4. /\ Dup2(k, 1, 2) \in Tables
          /\ Dup2(k, 1, 2).fds = [k.fds EXCEPT ![2] = k.fds[1]]
          /\ Dup2(k, 1, 2).undo = k.undo /\ Dup2(k, 1, 2).exec = k.exec
          /\ Dup2(k, 1, 2).ok = k.ok
      BY <1>3, <3>2, <3>3, Dup2Result
    <3> QED
      BY <1>1, <1>5, <3>1, <3>2, <3>3, <3>4 DEF Reassigned
  <2>3. CASE copied = Fail(first)
    <3>1. Same(first, k)
      BY <1>2, <2>3, FailResult, OkAgain DEF Same
    <3>2. u \in Tables /\ u.ok /\ Reassigned(first, u, 2, f)
      BY <1>2, <2>1, <2>2, <3>1
    <3>3. Achieved(t, u, {1}, {2})
      <4> SUFFICES ASSUME NEW held, Good(t, held), ~Exposed(u.undo)
                   PROVE  Follows(t, u, held, {1}, {2}) /\ ~Exposed(t.undo)
        BY <3>2 DEF Achieved
      <4>1. u.fds = [first.fds EXCEPT ![2] = f] /\ u.undo = first.undo /\ u.exec = first.exec
        BY <3>2 DEF Reassigned
      <4>2. Follows(t, first, held, {1}, {}) /\ ~Exposed(t.undo)
        BY <2>1, <4>1 DEF Achieved
      <4>3. Follows(t, first, held, {1}, {2})
        BY <4>2, MoreBesides
      <4>4. 2 \in {1} \union {2}
        OBVIOUS
      <4>5. Follows(t, u, held, {1}, {2})
        BY <1>3, <4>1, <4>3, <4>4, AssignFollows
      <4> QED
        BY <4>2, <4>5
    <3>4. Head(u.undo).to # 2
      BY <2>1, <3>2 DEF Reassigned
    <3> QED
      BY <3>2, <3>3, <3>4
  <2>4. CASE copied # Fail(first)
    <3>1. /\ first.fds[2] # Closed /\ copied \in Tables /\ copied.ok = first.ok
          /\ \E c \in FDs : first.fds[c] = Closed /\ Copied(first, copied, 2, c)
      BY <1>2, <1>3, <2>4, AddUndoResult
    <3> HIDE DEF copied
    <3>2. Remembered(first, copied, 2)
      BY <3>1 DEF Remembered
    <3>3. copied.fds[1] = f
      <4>1. PICK c \in FDs : first.fds[c] = Closed /\ Copied(first, copied, 2, c)
        BY <3>1
      <4>2. c # 1
        BY <1>3, <2>1, <4>1
      <4> QED
        BY <1>2, <1>3, <2>1, <4>1, <4>2, TableFields DEF Copied, Descriptors
    <3>4. Same(copied, k)
      BY <3>1, OkAgain
    <3>5. u \in Tables /\ u.ok /\ Reassigned(copied, u, 2, f)
      BY <2>2, <3>1, <3>3, <3>4
    <3>6. Achieved(first, u, {2}, {})
      BY <1>3, <3>2, <3>5, ReassignedAchieved
    <3>7. Achieved(t, u, {1, 2}, {})
      <4> SUFFICES ASSUME NEW held, Good(t, held), ~Exposed(u.undo)
                   PROVE  Follows(t, u, held, {1, 2}, {}) /\ ~Exposed(t.undo)
        BY <3>5 DEF Achieved
      <4>1. ~Exposed(first.undo)
        <5>1. u.undo = copied.undo
          BY <3>5 DEF Reassigned
        <5>2. PICK a \in Undos, b \in Undos, m \in Seq(Undos) :
                     Longer(m, b, first.undo) /\ Longer(u.undo, a, m)
          BY <3>1, <5>1 DEF Copied
        <5>3. ~Exposed(m)
          BY <5>2, ExposedMore
        <5> QED
          BY <1>2, <5>2, <5>3, ExposedMore, TableFields
      <4>2. Follows(t, first, held, {1}, {}) /\ ~Exposed(t.undo)
        BY <2>1, <4>1 DEF Achieved
      <4>3. Good(first, held)
        BY <4>2 DEF Follows
      <4>4. Follows(first, u, held, {2}, {})
        BY <3>6, <4>3 DEF Achieved
      <4>5. Follows(t, u, held, {1} \union {2}, {} \union {})
        BY <4>2, <4>4, FollowsOn
      <4>6. {1} \union {2} = {1, 2} /\ {} \union {} = {}
        OBVIOUS
      <4> QED
        BY <4>2, <4>5, <4>6
    <3>8. Head(u.undo).to = 2
      BY <1>2, <3>2, <3>5, RememberedHead, TableFields DEF Reassigned
    <3> QED
      BY <3>5, <3>7, <3>8
  <2> QED
    BY <2>3, <2>4
<1> QED
  BY <1>4, <1>5

LEMMA NothingAchieved ==
  ASSUME NEW t, t.ok
  PROVE  Achieved(t, t, {}, {})
  BY FollowsItself DEF Achieved

LEMMA RememberedSame ==
  ASSUME NEW t, NEW w, NEW u, NEW d \in UserFds, Remembered(t, w, d), Same(w, u), ~u.ok
  PROVE  Failed(t, u)
<1>1. Remembered(t, u, d)
  BY DEF Remembered, Copied, Noted, Same
<1> QED
  BY <1>1 DEF Failed

LEMMA FailFailed ==
  ASSUME NEW t \in Tables
  PROVE  Fail(t) \in Tables /\ ~Fail(t).ok /\ Same(t, Fail(t)) /\ Failed(t, Fail(t))
  BY FailResult DEF Same, Failed

LEMMA DupOutcome ==
  ASSUME NEW t \in Tables, t.ok, NEW to \in UserFds, NEW from \in UserFds,
         NEW u, u = DupRedirect(t, to, from)
  PROVE  /\ u \in Tables
         /\ \/ Failed(t, u)
            \/ to = from /\ u = t
            \/ to # from /\ Achieved(t, u, {to}, {})
<1> DEFINE kept == Remember(t, to, IsOpen(t, to))
<1>1. u = IF to = from THEN t ELSE IF kept.ok THEN Dup2(kept, from, to) ELSE kept
  BY DEF DupRedirect
<1>2. to \in FDs /\ from \in FDs
  BY FdFacts
<1>3. \/ kept = Fail(t)
      \/ kept \in Tables /\ kept.ok /\ Remembered(t, kept, to)
  BY <1>2, RememberOpen
<1> HIDE DEF kept
<1>4. CASE to = from
  BY <1>1, <1>4
<1>5. CASE to # from /\ kept = Fail(t)
  BY <1>1, <1>5, FailFailed
<1>6. CASE /\ to # from /\ kept \in Tables /\ kept.ok /\ Remembered(t, kept, to)
           /\ kept.fds[from] = Closed
  <2>1. u = Fail(kept)
    BY <1>1, <1>6, Dup2Closed
  <2> QED
    BY <1>6, <2>1, FailFailed, RememberedSame
<1>7. CASE /\ to # from /\ kept \in Tables /\ kept.ok /\ Remembered(t, kept, to)
           /\ kept.fds[from] # Closed
  <2> DEFINE x == kept.fds[from]
  <2>1. x \in Files \union {Tty, Cap, Closed}
    BY <1>2, <1>7, TableFields DEF Descriptors
  <2>2. u = Dup2(kept, from, to)
    BY <1>1, <1>7
  <2>3. u \in Tables /\ u.ok /\ Reassigned(kept, u, to, x)
    BY <1>2, <1>7, <2>2, Dup2Result DEF Reassigned
  <2> HIDE DEF x
  <2>4. Achieved(t, u, {to}, {})
    BY <1>7, <2>1, <2>3, ReassignedAchieved
  <2> QED
    BY <1>7, <2>3, <2>4
<1> QED
  BY <1>3, <1>4, <1>5, <1>6, <1>7

LEMMA CloseOutcome ==
  ASSUME NEW t \in Tables, t.ok, NEW to \in UserFds, NEW u, u = CloseRedirect(t, to)
  PROVE  u \in Tables /\ (Failed(t, u) \/ Shut(t, u, to) \/ Achieved(t, u, {to}, {}))
<1> DEFINE kept == Remember(t, to, IsOpen(t, to))
<1>1. u = IF kept.ok THEN Close(kept, to) ELSE Fail(Close(t, to))
  BY DEF CloseRedirect
<1>2. to \in FDs
  BY FdFacts
<1>3. \/ kept = Fail(t)
      \/ kept \in Tables /\ kept.ok /\ Remembered(t, kept, to)
  BY <1>2, RememberOpen
<1> HIDE DEF kept
<1>4. CASE kept = Fail(t)
  <2>1. u = Fail(Close(t, to))
    BY <1>1, <1>4, FailResult
  <2>2. u \in Tables /\ ~u.ok /\ Reassigned(t, u, to, Closed)
    BY <1>2, <2>1, CloseResult, FailResult DEF Reassigned
  <2>3. CASE t.fds[to] = Closed
    <3>1. t.fds = u.fds
      BY <1>2, <2>2, <2>3, TableFields DEF Reassigned, Descriptors
    <3> QED
      BY <2>2, <3>1 DEF Reassigned, Same, Failed
  <2> QED
    BY <2>2, <2>3 DEF Shut
<1>5. CASE kept \in Tables /\ kept.ok /\ Remembered(t, kept, to)
  <2>1. u \in Tables /\ u.ok /\ Reassigned(kept, u, to, Closed)
    BY <1>1, <1>2, <1>5, CloseResult DEF Reassigned
  <2> QED
    BY <1>5, <2>1, ReassignedAchieved
<1> QED
  BY <1>3, <1>4, <1>5

LEMMA MoveOutcome ==
  ASSUME NEW t \in Tables, t.ok, NEW to \in UserFds, NEW from \in UserFds,
         NEW u, u = MoveRedirect(t, to, from)
  PROVE  /\ u \in Tables
         /\ \/ Failed(t, u)
            \/ to = from /\ u = t
            \/ to # from /\ IsOpen(t, to) /\ Achieved(t, u, {to, from}, {})
            \/ to # from /\ ~IsOpen(t, to) /\ Achieved(t, u, {to}, {from})
<1> DEFINE kept == Remember(t, to, IsOpen(t, to))
           both == IF kept.ok /\ IsOpen(t, to) THEN add_undo_redirect(kept, from) ELSE kept
           duped == Dup2(both, from, to)
<1>1. u = CASE to = from -> t
            [] to # from /\ ~both.ok -> both
            [] OTHER -> IF duped.ok THEN Close(duped, from) ELSE duped
  BY DEF MoveRedirect
<1>2. to \in FDs /\ from \in FDs
  BY FdFacts
<1>3. \/ kept = Fail(t)
      \/ kept \in Tables /\ kept.ok /\ Remembered(t, kept, to)
  BY <1>2, RememberOpen
<1> HIDE DEF kept
<1>4. CASE to = from
  BY <1>1, <1>4
<1>5. CASE to # from /\ kept = Fail(t)
  <2>1. both = kept /\ ~both.ok
    BY <1>5, FailFailed
  <2> QED
    BY <1>1, <1>5, <2>1, FailFailed
<1>6. ASSUME to # from, both \in Tables, both.ok, both.fds[from] # Closed
      PROVE  /\ u \in Tables /\ u.ok
             /\ Reassigned(both, duped, to, both.fds[from])
             /\ Reassigned(duped, u, from, Closed)
  <2> HIDE DEF both
  <2>1. /\ duped \in Tables /\ duped.ok /\ duped.fds = [both.fds EXCEPT ![to] = both.fds[from]]
        /\ duped.undo = both.undo /\ duped.exec = both.exec
    BY <1>2, <1>6, Dup2Result
  <2>2. u = Close(duped, from)
    BY <1>1, <1>6, <2>1
  <2> HIDE DEF duped
  <2> QED
    BY <1>2, <2>1, <2>2, CloseResult DEF Reassigned
<1>7. CASE to # from /\ kept \in Tables /\ kept.ok /\ Remembered(t, kept, to) /\ IsOpen(t, to)
  <2>1. both = add_undo_redirect(kept, from)
    BY <1>7
  <2>2. CASE both = Fail(kept)
    BY <1>1, <1>7, <2>2, FailFailed, RememberedSame
  <2>3. CASE both # Fail(kept)
    <3>1. /\ kept.fds[from] # Closed /\ both \in Tables /\ both.ok
          /\ \E c \in FDs : kept.fds[c] = Closed /\ Copied(kept, both, from, c)
      BY <1>2, <1>7, <2>1, <2>3, AddUndoResult
    <3> HIDE DEF both
    <3>2. both.fds[from] # Closed
      BY <1>2, <1>7, <3>1, TableFields DEF Copied, Descriptors
    <3> DEFINE x == both.fds[from]
    <3>3. x \in Files \union {Tty, Cap, Closed}
      BY <1>2, <3>1, TableFields DEF Descriptors
    <3>4. u \in Tables /\ u.ok /\ Reassigned(both, duped, to, x) /\ Reassigned(duped, u, from, Closed)
      BY <1>6, <1>7, <3>1, <3>2
    <3> HIDE DEF x, duped
    <3>5. Achieved(t, u, {to, from}, {})
      <4> SUFFICES ASSUME NEW held, Good(t, held), ~Exposed(u.undo)
                   PROVE  Follows(t, u, held, {to, from}, {}) /\ ~Exposed(t.undo)
        BY <3>4 DEF Achieved
      <4>1. /\ duped.fds = [both.fds EXCEPT ![to] = x]
            /\ duped.undo = both.undo /\ duped.exec = both.exec
            /\ u.fds = [duped.fds EXCEPT ![from] = Closed]
            /\ u.undo = duped.undo /\ u.exec = duped.exec
        BY <3>4 DEF Reassigned
      <4>2. Remembered(kept, both, from)
        BY <3>1 DEF Remembered
      <4>3. ~Exposed(kept.undo)
        <5>1. PICK a \in Undos, b \in Undos, m \in Seq(Undos) :
                     Longer(m, b, kept.undo) /\ Longer(u.undo, a, m)
          BY <3>1, <4>1 DEF Copied
        <5>2. ~Exposed(m)
          BY <5>1, ExposedMore
        <5> QED
          BY <1>7, <5>1, <5>2, ExposedMore, TableFields
      <4>4. Follows(t, kept, held, {to}, {}) /\ ~Exposed(t.undo)
        BY <1>7, <4>3, RememberedFollows
      <4>5. Good(kept, held)
        BY <4>4 DEF Follows
      <4>6. Follows(kept, both, held, {from}, {})
        BY <4>1, <4>2, <4>5, RememberedFollows
      <4>7. Follows(t, both, held, {to} \union {from}, {} \union {})
        BY <4>4, <4>6, FollowsOn
      <4>8. {to} \union {from} = {to, from} /\ {} \union {} = {}
        OBVIOUS
      <4>9. Follows(t, both, held, {to, from}, {})
        BY <4>7, <4>8
      <4>10. to \in {to, from} \union {} /\ from \in {to, from} \union {}
        OBVIOUS
      <4>11. Follows(t, duped, held, {to, from}, {})
        BY <3>3, <4>1, <4>9, <4>10, AssignFollows
      <4>12. Closed \in Files \union {Tty, Cap, Closed}
        OBVIOUS
      <4>13. Follows(t, u, held, {to, from}, {})
        BY <4>1, <4>10, <4>11, <4>12, AssignFollows
      <4> QED
        BY <4>4, <4>13
    <3> QED
      BY <1>7, <3>4, <3>5
  <2> QED
    BY <2>2, <2>3
<1>8. CASE to # from /\ kept \in Tables /\ kept.ok /\ Remembered(t, kept, to) /\ ~IsOpen(t, to)
  <2>1. both = kept
    BY <1>8
  <2>2. CASE kept.fds[from] = Closed
    <3>1. duped = Fail(kept)
      BY <2>1, <2>2, Dup2Closed
    <3>2. u = duped
      BY <1>1, <1>8, <2>1, <3>1, FailFailed
    <3> QED
      BY <1>8, <3>1, <3>2, FailFailed, RememberedSame
  <2>3. CASE kept.fds[from] # Closed
    <3> DEFINE x == kept.fds[from]
    <3>1. x \in Files \union {Tty, Cap, Closed}
      BY <1>2, <1>8, TableFields DEF Descriptors
    <3>2. u \in Tables /\ u.ok /\ Reassigned(kept, duped, to, x) /\ Reassigned(duped, u, from, Closed)
      BY <1>6, <1>8, <2>1, <2>3
    <3> HIDE DEF x, duped, both
    <3>3. Achieved(t, u, {to}, {from})
      <4> SUFFICES ASSUME NEW held, Good(t, held), ~Exposed(u.undo)
                   PROVE  Follows(t, u, held, {to}, {from}) /\ ~Exposed(t.undo)
        BY <3>2 DEF Achieved
      <4>1. /\ duped.fds = [kept.fds EXCEPT ![to] = x]
            /\ duped.undo = kept.undo /\ duped.exec = kept.exec
            /\ u.fds = [duped.fds EXCEPT ![from] = Closed]
            /\ u.undo = duped.undo /\ u.exec = duped.exec
        BY <3>2 DEF Reassigned
      <4>2. Follows(t, kept, held, {to}, {}) /\ ~Exposed(t.undo)
        BY <1>8, <4>1, RememberedFollows
      <4>3. Follows(t, kept, held, {to}, {from})
        BY <4>2, MoreBesides
      <4>4. to \in {to} \union {from} /\ from \in {to} \union {from}
        OBVIOUS
      <4>5. Follows(t, duped, held, {to}, {from})
        BY <3>1, <4>1, <4>3, <4>4, AssignFollows
      <4>6. Closed \in Files \union {Tty, Cap, Closed}
        OBVIOUS
      <4>7. Follows(t, u, held, {to}, {from})
        BY <4>1, <4>4, <4>5, <4>6, AssignFollows
      <4> QED
        BY <4>2, <4>7
    <3> QED
      BY <1>8, <3>2, <3>3
  <2> QED
    BY <2>2, <2>3
<1> QED
  BY <1>3, <1>4, <1>5, <1>7, <1>8

LEMMA TableType ==
  ASSUME RedirTypeOK
  PROVE  /\ Table \in Tables /\ Table.ok
         /\ Table.fds = fds /\ Table.clexec = clexec
         /\ Table.undo = redirection_undo_list /\ Table.exec = exec_redirection_undo_list
  BY DEF RedirTypeOK, Table, Tables, Descriptors

LEMMA KindFacts ==
  ASSUME NEW r \in RedirectKinds
  PROVE  \/ r.ri = "open" /\ r.to \in UserFds /\ r.from \in Files
         \/ r.ri \in {"dup", "move", "close"} /\ r.to \in UserFds /\ r.from \in UserFds
         \/ r.ri = "both" /\ r.to = 1 /\ r.from \in Files
  BY DEF RedirectKinds

(* One redirection of the list, of any kind. *)
LEMMA RedirectOutcome ==
  ASSUME RedirTypeOK, NEW r \in RedirectKinds, NEW u, u = do_redirection_internal(Table, r)
  PROVE  /\ u \in Tables
         /\ \/ Failed(Table, u)
            \/ \E d \in UserFds : Shut(Table, u, d)
            \/ Achieved(Table, u, Assigns(r) \union (Besides(r) \ Uncovered(r, u)), Uncovered(r, u))
<1> DEFINE t == Table
           D == Assigns(r) \union (Besides(r) \ Uncovered(r, u))
           X == Uncovered(r, u)
<1>1. t \in Tables /\ t.ok
  BY TableType
<1>2. CASE r.ri = "open" /\ r.to \in UserFds /\ r.from \in Files
  <2>1. u = OpenRedirect(t, r.to, r.from)
    BY <1>2 DEF do_redirection_internal
  <2>2. D = {r.to} /\ X = {}
    BY <1>2 DEF Assigns, Besides, Uncovered
  <2> HIDE DEF t, D, X
  <2>3. u \in Tables /\ ((~u.ok /\ Same(t, u)) \/ Achieved(t, u, {r.to}, {}))
    BY <1>1, <1>2, <2>1, OpenOutcome
  <2> QED
    BY <2>2, <2>3 DEF Failed, t, D, X
<1>3. CASE r.ri = "both" /\ r.to = 1 /\ r.from \in Files
  <2>1. u = BothRedirect(t, r.from)
    BY <1>3 DEF do_redirection_internal
  <2>2. Assigns(r) = {1} /\ Besides(r) = {2}
    BY <1>3 DEF Assigns, Besides
  <2>3. Covered(r, u) <=> Head(u.undo).to = 2
    BY <1>3 DEF Covered
  <2>4. CASE Head(u.undo).to = 2
    <3>1. X = {}
      BY <2>2, <2>3, <2>4 DEF Uncovered
    <3>2. D = {1, 2}
      BY <2>2, <3>1
    <3> HIDE DEF t, D, X
    <3>3. u \in Tables /\ ((~u.ok /\ Same(t, u)) \/ Achieved(t, u, {1, 2}, {}))
      BY <1>1, <1>3, <2>1, <2>4, BothOutcome
    <3> QED
      BY <3>1, <3>2, <3>3 DEF Failed, t, D, X
  <2>5. CASE Head(u.undo).to # 2
    <3>1. X = {2}
      BY <2>2, <2>3, <2>5 DEF Uncovered
    <3>2. D = {1}
      BY <2>2, <3>1
    <3> HIDE DEF t, D, X
    <3>3. u \in Tables /\ ((~u.ok /\ Same(t, u)) \/ Achieved(t, u, {1}, {2}))
      BY <1>1, <1>3, <2>1, <2>5, BothOutcome
    <3> QED
      BY <3>1, <3>2, <3>3 DEF Failed, t, D, X
  <2> QED
    BY <2>4, <2>5
<1>4. CASE r.ri = "dup" /\ r.to \in UserFds /\ r.from \in UserFds
  <2>1. u = DupRedirect(t, r.to, r.from)
    BY <1>4 DEF do_redirection_internal
  <2>2. D = (IF r.to = r.from THEN {} ELSE {r.to}) /\ X = {}
    BY <1>4 DEF Assigns, Besides, Uncovered
  <2> HIDE DEF t, D, X
  <2>3. /\ u \in Tables
        /\ \/ Failed(t, u)
           \/ r.to = r.from /\ Achieved(t, u, {}, {})
           \/ r.to # r.from /\ Achieved(t, u, {r.to}, {})
    BY <1>1, <1>4, <2>1, DupOutcome, NothingAchieved
  <2> QED
    BY <2>2, <2>3 DEF t, D, X
<1>5. CASE r.ri = "close" /\ r.to \in UserFds /\ r.from \in UserFds
  <2>1. u = CloseRedirect(t, r.to)
    BY <1>5 DEF do_redirection_internal
  <2>2. D = {r.to} /\ X = {}
    BY <1>5 DEF Assigns, Besides, Uncovered
  <2> HIDE DEF t, D, X
  <2>3. u \in Tables /\ (Failed(t, u) \/ Shut(t, u, r.to) \/ Achieved(t, u, {r.to}, {}))
    BY <1>1, <1>5, <2>1, CloseOutcome
  <2> QED
    BY <1>5, <2>2, <2>3 DEF t, D, X
<1>6. CASE r.ri = "move" /\ r.to \in UserFds /\ r.from \in UserFds
  <2>1. u = MoveRedirect(t, r.to, r.from)
    BY <1>6 DEF do_redirection_internal
  <2>2. Covered(r, u) <=> IsOpen(t, r.to)
    BY <1>6 DEF Covered
  <2>3. CASE r.to = r.from
    <3>1. D = {} /\ X = {}
      BY <1>6, <2>3 DEF Assigns, Besides, Uncovered
    <3> HIDE DEF t, D, X
    <3>2. u \in Tables /\ (Failed(t, u) \/ Achieved(t, u, {}, {}))
      BY <1>1, <1>6, <2>1, <2>3, MoveOutcome, NothingAchieved
    <3> QED
      BY <3>1, <3>2 DEF t, D, X
  <2>4. CASE r.to # r.from /\ IsOpen(t, r.to)
    <3>1. Assigns(r) = {r.to} /\ Besides(r) = {r.from}
      BY <1>6, <2>4 DEF Assigns, Besides
    <3>2. X = {}
      BY <2>2, <2>4 DEF Uncovered
    <3>3. D = {r.to, r.from}
      BY <3>1, <3>2
    <3> HIDE DEF t, D, X
    <3>4. u \in Tables /\ (Failed(t, u) \/ Achieved(t, u, {r.to, r.from}, {}))
      BY <1>1, <1>6, <2>1, <2>4, MoveOutcome
    <3> QED
      BY <3>2, <3>3, <3>4 DEF t, D, X
  <2>5. CASE r.to # r.from /\ ~IsOpen(t, r.to)
    <3>1. Assigns(r) = {r.to} /\ Besides(r) = {r.from}
      BY <1>6, <2>5 DEF Assigns, Besides
    <3>2. X = {r.from}
      BY <2>2, <2>5, <3>1 DEF Uncovered
    <3>3. D = {r.to}
      BY <2>5, <3>1, <3>2
    <3> HIDE DEF t, D, X
    <3>4. u \in Tables /\ (Failed(t, u) \/ Achieved(t, u, {r.to}, {r.from}))
      BY <1>1, <1>6, <2>1, <2>5, MoveOutcome
    <3> QED
      BY <3>2, <3>3, <3>4 DEF t, D, X
  <2> QED
    BY <2>3, <2>4, <2>5
<1> QED
  BY <1>2, <1>3, <1>4, <1>5, <1>6, KindFacts

(* The descriptors after the lists of two tables have been undone. *)
\* c are the descriptors of t after list has been undone.
Ends(t, list, c) == c = cleanup_redirects(t, list).fds

\* c is what list makes of ds.
Obeys(c, list, ds) ==
  \A d \in FDs : /\ Unnamed(list, d) => c[d] = ds[d]
                 /\ \A x : Gives(list, ds, d, x) => c[d] = x

LEMMA UndoneValue ==
  ASSUME NEW t \in Tables, t.ok, NEW list \in Seq(Undos), Sound(list, t.fds),
         NEW c, Ends(t, list, c)
  PROVE  c \in Descriptors /\ Obeys(c, list, t.fds)
<1> DEFINE e == cleanup_redirects(t, list)
<1>1. /\ \A d \in FDs : (\A k \in 1 .. Len(list) : list[k].to # d) => e.fds[d] = t.fds[d]
      /\ \A k \in 1 .. Len(list) : LastOf(list, Len(list), k)
           => e.fds[list[k].to] = Value(list[k], t.fds)
  BY CleanupEffect
<1>2. e \in Tables /\ c = e.fds
  BY CleanupType DEF Ends
<1> HIDE DEF e
<1>3. ASSUME NEW d \in FDs, Unnamed(list, d) PROVE c[d] = t.fds[d]
  BY <1>1, <1>2, <1>3 DEF Unnamed
<1>4. ASSUME NEW d \in FDs, NEW x, Gives(list, t.fds, d, x) PROVE c[d] = x
  BY <1>1, <1>2, <1>4 DEF Gives
<1> QED
  BY <1>2, <1>3, <1>4, TableFields DEF Obeys

(* Every number is given something by a list, or not named in it. *)
LEMMA NamedOrNot ==
  ASSUME NEW list \in Seq(Undos), NEW d
  PROVE  \/ Unnamed(list, d)
         \/ \E k \in 1 .. Len(list) : list[k].to = d /\ LastOf(list, Len(list), k)
<1>1. Len(list) \in Nat
  BY LenProperties
<1> DEFINE S(n) == n <= Len(list) => \/ \A k \in 1 .. n : list[k].to # d
                                     \/ \E k \in 1 .. n : list[k].to = d /\ LastOf(list, n, k)
           N == {n \in Nat : S(n)}
<1>2. 0 \in N
  OBVIOUS
<1>3. ASSUME NEW n \in Nat, n \in N PROVE n + 1 \in N
  <2> SUFFICES ASSUME n + 1 <= Len(list)
               PROVE  \/ \A k \in 1 .. n + 1 : list[k].to # d
                      \/ \E k \in 1 .. n + 1 : list[k].to = d /\ LastOf(list, n + 1, k)
    OBVIOUS
  <2>1. CASE list[n + 1].to = d
    <3>1. n + 1 \in 1 .. n + 1 /\ LastOf(list, n + 1, n + 1)
      BY DEF LastOf
    <3> QED
      BY <2>1, <3>1
  <2>2. CASE list[n + 1].to # d
    <3>1. CASE \A k \in 1 .. n : list[k].to # d
      BY <2>2, <3>1
    <3>2. CASE \E k \in 1 .. n : list[k].to = d /\ LastOf(list, n, k)
      <4>1. PICK k \in 1 .. n : list[k].to = d /\ LastOf(list, n, k)
        BY <3>2
      <4>2. k \in 1 .. n + 1 /\ LastOf(list, n + 1, k)
        BY <2>2, <4>1 DEF LastOf
      <4> QED
        BY <4>1, <4>2
    <3>3. n <= Len(list)
      BY <1>1
    <3> QED
      BY <1>3, <3>1, <3>2, <3>3
  <2> QED
    BY <2>1, <2>2
<1>4. Len(list) \in N
  <2> HIDE DEF N
  <2> QED
    BY <1>1, <1>2, <1>3, NatSetInduction
<1> QED
  BY <1>1, <1>4 DEF Unnamed

LEMMA SoundIfGood ==
  ASSUME NEW t, NEW held, Good(t, held)
  PROVE  Sound(t.undo, t.fds)
<1> SUFFICES ASSUME NEW k \in 1 .. Len(t.undo), t.undo[k].op = "dup"
             PROVE  /\ t.fds[t.undo[k].from] # Closed
                    /\ \A j \in 1 .. k - 1 : t.undo[j].to # t.undo[k].from
  BY DEF Sound
<1> QED
  BY SourcesOpen, Zenon DEF Good, WellFormed

-----------------------------------------------------------------------------
(* Undoing what a failed redirection left in the list.                      *)

LEMMA SoundMore ==
  ASSUME NEW a \in Undos, NEW list \in Seq(Undos), NEW l, Longer(l, a, list), NEW ds,
         Sound(list, ds), a.op = "dup" => ds[a.from] # Closed,
         \A k \in 1 .. Len(list) : list[k].op = "dup" => list[k].from # a.to
  PROVE  Sound(l, ds)
<1>1. /\ l \in Seq(Undos) /\ Len(list) \in Nat /\ Len(l) = Len(list) + 1
      /\ l[1] = a
      /\ \A k \in 2 .. Len(l) : k - 1 \in 1 .. Len(list) /\ l[k] = list[k - 1]
  BY OneMore
<1> SUFFICES ASSUME NEW k \in 1 .. Len(l), l[k].op = "dup"
             PROVE  /\ ds[l[k].from] # Closed
                    /\ \A j \in 1 .. k - 1 : l[j].to # l[k].from
  BY DEF Sound
<1>2. CASE k = 1
  BY <1>1, <1>2
<1>3. CASE k # 1
  <2>1. k \in 2 .. Len(l)
    BY <1>1, <1>3
  <2>2. k - 1 \in 1 .. Len(list) /\ l[k] = list[k - 1]
    BY <1>1, <2>1
  <2>3. /\ ds[l[k].from] # Closed
        /\ \A j \in 1 .. (k - 1) - 1 : list[j].to # l[k].from
    BY <2>2, Zenon DEF Sound
  <2>4. ASSUME NEW j \in 1 .. k - 1 PROVE l[j].to # l[k].from
    <3>1. CASE j = 1
      BY <1>1, <2>2, <3>1
    <3>2. CASE j # 1
      <4>1. j \in 2 .. Len(l) /\ j - 1 \in 1 .. (k - 1) - 1
        BY <1>1, <3>2
      <4> QED
        BY <1>1, <2>3, <4>1
    <3> QED
      BY <3>1, <3>2
  <2> QED
    BY <2>3, <2>4
<1> QED
  BY <1>2, <1>3

(* An entry in front of a list is not seen behind one for its number. *)
LEMMA NotedUndone ==
  ASSUME NEW t \in Tables, t.ok, NEW held, Good(t, held), NEW u \in Tables, u.ok,
         NEW d \in UserFds, t.fds[d] = Closed, Noted(t, u, d)
  PROVE  cleanup_redirects(u, u.undo).fds = cleanup_redirects(t, t.undo).fds
<1>1. PICK x \in Undos : x.op = "close" /\ x.to = d /\ Longer(u.undo, x, t.undo)
  BY DEF Noted
<1>2. /\ t.undo \in Seq(Undos) /\ u.undo \in Seq(Undos) /\ u.fds = t.fds
      /\ Sound(t.undo, t.fds) /\ Sound(u.undo, u.fds)
  BY NotedGood, SoundIfGood, TableFields DEF Noted
<1>3. /\ \A e : Unnamed(t.undo, e) /\ d # e => Unnamed(u.undo, e)
      /\ \A ds, e, v : Gives(t.undo, ds, e, v) => Gives(u.undo, ds, e, v)
      /\ \A ds : Unnamed(t.undo, d) => Gives(u.undo, ds, d, Value(x, ds))
  BY <1>1, <1>2, MoreEntries
<1> DEFINE cu == cleanup_redirects(u, u.undo).fds
           ct == cleanup_redirects(t, t.undo).fds
<1> Ends(u, u.undo, cu) /\ Ends(t, t.undo, ct)
  BY DEF Ends
<1> HIDE DEF cu, ct
<1>4. cu \in Descriptors /\ Obeys(cu, u.undo, u.fds)
  BY <1>2, UndoneValue
<1>5. ct \in Descriptors /\ Obeys(ct, t.undo, t.fds)
  BY <1>2, UndoneValue
<1>6. ASSUME NEW e \in FDs PROVE cu[e] = ct[e]
  <2>1. CASE \E k \in 1 .. Len(t.undo) : t.undo[k].to = e /\ LastOf(t.undo, Len(t.undo), k)
    <3>1. PICK v : Gives(t.undo, t.fds, e, v)
      BY <2>1 DEF Gives
    <3> QED
      BY <1>2, <1>3, <1>4, <1>5, <3>1 DEF Obeys
  <2>2. CASE Unnamed(t.undo, e) /\ e = d
    <3>1. Gives(u.undo, t.fds, e, Closed)
      BY <1>1, <1>3, <2>2 DEF Value
    <3> QED
      BY <1>2, <1>4, <1>5, <2>2, <3>1 DEF Obeys
  <2>3. CASE Unnamed(t.undo, e) /\ e # d
    BY <1>2, <1>3, <1>4, <1>5, <2>3 DEF Obeys
  <2> QED
    BY <1>2, <2>1, <2>2, <2>3, NamedOrNot
<1>7. cu = ct
  BY <1>4, <1>5, <1>6, SameDescriptors
<1> QED
  BY <1>7 DEF cu, ct

(* A copy is put back where it came from. *)
LEMMA CopiedUndone ==
  ASSUME NEW t \in Tables, t.ok, NEW held, Good(t, held), NEW u \in Tables, u.ok,
         NEW d \in UserFds, t.fds[d] # Closed, NEW c \in FDs, t.fds[c] = Closed,
         Copied(t, u, d, c)
  PROVE  cleanup_redirects(u, u.undo).fds = cleanup_redirects(t, t.undo).fds
<1> DEFINE old == t.undo
           new == u.undo
<1>1. PICK x \in Undos, y \in Undos, mid \in Seq(Undos) :
             /\ x.op = "dup" /\ x.to = d /\ x.from = c
             /\ y.op = "close" /\ y.to = c
             /\ Longer(mid, y, old) /\ Longer(new, x, mid)
  BY DEF Copied
<1>2. /\ old \in Seq(Undos) /\ new \in Seq(Undos) /\ d \in FDs /\ d # c
      /\ t.fds \in Descriptors /\ u.fds = [t.fds EXCEPT ![c] = t.fds[d]]
      /\ Sound(old, t.fds)
  BY FdFacts, SoundIfGood, TableFields DEF Copied
<1>3. \A e \in FDs : u.fds[e] = IF e = c THEN t.fds[d] ELSE t.fds[e]
  BY <1>2 DEF Descriptors
<1>4. \A k \in 1 .. Len(old) : old[k].op = "dup" =>
        /\ old[k].from \in FDs \ UserFds /\ t.fds[old[k].from] # Closed
  BY SourcesOpen
<1>5. \A e, v : Gives(old, t.fds, e, v) => Gives(old, u.fds, e, v)
  <2>1. \A e \in FDs \ UserFds : t.fds[e] # Closed => u.fds[e] = t.fds[e]
    BY <1>3
  <2> QED
    BY <2>1, GivesKept
<1> HIDE DEF old, new
<1>6. /\ \A e : Unnamed(old, e) /\ c # e => Unnamed(mid, e)
      /\ \A ds, e, v : Gives(old, ds, e, v) => Gives(mid, ds, e, v)
      /\ \A ds : Unnamed(old, c) => Gives(mid, ds, c, Value(y, ds))
  BY <1>1, <1>2, MoreEntries
<1>7. /\ \A e : Unnamed(mid, e) /\ d # e => Unnamed(new, e)
      /\ \A ds, e, v : Gives(mid, ds, e, v) => Gives(new, ds, e, v)
      /\ \A ds : Unnamed(mid, d) => Gives(new, ds, d, Value(x, ds))
  BY <1>1, MoreEntries
<1>8. Value(x, u.fds) = t.fds[d] /\ \A ds : Value(y, ds) = Closed
  BY <1>1, <1>3 DEF Value
<1>9. Sound(new, u.fds)
  <2>1. Sound(old, u.fds)
    BY <1>2, <1>3, <1>4 DEF Sound
  <2>2. \A k \in 1 .. Len(old) : old[k].op = "dup" => old[k].from # c
    BY <1>4
  <2>3. Sound(mid, u.fds)
    BY <1>1, <1>2, <2>1, <2>2, SoundMore
  <2>4. ASSUME NEW k \in 1 .. Len(mid), mid[k].op = "dup" PROVE mid[k].from # d
    <3>1. /\ Len(old) \in Nat /\ Len(mid) = Len(old) + 1 /\ mid[1] = y
          /\ \A j \in 2 .. Len(mid) : j - 1 \in 1 .. Len(old) /\ mid[j] = old[j - 1]
      BY <1>1, <1>2, OneMore
    <3>2. k # 1
      BY <1>1, <2>4, <3>1
    <3>3. k \in 2 .. Len(mid)
      BY <3>1, <3>2
    <3> QED
      BY <1>4, <2>4, <3>1, <3>3
  <2>5. u.fds[c] # Closed
    BY <1>3
  <2> QED
    BY <1>1, <2>3, <2>4, <2>5, SoundMore
<1> DEFINE cu == cleanup_redirects(u, new).fds
           ct == cleanup_redirects(t, old).fds
<1> Ends(u, new, cu) /\ Ends(t, old, ct)
  BY DEF Ends
<1> HIDE DEF cu, ct
<1>10. cu \in Descriptors /\ Obeys(cu, new, u.fds)
  BY <1>2, <1>9, UndoneValue
<1>11. ct \in Descriptors /\ Obeys(ct, old, t.fds)
  BY <1>2, UndoneValue
<1>12. ASSUME NEW e \in FDs PROVE cu[e] = ct[e]
  <2>1. CASE \E k \in 1 .. Len(old) : old[k].to = e /\ LastOf(old, Len(old), k)
    <3>1. PICK v : Gives(old, t.fds, e, v)
      BY <2>1 DEF Gives
    <3>2. Gives(new, u.fds, e, v)
      BY <1>5, <1>6, <1>7, <3>1
    <3> QED
      BY <1>10, <1>11, <3>1, <3>2 DEF Obeys
  <2>2. CASE Unnamed(old, e) /\ e = d
    <3>1. Gives(new, u.fds, e, t.fds[d])
      BY <1>2, <1>6, <1>7, <1>8, <2>2
    <3> QED
      BY <1>10, <1>11, <2>2, <3>1 DEF Obeys
  <2>3. CASE Unnamed(old, e) /\ e = c
    <3>1. Gives(new, u.fds, e, Closed)
      BY <1>6, <1>7, <1>8, <2>3
    <3> QED
      BY <1>10, <1>11, <2>3, <3>1 DEF Obeys
  <2>4. CASE Unnamed(old, e) /\ e # d /\ e # c
    BY <1>3, <1>6, <1>7, <1>10, <1>11, <2>4 DEF Obeys
  <2> QED
    BY <1>2, <2>1, <2>2, <2>3, <2>4, NamedOrNot
<1>13. cu = ct
  BY <1>10, <1>11, <1>12, SameDescriptors
<1> QED
  BY <1>13 DEF cu, ct, old, new

LEMMA FailedUndone ==
  ASSUME NEW t \in Tables, t.ok, NEW held, Good(t, held), NEW u \in Tables, Failed(t, u),
         NEW v \in Tables, v.ok, Same(u, v)
  PROVE  cleanup_redirects(v, v.undo).fds = cleanup_redirects(t, t.undo).fds
<1>1. CASE \E d \in UserFds : Remembered(t, u, d)
  <2>1. PICK d \in UserFds : Remembered(t, u, d)
    BY <1>1
  <2>2. Remembered(t, v, d)
    BY <2>1 DEF Remembered, Copied, Noted, Same
  <2> QED
    BY <2>2, NotedUndone, CopiedUndone DEF Remembered
<1>2. CASE Same(t, u)
  <2>1. v.fds = t.fds /\ v.undo = t.undo
    BY <1>2 DEF Same
  <2>2. /\ t.undo \in Seq(Undos) /\ Sound(t.undo, t.fds) /\ Sound(v.undo, v.fds)
    BY <2>1, SoundIfGood, TableFields
  <2> DEFINE cv == cleanup_redirects(v, v.undo).fds
             ct == cleanup_redirects(t, t.undo).fds
  <2> Ends(v, v.undo, cv) /\ Ends(t, t.undo, ct)
    BY DEF Ends
  <2> HIDE DEF cv, ct
  <2>3. cv \in Descriptors /\ Obeys(cv, t.undo, t.fds)
    BY <2>1, <2>2, UndoneValue
  <2>4. ct \in Descriptors /\ Obeys(ct, t.undo, t.fds)
    BY <2>2, UndoneValue
  <2>5. ASSUME NEW e \in FDs PROVE cv[e] = ct[e]
    <3>1. CASE Unnamed(t.undo, e)
      BY <2>3, <2>4, <3>1 DEF Obeys
    <3>2. CASE \E k \in 1 .. Len(t.undo) : t.undo[k].to = e /\ LastOf(t.undo, Len(t.undo), k)
      <4>1. PICK x : Gives(t.undo, t.fds, e, x)
        BY <3>2 DEF Gives
      <4> QED
        BY <2>3, <2>4, <4>1 DEF Obeys
    <3> QED
      BY <2>2, <3>1, <3>2, NamedOrNot
  <2>6. cv = ct
    BY <2>3, <2>4, <2>5, SameDescriptors
  <2> QED
    BY <2>6 DEF cv, ct
<1> QED
  BY <1>1, <1>2 DEF Failed

-----------------------------------------------------------------------------
(* A command that ends.                                                     *)

LEMMA FrameFields ==
  ASSUME NEW f \in Frames
  PROVE  /\ f.kind \in Kinds /\ f.undo \in Seq(Undos)
         /\ f.cap \in FDs \union {0} /\ f.saved \in FDs \union {0}
         /\ f.done \in 0 .. MaxRedirects /\ f.before \in Descriptors
         /\ f.touched \in SUBSET UserFds /\ f.besides \in SUBSET UserFds
  BY DEF Frames, Descriptors

(* Lists that name copies read open descriptors only. *)
LEMMA RestoresKept ==
  ASSUME NEW f \in Frames, NEW ds, NEW es, WellFormed(f.undo), Restores(f, f.undo, ds),
         \A d \in Numbers(f.undo) : es[d] = ds[d]
  PROVE  Restores(f, f.undo, es)
<1> DEFINE list == f.undo
<1>1. list \in Seq(Undos) /\ WellFormed(list) /\ Restores(f, list, ds)
  BY FrameFields
<1>2. \A d \in Numbers(list) : es[d] = ds[d]
  OBVIOUS
<1> HIDE DEF list
<1>3. ASSUME NEW k \in 1 .. Len(list) PROVE Value(list[k], es) = Value(list[k], ds)
  <2>1. list[k].op \in {"dup", "close"}
    BY <1>1, EntriesOf, EntryFacts
  <2>2. CASE list[k].op = "close"
    BY <2>2 DEF Value
  <2>3. CASE list[k].op = "dup"
    <3>1. list[k].from \in Numbers(list)
      BY <1>1, <2>3, Zenon DEF WellFormed
    <3>2. es[list[k].from] = ds[list[k].from] /\ list[k].op # "close"
      BY <1>2, <2>3, <3>1
    <3> QED
      BY <3>2 DEF Value
  <2> QED
    BY <2>1, <2>2, <2>3
<1>4. \A d, x : Gives(list, ds, d, x) => Gives(list, es, d, x)
  BY <1>3, Zenon DEF Gives
<1>5. Restores(f, list, es)
  BY <1>1, <1>4, Zenon DEF Restores
<1> QED
  BY <1>5 DEF list

LEMMA ListUndone ==
  ASSUME NEW f \in Frames, NEW t \in Tables, t.ok,
         WellFormed(f.undo), Restores(f, f.undo, t.fds),
         \A d \in Numbers(f.undo) : t.fds[d] # Closed,
         NEW c, Ends(t, f.undo, c)
  PROVE  /\ c \in Descriptors
         /\ \A d \in FDs \ UserFds : c[d] = IF d \in Numbers(f.undo) THEN Closed ELSE t.fds[d]
         /\ \A d \in UserFds \ f.besides :
              c[d] = IF d \in f.touched THEN Start(f)[d] ELSE t.fds[d]
<1> DEFINE list == f.undo
<1>1. list \in Seq(Undos) /\ Len(list) \in Nat
  BY FrameFields, EntriesOf
<1>2. Sound(list, t.fds)
  <2> SUFFICES ASSUME NEW k \in 1 .. Len(list), list[k].op = "dup"
               PROVE  /\ t.fds[list[k].from] # Closed
                      /\ \A j \in 1 .. k - 1 : list[j].to # list[k].from
    BY DEF Sound
  <2>1. list[k].from \in Numbers(list) /\ \A j \in 1 .. k - 1 : list[j].to # list[k].from
    BY Zenon DEF WellFormed
  <2> QED
    BY <2>1
<1>3. c \in Descriptors /\ Obeys(c, list, t.fds)
  BY <1>1, <1>2, UndoneValue
<1>4. ASSUME NEW d \in FDs \ UserFds
      PROVE  c[d] = IF d \in Numbers(list) THEN Closed ELSE t.fds[d]
  <2>1. CASE Unnamed(list, d)
    <3>1. d \notin Numbers(list)
      BY <2>1 DEF Unnamed, Numbers
    <3> QED
      BY <1>3, <2>1, <3>1 DEF Obeys
  <2>2. CASE \E k \in 1 .. Len(list) : list[k].to = d /\ LastOf(list, Len(list), k)
    <3>1. PICK k \in 1 .. Len(list) : list[k].to = d /\ LastOf(list, Len(list), k)
      BY <2>2
    <3>2. d \in Numbers(list)
      BY <3>1 DEF Numbers
    <3>3. list[k].op = "close"
      <4>1. list[k].op \in {"dup", "close"}
        BY <1>1, EntriesOf, EntryFacts
      <4>2. list[k].op = "dup" => list[k].to \in UserFds
        BY Zenon DEF WellFormed
      <4> QED
        BY <3>1, <4>1, <4>2
    <3>4. Value(list[k], t.fds) = Closed
      BY <3>3 DEF Value
    <3>5. Gives(list, t.fds, d, Closed)
      BY <3>1, <3>4 DEF Gives
    <3> QED
      BY <1>3, <3>2, <3>5 DEF Obeys
  <2> QED
    BY <1>1, <2>1, <2>2, NamedOrNot
<1>5. ASSUME NEW d \in UserFds \ f.besides
      PROVE  c[d] = IF d \in f.touched THEN Start(f)[d] ELSE t.fds[d]
  <2>1. d \in FDs
    BY FdFacts
  <2>2. IF d \in f.touched THEN Gives(list, t.fds, d, Start(f)[d]) ELSE Unnamed(list, d)
    BY Zenon DEF Restores
  <2> QED
    BY <1>3, <2>1, <2>2 DEF Obeys
<1> QED
  BY <1>3, <1>4, <1>5

LEMMA EndCaptureType ==
  ASSUME NEW t \in Tables, t.ok, NEW f \in Frames, f.cap = 0 <=> f.saved = 0
  PROVE  /\ EndCapture(t, f) \in Tables
         /\ EndCapture(t, f).undo = t.undo /\ EndCapture(t, f).exec = t.exec
<1>1. CASE f.cap = 0
  BY <1>1 DEF EndCapture
<1>2. CASE f.cap # 0
  <2> DEFINE back == IF f.saved # 1 THEN Dup2(t, f.saved, 1) ELSE t
             shut == Close(back, f.saved)
             both == Close(shut, f.cap)
  <2>1. f.cap \in FDs /\ f.saved \in FDs /\ 1 \in FDs
    BY <1>2, FrameFields, FdFacts
  <2>2. back \in Tables /\ back.undo = t.undo /\ back.exec = t.exec
    <3>1. CASE f.saved = 1
      <4>1. back = t
        BY <3>1
      <4> QED
        BY <4>1
    <3>2. CASE f.saved # 1 /\ t.fds[f.saved] = Closed
      <4>1. back = Fail(t)
        BY <3>2, Dup2Closed
      <4> QED
        BY <4>1, FailResult
    <3>3. CASE f.saved # 1 /\ t.fds[f.saved] # Closed
      <4>1. back = Dup2(t, f.saved, 1)
        BY <3>3
      <4> HIDE DEF back
      <4> DEFINE d == f.saved
      <4>2. d \in FDs /\ t.fds[d] # Closed
        BY <2>1, <3>3
      <4> HIDE DEF d
      <4>3. \A to \in FDs : /\ Dup2(t, d, to) \in Tables
                            /\ Dup2(t, d, to).undo = t.undo
                            /\ Dup2(t, d, to).exec = t.exec
        BY <4>2, Dup2Result
      <4>4. back = Dup2(t, d, 1)
        BY <4>1 DEF d
      <4> QED
        BY <2>1, <4>3, <4>4, Zenon
    <3> QED
      BY <3>1, <3>2, <3>3
  <2>3. EndCapture(t, f) = [both EXCEPT !.ok = TRUE]
    BY <1>2 DEF EndCapture
  <2> HIDE DEF back
  <2>4. shut \in Tables /\ shut.undo = t.undo /\ shut.exec = t.exec
    BY <2>1, <2>2, CloseResult
  <2> HIDE DEF shut
  <2>5. both \in Tables /\ both.undo = t.undo /\ both.exec = t.exec
    BY <2>1, <2>4, CloseResult
  <2> HIDE DEF both
  <2> QED
    BY <2>3, <2>5, OkAgain DEF Same
<1> QED
  BY <1>1, <1>2

LEMMA CaptureFacts ==
  ASSUME NEW f \in Frames, CaptureOK(f), f.cap # 0
  PROVE  /\ f.cap \in FDs /\ f.saved \in FDs /\ f.cap # f.saved /\ f.cap # 1 /\ f.saved # 1
         /\ f.before[1] # Closed /\ f.before[f.cap] = Closed /\ f.before[f.saved] = Closed
         /\ Start(f)[f.saved] = f.before[1]
         /\ f.saved # 0
<1>1. /\ f.cap \in FDs /\ f.saved \in FDs /\ f.cap # f.saved /\ f.saved # 0
      /\ f.before[1] # Closed /\ f.before[f.cap] = Closed /\ f.before[f.saved] = Closed
  BY FrameFields DEF CaptureOK
<1>2. f.cap # 1 /\ f.saved # 1
  BY <1>1
<1> QED
  BY <1>1, <1>2 DEF Start

LEMMA EndCaptureEffect ==
  ASSUME NEW t \in Tables, t.ok, NEW f \in Frames, CaptureOK(f), f.cap # 0,
         t.fds[f.saved] = f.before[1]
  PROVE  \A d \in FDs : EndCapture(t, f).fds[d] = IF d \in {f.cap, f.saved} THEN Closed
                                                 ELSE IF d = 1 THEN f.before[1] ELSE t.fds[d]
<1> DEFINE back == Dup2(t, f.saved, 1)
           shut == Close(back, f.saved)
           both == Close(shut, f.cap)
<1>1. /\ f.cap \in FDs /\ f.saved \in FDs /\ f.cap # f.saved /\ f.cap # 1 /\ f.saved # 1
      /\ f.before[1] # Closed /\ 1 \in FDs
  BY CaptureFacts, FdFacts
<1>2. back \in Tables /\ back.fds = [t.fds EXCEPT ![1] = f.before[1]]
  <2>1. /\ Dup2(t, f.saved, 1) \in Tables
        /\ Dup2(t, f.saved, 1).fds = [t.fds EXCEPT ![1] = t.fds[f.saved]]
    <3>1. \A to \in FDs : /\ Dup2(t, f.saved, to) \in Tables
                          /\ Dup2(t, f.saved, to).fds = [t.fds EXCEPT ![to] = t.fds[f.saved]]
      <4>1. ASSUME NEW from \in FDs, t.fds[from] # Closed, NEW to \in FDs
            PROVE  /\ Dup2(t, from, to) \in Tables
                   /\ Dup2(t, from, to).fds = [t.fds EXCEPT ![to] = t.fds[from]]
        BY <4>1, Dup2Result, Zenon
      <4>2. f.saved \in FDs /\ t.fds[f.saved] # Closed
        BY <1>1
      <4> QED
        BY <4>1, <4>2, Zenon
    <3> HIDE DEF back
    <3> QED
      BY <1>1, <3>1, Zenon
  <2> QED
    BY <2>1
<1>3. EndCapture(t, f) = [both EXCEPT !.ok = TRUE]
  BY <1>1 DEF EndCapture
<1> HIDE DEF back
<1>4. shut \in Tables /\ shut.fds = [back.fds EXCEPT ![f.saved] = Closed]
  BY <1>1, <1>2, CloseResult
<1> HIDE DEF shut
<1>5. both \in Tables /\ both.fds = [shut.fds EXCEPT ![f.cap] = Closed]
  BY <1>1, <1>4, CloseResult
<1> HIDE DEF both
<1>6. EndCapture(t, f).fds = both.fds
  BY <1>3, <1>5, OkAgain DEF Same
<1>7. \A d \in FDs : back.fds[d] = IF d = 1 THEN f.before[1] ELSE t.fds[d]
  BY <1>1, <1>2, TableFields DEF Descriptors
<1>8. \A d \in FDs : shut.fds[d] = IF d = f.saved THEN Closed ELSE back.fds[d]
  BY <1>1, <1>2, <1>4, TableFields DEF Descriptors
<1>9. \A d \in FDs : both.fds[d] = IF d = f.cap THEN Closed ELSE shut.fds[d]
  BY <1>1, <1>4, <1>5, TableFields DEF Descriptors
<1> QED
  BY <1>1, <1>6, <1>7, <1>8, <1>9

\* es are ds after the command with frame f has ended: its copies are gone, and
\* what it assigned is as before it.
Ended(f, ds, es) ==
  /\ es \in Descriptors
  /\ \A d \in FDs \ UserFds : es[d] = IF d \in HeldBy(f) THEN Closed ELSE ds[d]
  /\ \A d \in UserFds \ f.besides : es[d] = IF d \in Assigned(f) THEN f.before[d] ELSE ds[d]

\* The frame f on top of a stack in order.
TopFacts(f, ds) ==
  /\ f \in Frames /\ WellFormed(f.undo) /\ Restores(f, f.undo, ds)
  /\ CaptureOK(f)
  /\ Numbers(f.undo) \cap Captured(f) = {}
  /\ \A d \in Numbers(f.undo) : ds[d] # Closed
  /\ f.cap # 0 => /\ f.saved \notin f.besides
                  /\ f.saved \notin f.touched => ds[f.saved] = f.before[1]

LEMMA TopOK ==
  ASSUME NEW s \in Seq(Frames), NEW n \in Nat \ {0}, n = Len(s), NEW ds, StackOK(s, ds)
  PROVE  TopFacts(s[n], ds)
<1>1. n \in 1 .. Len(s)
  OBVIOUS
<1>2. s[n] \in Frames
  BY <1>1, ElementOfSeq
<1>3. /\ WellFormed(s[n].undo) /\ Restores(s[n], s[n].undo, ds) /\ CaptureOK(s[n])
      /\ Numbers(s[n].undo) \cap Captured(s[n]) = {}
      /\ s[n].cap # 0 => SavedOK(s, n, ds)
  BY <1>1, Zenon DEF StackOK
<1>4. \A d \in Numbers(s[n].undo) : ds[d] # Closed
  <2> SUFFICES ASSUME NEW d \in Numbers(s[n].undo) PROVE ds[d] # Closed
    OBVIOUS
  <2>1. d \in FDs \ UserFds
    BY <1>2, FrameFields, EntriesOf
  <2>2. d \in HeldBy(s[n])
    BY DEF HeldBy
  <2> QED
    BY <1>1, <2>1, <2>2 DEF StackOK
<1>5. ASSUME s[n].cap # 0
      PROVE  /\ s[n].saved \notin s[n].besides
             /\ s[n].saved \notin s[n].touched => ds[s[n].saved] = s[n].before[1]
  <2>1. SavedOK(s, n, ds)
    BY <1>3, <1>5
  <2>2. \A j \in n .. Len(s) : j = n
    OBVIOUS
  <2>3. n \in n .. Len(s)
    OBVIOUS
  <2>4. s[n].saved \notin s[n].touched => Inside(s, n) = {}
    BY <2>2 DEF Inside
  <2> QED
    BY <2>1, <2>3, <2>4 DEF SavedOK
<1> QED
  BY <1>2, <1>3, <1>4, <1>5 DEF TopFacts

LEMMA TopEnds ==
  ASSUME NEW s \in Seq(Frames), NEW n \in Nat \ {0}, n = Len(s), NEW t \in Tables, t.ok,
         StackOK(s, t.fds), NEW c \in Tables, c.ok, Ends(t, s[n].undo, c.fds)
  PROVE  Ended(s[n], t.fds, EndCapture(c, s[n]).fds)
<1> DEFINE f == s[n]
           e == EndCapture(c, f)
<1>1. /\ f \in Frames /\ WellFormed(f.undo) /\ Restores(f, f.undo, t.fds)
      /\ CaptureOK(f)
      /\ Numbers(f.undo) \cap Captured(f) = {}
      /\ \A d \in Numbers(f.undo) : t.fds[d] # Closed
      /\ f.cap # 0 =>
           /\ f.saved \notin f.besides
           /\ f.saved \notin f.touched => t.fds[f.saved] = f.before[1]
  <2> HIDE DEF e
  <2>1. TopFacts(s[n], t.fds)
    BY TopOK
  <2> QED
    BY <2>1 DEF f, TopFacts
<1> HIDE DEF f
<1>2. /\ c.fds \in Descriptors
      /\ \A d \in FDs \ UserFds :
           c.fds[d] = IF d \in Numbers(f.undo) THEN Closed ELSE t.fds[d]
      /\ \A d \in UserFds \ f.besides :
           c.fds[d] = IF d \in f.touched THEN Start(f)[d] ELSE t.fds[d]
  <2>1. Ends(t, f.undo, c.fds)
    BY DEF f
  <2> QED
    BY <1>1, <2>1, ListUndone
<1>3. e \in Tables
  BY <1>1, EndCaptureType DEF CaptureOK
<1>4. f.touched \in SUBSET UserFds
  BY <1>1, FrameFields
<1>5. CASE f.cap = 0
  <2>1. e = c
    BY <1>5 DEF EndCapture
  <2>2. HeldBy(f) = Numbers(f.undo)
    <3>1. f.saved = 0
      BY <1>1, <1>5 DEF CaptureOK
    <3> QED
      BY <1>5, <3>1 DEF HeldBy, Captured
  <2>3. Assigned(f) = f.touched
    BY <1>5 DEF Assigned
  <2>4. \A d \in UserFds : Start(f)[d] = f.before[d]
    BY <1>5, FdFacts DEF Start
  <2> QED
    BY <1>2, <2>1, <2>2, <2>3, <2>4 DEF Ended, f
<1>6. CASE f.cap # 0
  <2>1. /\ f.cap \in FDs /\ f.saved \in FDs /\ f.cap # f.saved /\ f.cap # 1 /\ f.saved # 1
        /\ f.before[1] # Closed /\ f.before[f.cap] = Closed /\ f.before[f.saved] = Closed
        /\ Start(f)[f.saved] = f.before[1]
    BY <1>1, <1>6, CaptureFacts
  <2>2. c.fds[f.saved] = f.before[1]
    <3>1. CASE f.saved \in UserFds
      BY <1>1, <1>2, <1>6, <2>1, <3>1
    <3>2. CASE f.saved \notin UserFds
      <4>1. f.saved \in Captured(f)
        BY <2>1, <3>2, FdFacts DEF Captured
      <4> QED
        BY <1>1, <1>2, <1>4, <1>6, <2>1, <3>2, <4>1
    <3> QED
      BY <3>1, <3>2
  <2>3. \A d \in FDs : e.fds[d] = IF d \in {f.cap, f.saved} THEN Closed
                                  ELSE IF d = 1 THEN f.before[1] ELSE c.fds[d]
    BY <1>1, <1>6, <2>2, EndCaptureEffect
  <2> HIDE DEF e
  <2>4. ASSUME NEW d \in FDs \ UserFds
        PROVE  e.fds[d] = IF d \in HeldBy(f) THEN Closed ELSE t.fds[d]
    <3>1. d # 1 /\ d # 0
      BY FdFacts
    <3>2. d \in HeldBy(f) <=> d \in Numbers(f.undo) \/ d \in {f.cap, f.saved}
      BY <3>1 DEF HeldBy, Captured
    <3> QED
      BY <1>2, <2>3, <3>1, <3>2
  <2>5. ASSUME NEW d \in UserFds \ f.besides
        PROVE  e.fds[d] = IF d \in Assigned(f) THEN f.before[d] ELSE t.fds[d]
    <3>1. d \in FDs
      BY FdFacts
    <3>2. d \in Assigned(f) <=> d \in f.touched \/ d \in {1, f.cap, f.saved}
      BY <1>6 DEF Assigned
    <3>3. d \notin {1, f.cap, f.saved} => Start(f)[d] = f.before[d]
      BY <3>1 DEF Start
    <3> QED
      BY <1>2, <2>1, <2>3, <3>1, <3>2, <3>3
  <2> QED
    BY <1>3, <2>4, <2>5, TableFields DEF Ended, e, f
<1> QED
  BY <1>5, <1>6

\* p is s without its top.
Popped(s, p) ==
  /\ s \in Seq(Frames) /\ p \in Seq(Frames)
  /\ Len(s) \in Nat \ {0} /\ Len(s) = Len(p) + 1
  /\ \A k \in 1 .. Len(p) : p[k] = s[k]

LEMMA PoppedFacts ==
  ASSUME NEW s, NEW p, Popped(s, p), NEW i \in 1 .. Len(p)
  PROVE  /\ i \in 1 .. Len(s) /\ i # Len(s) /\ Len(s) \in 1 .. Len(s)
         /\ p[i] = s[i] /\ s[i] \in Frames /\ s[Len(s)] \in Frames
         /\ \A j : j \in i .. Len(s) <=> j \in i .. Len(p) \/ j = Len(s)
<1>1. Len(p) \in Nat /\ Len(s) \in Nat
  BY LenProperties DEF Popped
<1>2. /\ i \in 1 .. Len(s) /\ i # Len(s) /\ Len(s) \in 1 .. Len(s)
      /\ \A j : j \in i .. Len(s) <=> j \in i .. Len(p) \/ j = Len(s)
  BY <1>1 DEF Popped
<1>3. s[i] \in Frames /\ s[Len(s)] \in Frames
  BY <1>2, ElementOfSeq DEF Popped
<1> QED
  BY <1>2, <1>3 DEF Popped

(* The copy of a capture below a command that ends. *)
LEMMA SavedPops ==
  ASSUME NEW s, NEW p, Popped(s, p), NEW i \in 1 .. Len(p), NEW ds, NEW es,
         SavedOK(s, i, ds), NEW n, n = Len(s), NEW d, d = s[i].saved,
         es[d] = IF d \in Assigned(s[n]) THEN s[n].before[d] ELSE ds[d]
  PROVE  SavedOK(p, i, es)
<1>1. /\ i \in 1 .. n /\ i # n /\ n \in Nat
      /\ p[i] = s[i] /\ s[n] \in Frames
      /\ \A j : j \in i .. n <=> j \in i .. Len(p) \/ j = n
      /\ \A j \in i .. Len(p) : p[j] = s[j] /\ j # n /\ j <= n
  BY PoppedFacts DEF Popped
<1>2. n \in Inside(s, i) <=> d \in Assigned(s[n])
  BY <1>1 DEF Inside, Assigned
<1>3. Inside(p, i) = Inside(s, i) \ {n}
  <2>1. ASSUME NEW j PROVE j \in Inside(p, i) <=> j \in Inside(s, i) \ {n}
    BY <1>1 DEF Inside
  <2> QED
    BY <2>1
<1>4. Inside(p, i) \subseteq i .. Len(p)
  BY DEF Inside
<1>5. \A j \in i .. Len(p) : p[i].saved \notin p[j].besides
  BY <1>1 DEF SavedOK
<1>6. ASSUME Inside(p, i) = {} PROVE es[p[i].saved] = p[i].before[1]
  <2>1. CASE n \in Inside(s, i)
    <3>1. Inside(s, i) = {n}
      BY <1>3, <1>6, <2>1
    <3>2. n <= n
      BY <1>1
    <3>3. s[n].before[s[i].saved] = s[i].before[1]
      BY <1>1, <3>1, <3>2 DEF SavedOK
    <3> QED
      BY <1>1, <1>2, <2>1, <3>3
  <2>2. CASE n \notin Inside(s, i)
    <3>1. Inside(s, i) = {}
      BY <1>3, <1>6, <2>2
    <3> QED
      BY <1>1, <1>2, <2>2, <3>1 DEF SavedOK
  <2> QED
    BY <2>1, <2>2
<1>7. ASSUME NEW m \in Inside(p, i), \A j \in Inside(p, i) : m <= j
      PROVE  m = i \/ p[m].before[p[i].saved] = p[i].before[1]
  <2>1. m \in i .. Len(p) /\ m \in Inside(s, i)
    BY <1>3, <1>4
  <2>2. \A j \in Inside(s, i) : m <= j
    BY <1>1, <1>3, <1>7, <2>1
  <2>3. m = i \/ s[m].before[s[i].saved] = s[i].before[1]
    BY <2>1, <2>2 DEF SavedOK
  <2> QED
    BY <1>1, <2>1, <2>3
<1> QED
  BY <1>5, <1>6, <1>7 DEF SavedOK

(* The stack below a command whose copies are closed. *)
LEMMA RestKeeps ==
  ASSUME NEW s, NEW p, Popped(s, p), NEW n, n = Len(s), NEW ds, NEW es,
         StackOK(s, ds), es \in Descriptors,
         \A d \in FDs \ UserFds : es[d] = IF d \in HeldBy(s[n]) THEN Closed ELSE ds[d],
         \A i \in 1 .. Len(p) : s[i].cap # 0 => SavedOK(p, i, es)
  PROVE  StackOK(p, es)
<1>1. n \in Nat /\ n \in 1 .. n
  BY DEF Popped
<1>2. ASSUME NEW i \in 1 .. Len(p)
      PROVE  /\ i \in 1 .. n /\ i # n /\ p[i] = s[i] /\ s[i] \in Frames
             /\ HeldBy(s[i]) \cap HeldBy(s[n]) = {}
  <2>1. i \in 1 .. n /\ i # n /\ p[i] = s[i] /\ s[i] \in Frames
    BY PoppedFacts
  <2>2. HeldBy(s[i]) \cap HeldBy(s[n]) = {}
    BY <1>1, <2>1, Zenon DEF StackOK
  <2> QED
    BY <2>1, <2>2
<1>3. ASSUME NEW i \in 1 .. Len(p)
      PROVE  /\ WellFormed(p[i].undo)
             /\ Numbers(p[i].undo) \cap Captured(p[i]) = {}
             /\ Restores(p[i], p[i].undo, es)
             /\ CaptureOK(p[i])
             /\ p[i].cap # 0 => SavedOK(p, i, es)
  <2> DEFINE f == s[i]
             list == f.undo
  <2>1. /\ i \in 1 .. n /\ i # n /\ p[i] = f /\ f \in Frames
        /\ HeldBy(f) \cap HeldBy(s[n]) = {}
    BY <1>2
  <2>2. /\ WellFormed(f.undo)
        /\ Numbers(f.undo) \cap Captured(f) = {}
        /\ Restores(f, f.undo, ds)
        /\ CaptureOK(f)
    BY <2>1, Zenon DEF StackOK
  <2>3. f.cap # 0 => SavedOK(p, i, es)
    OBVIOUS
  <2> HIDE DEF f
  <2>4. list \in Seq(Undos) /\ list = f.undo
    BY <2>1, FrameFields
  <2> HIDE DEF list
  <2>5. ASSUME NEW k \in 1 .. Len(list) PROVE Value(list[k], es) = Value(list[k], ds)
    <3>1. list[k].op \in {"dup", "close"}
      BY <2>4, EntriesOf, EntryFacts
    <3>2. CASE list[k].op = "close"
      BY <3>2 DEF Value
    <3>3. CASE list[k].op = "dup"
      <4>1. list[k].from \in Numbers(list)
        BY <2>2, <2>4, <3>3, Zenon DEF WellFormed
      <4>2. list[k].from \in FDs \ UserFds /\ list[k].from \in HeldBy(f)
        BY <2>4, <4>1, EntriesOf DEF HeldBy
      <4>3. es[list[k].from] = ds[list[k].from]
        BY <2>1, <4>2
      <4>4. list[k].op # "close"
        BY <3>3
      <4> QED
        BY <4>3, <4>4 DEF Value
    <3> QED
      BY <3>1, <3>2, <3>3
  <2>6. \A d, x : Gives(list, ds, d, x) => Gives(list, es, d, x)
    BY <2>5, Zenon DEF Gives
  <2>7. Restores(f, list, es)
    BY <2>2, <2>4, <2>6, Zenon DEF Restores
  <2> QED
    BY <2>1, <2>2, <2>3, <2>4, <2>7
<1>4. ASSUME NEW i \in 1 .. Len(p), NEW j \in 1 .. Len(p), i # j
      PROVE  HeldBy(p[i]) \cap HeldBy(p[j]) = {}
  <2>1. HeldBy(s[i]) \cap HeldBy(s[j]) = {}
    BY <1>2, <1>4, Zenon DEF StackOK
  <2> QED
    BY <1>2, <2>1
<1>5. ASSUME NEW d \in FDs \ UserFds
      PROVE  es[d] # Closed <=> \E i \in 1 .. Len(p) : d \in HeldBy(p[i])
  <2>1. ds[d] # Closed <=> \E i \in 1 .. n : d \in HeldBy(s[i])
    BY DEF StackOK
  <2>2. \A i : i \in 1 .. n <=> i \in 1 .. Len(p) \/ i = n
    BY LenProperties DEF Popped
  <2>3. CASE d \in HeldBy(s[n])
    <3>1. es[d] = Closed
      BY <2>3
    <3>2. ASSUME NEW i \in 1 .. Len(p) PROVE d \notin HeldBy(p[i])
      BY <1>2, <2>3
    <3> QED
      BY <3>1, <3>2
  <2>4. CASE d \notin HeldBy(s[n])
    <3>1. es[d] = ds[d]
      BY <2>4
    <3>2. (\E i \in 1 .. n : d \in HeldBy(s[i])) <=> \E i \in 1 .. Len(p) : d \in HeldBy(p[i])
      BY <1>2, <2>2, <2>4
    <3> QED
      BY <2>1, <3>1, <3>2
  <2> QED
    BY <2>3, <2>4
<1> QED
  BY <1>3, <1>4, <1>5 DEF StackOK

(* The stack below a command that ends. *)
LEMMA PopKeeps ==
  ASSUME NEW s, NEW p, Popped(s, p), NEW n, n = Len(s), NEW ds, NEW es,
         StackOK(s, ds), Ended(s[n], ds, es)
  PROVE  StackOK(p, es)
<1>1. ASSUME NEW i \in 1 .. Len(p), s[i].cap # 0 PROVE SavedOK(p, i, es)
  <2> DEFINE d == s[i].saved
  <2>1. /\ i \in 1 .. n /\ i # n /\ n \in 1 .. n /\ s[i] \in Frames /\ s[n] \in Frames
        /\ n \in i .. n
    BY PoppedFacts
  <2>2. CaptureOK(s[i]) /\ SavedOK(s, i, ds)
    BY <1>1, <2>1, Zenon DEF StackOK
  <2>3. d \in FDs /\ d # 0
    BY <1>1, <2>1, <2>2, CaptureFacts
  <2>4. HeldBy(s[i]) \cap HeldBy(s[n]) = {}
    BY <2>1, Zenon DEF StackOK
  <2>5. es[d] = IF d \in Assigned(s[n]) THEN s[n].before[d] ELSE ds[d]
    <3>1. CASE d \in UserFds
      <4>1. d \notin s[n].besides
        BY <2>1, <2>2 DEF SavedOK
      <4> QED
        BY <3>1, <4>1 DEF Ended
    <3>2. CASE d \notin UserFds
      <4>1. d \in HeldBy(s[i])
        BY <2>3, <3>2 DEF HeldBy, Captured
      <4>2. d \notin HeldBy(s[n])
        BY <2>4, <4>1
      <4>3. d \notin Assigned(s[n])
        <5>1. s[n].touched \in SUBSET UserFds
          BY <2>1, FrameFields
        <5>2. d \notin {s[n].cap, s[n].saved}
          BY <2>3, <3>2, <4>2 DEF HeldBy, Captured
        <5>3. d # 1
          BY <3>2, FdFacts
        <5> QED
          BY <3>2, <5>1, <5>2, <5>3 DEF Assigned
      <4>4. es[d] = ds[d]
        BY <2>3, <3>2, <4>2 DEF Ended
      <4> QED
        BY <4>3, <4>4
    <3> QED
      BY <3>1, <3>2
  <2> HIDE DEF d
  <2> QED
    BY <2>2, <2>5, SavedPops DEF d
<1>2. /\ es \in Descriptors
      /\ \A d \in FDs \ UserFds : es[d] = IF d \in HeldBy(s[n]) THEN Closed ELSE ds[d]
  BY DEF Ended
<1> QED
  BY <1>1, <1>2, RestKeeps

-----------------------------------------------------------------------------
(* The stack of a state.                                                    *)

\* f and g are the same but for their undo lists.
SameBut(f, g) ==
  /\ g.kind = f.kind /\ g.cap = f.cap /\ g.saved = f.saved /\ g.done = f.done
  /\ g.before = f.before /\ g.touched = f.touched /\ g.besides = f.besides

LEMMA WithUndo ==
  ASSUME NEW f \in Frames, NEW list \in Seq(Undos)
  PROVE  /\ [f EXCEPT !.undo = list] \in Frames
         /\ [f EXCEPT !.undo = list].undo = list
         /\ SameBut(f, [f EXCEPT !.undo = list])
  BY DEF Frames, SameBut

LEMMA StackFacts ==
  ASSUME RedirTypeOK, frames # <<>>, NEW n, n = Len(frames)
  PROVE  /\ n \in Nat \ {0} /\ Len(Stack) = n /\ Stack \in Seq(Frames)
         /\ Popped(Stack, Front(frames)) /\ Len(Front(frames)) = n - 1
         /\ Popped(frames, Front(frames))
         /\ Top \in Frames /\ frames[n] = Top /\ Stack[n] \in Frames
         /\ SameBut(Top, Stack[n])
         /\ Stack[n].undo = IF pc = "run" THEN Top.undo ELSE redirection_undo_list
         /\ \A k \in 1 .. n - 1 : Stack[k] = frames[k] /\ Front(frames)[k] = frames[k]
<1>1. frames \in Seq(Frames) /\ redirection_undo_list \in Seq(Undos)
  BY DEF RedirTypeOK
<1>2. /\ Front(frames) \in Seq(Frames) /\ Top \in Frames /\ n \in Nat \ {0}
      /\ Len(Front(frames)) = n - 1
      /\ \A k \in 1 .. n - 1 : Front(frames)[k] = frames[k]
      /\ frames[n] = Top
  BY <1>1, FrontLast, TopAndRest DEF Top
<1>3. Popped(frames, Front(frames))
  BY <1>1, <1>2 DEF Popped
<1>4. CASE pc = "run"
  <2>1. Stack = frames
    BY <1>4 DEF Stack
  <2>2. SameBut(Top, Top)
    BY DEF SameBut
  <2> QED
    BY <1>1, <1>2, <1>3, <1>4, <2>1, <2>2
<1>5. CASE pc # "run"
  <2> DEFINE e == [Top EXCEPT !.undo = redirection_undo_list]
  <2>1. e \in Frames /\ e.undo = redirection_undo_list /\ SameBut(Top, e)
    BY <1>1, <1>2, WithUndo
  <2>2. Stack = Append(Front(frames), e)
    BY <1>5 DEF Stack
  <2> HIDE DEF e
  <2>3. /\ Append(Front(frames), e) \in Seq(Frames)
        /\ Len(Append(Front(frames), e)) = Len(frames)
        /\ \A k \in 1 .. Len(frames) - 1 : Append(Front(frames), e)[k] = frames[k]
        /\ Append(Front(frames), e)[Len(frames)] = e
    BY <1>1, <2>1, ReplaceTop
  <2>4. /\ Stack \in Seq(Frames) /\ Len(Stack) = n /\ Stack[n] = e
        /\ \A k \in 1 .. n - 1 : Stack[k] = frames[k]
    BY <2>2, <2>3
  <2>5. Popped(Stack, Front(frames))
    BY <1>2, <2>4 DEF Popped
  <2> QED
    BY <1>2, <1>3, <1>5, <2>1, <2>4, <2>5
<1> QED
  BY <1>4, <1>5

LEMMA SameFrame ==
  ASSUME NEW f, NEW g, SameBut(f, g)
  PROVE  /\ Assigned(g) = Assigned(f) /\ Start(g) = Start(f) /\ Captured(g) = Captured(f)
         /\ \A t : EndCapture(t, g) = EndCapture(t, f)
<1>1. Assigned(g) = Assigned(f)
  BY Zenon DEF SameBut, Assigned
<1>2. Start(g) = Start(f)
  BY Zenon DEF SameBut, Start
<1>3. Captured(g) = Captured(f)
  BY Zenon DEF SameBut, Captured
<1>4. \A t : EndCapture(t, g) = EndCapture(t, f)
  BY Zenon DEF SameBut, EndCapture
<1> QED
  BY <1>1, <1>2, <1>3, <1>4

LEMMA CleanupNone ==
  ASSUME NEW t \in Tables
  PROVE  cleanup_redirects(t, <<>>).fds = t.fds
<1>1. <<>> \in Seq(Undos) /\ Len(<<>>) = 0
  OBVIOUS
<1>2. PICK g : IsUndone(g, t, Len(<<>>), <<>>) /\ Undone(t, <<>>) = g[Len(<<>>)]
  BY <1>1, UndoneSteps
<1>3. Undone(t, <<>>) = t
  BY <1>1, <1>2 DEF IsUndone
<1>4. cleanup_redirects(t, <<>>) = [t EXCEPT !.ok = TRUE]
  BY <1>3 DEF cleanup_redirects
<1> QED
  BY <1>4, OkAgain DEF Same

LEMMA UndoFailedResult ==
  ASSUME NEW t \in Tables
  PROVE  /\ UndoFailed(t) \in Tables /\ UndoFailed(t).ok
         /\ UndoFailed(t).fds = cleanup_redirects(t, t.undo).fds
         /\ UndoFailed(t).undo = <<>> /\ UndoFailed(t).exec = <<>>
         /\ undo_partial_redirects(t) \in Tables /\ undo_partial_redirects(t).ok
         /\ undo_partial_redirects(t).fds = cleanup_redirects(t, t.undo).fds
         /\ undo_partial_redirects(t).undo = <<>>
         /\ undo_partial_redirects(t).exec = t.exec
<1> DEFINE c == cleanup_redirects(t, t.undo)
           p == [c EXCEPT !.undo = <<>>]
           q == [p EXCEPT !.exec = <<>>]
<1>1. c \in Tables /\ c.ok /\ c.exec = t.exec
  BY TableFields, CleanupType
<1>2. undo_partial_redirects(t) = p
  BY DEF undo_partial_redirects
<1>3. UndoFailed(t) = q
  BY <1>2 DEF UndoFailed
<1> HIDE DEF c
<1>4. <<>> \in Seq(Undos)
  OBVIOUS
<1>5. p \in Tables /\ p.ok /\ p.fds = c.fds /\ p.undo = <<>> /\ p.exec = c.exec
  BY <1>1, <1>4 DEF Tables
<1> HIDE DEF p
<1>6. q \in Tables /\ q.ok /\ q.fds = p.fds /\ q.undo = p.undo /\ q.exec = <<>>
  BY <1>4, <1>5 DEF Tables
<1> HIDE DEF q
<1> QED
  BY <1>1, <1>2, <1>3, <1>5, <1>6 DEF c

-----------------------------------------------------------------------------
(* A step that pops one command.                                            *)

Pops ==
  /\ frames # <<>> /\ frames' = Front(frames)
  /\ pc' = "run"
  /\ redirection_undo_list' = <<>> /\ exec_redirection_undo_list' = <<>>
  /\ fds' \in Descriptors /\ clexec' \in SUBSET FDs
  /\ capture' = capture /\ execs' \in 0 .. MaxExecs
  /\ tangled' \in BOOLEAN

LEMMA PopsKeeps ==
  ASSUME IInv, Pops, ~tangled' => StackOK(Front(frames), fds')
  PROVE  IInv'
<1>1. RedirTypeOK'
  <2>1. Front(frames) \in Seq(Frames)
    BY FrontLast DEF IInv, RedirTypeOK, Pops
  <2>2. <<>> \in Seq(Undos)
    OBVIOUS
  <2> QED
    BY <2>1, <2>2 DEF IInv, RedirTypeOK, Pops, Descriptors
<1>2. ControlInv'
  <2>1. \A i \in 1 .. Len(frames') : frames'[i] = frames[i] /\ i \in 1 .. Len(frames)
    <3>1. frames \in Seq(Frames) /\ frames # <<>> /\ frames' = Front(frames)
      BY DEF IInv, RedirTypeOK, Pops
    <3>2. /\ Len(Front(frames)) = Len(frames) - 1 /\ Len(frames) \in Nat
          /\ \A k \in 1 .. Len(frames) - 1 : Front(frames)[k] = frames[k]
      BY <3>1, FrontLast
    <3> QED
      BY <3>1, <3>2
  <2>2. \A i \in 1 .. Len(frames') : frames'[i].cap = 0 <=> frames'[i].saved = 0
    BY <2>1 DEF IInv, ControlInv
  <2> QED
    BY <2>2 DEF ControlInv, Pops
<1>3. ExecInv'
  BY DEF ExecInv, Pops
<1>4. FreshInv'
  BY DEF FreshInv, Pops
<1>5. (~tangled => StackOK(Stack, fds))'
  <2>1. Stack' = Front(frames)
    BY DEF Stack, Pops
  <2> QED
    BY <2>1
<1> QED
  BY <1>1, <1>2, <1>3, <1>4, <1>5 DEF IInv

\* What RestoredOnEnd says of a step in which commands end.
OwnersOf(d) == {i \in EndedFrames : d \in Assigned(frames[i])}
GivesBack ==
  \A d \in UserFds \ UNION {frames[i].besides : i \in EndedFrames} :
    \/ fds'[d] = IF OwnersOf(d) = {} THEN fds[d] ELSE frames[Min(OwnersOf(d))].before[d]
    \/ OwnersOf(d) = {} /\ ClosedForGood(d)

LEMMA MinOfNat == \A S \in SUBSET Nat : S # {} => Min(S) \in S /\ \A k \in S : Min(S) <= k
<1> SUFFICES ASSUME NEW S \in SUBSET Nat, S # {}
             PROVE  Min(S) \in S /\ \A k \in S : Min(S) <= k
  OBVIOUS
<1>1. PICK m \in S : \A k \in S : m <= k
  BY LeastOfSet
<1> QED
  BY <1>1, Zenon DEF Min

LEMMA PopsGivesBack ==
  ASSUME IInv, Pops, Ended(Stack[Len(frames)], fds, fds')
  PROVE  GivesBack
<1> DEFINE n == Len(frames)
<1>1. /\ n \in Nat \ {0} /\ frames[n] = Top /\ SameBut(Top, Stack[n])
      /\ Len(frames') = n - 1
  BY StackFacts DEF IInv, Pops
<1> HIDE DEF n
<1>2. EndedFrames = {n}
  <2>1. EndedFrames = (n - 1) + 1 .. n
    BY <1>1 DEF EndedFrames, n
  <2> QED
    BY <1>1, <2>1
<1> SUFFICES ASSUME NEW d \in UserFds \ UNION {frames[i].besides : i \in EndedFrames}
             PROVE  fds'[d] = IF OwnersOf(d) = {} THEN fds[d] ELSE frames[Min(OwnersOf(d))].before[d]
  BY DEF GivesBack
<1>3. d \notin Stack[n].besides
  BY <1>1, <1>2 DEF SameBut
<1>4. fds'[d] = IF d \in Assigned(Stack[n]) THEN Stack[n].before[d] ELSE fds[d]
  BY <1>3 DEF Ended, n
<1>5. Assigned(Stack[n]) = Assigned(frames[n]) /\ Stack[n].before = frames[n].before
  BY <1>1, SameFrame DEF SameBut
<1>6. CASE d \in Assigned(frames[n])
  <2>1. OwnersOf(d) = {n}
    BY <1>2, <1>6 DEF OwnersOf
  <2>2. {n} \in SUBSET Nat /\ {n} # {}
    BY <1>1
  <2>3. Min({n}) = n
    BY <2>2, MinOfNat
  <2> QED
    BY <1>4, <1>5, <1>6, <2>1, <2>3
<1>7. CASE d \notin Assigned(frames[n])
  <2>1. OwnersOf(d) = {}
    BY <1>2, <1>7 DEF OwnersOf
  <2> QED
    BY <1>4, <1>5, <1>7, <2>1
<1> QED
  BY <1>6, <1>7

LEMMA ReturnPops ==
  ASSUME IInv, frames # <<>>, NEW c \in Tables, c.ok, c.undo = <<>>, c.exec = <<>>, Return(c),
         capture' = capture, execs' \in 0 .. MaxExecs, tangled' \in BOOLEAN
  PROVE  Pops /\ fds' = EndCapture(c, Top).fds
<1> DEFINE e == EndCapture(c, Top)
<1>1. Top \in Frames /\ (Top.cap = 0 <=> Top.saved = 0)
  <2>1. /\ Top \in Frames /\ frames[Len(frames)] = Top
        /\ Len(frames) \in Nat \ {0}
    BY StackFacts DEF IInv
  <2>2. Len(frames) \in 1 .. Len(frames)
    BY <2>1
  <2> QED
    BY <2>1, <2>2 DEF IInv, ControlInv
<1>2. e \in Tables /\ e.undo = c.undo /\ e.exec = c.exec
  BY <1>1, EndCaptureType
<1>3. Becomes(e) /\ frames' = Front(frames) /\ pc' = "run"
  BY DEF Return
<1> HIDE DEF e
<1>4. /\ fds' = e.fds /\ clexec' = e.clexec
      /\ redirection_undo_list' = e.undo /\ exec_redirection_undo_list' = e.exec
  BY <1>3 DEF Becomes
<1> QED
  BY <1>2, <1>3, <1>4, TableFields DEF Pops, e

(* A command whose list is undone from b, which its stack allows, has ended. *)
LEMMA EndsFrom ==
  ASSUME IInv, frames # <<>>, NEW b \in Tables, b.ok, StackOK(Stack, b.fds),
         NEW c \in Tables, c.ok, Ends(b, Stack[Len(frames)].undo, c.fds)
  PROVE  /\ Ended(Stack[Len(frames)], b.fds, EndCapture(c, Top).fds)
         /\ StackOK(Front(frames), EndCapture(c, Top).fds)
<1> DEFINE n == Len(frames)
           s == Stack
           p == Front(frames)
           e == EndCapture(c, Top).fds
<1>1. /\ n \in Nat \ {0} /\ n = Len(s) /\ s \in Seq(Frames) /\ SameBut(Top, s[n])
      /\ Popped(s, p) /\ StackOK(s, b.fds) /\ Ends(b, s[n].undo, c.fds)
  BY StackFacts DEF IInv
<1>2. EndCapture(c, s[n]).fds = e
  BY <1>1, SameFrame
<1> HIDE DEF s, n, p, e
<1>3. Ended(s[n], b.fds, EndCapture(c, s[n]).fds)
  BY <1>1, TopEnds
<1>4. Ended(s[n], b.fds, e)
  BY <1>2, <1>3
<1>5. StackOK(p, e)
  BY <1>1, <1>4, PopKeeps
<1> QED
  BY <1>4, <1>5 DEF s, n, p, e

LEMMA ReturnEnds ==
  ASSUME IInv, frames # <<>>, ~tangled, NEW c \in Tables, c.ok,
         Ends(Table, Stack[Len(frames)].undo, c.fds)
  PROVE  /\ Ended(Stack[Len(frames)], fds, EndCapture(c, Top).fds)
         /\ StackOK(Front(frames), EndCapture(c, Top).fds)
<1>1. Table \in Tables /\ Table.ok /\ Table.fds = fds /\ StackOK(Stack, Table.fds)
  BY TableType DEF IInv
<1> QED
  BY <1>1, EndsFrom

LEMMA ReturnKeeps ==
  ASSUME IInv, frames # <<>>, NEW c \in Tables, c.ok, c.undo = <<>>, c.exec = <<>>, Return(c),
         UNCHANGED <<capture, execs>>, tangled' \in BOOLEAN, tangled => tangled',
         ~tangled' => Ends(Table, Stack[Len(frames)].undo, c.fds)
  PROVE  IInv' /\ (~tangled' => GivesBack)
<1>1. capture' = capture /\ execs' \in 0 .. MaxExecs
  BY DEF IInv, RedirTypeOK
<1>2. Pops /\ fds' = EndCapture(c, Top).fds
  BY <1>1, ReturnPops
<1>3. ASSUME ~tangled'
      PROVE  Ended(Stack[Len(frames)], fds, fds') /\ StackOK(Front(frames), fds')
  BY <1>2, <1>3, ReturnEnds
<1> QED
  BY <1>2, <1>3, PopsKeeps, PopsGivesBack

LEMMA QuietFacts ==
  ASSUME IInv, Quiet
  PROVE  UNCHANGED <<capture, execs>> /\ tangled' \in BOOLEAN /\ tangled' = tangled
  BY DEF IInv, RedirTypeOK, Quiet

-----------------------------------------------------------------------------
(* The actions that pop one command.                                        *)

LEMMA RunningStack ==
  ASSUME IInv, pc = "run", frames # <<>>
  PROVE  Stack[Len(frames)].undo = Top.undo /\ Top.undo \in Seq(Undos)
  BY StackFacts, FrameFields DEF IInv

LEMMA RedirectingStack ==
  ASSUME IInv, pc # "run"
  PROVE  frames # <<>> /\ Stack[Len(frames)].undo = redirection_undo_list
  BY StackFacts DEF IInv, ControlInv

LEMMA PolicyDeniesKeeps ==
  ASSUME IInv, PolicyDenies
  PROVE  IInv' /\ (~tangled' => GivesBack)
<1>1. /\ pc = "apply" /\ Return(Table) /\ Quiet
      /\ redirection_undo_list = <<>> /\ exec_redirection_undo_list = <<>>
  BY DEF PolicyDenies, IInv, ControlInv
<1>2. /\ Table \in Tables /\ Table.ok /\ Table.undo = <<>> /\ Table.exec = <<>>
  BY <1>1, TableType DEF IInv
<1>3. frames # <<>> /\ Stack[Len(frames)].undo = <<>>
  BY <1>1, RedirectingStack
<1>4. Ends(Table, Stack[Len(frames)].undo, Table.fds)
  BY <1>2, <1>3, CleanupNone DEF Ends
<1> QED
  BY <1>1, <1>2, <1>3, <1>4, ReturnKeeps, QuietFacts

LEMMA ResumeJobKeeps ==
  ASSUME IInv, ResumeJob
  PROVE  IInv' /\ (~tangled' => GivesBack)
<1>1. /\ pc = "apply" /\ frames' = Front(frames) /\ pc' = "run"
      /\ tangled' = (tangled \/ Top.cap # 0)
      /\ UNCHANGED <<fds, clexec, lists, capture, execs>>
      /\ redirection_undo_list = <<>> /\ exec_redirection_undo_list = <<>>
  BY DEF ResumeJob, IInv, ControlInv
<1>2. frames # <<>> /\ Stack[Len(frames)].undo = <<>>
  BY <1>1, RedirectingStack
<1>3. Pops
  BY <1>1, <1>2 DEF Pops, lists, IInv, RedirTypeOK, Descriptors
<1>4. ASSUME ~tangled'
      PROVE  Ended(Stack[Len(frames)], fds, fds') /\ StackOK(Front(frames), fds')
  <2>1. ~tangled /\ Top.cap = 0 /\ fds' = fds
    BY <1>1, <1>4
  <2>2. Table \in Tables /\ Table.ok /\ Table.fds = fds
    BY TableType DEF IInv
  <2>3. Ends(Table, Stack[Len(frames)].undo, Table.fds)
    BY <1>2, <2>2, CleanupNone DEF Ends
  <2>4. /\ Ended(Stack[Len(frames)], fds, EndCapture(Table, Top).fds)
        /\ StackOK(Front(frames), EndCapture(Table, Top).fds)
    BY <1>2, <2>1, <2>2, <2>3, ReturnEnds
  <2>5. EndCapture(Table, Top).fds = fds'
    BY <2>1, <2>2 DEF EndCapture
  <2> QED
    BY <2>4, <2>5
<1> QED
  BY <1>3, <1>4, PopsKeeps, PopsGivesBack

LEMMA NullReturnsKeeps ==
  ASSUME IInv, NullReturns
  PROVE  IInv' /\ (~tangled' => GivesBack)
<1>1. pc = "apply" /\ Return(UndoFailed(Table)) /\ Quiet
  BY DEF NullReturns
<1>2. frames # <<>> /\ Stack[Len(frames)].undo = redirection_undo_list
  BY <1>1, RedirectingStack
<1>3. Table \in Tables /\ Table.undo = redirection_undo_list
  BY TableType DEF IInv
<1>4. /\ UndoFailed(Table) \in Tables /\ UndoFailed(Table).ok
      /\ UndoFailed(Table).undo = <<>> /\ UndoFailed(Table).exec = <<>>
      /\ UndoFailed(Table).fds = cleanup_redirects(Table, Table.undo).fds
  BY <1>3, UndoFailedResult
<1>5. Ends(Table, Stack[Len(frames)].undo, UndoFailed(Table).fds)
  BY <1>2, <1>3, <1>4 DEF Ends
<1> QED
  BY <1>1, <1>2, <1>4, <1>5, ReturnKeeps, QuietFacts

LEMMA BodyReturnsKeeps ==
  ASSUME IInv, BodyReturns
  PROVE  IInv' /\ (~tangled' => GivesBack)
<1> DEFINE c == cleanup_redirects(Table, Top.undo)
<1>1. /\ pc = "run" /\ frames # <<>> /\ Return(c) /\ Quiet
      /\ redirection_undo_list = <<>> /\ exec_redirection_undo_list = <<>>
  BY DEF BodyReturns, IInv, ControlInv
<1>2. Stack[Len(frames)].undo = Top.undo /\ Top.undo \in Seq(Undos)
  BY <1>1, RunningStack
<1>3. Table \in Tables /\ Table.undo = <<>> /\ Table.exec = <<>>
  BY <1>1, TableType DEF IInv
<1>4. c \in Tables /\ c.ok /\ c.undo = <<>> /\ c.exec = <<>>
  BY <1>2, <1>3, CleanupType
<1>5. Ends(Table, Stack[Len(frames)].undo, c.fds)
  BY <1>2 DEF Ends
<1> HIDE DEF c
<1> QED
  BY <1>1, <1>4, <1>5, ReturnKeeps, QuietFacts

(* The list of a command that redirects, in a state. *)
\* The numbers for copies that the command on top does not hold in its list.
Others ==
  {d \in FDs : \/ \E i \in 1 .. Len(frames) - 1 : d \in HeldBy(frames[i])
               \/ d \in Captured(Top)}

LEMMA TableGood ==
  ASSUME IInv, pc = "apply", ~tangled
  PROVE  Good(Table, Others)
<1> DEFINE n == Len(frames)
           f == Stack[n]
<1>1. frames # <<>> /\ f.undo = redirection_undo_list
  BY RedirectingStack
<1>2. /\ n \in Nat \ {0} /\ n \in 1 .. n /\ Len(Stack) = n /\ SameBut(Top, f)
      /\ \A k \in 1 .. n - 1 : Stack[k] = frames[k]
  BY <1>1, StackFacts DEF IInv
<1>3. /\ Table.fds = fds /\ Table.undo = redirection_undo_list
      /\ Table.exec = exec_redirection_undo_list
      /\ fds \in Descriptors /\ redirection_undo_list \in Seq(Undos)
      /\ exec_redirection_undo_list \in Seq(Undos)
  BY TableType, TableFields DEF IInv
<1>4. StackOK(Stack, fds) /\ ClosesCopies(exec_redirection_undo_list, redirection_undo_list)
  BY DEF IInv, ExecInv
<1>5. Captured(f) = Captured(Top)
  BY <1>2, SameFrame
<1>6. HeldBy(f) = Numbers(redirection_undo_list) \union Captured(Top)
  BY <1>1, <1>5 DEF HeldBy
<1>7. WellFormed(redirection_undo_list) /\ Numbers(redirection_undo_list) \cap Captured(Top) = {}
  BY <1>1, <1>2, <1>4, <1>5 DEF StackOK
<1> HIDE DEF f
<1>8. ASSUME NEW i \in 1 .. n - 1 PROVE HeldBy(frames[i]) \cap HeldBy(f) = {}
  <2>1. i \in 1 .. n /\ i # n /\ Stack[i] = frames[i]
    BY <1>2
  <2>2. HeldBy(Stack[i]) \cap HeldBy(Stack[n]) = {}
    BY <1>2, <1>4, <2>1, Zenon DEF StackOK
  <2> QED
    BY <2>1, <2>2 DEF f
<1>0. \A d : d \in Others <=> /\ d \in FDs
                              /\ \/ \E i \in 1 .. n - 1 : d \in HeldBy(frames[i])
                                 \/ d \in Captured(Top)
  BY DEF Others
<1> HIDE DEF n
<1>9. Numbers(redirection_undo_list) \cap Others = {}
  BY <1>0, <1>6, <1>7, <1>8
<1>10. ASSUME NEW d \in FDs \ UserFds
       PROVE  fds[d] # Closed <=> d \in Others \union Numbers(redirection_undo_list)
  <2>1. fds[d] # Closed <=> \E i \in 1 .. n : d \in HeldBy(Stack[i])
    BY <1>2, <1>4, Zenon DEF StackOK
  <2>2. \A i : i \in 1 .. n <=> i \in 1 .. n - 1 \/ i = n
    BY <1>2
  <2>3. (\E i \in 1 .. n : d \in HeldBy(Stack[i])) <=>
          (\E i \in 1 .. n - 1 : d \in HeldBy(frames[i])) \/ d \in HeldBy(f)
    BY <1>2, <2>2 DEF f
  <2> QED
    BY <1>0, <1>6, <2>1, <2>3
<1> QED
  BY <1>3, <1>4, <1>7, <1>9, <1>10 DEF Good

(* A close that failed has shut a descriptor that no capture is saved under. *)
LEMMA ClosedOK ==
  ASSUME NEW s \in Seq(Frames), NEW ds \in Descriptors, StackOK(s, ds), NEW d \in UserFds,
         \A i \in 1 .. Len(s) : s[i].saved # d,
         NEW es, es = [ds EXCEPT ![d] = Closed]
  PROVE  StackOK(s, es)
<1>1. \A e \in FDs : e # d => es[e] = ds[e]
  BY DEF Descriptors
<1>2. ASSUME NEW i \in 1 .. Len(s)
      PROVE  /\ WellFormed(s[i].undo)
             /\ Numbers(s[i].undo) \cap Captured(s[i]) = {}
             /\ Restores(s[i], s[i].undo, es)
             /\ CaptureOK(s[i])
             /\ s[i].cap # 0 => SavedOK(s, i, es)
  <2> DEFINE f == s[i]
  <2>1. f \in Frames
    BY ElementOfSeq
  <2>2. /\ WellFormed(f.undo) /\ Numbers(f.undo) \cap Captured(f) = {}
        /\ Restores(f, f.undo, ds) /\ CaptureOK(f)
        /\ f.cap # 0 => SavedOK(s, i, ds)
    BY Zenon DEF StackOK
  <2>3. f.saved # d
    OBVIOUS
  <2> HIDE DEF f
  <2>4. \A e \in Numbers(f.undo) : es[e] = ds[e]
    <3>1. \A e \in Numbers(f.undo) : e \in FDs \ UserFds
      BY <2>1, FrameFields, EntriesOf
    <3> QED
      BY <1>1, <3>1
  <2>5. Restores(f, f.undo, es)
    BY <2>1, <2>2, <2>4, RestoresKept
  <2>6. ASSUME f.cap # 0 PROVE SavedOK(s, i, es)
    <3>1. f.saved \in FDs
      BY <2>1, <2>2, <2>6, CaptureFacts
    <3>2. es[s[i].saved] = ds[s[i].saved]
      BY <1>1, <2>3, <3>1 DEF f
    <3>3. SavedOK(s, i, ds)
      BY <2>2, <2>6
    <3> QED
      BY <3>2, <3>3, Zenon DEF SavedOK
  <2> QED
    BY <2>2, <2>5, <2>6 DEF f
<1>3. \A i, j \in 1 .. Len(s) : i # j => HeldBy(s[i]) \cap HeldBy(s[j]) = {}
  BY Zenon DEF StackOK
<1>4. \A e \in FDs \ UserFds : es[e] # Closed <=> \E i \in 1 .. Len(s) : e \in HeldBy(s[i])
  BY <1>1 DEF StackOK
<1> QED
  BY <1>2, <1>3, <1>4 DEF StackOK

(* The command that failed so ends like any other, but for that descriptor. *)
LEMMA ShutGivesBack ==
  ASSUME IInv, Pops, NEW d \in UserFds, NEW ds, ds = [fds EXCEPT ![d] = Closed],
         Ended(Stack[Len(frames)], ds, fds'), ClosedForGood(d)
  PROVE  GivesBack
<1> DEFINE n == Len(frames)
<1>1. /\ n \in Nat \ {0} /\ frames[n] = Top /\ SameBut(Top, Stack[n])
      /\ Len(frames') = n - 1
  BY StackFacts DEF IInv, Pops
<1> HIDE DEF n
<1>2. EndedFrames = {n}
  <2>1. EndedFrames = (n - 1) + 1 .. n
    BY <1>1 DEF EndedFrames, n
  <2> QED
    BY <1>1, <2>1
<1> SUFFICES ASSUME NEW e \in UserFds \ UNION {frames[i].besides : i \in EndedFrames}
             PROVE  \/ fds'[e] = IF OwnersOf(e) = {} THEN fds[e]
                                 ELSE frames[Min(OwnersOf(e))].before[e]
                    \/ OwnersOf(e) = {} /\ ClosedForGood(e)
  BY DEF GivesBack
<1>3. e \notin Stack[n].besides
  BY <1>1, <1>2 DEF SameBut
<1>4. fds'[e] = IF e \in Assigned(Stack[n]) THEN Stack[n].before[e] ELSE ds[e]
  BY <1>3 DEF Ended, n
<1>5. Assigned(Stack[n]) = Assigned(frames[n]) /\ Stack[n].before = frames[n].before
  BY <1>1, SameFrame DEF SameBut
<1>6. CASE e \in Assigned(frames[n])
  <2>1. OwnersOf(e) = {n}
    BY <1>2, <1>6 DEF OwnersOf
  <2>2. {n} \in SUBSET Nat /\ {n} # {}
    BY <1>1
  <2>3. Min({n}) = n
    BY <2>2, MinOfNat
  <2> QED
    BY <1>4, <1>5, <1>6, <2>1, <2>3
<1>7. CASE e \notin Assigned(frames[n])
  <2>1. OwnersOf(e) = {}
    BY <1>2, <1>7 DEF OwnersOf
  <2>2. e # d => ds[e] = fds[e]
    BY FdFacts DEF IInv, RedirTypeOK
  <2> QED
    BY <1>4, <1>5, <1>7, <2>1, <2>2
<1> QED
  BY <1>6, <1>7

LEMMA ShutKeeps ==
  ASSUME IInv, pc = "apply", UNCHANGED <<capture, execs>>, tangled' \in BOOLEAN,
         tangled => tangled', NEW r \in Redirects, NEW d \in UserFds,
         NEW t \in Tables, t = do_redirection_internal(Table, r), Shut(Table, t, d),
         \A i \in DOMAIN frames : ~tangled' => frames[i].saved \notin Lost(t),
         NEW v \in Tables, v = [t EXCEPT !.ok = TRUE], Return(UndoFailed(v))
  PROVE  IInv' /\ (~tangled' => GivesBack)
<1> DEFINE n == Len(frames)
           c == UndoFailed(v)
<1>1. frames # <<>> /\ Stack[n].undo = redirection_undo_list
  BY RedirectingStack
<1>2. v.ok /\ v.fds = t.fds /\ v.undo = t.undo
  BY OkAgain DEF Same
<1>3. /\ fds \in Descriptors /\ fds[d] # Closed /\ v.fds = [fds EXCEPT ![d] = Closed]
      /\ v.undo = redirection_undo_list
  BY <1>2, TableType, TableFields DEF IInv, Shut, Reassigned
<1>4. /\ c \in Tables /\ c.ok /\ c.undo = <<>> /\ c.exec = <<>>
      /\ c.fds = cleanup_redirects(v, v.undo).fds
  BY UndoFailedResult
<1>5. Ends(v, Stack[n].undo, c.fds)
  BY <1>1, <1>3, <1>4 DEF Ends
<1>6. Return(c)
  OBVIOUS
<1>7. d \in Lost(t)
  <2>1. Table.fds = fds /\ d \in FDs
    BY TableType, FdFacts DEF IInv
  <2>2. t.fds[d] = Closed
    BY <1>2, <1>3, <2>1 DEF Descriptors
  <2> QED
    BY <1>3, <2>1, <2>2 DEF Lost, IsOpen
<1>8. ClosedForGood(d)
  BY <1>7 DEF ClosedForGood, Shut
<1> HIDE DEF c
<1>9. Pops /\ fds' = EndCapture(c, Top).fds
  <2>1. capture' = capture /\ execs' \in 0 .. MaxExecs
    BY DEF IInv, RedirTypeOK
  <2> QED
    BY <1>1, <1>4, <1>6, <2>1, ReturnPops
<1>10. ASSUME ~tangled' PROVE StackOK(Stack, v.fds)
  <2>1. StackOK(Stack, fds)
    BY <1>10 DEF IInv
  <2>2. /\ n \in Nat \ {0} /\ Len(Stack) = n /\ Stack \in Seq(Frames) /\ SameBut(Top, Stack[n])
        /\ frames[n] = Top /\ \A k \in 1 .. n - 1 : Stack[k] = frames[k]
    BY <1>1, StackFacts DEF IInv
  <2>3. \A i \in 1 .. n : frames[i].saved # d
    <3>1. DOMAIN frames = 1 .. n
      BY DEF IInv, RedirTypeOK
    <3> QED
      BY <1>7, <1>10, <3>1
  <2>4. ASSUME NEW i \in 1 .. n PROVE Stack[i].saved # d
    <3>1. i = n \/ i \in 1 .. n - 1
      BY <2>2
    <3> QED
      BY <2>2, <2>3, <3>1 DEF SameBut
  <2> HIDE DEF n
  <2> DEFINE s == Stack
             ds == fds
  <2>5. s \in Seq(Frames) /\ ds \in Descriptors /\ StackOK(s, ds) /\ \A i \in 1 .. Len(s) : s[i].saved # d
    BY <1>3, <2>1, <2>2, <2>4
  <2> HIDE DEF s, ds
  <2>6. StackOK(s, [ds EXCEPT ![d] = Closed])
    BY <2>5, ClosedOK
  <2> QED
    BY <1>3, <2>6 DEF s, ds
<1>11. ASSUME ~tangled'
       PROVE  Ended(Stack[n], v.fds, fds') /\ StackOK(Front(frames), fds')
  BY <1>1, <1>2, <1>4, <1>5, <1>9, <1>10, <1>11, EndsFrom
<1>12. IInv'
  BY <1>9, <1>11, PopsKeeps
<1>13. ASSUME ~tangled' PROVE GivesBack
  BY <1>3, <1>8, <1>9, <1>11, <1>13, ShutGivesBack
<1> QED
  BY <1>12, <1>13

LEMMA RedirectFailsKeeps ==
  ASSUME IInv, RedirectFails
  PROVE  IInv' /\ (~tangled' => GivesBack)
<1>1. pc = "apply" /\ UNCHANGED <<capture, execs>>
  BY DEF RedirectFails
<1>2. PICK t \in {Table} \union {do_redirection_internal(Table, r) : r \in Redirects} :
        /\ t.ok => t = Table
        /\ Return(UndoFailed([t EXCEPT !.ok = TRUE]))
        /\ tangled' = (tangled \/ \E i \in DOMAIN frames : frames[i].saved \in Lost(t))
  BY DEF RedirectFails
<1>0. /\ tangled' \in BOOLEAN
      /\ tangled => tangled'
  BY <1>2 DEF IInv, RedirTypeOK
<1> DEFINE v == [t EXCEPT !.ok = TRUE]
<1>3. Table \in Tables /\ Table.ok /\ Table.undo = redirection_undo_list
  BY TableType DEF IInv
<1>4. /\ t \in Tables
      /\ \/ t = Table \/ Failed(Table, t)
         \/ \E r \in Redirects, d \in UserFds :
              t = do_redirection_internal(Table, r) /\ Shut(Table, t, d)
  <2>1. CASE t = Table
    BY <1>3, <2>1
  <2>2. CASE t # Table
    <3>1. PICK r \in Redirects : t = do_redirection_internal(Table, r)
      BY <1>2, <2>2
    <3>2. r \in RedirectKinds
      BY RedirectsAssumption
    <3>3. ~t.ok
      BY <1>2, <2>2
    <3> QED
      BY <3>1, <3>2, <3>3, RedirectOutcome DEF IInv, Achieved
  <2> QED
    BY <2>1, <2>2
<1>5. v \in Tables /\ v.ok /\ Same(t, v)
  BY <1>4, OkAgain
<1> HIDE DEF v
<1>11. CASE \E r \in Redirects, d \in UserFds :
              t = do_redirection_internal(Table, r) /\ Shut(Table, t, d)
  <2>1. PICK r \in Redirects, d \in UserFds :
               t = do_redirection_internal(Table, r) /\ Shut(Table, t, d)
    BY <1>11
  <2>2. \A i \in DOMAIN frames : ~tangled' => frames[i].saved \notin Lost(t)
    BY <1>2
  <2>3. v = [t EXCEPT !.ok = TRUE] /\ Return(UndoFailed(v))
    BY <1>2 DEF v
  <2> QED
    BY <1>0, <1>1, <1>4, <1>5, <2>1, <2>2, <2>3, ShutKeeps
<1>12. CASE t = Table \/ Failed(Table, t)
  <2>6. frames # <<>> /\ Stack[Len(frames)].undo = redirection_undo_list
    BY <1>1, RedirectingStack
  <2>7. ASSUME ~tangled
        PROVE  cleanup_redirects(v, v.undo).fds = cleanup_redirects(Table, Table.undo).fds
    <3>1. Good(Table, Others)
      BY <1>1, <2>7, TableGood
    <3>2. CASE t = Table
      <4>1. v = [Table EXCEPT !.ok = TRUE]
        BY <3>2 DEF v
      <4>2. v = Table
        BY <4>1 DEF Table
      <4> QED
        BY <4>2
    <3>3. CASE Failed(Table, t)
      <4> DEFINE b == Table
                 held == Others
      <4>1. b \in Tables /\ b.ok /\ Good(b, held) /\ Failed(b, t)
        BY <1>3, <3>1, <3>3
      <4> HIDE DEF b, held
      <4>2. cleanup_redirects(v, v.undo).fds = cleanup_redirects(b, b.undo).fds
        BY <1>4, <1>5, <4>1, FailedUndone
      <4> QED
        BY <4>2 DEF b
    <3> QED
      BY <1>12, <3>2, <3>3
  <2>8. /\ UndoFailed(v) \in Tables /\ UndoFailed(v).ok
        /\ UndoFailed(v).undo = <<>> /\ UndoFailed(v).exec = <<>>
        /\ UndoFailed(v).fds = cleanup_redirects(v, v.undo).fds
    BY <1>5, UndoFailedResult
  <2>9. ~tangled => Ends(Table, Stack[Len(frames)].undo, UndoFailed(v).fds)
    BY <1>3, <2>6, <2>7, <2>8 DEF Ends
  <2>10. Return(UndoFailed(v))
    BY <1>2 DEF v
  <2> QED
    BY <1>0, <1>1, <2>6, <2>8, <2>9, <2>10, ReturnKeeps
<1> QED
  BY <1>4, <1>11, <1>12

-----------------------------------------------------------------------------
(* exec.                                                                    *)

LEMMA ExecFailsKeeps ==
  ASSUME IInv, ExecFails
  PROVE  IInv' /\ (~tangled' => GivesBack)
<1> DEFINE c == AfterExec(Table)
<1>1. pc = "exec" /\ Return(c) /\ Quiet /\ exec_redirection_undo_list = <<>>
  BY DEF ExecFails, IInv, ControlInv
<1>2. frames # <<>> /\ Stack[Len(frames)].undo = redirection_undo_list
  BY <1>1, RedirectingStack
<1>3. /\ Table \in Tables /\ Table.undo = redirection_undo_list /\ Table.exec = <<>>
      /\ redirection_undo_list \in Seq(Undos)
  BY <1>1, TableType, TableFields DEF IInv
<1>4. Top \in Frames /\ Top.undo \in Seq(Undos)
  BY <1>2, StackFacts, FrameFields DEF IInv
<1>5. CASE redirection_undo_list # <<>>
  <2>1. c = undo_partial_redirects(Table)
    BY <1>3, <1>5 DEF AfterExec
  <2> HIDE DEF c
  <2>2. /\ c \in Tables /\ c.ok /\ c.undo = <<>> /\ c.exec = <<>>
        /\ c.fds = cleanup_redirects(Table, Table.undo).fds
    BY <1>3, <2>1, UndoFailedResult
  <2>3. Ends(Table, Stack[Len(frames)].undo, c.fds)
    BY <1>2, <1>3, <2>2 DEF Ends
  <2>4. Return(c)
    BY <1>1 DEF c
  <2> QED
    BY <1>1, <1>2, <2>2, <2>3, <2>4, ReturnKeeps, QuietFacts
<1>6. CASE redirection_undo_list = <<>>
  <2>1. c = cleanup_redirects(Table, Top.undo)
    BY <1>3, <1>6 DEF AfterExec
  <2> HIDE DEF c
  <2>2. c \in Tables /\ c.ok /\ c.undo = <<>> /\ c.exec = <<>>
    BY <1>3, <1>4, <1>6, <2>1, CleanupType
  <2>3. ASSUME ~tangled PROVE Ends(Table, Stack[Len(frames)].undo, c.fds)
    <3>1. ClosesCopies(Top.undo, <<>>)
      BY <1>1, <1>6, <2>3 DEF IInv, ExecInv
    <3>2. Numbers(<<>>) = {}
      BY DEF Numbers
    <3>3. Len(Top.undo) = 0
      <4>1. Len(Top.undo) \in Nat
        BY <1>4, LenProperties
      <4>2. \A k \in 1 .. Len(Top.undo) : Top.undo[k].to \in Numbers(Top.undo)
        BY <3>1 DEF ClosesCopies, Numbers
      <4>3. \A k \in 1 .. Len(Top.undo) : FALSE
        BY <3>1, <3>2, <4>2 DEF ClosesCopies
      <4> QED
        BY <4>1, <4>3
    <3>4. Top.undo = <<>>
      BY <1>4, <3>3, EmptySeq
    <3> QED
      BY <1>2, <1>6, <2>1, <3>4 DEF Ends
  <2>4. Return(c)
    BY <1>1 DEF c
  <2> QED
    BY <1>1, <1>2, <2>2, <2>3, <2>4, ReturnKeeps, QuietFacts
<1> QED
  BY <1>5, <1>6

(* Undoing the list that only closes copies. *)
LEMMA CopiesClosed ==
  ASSUME NEW t \in Tables, t.ok, NEW list \in Seq(Undos),
         \A k \in 1 .. Len(list) : list[k].op = "close" /\ list[k].to \notin UserFds,
         NEW c, Ends(t, list, c)
  PROVE  c \in Descriptors /\ \A d \in FDs : c[d] = IF d \in Numbers(list) THEN Closed ELSE t.fds[d]
<1>1. Sound(list, t.fds)
  BY DEF Sound
<1>2. c \in Descriptors /\ Obeys(c, list, t.fds)
  BY <1>1, UndoneValue
<1>3. ASSUME NEW d \in FDs
      PROVE  c[d] = IF d \in Numbers(list) THEN Closed ELSE t.fds[d]
  <2>1. CASE Unnamed(list, d)
    <3>1. d \notin Numbers(list)
      BY <2>1 DEF Unnamed, Numbers
    <3> QED
      BY <1>2, <2>1, <3>1 DEF Obeys
  <2>2. CASE \E k \in 1 .. Len(list) : list[k].to = d /\ LastOf(list, Len(list), k)
    <3>1. PICK k \in 1 .. Len(list) : list[k].to = d /\ LastOf(list, Len(list), k)
      BY <2>2
    <3>2. d \in Numbers(list)
      BY <3>1 DEF Numbers
    <3>3. Value(list[k], t.fds) = Closed
      BY DEF Value
    <3>4. Gives(list, t.fds, d, Closed)
      BY <3>1, <3>3 DEF Gives
    <3> QED
      BY <1>2, <3>2, <3>4 DEF Obeys
  <2> QED
    BY <2>1, <2>2, NamedOrNot
<1> QED
  BY <1>2, <1>3

LEMMA ExecKeepsPops ==
  ASSUME IInv, ExecKeeps
  PROVE  /\ Pops
         /\ ~tangled' => /\ ~tangled
                         /\ \A i \in 1 .. Len(frames) : frames[i].cap = 0
                         /\ \A d \in FDs : fds'[d] = IF d \in Numbers(redirection_undo_list)
                                                    THEN Closed ELSE fds[d]
<1> DEFINE b == [Table EXCEPT !.undo = <<>>]
           c == AfterExec(b)
<1>1. /\ pc = "exec" /\ execs < MaxExecs /\ execs' = execs + 1 /\ Return(c)
      /\ tangled' = (tangled \/ \E i \in DOMAIN frames : frames[i].cap # 0)
      /\ capture' = capture /\ exec_redirection_undo_list = <<>>
  BY DEF ExecKeeps, IInv, ControlInv
<1>2. frames # <<>>
  BY <1>1, RedirectingStack
<1>3. /\ Top \in Frames /\ Top.undo \in Seq(Undos) /\ frames[Len(frames)] = Top
      /\ Len(frames) \in Nat \ {0} /\ DOMAIN frames = 1 .. Len(frames)
  <2>1. frames \in Seq(Frames)
    BY DEF IInv, RedirTypeOK
  <2> QED
    BY <1>2, <2>1, StackFacts, FrameFields, LenProperties DEF IInv
<1>4. /\ b \in Tables /\ b.ok /\ b.fds = fds /\ b.undo = <<>> /\ b.exec = <<>>
  <2>1. /\ Table \in Tables /\ Table.ok /\ Table.fds = fds /\ Table.exec = <<>>
    BY <1>1, TableType DEF IInv
  <2>2. <<>> \in Seq(Undos)
    OBVIOUS
  <2> QED
    BY <2>1, <2>2 DEF Tables
<1>5. c = cleanup_redirects(b, Top.undo)
  BY <1>4 DEF AfterExec
<1> HIDE DEF b, c
<1>6. c \in Tables /\ c.ok /\ c.undo = <<>> /\ c.exec = <<>>
  BY <1>3, <1>4, <1>5, CleanupType
<1>7. execs' \in 0 .. MaxExecs /\ tangled' \in BOOLEAN
  BY <1>1, FdAssumption DEF IInv, RedirTypeOK
<1>8. Pops /\ fds' = EndCapture(c, Top).fds
  BY <1>1, <1>2, <1>6, <1>7, ReturnPops
<1>9. ASSUME ~tangled'
      PROVE  /\ ~tangled
             /\ \A i \in 1 .. Len(frames) : frames[i].cap = 0
             /\ \A d \in FDs : fds'[d] = IF d \in Numbers(redirection_undo_list)
                                        THEN Closed ELSE fds[d]
  <2>1. ~tangled /\ \A i \in 1 .. Len(frames) : frames[i].cap = 0
    BY <1>1, <1>3, <1>9
  <2>2. Top.cap = 0
    <3>1. Len(frames) \in 1 .. Len(frames)
      BY <1>3
    <3> QED
      BY <1>3, <2>1, <3>1
  <2>3. fds' = c.fds
    BY <1>8, <2>2 DEF EndCapture
  <2>4. ClosesCopies(Top.undo, redirection_undo_list)
    BY <1>1, <2>1 DEF IInv, ExecInv
  <2>5. Ends(b, Top.undo, c.fds)
    BY <1>5 DEF Ends
  <2> DEFINE list == Top.undo
             e == c.fds
  <2>6. /\ list \in Seq(Undos) /\ Ends(b, list, e)
        /\ Numbers(list) = Numbers(redirection_undo_list)
        /\ \A k \in 1 .. Len(list) : list[k].op = "close" /\ list[k].to \notin UserFds
    BY <1>3, <2>4, <2>5 DEF ClosesCopies
  <2> HIDE DEF list
  <2>7. \A d \in FDs : e[d] = IF d \in Numbers(list) THEN Closed ELSE b.fds[d]
    <3> HIDE DEF e
    <3> QED
      BY <1>4, <2>6, CopiesClosed
  <2> QED
    BY <1>4, <2>1, <2>3, <2>6, <2>7
<1> QED
  BY <1>8, <1>9

LEMMA ExecKeepsKeeps ==
  ASSUME IInv, ExecKeeps
  PROVE  IInv'
<1> DEFINE n == Len(frames)
           s == Stack
           p == Front(frames)
           es == fds'
<1>1. Pops /\ pc = "exec"
  BY ExecKeepsPops DEF ExecKeeps
<1>2. frames # <<>> /\ s[n].undo = redirection_undo_list
  BY <1>1, RedirectingStack
<1>3. /\ Popped(s, p) /\ n = Len(s) /\ n \in Nat \ {0} /\ n \in 1 .. n
      /\ SameBut(frames[n], s[n])
      /\ \A k \in 1 .. n - 1 : s[k] = frames[k]
      /\ Len(p) = n - 1
  BY <1>2, StackFacts DEF IInv
<1>4. ASSUME ~tangled' PROVE StackOK(p, es)
  <2>1. /\ ~tangled
        /\ \A i \in 1 .. n : frames[i].cap = 0
        /\ \A d \in FDs : es[d] = IF d \in Numbers(redirection_undo_list) THEN Closed ELSE fds[d]
    BY <1>4, ExecKeepsPops
  <2>2. StackOK(s, fds) /\ es \in Descriptors
    BY <1>1, <2>1 DEF IInv, Pops
  <2>3. \A i \in 1 .. Len(p) : s[i].cap = 0
    BY <1>3, <2>1
  <2>4. HeldBy(s[n]) \cap FDs = Numbers(redirection_undo_list) \cap FDs
    <3>1. s[n].cap = 0
      BY <1>3, <2>1 DEF SameBut
    <3>2. s[n].saved = 0
      <4>1. frames[n].saved = 0
        BY <1>3, <2>1 DEF IInv, ControlInv
      <4> QED
        BY <1>3, <4>1 DEF SameBut
    <3>3. Captured(s[n]) = {}
      BY <3>1, <3>2 DEF Captured
    <3> QED
      BY <1>2, <3>3 DEF HeldBy
  <2>5. \A d \in FDs \ UserFds : es[d] = IF d \in HeldBy(s[n]) THEN Closed ELSE fds[d]
    BY <2>1, <2>4
  <2> HIDE DEF n, s, p, es
  <2> QED
    BY <1>3, <2>2, <2>3, <2>5, RestKeeps
<1> QED
  BY <1>1, <1>4, PopsKeeps

LEMMA ExecKeepsPermanent ==
  ASSUME IInv, ExecKeeps
  PROVE  tangled' \/ \A d \in UserFds : fds'[d] = fds[d]
<1> SUFFICES ASSUME ~tangled', NEW d \in UserFds PROVE fds'[d] = fds[d]
  OBVIOUS
<1>1. d \in FDs /\ d \notin Numbers(redirection_undo_list)
  BY FdFacts DEF Numbers
<1> QED
  BY <1>1, ExecKeepsPops

-----------------------------------------------------------------------------
(* A jump.                                                                  *)

IsUnwound(g, t, N, undos) ==
  /\ g \in [0 .. N -> Tables]
  /\ g[0] = t
  /\ \A n \in 1 .. N : g[n] = cleanup_redirects(g[n - 1], undos[n])

LEMMA UnwoundExists ==
  ASSUME NEW t \in Tables, NEW N \in Nat, NEW undos, \A n \in 1 .. N : undos[n] \in Seq(Undos)
  PROVE  \E g : IsUnwound(g, t, N, undos)
<1> DEFINE F == [n \in 1 .. N |-> [x \in Tables |-> cleanup_redirects(x, undos[n])]]
<1>1. F \in [1 .. N -> [Tables -> Tables]]
  <2> SUFFICES ASSUME NEW n \in 1 .. N, NEW x \in Tables
               PROVE  cleanup_redirects(x, undos[n]) \in Tables
    OBVIOUS
  <2> QED
    BY CleanupType
<1>2. \A x \in Tables, n \in 1 .. N : F[n][x] = cleanup_redirects(x, undos[n])
  OBVIOUS
<1> HIDE DEF F
<1>3. PICK g : Iterates(g, Tables, t, N, F)
  BY <1>1, IterationExists
<1>4. g \in [0 .. N -> Tables] /\ g[0] = t /\ \A n \in 1 .. N : g[n] = F[n][g[n - 1]]
  BY <1>3 DEF Iterates
<1>5. ASSUME NEW n \in 1 .. N PROVE g[n] = cleanup_redirects(g[n - 1], undos[n])
  <2>1. g[n - 1] \in Tables
    BY <1>4
  <2> QED
    BY <1>2, <1>4, <2>1
<1> QED
  BY <1>4, <1>5 DEF IsUnwound

\* The lists of the frames, the newest first.
NewestFirst == [n \in 1 .. Len(frames) |-> frames[Len(frames) + 1 - n].undo]

LEMMA UnwoundSteps ==
  ASSUME RedirTypeOK, NEW t \in Tables
  PROVE  \E g : IsUnwound(g, t, Len(frames), NewestFirst) /\ Unwound(t) = g[Len(frames)]
<1> DEFINE N == Len(frames)
           list(n) == frames[Len(frames) + 1 - n].undo
           Is(g) == g = [n \in 0 .. N |-> IF n = 0 THEN t ELSE cleanup_redirects(g[n - 1], list(n))]
           unwound == CHOOSE h : Is(h)
<1>1. N \in Nat /\ \A n \in 1 .. N : list(n) \in Seq(Undos) /\ NewestFirst[n] = list(n)
  <2>1. frames \in Seq(Frames) /\ N \in Nat
    BY LenProperties DEF RedirTypeOK
  <2> SUFFICES ASSUME NEW n \in 1 .. N
               PROVE  list(n) \in Seq(Undos) /\ NewestFirst[n] = list(n)
    BY <2>1
  <2>2. N + 1 - n \in 1 .. N
    BY <2>1
  <2>3. frames[N + 1 - n] \in Frames
    BY <2>1, <2>2, ElementOfSeq
  <2> QED
    BY <2>3, FrameFields DEF NewestFirst
<1>2. PICK g : IsUnwound(g, t, N, NewestFirst)
  <2>1. \A n \in 1 .. N : NewestFirst[n] \in Seq(Undos)
    BY <1>1
  <2> HIDE DEF N
  <2> QED
    BY <1>1, <2>1, UnwoundExists
<1>3. Is(g)
  <2>1. \A n \in 1 .. N : g[n] = cleanup_redirects(g[n - 1], list(n))
    BY <1>1, <1>2 DEF IsUnwound
  <2>2. \A n \in 0 .. N : n = 0 \/ n \in 1 .. N
    BY <1>1
  <2>3. \A n \in 0 .. N : g[n] = IF n = 0 THEN t ELSE cleanup_redirects(g[n - 1], list(n))
    BY <1>2, <2>1, <2>2 DEF IsUnwound
  <2> HIDE DEF N, list
  <2> QED
    BY <1>2, <2>3 DEF IsUnwound
<1>4. Is(unwound)
  BY <1>3
<1>5. Unwound(t) = unwound[N]
  BY Zenon DEF Unwound
<1> HIDE DEF unwound
<1>6. unwound[0] = t /\ \A n \in 1 .. N : unwound[n] = cleanup_redirects(unwound[n - 1], list(n))
  <2> HIDE DEF list
  <2> QED
    BY <1>1, <1>4
<1>7. unwound \in [0 .. N -> Tables]
  <2> DEFINE S == {n \in Nat : n <= N => unwound[n] \in Tables}
  <2>1. 0 \in S
    BY <1>6
  <2>2. ASSUME NEW n \in Nat, n \in S PROVE n + 1 \in S
    <3> SUFFICES ASSUME n + 1 <= N PROVE unwound[n + 1] \in Tables
      OBVIOUS
    <3> HIDE DEF list
    <3>1. n + 1 \in 1 .. N /\ (n + 1) - 1 = n /\ n <= N
      BY <1>1
    <3>2. unwound[n + 1] = cleanup_redirects(unwound[n], list(n + 1)) /\ list(n + 1) \in Seq(Undos)
      BY <1>1, <1>6, <3>1
    <3>3. unwound[n] \in Tables
      BY <2>2, <3>1
    <3> QED
      BY <3>2, <3>3, CleanupType
  <2>3. \A n \in Nat : n \in S
    <3> HIDE DEF S
    <3> QED
      BY <2>1, <2>2, NatSetInduction
  <2>4. \A n \in 0 .. N : unwound[n] \in Tables
    BY <1>1, <2>3
  <2> HIDE DEF list
  <2> QED
    BY <1>4, <2>4
<1>8. \A n \in 1 .. N : unwound[n] = cleanup_redirects(unwound[n - 1], NewestFirst[n])
  <2> HIDE DEF list
  <2> QED
    BY <1>1, <1>6
<1> QED
  BY <1>5, <1>6, <1>7, <1>8 DEF IsUnwound

(* The oldest m commands of a stack. *)
Oldest(s, m) == SubSeq(s, 1, m)

LEMMA OldestFacts ==
  ASSUME NEW s \in Seq(Frames), NEW m \in 0 .. Len(s)
  PROVE  /\ Oldest(s, m) \in Seq(Frames) /\ Len(Oldest(s, m)) = m
         /\ \A k \in 1 .. m : Oldest(s, m)[k] = s[k]
         /\ m = 0 => Oldest(s, m) = <<>>
<1>1. Len(s) \in Nat /\ m \in Nat /\ m \in Int /\ 1 \in Int
  BY LenProperties
<1>2. \A k \in 1 .. m : s[k] \in Frames
  <2>1. \A k \in 1 .. m : k \in 1 .. Len(s)
    BY <1>1
  <2> QED
    BY <2>1, ElementOfSeq
<1>3. /\ SubSeq(s, 1, m) \in Seq(Frames)
      /\ Len(SubSeq(s, 1, m)) = IF 1 <= m THEN m - 1 + 1 ELSE 0
      /\ \A k \in 1 .. m - 1 + 1 : SubSeq(s, 1, m)[k] = s[1 + k - 1]
  BY <1>1, <1>2, SubSeqProperties
<1> DEFINE o == SubSeq(s, 1, m)
<1> HIDE DEF o
<1>4. o \in Seq(Frames) /\ Len(o) = m
  <2>1. Len(o) = IF 1 <= m THEN m - 1 + 1 ELSE 0
    BY <1>3, Zenon DEF o
  <2>2. o \in Seq(Frames)
    BY <1>3 DEF o
  <2> QED
    BY <1>1, <2>1, <2>2
<1>5. ASSUME NEW k \in 1 .. m PROVE o[k] = s[k]
  <2>1. k \in 1 .. m - 1 + 1 /\ 1 + k - 1 = k
    BY <1>1
  <2>2. o[k] = s[1 + k - 1]
    BY <1>3, <2>1, Zenon DEF o
  <2> QED
    BY <2>1, <2>2
<1>6. m = 0 => o = <<>>
  BY <1>4, EmptySeq
<1> QED
  BY <1>4, <1>5, <1>6 DEF o, Oldest

LEMMA OldestPopped ==
  ASSUME NEW s \in Seq(Frames), NEW m \in 1 .. Len(s)
  PROVE  /\ Popped(Oldest(s, m), Oldest(s, m - 1)) /\ Len(Oldest(s, m)) = m
         /\ Oldest(s, m)[m] = s[m] /\ Oldest(s, m) \in Seq(Frames)
         /\ m \in Nat \ {0}
<1>1. Len(s) \in Nat
  BY LenProperties
<1>2. m \in 0 .. Len(s) /\ m - 1 \in 0 .. Len(s) /\ m \in Nat \ {0} /\ m \in 1 .. m
  BY <1>1
<1> DEFINE a == Oldest(s, m)
           b == Oldest(s, m - 1)
<1>3. a \in Seq(Frames) /\ Len(a) = m /\ \A k \in 1 .. m : a[k] = s[k]
  BY <1>2, OldestFacts
<1>4. b \in Seq(Frames) /\ Len(b) = m - 1 /\ \A k \in 1 .. m - 1 : b[k] = s[k]
  BY <1>2, OldestFacts
<1> HIDE DEF a, b
<1>5. Popped(a, b)
  <2>1. \A k \in 1 .. m - 1 : k \in 1 .. m
    BY <1>2
  <2>2. \A k \in 1 .. Len(b) : b[k] = a[k]
    BY <1>3, <1>4, <2>1
  <2> QED
    BY <1>2, <1>3, <1>4, <2>2 DEF Popped
<1> QED
  BY <1>2, <1>3, <1>5 DEF a, b

\* The commands of s above the m oldest have ended, and ds has become es.
Back(s, m, ds, es) ==
  \A d \in UserFds :
    (\A j \in m + 1 .. Len(s) : d \notin s[j].besides) =>
      /\ (\A j \in m + 1 .. Len(s) : d \notin Assigned(s[j])) => es[d] = ds[d]
      /\ \A i \in m + 1 .. Len(s) :
           d \in Assigned(s[i]) /\ (\A j \in m + 1 .. i - 1 : d \notin Assigned(s[j]))
             => es[d] = s[i].before[d]

LEMMA BackOne ==
  ASSUME NEW s \in Seq(Frames), NEW m \in 1 .. Len(s), NEW ds, NEW es, NEW fs,
         Back(s, m, ds, es), Ended(s[m], es, fs)
  PROVE  Back(s, m - 1, ds, fs)
<1> DEFINE n == Len(s)
<1>1. n \in Nat /\ m \in Nat /\ (m - 1) + 1 = m
  BY LenProperties
<1>2. \A j : j \in m .. n <=> j = m \/ j \in m + 1 .. n
  BY <1>1
<1> SUFFICES ASSUME NEW d \in UserFds, \A j \in m .. n : d \notin s[j].besides
             PROVE  /\ (\A j \in m .. n : d \notin Assigned(s[j])) => fs[d] = ds[d]
                    /\ \A i \in m .. n :
                         d \in Assigned(s[i]) /\ (\A j \in m .. i - 1 : d \notin Assigned(s[j]))
                           => fs[d] = s[i].before[d]
  BY <1>1, Zenon DEF Back
<1>3. fs[d] = IF d \in Assigned(s[m]) THEN s[m].before[d] ELSE es[d]
  BY <1>2 DEF Ended
<1>4. /\ (\A j \in m + 1 .. n : d \notin Assigned(s[j])) => es[d] = ds[d]
      /\ \A i \in m + 1 .. n :
           d \in Assigned(s[i]) /\ (\A j \in m + 1 .. i - 1 : d \notin Assigned(s[j]))
             => es[d] = s[i].before[d]
  BY <1>2 DEF Back
<1>5. (\A j \in m .. n : d \notin Assigned(s[j])) => fs[d] = ds[d]
  BY <1>2, <1>3, <1>4
<1>6. ASSUME NEW i \in m .. n, d \in Assigned(s[i]), \A j \in m .. i - 1 : d \notin Assigned(s[j])
      PROVE  fs[d] = s[i].before[d]
  <2>1. CASE i = m
    BY <1>3, <1>6, <2>1
  <2>2. CASE i # m
    <3>1. i \in m + 1 .. n /\ m \in m .. i - 1 /\ \A j \in m + 1 .. i - 1 : j \in m .. i - 1
      BY <1>1, <2>2
    <3>2. d \notin Assigned(s[m]) /\ \A j \in m + 1 .. i - 1 : d \notin Assigned(s[j])
      BY <1>6, <3>1
    <3> QED
      BY <1>3, <1>4, <1>6, <3>1, <3>2
  <2> QED
    BY <2>1, <2>2
<1> QED
  BY <1>5, <1>6

LEMMA AllOldest ==
  ASSUME NEW s \in Seq(Frames)
  PROVE  Oldest(s, Len(s)) = s
<1> DEFINE o == Oldest(s, Len(s))
<1>1. Len(s) \in Nat /\ Len(s) \in 0 .. Len(s)
  BY LenProperties
<1>2. o \in Seq(Frames) /\ Len(o) = Len(s) /\ \A k \in 1 .. Len(s) : o[k] = s[k]
  BY <1>1, OldestFacts
<1> HIDE DEF o
<1>3. o = s
  BY <1>2, SeqEqual
<1> QED
  BY <1>3 DEF o

LEMMA UnwindStep ==
  ASSUME NEW s \in Seq(Frames), NEW m \in 1 .. Len(s), NEW ds, NEW t \in Tables, t.ok,
         s[m].cap = 0, StackOK(Oldest(s, m), t.fds), Back(s, m, ds, t.fds),
         NEW c \in Tables, c.ok, Ends(t, s[m].undo, c.fds)
  PROVE  StackOK(Oldest(s, m - 1), c.fds) /\ Back(s, m - 1, ds, c.fds)
<1> DEFINE a == Oldest(s, m)
           b == Oldest(s, m - 1)
<1>1. /\ Popped(a, b) /\ Len(a) = m /\ a[m] = s[m] /\ a \in Seq(Frames)
      /\ m \in Nat \ {0}
  BY OldestPopped
<1>2. StackOK(a, t.fds) /\ Ends(t, a[m].undo, c.fds)
  BY <1>1
<1> HIDE DEF a, b
<1>3. Ended(a[m], t.fds, EndCapture(c, a[m]).fds)
  BY <1>1, <1>2, TopEnds
<1>4. EndCapture(c, a[m]) = c
  BY <1>1 DEF EndCapture
<1>5. Ended(a[m], t.fds, c.fds)
  BY <1>3, <1>4
<1>6. StackOK(b, c.fds)
  BY <1>1, <1>2, <1>5, PopKeeps
<1>7. Back(s, m - 1, ds, c.fds)
  BY <1>1, <1>5, BackOne
<1> QED
  BY <1>6, <1>7 DEF b

(* All the commands of a stack without captures end, the newest first. *)
LEMMA UnwindAll ==
  ASSUME NEW s \in Seq(Frames), NEW n \in Nat \ {0}, n = Len(s),
         \A i \in 1 .. n : s[i].cap = 0,
         NEW t \in Tables, t.ok, StackOK(s, t.fds),
         NEW g, \A k \in 1 .. n : g[k] \in Tables /\ g[k].ok,
         Ends(t, s[n].undo, g[1].fds),
         \A k \in 2 .. n : g[k] = cleanup_redirects(g[k - 1], s[n + 1 - k].undo)
  PROVE  StackOK(<<>>, g[n].fds) /\ Back(s, 0, t.fds, g[n].fds)
<1> DEFINE OK(k) == /\ StackOK(Oldest(s, n - k), g[k].fds)
                    /\ Back(s, n - k, t.fds, g[k].fds)
           S == {k \in Nat : k + 1 <= n => OK(k + 1)}
<1>1. OK(1)
  <2>1. /\ n \in 1 .. Len(s) /\ s[n].cap = 0 /\ 1 \in 1 .. n
    OBVIOUS
  <2>2. StackOK(Oldest(s, n), t.fds)
    BY AllOldest
  <2>3. Back(s, n, t.fds, t.fds)
    BY DEF Back
  <2> DEFINE c == g[1]
  <2>4. c \in Tables /\ c.ok /\ Ends(t, s[n].undo, c.fds)
    BY <2>1
  <2> HIDE DEF c
  <2>5. StackOK(Oldest(s, n - 1), c.fds) /\ Back(s, n - 1, t.fds, c.fds)
    BY <2>1, <2>2, <2>3, <2>4, UnwindStep
  <2> QED
    BY <2>5 DEF c
<1>2. ASSUME NEW k \in Nat, k \in S PROVE k + 1 \in S
  <2> SUFFICES ASSUME (k + 1) + 1 <= n PROVE OK((k + 1) + 1)
    OBVIOUS
  <2> DEFINE m == n - (k + 1)
             u == g[k + 1]
             c == g[(k + 1) + 1]
  <2>1. /\ m \in 1 .. Len(s) /\ m \in 1 .. n /\ m - 1 = n - ((k + 1) + 1)
        /\ n + 1 - ((k + 1) + 1) = m /\ ((k + 1) + 1) - 1 = k + 1
        /\ k + 1 \in 1 .. n /\ (k + 1) + 1 \in 1 .. n /\ (k + 1) + 1 \in 2 .. n
        /\ k + 1 <= n
    OBVIOUS
  <2>2. StackOK(Oldest(s, m), u.fds) /\ Back(s, m, t.fds, u.fds)
    BY <1>2, <2>1
  <2>3. u \in Tables /\ u.ok /\ c \in Tables /\ c.ok
    BY <2>1
  <2>4. c = cleanup_redirects(u, s[m].undo)
    <3>1. g[(k + 1) + 1] = cleanup_redirects(g[((k + 1) + 1) - 1], s[n + 1 - ((k + 1) + 1)].undo)
      BY <2>1, Zenon
    <3> QED
      BY <2>1, <3>1, Zenon
  <2>5. s[m].cap = 0
    BY <2>1
  <2>6. Ends(u, s[m].undo, c.fds)
    BY <2>4 DEF Ends
  <2> HIDE DEF m, u, c
  <2>7. StackOK(Oldest(s, m - 1), c.fds) /\ Back(s, m - 1, t.fds, c.fds)
    BY <2>1, <2>2, <2>3, <2>5, <2>6, UnwindStep
  <2>8. m - 1 = n - ((k + 1) + 1)
    BY <2>1
  <2> QED
    BY <2>7, <2>8, Zenon DEF c
<1>3. 0 \in S
  <2>1. 0 + 1 = 1 /\ 0 \in Nat
    OBVIOUS
  <2> HIDE DEF OK
  <2> QED
    BY <1>1, <2>1
<1>4. n - 1 \in S
  <2> HIDE DEF S
  <2>1. n - 1 \in Nat
    OBVIOUS
  <2> QED
    BY <1>2, <1>3, <2>1, NatSetInduction
<1>5. OK(n)
  <2>1. (n - 1) + 1 = n /\ n <= n
    OBVIOUS
  <2> HIDE DEF OK
  <2> QED
    BY <1>4, <2>1
<1>6. n - n = 0 /\ 0 \in 0 .. Len(s) /\ Oldest(s, 0) = <<>>
  <2>1. n - n = 0 /\ 0 \in 0 .. Len(s)
    OBVIOUS
  <2> QED
    BY <2>1, OldestFacts
<1> QED
  BY <1>5, <1>6, Zenon

(* A step that ends every command. *)
LEMMA EndsAllKeeps ==
  ASSUME IInv, frames' = <<>>, pc' = "run",
         redirection_undo_list' = <<>>, exec_redirection_undo_list' = <<>>,
         fds' \in Descriptors, clexec' \in SUBSET FDs,
         capture' = capture, execs' = execs, tangled' \in BOOLEAN,
         ~tangled' => StackOK(<<>>, fds')
  PROVE  IInv'
<1>1. <<>> \in Seq(Undos) /\ <<>> \in Seq(Frames) /\ \A i \in 1 .. Len(<<>>) : FALSE
  OBVIOUS
<1>2. RedirTypeOK'
  BY <1>1 DEF IInv, RedirTypeOK, Descriptors
<1>3. ControlInv'
  BY <1>1 DEF ControlInv
<1>4. ExecInv' /\ FreshInv'
  BY DEF ExecInv, FreshInv
<1>5. (~tangled => StackOK(Stack, fds))'
  <2>1. Stack' = <<>>
    BY DEF Stack
  <2> QED
    BY <2>1
<1> QED
  BY <1>2, <1>3, <1>4, <1>5 DEF IInv

LEMMA StackFields ==
  ASSUME IInv, frames # <<>>, NEW i \in 1 .. Len(frames)
  PROVE  SameBut(frames[i], Stack[i])
<1> DEFINE n == Len(frames)
<1>1. /\ n \in Nat \ {0} /\ frames[n] = Top /\ SameBut(Top, Stack[n])
      /\ \A k \in 1 .. n - 1 : Stack[k] = frames[k]
  BY StackFacts DEF IInv
<1>2. CASE i = n
  BY <1>1, <1>2
<1>3. CASE i # n
  <2>1. Stack[i] = frames[i]
    BY <1>1, <1>3
  <2> QED
    BY <2>1 DEF SameBut
<1> QED
  BY <1>2, <1>3

LEMMA BackGives ==
  ASSUME IInv, frames # <<>>, frames' = <<>>, Back(Stack, 0, fds, fds')
  PROVE  GivesBack
<1> DEFINE n == Len(frames)
<1>1. n \in Nat \ {0} /\ Len(Stack) = n
  BY StackFacts DEF IInv
<1>2. EndedFrames = 1 .. n
  <2>1. Len(frames') = 0
    OBVIOUS
  <2> QED
    BY <2>1 DEF EndedFrames
<1>3. \A i \in 1 .. n : /\ Assigned(Stack[i]) = Assigned(frames[i])
                        /\ Stack[i].before = frames[i].before
                        /\ Stack[i].besides = frames[i].besides
  BY StackFields, SameFrame DEF SameBut
<1> HIDE DEF n
<1> SUFFICES ASSUME NEW d \in UserFds \ UNION {frames[i].besides : i \in EndedFrames}
             PROVE  fds'[d] = IF OwnersOf(d) = {} THEN fds[d] ELSE frames[Min(OwnersOf(d))].before[d]
  BY DEF GivesBack
<1>4. \A j \in 1 .. n : d \notin Stack[j].besides
  BY <1>2, <1>3
<1>5. 0 + 1 = 1
  OBVIOUS
<1>6. /\ (\A j \in 1 .. n : d \notin Assigned(Stack[j])) => fds'[d] = fds[d]
      /\ \A i \in 1 .. n :
           d \in Assigned(Stack[i]) /\ (\A j \in 1 .. i - 1 : d \notin Assigned(Stack[j]))
             => fds'[d] = Stack[i].before[d]
  BY <1>1, <1>4, <1>5, Zenon DEF Back
<1>7. OwnersOf(d) = {i \in 1 .. n : d \in Assigned(frames[i])}
  BY <1>2 DEF OwnersOf
<1>8. CASE OwnersOf(d) = {}
  <2>1. \A j \in 1 .. n : d \notin Assigned(Stack[j])
    BY <1>3, <1>7, <1>8
  <2> QED
    BY <1>6, <1>8, <2>1
<1>9. CASE OwnersOf(d) # {}
  <2> DEFINE m == Min(OwnersOf(d))
  <2>1. OwnersOf(d) \in SUBSET Nat
    BY <1>1, <1>7
  <2>2. m \in OwnersOf(d) /\ \A k \in OwnersOf(d) : m <= k
    BY <1>9, <2>1, MinOfNat
  <2> HIDE DEF m
  <2>3. m \in 1 .. n /\ d \in Assigned(Stack[m])
    BY <1>3, <1>7, <2>2
  <2>4. \A j \in 1 .. m - 1 : d \notin Assigned(Stack[j])
    <3> SUFFICES ASSUME NEW j \in 1 .. m - 1 PROVE d \notin Assigned(Stack[j])
      OBVIOUS
    <3>1. j \in 1 .. n /\ ~(m <= j)
      BY <1>1, <2>3
    <3>2. j \notin OwnersOf(d)
      BY <2>2, <3>1
    <3> QED
      BY <1>3, <1>7, <3>1, <3>2
  <2>5. fds'[d] = Stack[m].before[d]
    BY <1>6, <2>3, <2>4
  <2> QED
    BY <1>3, <1>9, <2>3, <2>5 DEF m
<1> QED
  BY <1>8, <1>9

LEMMA JumpKeeps ==
  ASSUME IInv, frames # <<>>, NEW t \in Tables, Jump(t),
         ~tangled => Ends(Table, Stack[Len(frames)].undo, cleanup_redirects(t, Top.undo).fds)
  PROVE  IInv' /\ (~tangled' => GivesBack)
<1> DEFINE n == Len(frames)
           u == Unwound(t)
           v == [[u EXCEPT !.undo = <<>>] EXCEPT !.exec = <<>>]
<1>1. PICK g : IsUnwound(g, t, n, NewestFirst) /\ u = g[n]
  BY UnwoundSteps DEF IInv
<1>2. /\ n \in Nat \ {0} /\ frames \in Seq(Frames) /\ frames[n] = Top
      /\ Len(Stack) = n /\ Stack \in Seq(Frames)
      /\ \A k \in 1 .. n - 1 : Stack[k] = frames[k]
      /\ DOMAIN frames = 1 .. n
  <2>1. frames \in Seq(Frames)
    BY DEF IInv, RedirTypeOK
  <2> QED
    BY <2>1, StackFacts, LenProperties DEF IInv
<1>3. u \in Tables
  BY <1>1, <1>2 DEF IsUnwound
<1> HIDE DEF u
<1>4. v \in Tables /\ v.fds = u.fds /\ v.undo = <<>> /\ v.exec = <<>>
  <2>1. <<>> \in Seq(Undos)
    OBVIOUS
  <2> QED
    BY <1>3, <2>1 DEF Tables
<1>5. /\ Becomes(v) /\ frames' = <<>> /\ pc' = "run" /\ capture' = capture /\ execs' = execs
      /\ tangled' = (tangled \/ \E i \in DOMAIN frames : frames[i].cap # 0)
  BY DEF Jump, u
<1> HIDE DEF v
<1>6. /\ fds' = u.fds /\ fds' \in Descriptors /\ clexec' \in SUBSET FDs
      /\ redirection_undo_list' = <<>> /\ exec_redirection_undo_list' = <<>>
  BY <1>4, <1>5, TableFields DEF Becomes
<1>7. ASSUME ~tangled' PROVE StackOK(<<>>, fds') /\ Back(Stack, 0, fds, fds')
  <2>1. ~tangled /\ \A i \in 1 .. n : frames[i].cap = 0
    BY <1>2, <1>5, <1>7
  <2>2. \A i \in 1 .. n : Stack[i].cap = 0
    BY <2>1, StackFields DEF SameBut
  <2>3. Table \in Tables /\ Table.ok /\ Table.fds = fds /\ StackOK(Stack, fds)
    BY <2>1, TableType DEF IInv
  <2>4. \A k \in 1 .. n : g[k] = cleanup_redirects(g[k - 1], NewestFirst[k]) /\ g[k - 1] \in Tables
    <3>1. \A k \in 1 .. n : k - 1 \in 0 .. n
      BY <1>2
    <3>2. /\ \A k \in 0 .. n : g[k] \in Tables
          /\ \A k \in 1 .. n : g[k] = cleanup_redirects(g[k - 1], NewestFirst[k])
      BY <1>1, Zenon DEF IsUnwound
    <3> QED
      BY <3>1, <3>2
  <2>5. \A k \in 1 .. n : NewestFirst[k] = frames[n + 1 - k].undo /\ NewestFirst[k] \in Seq(Undos)
    <3> SUFFICES ASSUME NEW k \in 1 .. n
                 PROVE  NewestFirst[k] = frames[n + 1 - k].undo /\ NewestFirst[k] \in Seq(Undos)
      OBVIOUS
    <3>1. n + 1 - k \in 1 .. n
      BY <1>2
    <3>2. frames[n + 1 - k] \in Frames
      BY <1>2, <3>1, ElementOfSeq
    <3>3. NewestFirst[k] = frames[n + 1 - k].undo
      BY DEF NewestFirst
    <3> QED
      BY <3>2, <3>3, FrameFields
  <2>6. ASSUME NEW k \in 1 .. n PROVE g[k] \in Tables /\ g[k].ok
    <3>1. g[k] = cleanup_redirects(g[k - 1], NewestFirst[k]) /\ g[k - 1] \in Tables
      BY <2>4
    <3>2. NewestFirst[k] \in Seq(Undos)
      BY <2>5
    <3>3. ASSUME NEW a \in Tables, NEW list \in Seq(Undos)
          PROVE  cleanup_redirects(a, list) \in Tables /\ cleanup_redirects(a, list).ok
      BY CleanupType, Zenon
    <3> QED
      BY <3>1, <3>2, <3>3, Zenon
  <2>7. Ends(Table, Stack[n].undo, g[1].fds)
    <3>1. 1 \in 1 .. n /\ 1 - 1 = 0 /\ n + 1 - 1 = n
      BY <1>2
    <3>2. g[1] = cleanup_redirects(g[0], frames[n].undo)
      BY <2>4, <2>5, <3>1
    <3>3. g[1] = cleanup_redirects(t, Top.undo)
      BY <1>1, <1>2, <3>2 DEF IsUnwound
    <3> QED
      BY <2>1, <3>3
  <2>8. \A k \in 2 .. n : g[k] = cleanup_redirects(g[k - 1], Stack[n + 1 - k].undo)
    <3> SUFFICES ASSUME NEW k \in 2 .. n
                 PROVE  g[k] = cleanup_redirects(g[k - 1], Stack[n + 1 - k].undo)
      OBVIOUS
    <3>1. k \in 1 .. n /\ n + 1 - k \in 1 .. n - 1
      BY <1>2
    <3> QED
      BY <1>2, <2>4, <2>5, <3>1
  <2> DEFINE s == Stack
             b == Table
  <2>9. /\ s \in Seq(Frames) /\ n = Len(s) /\ b \in Tables /\ b.ok /\ StackOK(s, b.fds)
        /\ Ends(b, s[n].undo, g[1].fds) /\ \A i \in 1 .. n : s[i].cap = 0
        /\ \A k \in 2 .. n : g[k] = cleanup_redirects(g[k - 1], s[n + 1 - k].undo)
    BY <1>2, <2>2, <2>3, <2>7, <2>8
  <2> HIDE DEF s, b, n
  <2>10. StackOK(<<>>, g[n].fds) /\ Back(s, 0, b.fds, g[n].fds)
    BY <1>2, <2>6, <2>9, UnwindAll
  <2> QED
    BY <1>1, <1>6, <2>3, <2>10 DEF s, b
<1>8. tangled' \in BOOLEAN
  BY <1>5
<1> QED
  BY <1>5, <1>6, <1>7, <1>8, EndsAllKeeps, BackGives

LEMMA RedirectJumpsKeeps ==
  ASSUME IInv, RedirectJumps
  PROVE  IInv' /\ (~tangled' => GivesBack)
<1> DEFINE t == undo_partial_redirects(Table)
<1>1. pc = "apply" /\ Jump(t) /\ Top.undo = <<>>
  BY DEF RedirectJumps, AbandonList, IInv, ControlInv
<1>2. frames # <<>> /\ Stack[Len(frames)].undo = redirection_undo_list
  BY <1>1, RedirectingStack
<1>3. Table \in Tables /\ Table.undo = redirection_undo_list
  BY TableType DEF IInv
<1>4. t \in Tables /\ t.fds = cleanup_redirects(Table, Table.undo).fds
  BY <1>3, UndoFailedResult
<1> HIDE DEF t
<1>5. cleanup_redirects(t, Top.undo).fds = t.fds
  BY <1>1, <1>4, CleanupNone
<1>6. Ends(Table, Stack[Len(frames)].undo, cleanup_redirects(t, Top.undo).fds)
  BY <1>2, <1>3, <1>4, <1>5 DEF Ends
<1> QED
  BY <1>1, <1>2, <1>4, <1>6, JumpKeeps

LEMMA BodyJumpsKeeps ==
  ASSUME IInv, BodyJumps
  PROVE  IInv' /\ (~tangled' => GivesBack)
<1>1. pc = "run" /\ frames # <<>> /\ Jump(Table)
  BY DEF BodyJumps
<1>2. Stack[Len(frames)].undo = Top.undo
  BY <1>1, RunningStack
<1>3. Table \in Tables
  BY TableType DEF IInv
<1>4. Ends(Table, Stack[Len(frames)].undo, cleanup_redirects(Table, Top.undo).fds)
  BY <1>2 DEF Ends
<1> QED
  BY <1>1, <1>3, <1>4, JumpKeeps

-----------------------------------------------------------------------------
(* A command that begins.                                                   *)

\* q is s with f on top.
Pushed(s, f, q) ==
  /\ s \in Seq(Frames) /\ f \in Frames /\ q \in Seq(Frames)
  /\ Len(s) \in Nat /\ Len(q) = Len(s) + 1 /\ q[Len(s) + 1] = f
  /\ \A k \in 1 .. Len(s) : q[k] = s[k]

\* f has yet to redirect anything, with the descriptors ds before it.
Begins(f, ds) ==
  /\ f \in Frames /\ CaptureOK(f) /\ f.undo = <<>> /\ f.touched = {} /\ f.besides = {}
  /\ f.before = ds /\ f.before \in Descriptors

LEMMA StartFacts ==
  ASSUME NEW f, NEW ds, Begins(f, ds)
  PROVE  /\ HeldBy(f) = Captured(f) /\ Captured(f) \subseteq FDs \ UserFds
         /\ \A d \in FDs : (f.cap = 0 \/ d \notin {1, f.cap, f.saved}) => Start(f)[d] = ds[d]
         /\ \A d \in Captured(f) : ds[d] = Closed /\ Start(f)[d] # Closed
         /\ \A d \in FDs \ UserFds : d \notin Captured(f) => Start(f)[d] = ds[d]
         /\ f.cap # 0 => Start(f)[f.saved] = f.before[1]
         /\ \A d \in FDs : d \in Assigned(f) <=> f.cap # 0 /\ d \in {1, f.cap, f.saved}
<1>1. /\ f \in Frames /\ CaptureOK(f) /\ f.undo = <<>> /\ f.touched = {} /\ f.before = ds
      /\ f.cap \in FDs \union {0} /\ f.saved \in FDs \union {0} /\ (f.cap = 0 <=> f.saved = 0)
  BY FrameFields DEF Begins, CaptureOK
<1>2. HeldBy(f) = Captured(f)
  <2>1. Numbers(<<>>) = {}
    BY DEF Numbers
  <2> QED
    BY <1>1, <2>1 DEF HeldBy
<1>3. \A d \in FDs : (f.cap = 0 \/ d \notin {1, f.cap, f.saved}) => Start(f)[d] = ds[d]
  BY <1>1 DEF Start
<1>4. \A d \in FDs : d \in Assigned(f) <=> f.cap # 0 /\ d \in {1, f.cap, f.saved}
  BY <1>1 DEF Assigned
<1>5. Captured(f) \subseteq FDs \ UserFds
  BY <1>1 DEF Captured
<1>6. CASE f.cap = 0
  <2>1. Captured(f) = {}
    BY <1>1, <1>6 DEF Captured
  <2> QED
    BY <1>2, <1>3, <1>4, <1>6, <2>1
<1>7. CASE f.cap # 0
  <2>1. /\ f.cap \in FDs /\ f.saved \in FDs /\ f.cap # f.saved /\ f.cap # 1 /\ f.saved # 1
        /\ f.before[1] # Closed /\ f.before[f.cap] = Closed /\ f.before[f.saved] = Closed
        /\ Start(f)[f.saved] = f.before[1]
    BY <1>1, <1>7, CaptureFacts
  <2>2. Start(f)[f.cap] = Cap /\ Cap # Closed
    BY <1>7, <2>1, FilesAssumption DEF Start
  <2>3. \A d \in Captured(f) : d \in {f.cap, f.saved}
    BY DEF Captured
  <2>4. \A d \in Captured(f) : ds[d] = Closed /\ Start(f)[d] # Closed
    BY <1>1, <2>1, <2>2, <2>3
  <2>5. ASSUME NEW d \in FDs \ UserFds, d \notin Captured(f) PROVE Start(f)[d] = ds[d]
    <3>1. d \notin {f.cap, f.saved} /\ d # 1
      BY <2>5, FdFacts DEF Captured
    <3> QED
      BY <1>3, <3>1
  <2> QED
    BY <1>2, <1>3, <1>4, <1>5, <2>1, <2>4, <2>5
<1> QED
  BY <1>6, <1>7

(* The copy of a capture below a command that begins. *)
LEMMA SavedPushed ==
  ASSUME NEW s, NEW f, NEW q, Pushed(s, f, q), NEW ds, Begins(f, ds), NEW i \in 1 .. Len(s),
         CaptureOK(s[i]), s[i].cap # 0, SavedOK(s, i, ds)
  PROVE  SavedOK(q, i, Start(f))
<1> DEFINE n == Len(s)
           d == s[i].saved
<1>1. /\ n \in Nat /\ Len(q) = n + 1 /\ q[n + 1] = f /\ i \in 1 .. n /\ i # n + 1 /\ i <= n
      /\ \A k \in 1 .. n : q[k] = s[k]
      /\ s[i] \in Frames
  BY ElementOfSeq DEF Pushed
<1>2. q[i] = s[i] /\ q[i].saved = d
  BY <1>1
<1>3. \A j : j \in i .. n + 1 <=> j \in i .. n \/ j = n + 1
  BY <1>1
<1>4. \A j \in i .. n : q[j] = s[j] /\ j # n + 1 /\ j <= n /\ j < n + 1
  BY <1>1
<1>5. d \in FDs /\ f.touched = {} /\ f.besides = {} /\ f.before = ds
  BY <1>1, CaptureFacts DEF Begins
<1>6. \A j : j \in Inside(q, i) <=> j \in Inside(s, i) \/ (j = n + 1 /\ d \in Assigned(f))
  BY <1>1, <1>2, <1>3, <1>4, <1>5 DEF Inside
<1>7. Inside(s, i) \subseteq i .. n
  BY DEF Inside
<1>8. d \notin Assigned(f) => Start(f)[d] = ds[d]
  BY <1>5, StartFacts
<1>9. \A j \in i .. n : d \notin s[j].besides
  BY DEF SavedOK
<1>10. Inside(s, i) = {} => ds[d] = s[i].before[1]
  BY DEF SavedOK
<1>11. \A m \in Inside(s, i) :
         (\A j \in Inside(s, i) : m <= j) => m = i \/ s[m].before[d] = s[i].before[1]
  BY DEF SavedOK
<1> HIDE DEF n, d
<1>12. \A j \in i .. Len(q) : q[i].saved \notin q[j].besides
  BY <1>1, <1>2, <1>3, <1>4, <1>5, <1>9
<1>13. ASSUME Inside(q, i) = {} PROVE Start(f)[q[i].saved] = q[i].before[1]
  <2>1. Inside(s, i) = {} /\ d \notin Assigned(f)
    BY <1>6, <1>13
  <2> QED
    BY <1>2, <1>8, <1>10, <2>1
<1>14. ASSUME NEW m \in Inside(q, i), \A j \in Inside(q, i) : m <= j
       PROVE  m = i \/ q[m].before[q[i].saved] = q[i].before[1]
  <2>1. CASE m \in Inside(s, i)
    <3>1. \A j \in Inside(s, i) : m <= j
      BY <1>6, <1>14
    <3>2. m = i \/ s[m].before[d] = s[i].before[1]
      BY <1>11, <2>1, <3>1
    <3>3. q[m] = s[m]
      BY <1>4, <1>7, <2>1
    <3> QED
      BY <1>2, <3>2, <3>3
  <2>2. CASE m \notin Inside(s, i)
    <3>1. m = n + 1
      BY <1>6, <2>2
    <3>2. Inside(s, i) = {}
      <4> SUFFICES ASSUME NEW j \in Inside(s, i) PROVE FALSE
        OBVIOUS
      <4>1. j \in i .. n /\ n + 1 <= j
        BY <1>6, <1>7, <1>14, <3>1
      <4> QED
        BY <1>1, <4>1
    <3>3. q[m].before[d] = ds[d]
      BY <1>1, <1>5, <3>1
    <3> QED
      BY <1>2, <1>10, <3>2, <3>3
  <2> QED
    BY <2>1, <2>2
<1> QED
  BY <1>12, <1>13, <1>14 DEF SavedOK

LEMMA PushOK ==
  ASSUME NEW s, NEW f, NEW q, Pushed(s, f, q), NEW ds, Begins(f, ds), StackOK(s, ds)
  PROVE  StackOK(q, Start(f))
<1> DEFINE n == Len(s)
           es == Start(f)
<1>1. /\ n \in Nat /\ Len(q) = n + 1 /\ q[n + 1] = f /\ \A k \in 1 .. n : q[k] = s[k]
      /\ \A k \in 1 .. n : s[k] \in Frames
      /\ \A k : k \in 1 .. n + 1 <=> k \in 1 .. n \/ k = n + 1
      /\ \A k \in 1 .. n : k # n + 1
  BY ElementOfSeq DEF Pushed
<1>2. /\ HeldBy(f) = Captured(f) /\ Captured(f) \subseteq FDs \ UserFds
      /\ \A d \in Captured(f) : ds[d] = Closed /\ es[d] # Closed
      /\ \A d \in FDs \ UserFds : d \notin Captured(f) => es[d] = ds[d]
      /\ f.cap # 0 => es[f.saved] = f.before[1]
  BY StartFacts
<1> HIDE DEF es
<1>3. \A d \in FDs \ UserFds : ds[d] # Closed <=> \E i \in 1 .. n : d \in HeldBy(s[i])
  BY DEF StackOK
<1>4. ASSUME NEW i \in 1 .. n
      PROVE  /\ WellFormed(s[i].undo)
             /\ Numbers(s[i].undo) \cap Captured(s[i]) = {}
             /\ Restores(s[i], s[i].undo, ds)
             /\ CaptureOK(s[i])
             /\ s[i].cap # 0 => SavedOK(s, i, ds)
  BY Zenon DEF StackOK
<1>5. ASSUME NEW i \in 1 .. n PROVE HeldBy(s[i]) \cap HeldBy(f) = {}
  BY <1>2, <1>3
<1>6. ASSUME NEW i \in 1 .. n PROVE Restores(s[i], s[i].undo, es)
  <2>1. \A d \in Numbers(s[i].undo) : es[d] = ds[d]
    <3> SUFFICES ASSUME NEW d \in Numbers(s[i].undo) PROVE es[d] = ds[d]
      OBVIOUS
    <3>1. d \in FDs \ UserFds
      BY <1>1, FrameFields, EntriesOf
    <3>2. d \in HeldBy(s[i])
      BY DEF HeldBy
    <3> QED
      BY <1>2, <1>5, <3>1, <3>2
  <2> DEFINE h == s[i]
  <2>2. h \in Frames /\ WellFormed(h.undo) /\ Restores(h, h.undo, ds)
    BY <1>1, <1>4
  <2>3. \A d \in Numbers(h.undo) : es[d] = ds[d]
    BY <2>1
  <2> HIDE DEF h
  <2>4. Restores(h, h.undo, es)
    BY <2>2, <2>3, RestoresKept
  <2> QED
    BY <2>4 DEF h
<1>7. ASSUME NEW i \in 1 .. n, s[i].cap # 0 PROVE SavedOK(q, i, es)
  BY <1>4, <1>7, SavedPushed DEF es
<1>8. /\ WellFormed(f.undo)
      /\ Numbers(f.undo) \cap Captured(f) = {}
      /\ Restores(f, f.undo, es)
      /\ CaptureOK(f)
  <2>1. f.undo = <<>> /\ f.touched = {} /\ CaptureOK(f)
    BY DEF Begins
  <2>2. WellFormed(<<>>) /\ Numbers(<<>>) = {} /\ \A d : Unnamed(<<>>, d)
    BY DEF WellFormed, Numbers, Unnamed
  <2>3. Restores(f, <<>>, es)
    BY <2>1, <2>2 DEF Restores
  <2> QED
    BY <2>1, <2>2, <2>3
<1>9. ASSUME f.cap # 0 PROVE SavedOK(q, n + 1, es)
  <2>1. f.touched = {} /\ f.besides = {}
    BY DEF Begins
  <2>2. \A j : j \in n + 1 .. Len(q) <=> j = n + 1
    BY <1>1
  <2>3. Inside(q, n + 1) = {}
    BY <1>1, <2>1, <2>2 DEF Inside
  <2> HIDE DEF n
  <2> QED
    BY <1>1, <1>2, <1>9, <2>1, <2>2, <2>3 DEF SavedOK
<1> HIDE DEF n
<1>10. ASSUME NEW i \in 1 .. Len(q)
       PROVE  /\ WellFormed(q[i].undo)
              /\ Numbers(q[i].undo) \cap Captured(q[i]) = {}
              /\ Restores(q[i], q[i].undo, es)
              /\ CaptureOK(q[i])
              /\ q[i].cap # 0 => SavedOK(q, i, es)
  <2>1. CASE i \in 1 .. n
    <3>1. q[i] = s[i]
      BY <1>1, <2>1
    <3> QED
      BY <1>4, <1>6, <1>7, <2>1, <3>1
  <2>2. CASE i = n + 1
    <3>1. q[i] = f
      BY <1>1, <2>2
    <3> QED
      BY <1>8, <1>9, <2>2, <3>1
  <2> QED
    BY <1>1, <2>1, <2>2
<1>11. ASSUME NEW i \in 1 .. Len(q), NEW j \in 1 .. Len(q), i # j
       PROVE  HeldBy(q[i]) \cap HeldBy(q[j]) = {}
  <2>1. CASE i \in 1 .. n /\ j \in 1 .. n
    <3>1. HeldBy(s[i]) \cap HeldBy(s[j]) = {}
      BY <1>11, <2>1, Zenon DEF StackOK, n
    <3> QED
      BY <1>1, <2>1, <3>1
  <2>2. CASE i = n + 1 /\ j \in 1 .. n
    BY <1>1, <1>5, <2>2
  <2>3. CASE i \in 1 .. n /\ j = n + 1
    BY <1>1, <1>5, <2>3
  <2> QED
    BY <1>1, <1>11, <2>1, <2>2, <2>3
<1>12. ASSUME NEW d \in FDs \ UserFds
       PROVE  es[d] # Closed <=> \E i \in 1 .. Len(q) : d \in HeldBy(q[i])
  <2>1. (\E i \in 1 .. Len(q) : d \in HeldBy(q[i])) <=>
          (\E i \in 1 .. n : d \in HeldBy(s[i])) \/ d \in Captured(f)
    BY <1>1, <1>2
  <2> QED
    BY <1>2, <1>3, <2>1
<1> QED
  BY <1>10, <1>11, <1>12 DEF StackOK, es

(* The capture laid around a simple command. *)
LEMMA CaptureResult ==
  ASSUME RedirTypeOK, NEW c, c = BeginCapture(Table)
  PROVE  /\ c.table \in Tables
         /\ \/ c.cap = 0 /\ c.saved = 0 /\ c.table = Table
            \/ /\ c.cap \in FDs /\ c.saved \in FDs /\ c.cap # c.saved
               /\ fds[1] # Closed /\ fds[c.cap] = Closed /\ fds[c.saved] = Closed
               /\ \A d \in FDs : c.table.fds[d] = IF d \in {1, c.cap} THEN Cap
                                                 ELSE IF d = c.saved THEN fds[1] ELSE fds[d]
<1> DEFINE t == Table
           made == Open(t, Cap)
           cap == Min(Free(t, 1))
           saved == Min(Free(made, 1))
           table == [[made EXCEPT !.fds[saved] = t.fds[1]] EXCEPT !.fds[1] = Cap]
           can == capture /\ made.ok /\ Free(made, 1) # {} /\ IsOpen(t, 1)
<1>1. t \in Tables /\ t.ok /\ t.fds = fds /\ fds \in Descriptors
  BY TableType, TableFields
<1>2. c = IF can THEN [table |-> table, cap |-> cap, saved |-> saved]
                 ELSE [table |-> t, cap |-> 0, saved |-> 0]
  BY DEF BeginCapture
<1> HIDE DEF t
<1>3. CASE ~can
  <2> HIDE DEF can, table, cap, saved, made
  <2> QED
    BY <1>1, <1>2, <1>3 DEF t
<1>4. CASE can
  <2>1. Free(t, 1) # {}
    <3>1. Free(t, 1) = {} => made = Fail(t)
      BY DEF Open
    <3> QED
      BY <1>1, <1>4, <3>1, FailResult
  <2>2. cap \in FDs /\ t.fds[cap] = Closed
    BY <2>1, FreeFacts
  <2>3. made = [t EXCEPT !.fds[cap] = Cap]
    BY <2>1 DEF Open
  <2>4. c.table = table /\ c.cap = cap /\ c.saved = saved
    BY <1>2, <1>4
  <2>5. t.fds[1] # Closed /\ 1 \in FDs /\ Free(made, 1) # {}
    BY <1>4, FdFacts DEF IsOpen
  <2> HIDE DEF cap, made
  <2>6. saved \in FDs /\ made.fds[saved] = Closed
    BY <2>5, FreeFacts
  <2> HIDE DEF saved
  <2>7. made \in Tables /\ \A d \in FDs : made.fds[d] = IF d = cap THEN Cap ELSE t.fds[d]
    BY <1>1, <2>2, <2>3 DEF Tables, Descriptors
  <2>8. saved # cap /\ t.fds[saved] = Closed
    BY <2>2, <2>6, <2>7, FilesAssumption
  <2> DEFINE x == t.fds[1]
             half == [made EXCEPT !.fds[saved] = x]
  <2>9. x \in Files \union {Tty, Cap, Closed}
    BY <1>1, <2>5 DEF Descriptors
  <2> HIDE DEF x, table, can
  <2>10. half \in Tables /\ \A d \in FDs : half.fds[d] = IF d = saved THEN x ELSE made.fds[d]
    <3> DEFINE ds == [made.fds EXCEPT ![saved] = x]
    <3>1. ds \in Descriptors /\ \A d \in FDs : ds[d] = IF d = saved THEN x ELSE made.fds[d]
      BY <2>6, <2>7, <2>9, TableFields DEF Descriptors
    <3>2. half = [made EXCEPT !.fds = ds]
      OBVIOUS
    <3> HIDE DEF ds, half
    <3> QED
      BY <2>7, <3>1, <3>2 DEF Tables
  <2>11. table = [half EXCEPT !.fds[1] = Cap]
    BY DEF x, table
  <2> HIDE DEF half
  <2>12. table \in Tables /\ \A d \in FDs : table.fds[d] = IF d = 1 THEN Cap ELSE half.fds[d]
    BY <2>5, <2>10, <2>11 DEF Tables, Descriptors
  <2> HIDE DEF table
  <2>13. saved # 1 /\ cap # 1
    BY <2>2, <2>5, <2>8
  <2>14. \A d \in FDs : table.fds[d] = IF d \in {1, cap} THEN Cap
                                       ELSE IF d = saved THEN t.fds[1] ELSE t.fds[d]
    BY <2>7, <2>8, <2>10, <2>12, <2>13 DEF x
  <2> QED
    BY <1>1, <2>2, <2>4, <2>5, <2>6, <2>8, <2>12, <2>14
<1> QED
  BY <1>3, <1>4

\* What do_redirections of a new command finds, t, with its capture.
NewFrame(kind, cap, saved) ==
  [kind |-> kind, undo |-> <<>>, cap |-> cap, saved |-> saved, done |-> 0,
   before |-> fds, touched |-> {}, besides |-> {}]

LEMMA NewFrameBegins ==
  ASSUME RedirTypeOK, NEW kind \in Kinds, NEW cap \in FDs \union {0}, NEW saved \in FDs \union {0},
         \/ cap = 0 /\ saved = 0
         \/ /\ cap # 0 /\ saved # 0 /\ cap # saved
            /\ fds[1] # Closed /\ fds[cap] = Closed /\ fds[saved] = Closed
  PROVE  /\ Begins(NewFrame(kind, cap, saved), fds)
         /\ NewFrame(kind, cap, saved).cap = cap /\ NewFrame(kind, cap, saved).saved = saved
<1> DEFINE f == NewFrame(kind, cap, saved)
<1>1. /\ f.kind = kind /\ f.undo = <<>> /\ f.cap = cap /\ f.saved = saved /\ f.done = 0
      /\ f.before = fds /\ f.touched = {} /\ f.besides = {}
  BY DEF NewFrame
<1>2. f \in Frames
  <2>1. /\ <<>> \in Seq(Undos) /\ {} \in SUBSET UserFds /\ 0 \in 0 .. MaxRedirects
        /\ fds \in [FDs -> Files \union {Tty, Cap, Closed}]
    BY FdAssumption DEF RedirTypeOK
  <2> QED
    BY <2>1 DEF Frames, NewFrame
<1> HIDE DEF f
<1>3. CaptureOK(f)
  BY <1>1 DEF CaptureOK
<1> QED
  BY <1>1, <1>2, <1>3 DEF Begins, f, RedirTypeOK, Descriptors

LEMMA BeginKeeps ==
  ASSUME IInv, pc = "run", NEW kind \in Kinds, NEW t \in Tables,
         NEW cap \in FDs \union {0}, NEW saved \in FDs \union {0},
         \/ cap = 0 /\ saved = 0
         \/ /\ cap # 0 /\ saved # 0 /\ cap # saved
            /\ fds[1] # Closed /\ fds[cap] = Closed /\ fds[saved] = Closed,
         t.fds = Start(NewFrame(kind, cap, saved)),
         Begin(kind, t, cap, saved)
  PROVE  IInv' /\ Len(frames') >= Len(frames)
<1> DEFINE f == NewFrame(kind, cap, saved)
           v == [[t EXCEPT !.undo = <<>>] EXCEPT !.exec = <<>>]
           q == Append(frames, f)
<1>1. Begins(f, fds) /\ f.cap = cap /\ f.saved = saved /\ t.fds = Start(f)
  BY NewFrameBegins DEF IInv
<1>2. v \in Tables /\ v.fds = t.fds /\ v.undo = <<>> /\ v.exec = <<>>
  <2>1. <<>> \in Seq(Undos)
    OBVIOUS
  <2> QED
    BY <2>1 DEF Tables
<1>3. Becomes(v) /\ frames' = q /\ pc' = "apply" /\ Quiet
  BY DEF Begin, NewFrame
<1> HIDE DEF v
<1>4. /\ fds' = Start(f) /\ fds' \in Descriptors /\ clexec' \in SUBSET FDs
      /\ redirection_undo_list' = <<>> /\ exec_redirection_undo_list' = <<>>
  BY <1>1, <1>2, <1>3, TableFields DEF Becomes
<1>5. f \in Frames /\ f.undo = <<>>
  BY <1>1 DEF Begins
<1>6. frames \in Seq(Frames)
  BY DEF IInv, RedirTypeOK
<1> HIDE DEF f
<1>7. /\ q \in Seq(Frames) /\ q # <<>> /\ Len(frames) \in Nat /\ Len(q) = Len(frames) + 1
      /\ \A k \in 1 .. Len(frames) : q[k] = frames[k]
      /\ q[Len(frames) + 1] = f /\ Last(q) = f /\ Front(q) = frames
  BY <1>5, <1>6, PushTop
<1>8. Pushed(frames, f, q)
  BY <1>5, <1>6, <1>7 DEF Pushed
<1>9. Top' = f
  BY <1>3, <1>7 DEF Top
<1> HIDE DEF q
<1>10. Stack' = q
  <2>1. [f EXCEPT !.undo = <<>>] = f
    <3>1. f = [f EXCEPT !.undo = f.undo]
      BY <1>5 DEF Frames
    <3> QED
      BY <1>5, <3>1
  <2>2. Stack' = Append(Front(frames'), [Top' EXCEPT !.undo = redirection_undo_list'])
    BY <1>3 DEF Stack
  <2>3. Stack' = Append(frames, f)
    BY <1>3, <1>4, <1>7, <1>9, <2>1, <2>2
  <2> QED
    BY <2>3 DEF q
<1>11. RedirTypeOK'
  <2>1. <<>> \in Seq(Undos)
    OBVIOUS
  <2> QED
    BY <1>3, <1>4, <1>7, <2>1 DEF IInv, RedirTypeOK, Quiet, Descriptors
<1>12. ControlInv'
  <2>1. f.cap = 0 <=> f.saved = 0
    BY <1>1 DEF Begins, CaptureOK
  <2>2. ASSUME NEW i \in 1 .. Len(q) PROVE q[i].cap = 0 <=> q[i].saved = 0
    <3>1. CASE i \in 1 .. Len(frames)
      BY <1>7, <3>1 DEF IInv, ControlInv
    <3>2. CASE i = Len(frames) + 1
      BY <1>7, <2>1, <3>2
    <3> QED
      BY <1>7, <3>1, <3>2
  <2> QED
    BY <1>3, <1>4, <1>5, <1>7, <1>9, <2>2 DEF ControlInv
<1>13. ExecInv'
  <2>1. ClosesCopies(<<>>, <<>>)
    BY DEF ClosesCopies
  <2> QED
    BY <1>3, <1>4, <2>1 DEF ExecInv
<1>14. FreshInv'
  BY <1>4, <1>9 DEF FreshInv
<1>15. (~tangled => StackOK(Stack, fds))'
  <2>1. SUFFICES ASSUME ~tangled PROVE StackOK(q, Start(f))
    BY <1>3, <1>4, <1>10 DEF Quiet
  <2>2. Stack = frames /\ StackOK(frames, fds)
    BY <2>1 DEF Stack, IInv
  <2> QED
    BY <1>1, <1>8, <2>2, PushOK
<1> QED
  BY <1>3, <1>7, <1>11, <1>12, <1>13, <1>14, <1>15 DEF IInv

LEMMA PlainStarts ==
  ASSUME IInv, pc = "run", NEW kind \in Kinds, Begin(kind, Table, 0, 0)
  PROVE  IInv' /\ Len(frames') >= Len(frames)
<1> DEFINE f == NewFrame(kind, 0, 0)
           t == Table
<1>1. t \in Tables /\ t.fds = fds /\ fds \in Descriptors
  BY TableType, TableFields DEF IInv
<1>2. t.fds = Start(f)
  <2>1. f.cap = 0 /\ f.before = fds
    BY DEF NewFrame
  <2> HIDE DEF f
  <2>2. \A d \in FDs : Start(f)[d] = fds[d]
    BY <2>1 DEF Start
  <2>3. Start(f) = [d \in FDs |-> Start(f)[d]]
    BY DEF Start
  <2> QED
    BY <1>1, <2>2, <2>3 DEF Descriptors
<1>3. Begin(kind, t, 0, 0) /\ 0 \in FDs \union {0}
  OBVIOUS
<1> HIDE DEF t
<1> QED
  BY <1>1, <1>2, <1>3, BeginKeeps

LEMMA SimpleStartsKeeps ==
  ASSUME IInv, SimpleStarts
  PROVE  IInv' /\ Len(frames') >= Len(frames)
<1> DEFINE c == BeginCapture(Table)
<1>1. PICK kind \in {"simple", "exec"} : Begin(kind, c.table, c.cap, c.saved)
  BY DEF SimpleStarts
<1>2. pc = "run" /\ kind \in Kinds
  BY DEF SimpleStarts, Kinds
<1>3. /\ c.table \in Tables
      /\ \/ c.cap = 0 /\ c.saved = 0 /\ c.table = Table
         \/ /\ c.cap \in FDs /\ c.saved \in FDs /\ c.cap # c.saved
            /\ fds[1] # Closed /\ fds[c.cap] = Closed /\ fds[c.saved] = Closed
            /\ \A d \in FDs : c.table.fds[d] = IF d \in {1, c.cap} THEN Cap
                                              ELSE IF d = c.saved THEN fds[1] ELSE fds[d]
  BY CaptureResult DEF IInv
<1> HIDE DEF c
<1>4. CASE c.cap = 0
  <2>1. c.saved = 0 /\ c.table = Table
    BY <1>3, <1>4, FdFacts
  <2> QED
    BY <1>1, <1>2, <1>4, <2>1, PlainStarts
<1>5. CASE c.cap # 0
  <2> DEFINE t == c.table
             cap == c.cap
             saved == c.saved
             f == NewFrame(kind, cap, saved)
  <2>1. /\ t \in Tables /\ t.fds \in Descriptors /\ Begin(kind, t, cap, saved)
        /\ cap \in FDs /\ saved \in FDs /\ cap # saved /\ cap # 0 /\ saved # 0
        /\ fds[1] # Closed /\ fds[cap] = Closed /\ fds[saved] = Closed
        /\ \A d \in FDs : t.fds[d] = IF d \in {1, cap} THEN Cap
                                     ELSE IF d = saved THEN fds[1] ELSE fds[d]
    BY <1>1, <1>3, <1>5, TableFields, FdFacts
  <2> HIDE DEF t, cap, saved
  <2>2. t.fds = Start(f)
    <3>1. f.cap = cap /\ f.saved = saved /\ f.before = fds
      BY DEF NewFrame
    <3> HIDE DEF f
    <3>2. \A d \in FDs : Start(f)[d] = t.fds[d]
      BY <2>1, <3>1 DEF Start
    <3>3. Start(f) = [d \in FDs |-> Start(f)[d]]
      BY DEF Start
    <3> QED
      BY <2>1, <3>2, <3>3 DEF Descriptors
  <2>3. cap \in FDs \union {0} /\ saved \in FDs \union {0}
    BY <2>1
  <2> QED
    BY <1>2, <2>1, <2>2, <2>3, BeginKeeps
<1> QED
  BY <1>4, <1>5

-----------------------------------------------------------------------------
(* The list is done.                                                        *)

LEMMA RedirectsDoneKeeps ==
  ASSUME IInv, RedirectsDone
  PROVE  IInv' /\ Len(frames') >= Len(frames)
<1> DEFINE e == [Top EXCEPT !.undo = saved_undo_list]
           q == Append(Front(frames), e)
<1>1. /\ pc = "apply" /\ frames' = q /\ fds' = fds /\ clexec' = clexec
      /\ redirection_undo_list' = IF Top.kind = "exec" THEN redirection_undo_list ELSE <<>>
      /\ exec_redirection_undo_list' = <<>>
      /\ pc' = IF Top.kind = "exec" THEN "exec" ELSE "run"
      /\ Quiet
  BY DEF RedirectsDone
<1>2. frames # <<>>
  BY <1>1, RedirectingStack
<1>3. Top \in Frames /\ frames \in Seq(Frames) /\ frames[Len(frames)] = Top
  BY <1>2, StackFacts DEF IInv, RedirTypeOK
<1>4. /\ redirection_undo_list \in Seq(Undos) /\ exec_redirection_undo_list \in Seq(Undos)
      /\ saved_undo_list \in Seq(Undos) /\ <<>> \in Seq(Undos)
  BY DEF IInv, RedirTypeOK, saved_undo_list
<1>5. e \in Frames /\ e.undo = saved_undo_list /\ SameBut(Top, e)
  BY <1>3, <1>4, WithUndo
<1> HIDE DEF e
<1>6. /\ q \in Seq(Frames) /\ q # <<>> /\ Len(frames) \in Nat \ {0} /\ Len(q) = Len(frames)
      /\ \A k \in 1 .. Len(frames) - 1 : q[k] = frames[k]
      /\ q[Len(frames)] = e /\ Last(q) = e /\ Front(q) = Front(frames)
  BY <1>2, <1>3, <1>5, ReplaceTop
<1> HIDE DEF q
<1>7. Top' = e
  BY <1>1, <1>6 DEF Top
<1>8. Stack = Append(Front(frames), [Top EXCEPT !.undo = redirection_undo_list])
  BY <1>1 DEF Stack
<1>9. Stack' = Stack
  <2>1. CASE Top.kind # "exec"
    <3>1. Stack' = q
      BY <1>1, <2>1 DEF Stack
    <3>2. saved_undo_list = redirection_undo_list
      BY <2>1 DEF saved_undo_list
    <3> QED
      BY <1>8, <3>1, <3>2 DEF q, e
  <2>2. CASE Top.kind = "exec"
    <3>1. Stack' = Append(Front(q), [e EXCEPT !.undo = redirection_undo_list])
      BY <1>1, <1>7, <2>2 DEF Stack
    <3>2. [e EXCEPT !.undo = redirection_undo_list] = [Top EXCEPT !.undo = redirection_undo_list]
      BY <1>3, <1>4 DEF e, Frames
    <3> QED
      BY <1>6, <1>8, <3>1, <3>2
  <2> QED
    BY <2>1, <2>2
<1>10. RedirTypeOK'
  BY <1>1, <1>4, <1>6 DEF IInv, RedirTypeOK, Quiet
<1>11. ControlInv'
  <2>1. ASSUME NEW i \in 1 .. Len(q) PROVE q[i].cap = 0 <=> q[i].saved = 0
    <3>1. \A k \in 1 .. Len(frames) : frames[k].cap = 0 <=> frames[k].saved = 0
      BY DEF IInv, ControlInv
    <3>2. CASE i \in 1 .. Len(frames) - 1
      <4>1. i \in 1 .. Len(frames)
        BY <1>6, <3>2
      <4> QED
        BY <1>6, <3>1, <3>2, <4>1
    <3>3. CASE i = Len(frames)
      <4>1. Top.cap = 0 <=> Top.saved = 0
        BY <1>3, <1>6, <3>1, <3>3
      <4> QED
        BY <1>5, <1>6, <3>3, <4>1 DEF SameBut
    <3> QED
      BY <1>6, <3>2, <3>3
  <2> QED
    BY <1>1, <1>5, <1>6, <1>7, <2>1 DEF ControlInv, SameBut
<1>12. ExecInv'
  <2>1. SUFFICES ASSUME ~tangled, Top.kind = "exec"
                 PROVE  ClosesCopies(e.undo, redirection_undo_list)
    BY <1>1, <1>7 DEF ExecInv, Quiet
  <2>2. e.undo = exec_redirection_undo_list
    BY <1>5, <2>1 DEF saved_undo_list
  <2> QED
    BY <1>1, <2>1, <2>2 DEF IInv, ExecInv
<1>13. FreshInv'
  <2>1. Start(e) = Start(Top) /\ e.touched = Top.touched /\ e.besides = Top.besides
    BY <1>5, SameFrame DEF SameBut
  <2> QED
    BY <1>1, <1>7, <2>1 DEF IInv, FreshInv, Quiet
<1>14. (~tangled => StackOK(Stack, fds))'
  BY <1>1, <1>9 DEF IInv, Quiet
<1> QED
  BY <1>1, <1>6, <1>10, <1>11, <1>12, <1>13, <1>14 DEF IInv

-----------------------------------------------------------------------------
(* One more redirection of the list.                                        *)

LEMMA DoneBound ==
  ASSUME RedirTypeOK, frames # <<>>, More
  PROVE  Top.done + 1 \in 0 .. MaxRedirects
<1> DEFINE N == Len(frames)
           Is(g) == g = [n \in 0 .. N |-> IF n = 0 THEN 0 ELSE g[n - 1] + frames[n].done]
           done == CHOOSE h : Is(h)
           F == [n \in 1 .. N |-> [x \in Nat |-> x + frames[n].done]]
<1>1. N \in Nat \ {0} /\ frames[N] = Top /\ \A n \in 1 .. N : frames[n].done \in Nat
  <2>1. frames \in Seq(Frames)
    BY DEF RedirTypeOK
  <2>2. \A n \in 1 .. N : frames[n] \in Frames
    BY <2>1, ElementOfSeq
  <2>3. \A n \in 1 .. N : frames[n].done \in 0 .. MaxRedirects
    BY <2>2, FrameFields
  <2>4. \A x \in 0 .. MaxRedirects : x \in Nat
    BY FdAssumption
  <2> QED
    BY <2>3, <2>4, StackFacts
<1>2. F \in [1 .. N -> [Nat -> Nat]] /\ \A x \in Nat, n \in 1 .. N : F[n][x] = x + frames[n].done
  <2>1. \A x \in Nat, n \in 1 .. N : x + frames[n].done \in Nat
    BY <1>1
  <2> QED
    BY <2>1
<1> HIDE DEF F
<1>3. PICK g : Iterates(g, Nat, 0, N, F)
  <2> HIDE DEF N
  <2> QED
    BY <1>1, <1>2, IterationExists
<1>4. g \in [0 .. N -> Nat] /\ g[0] = 0 /\ \A n \in 1 .. N : g[n] = g[n - 1] + frames[n].done
  <2>1. g \in [0 .. N -> Nat] /\ g[0] = 0 /\ \A n \in 1 .. N : g[n] = F[n][g[n - 1]]
    BY <1>3 DEF Iterates
  <2>2. ASSUME NEW n \in 1 .. N PROVE g[n] = g[n - 1] + frames[n].done
    <3>1. g[n - 1] \in Nat
      BY <1>1, <2>1
    <3> QED
      BY <1>2, <2>1, <3>1
  <2> QED
    BY <2>1, <2>2
<1>5. Is(g)
  <2>1. \A n \in 0 .. N : n = 0 \/ n \in 1 .. N
    BY <1>1
  <2>2. \A n \in 0 .. N : g[n] = IF n = 0 THEN 0 ELSE g[n - 1] + frames[n].done
    BY <1>4, <2>1
  <2> HIDE DEF N
  <2> QED
    BY <1>4, <2>2
<1>6. Is(done)
  BY <1>5
<1>7. Done = done[N]
  BY Zenon DEF Done
<1> HIDE DEF done
<1>8. done[0] = 0 /\ \A n \in 1 .. N : done[n] = done[n - 1] + frames[n].done
  BY <1>1, <1>6
<1>9. \A n \in 0 .. N : done[n] \in Nat
  <2> DEFINE S == {n \in Nat : n <= N => done[n] \in Nat}
  <2>1. 0 \in S
    BY <1>8
  <2>2. ASSUME NEW n \in Nat, n \in S PROVE n + 1 \in S
    <3> SUFFICES ASSUME n + 1 <= N PROVE done[n + 1] \in Nat
      OBVIOUS
    <3>1. n + 1 \in 1 .. N /\ (n + 1) - 1 = n /\ n <= N
      BY <1>1
    <3>2. done[n + 1] = done[n] + frames[n + 1].done /\ frames[n + 1].done \in Nat
      BY <1>1, <1>8, <3>1
    <3>3. done[n] \in Nat
      BY <2>2, <3>1
    <3> QED
      BY <3>2, <3>3
  <2>3. \A n \in Nat : n \in S
    <3> HIDE DEF S
    <3> QED
      BY <2>1, <2>2, NatSetInduction
  <2> QED
    BY <1>1, <2>3
<1>10. done[N] = done[N - 1] + Top.done /\ done[N - 1] \in Nat /\ Top.done \in Nat
  <2>1. N \in 1 .. N /\ N - 1 \in 0 .. N
    BY <1>1
  <2> QED
    BY <1>1, <1>8, <1>9, <2>1
<1>11. done[N] < MaxRedirects
  BY <1>7 DEF More
<1> HIDE DEF N
<1> QED
  BY <1>10, <1>11, FdAssumption

LEMMA AssignedNumbers ==
  ASSUME NEW r \in RedirectKinds, NEW u
  PROVE  /\ Assigns(r) \union (Besides(r) \ Uncovered(r, u)) \in SUBSET UserFds
         /\ Uncovered(r, u) \in SUBSET UserFds
<1>1. /\ r.to \in UserFds /\ (r.ri \in {"dup", "move", "close"} => r.from \in UserFds)
      /\ r.ri \in {"open", "dup", "move", "close", "both"}
  BY KindFacts, FdFacts
<1>2. Assigns(r) \in SUBSET UserFds
  BY <1>1 DEF Assigns
<1>3. Besides(r) \in SUBSET UserFds
  BY <1>1, FdFacts DEF Besides
<1>4. Uncovered(r, u) \in SUBSET UserFds
  BY <1>3 DEF Uncovered
<1> QED
  BY <1>2, <1>3, <1>4

\* h is f after a redirection that assigns D, and X without a way back.
Grown(f, h, D, X) ==
  /\ h \in Frames /\ h.undo = f.undo /\ h.kind = f.kind /\ h.done = f.done + 1
  /\ h.cap = f.cap /\ h.saved = f.saved /\ h.before = f.before
  /\ h.touched = f.touched \union D /\ h.besides = f.besides \union X

LEMMA RedirectedFrame ==
  ASSUME NEW f \in Frames, f.done + 1 \in 0 .. MaxRedirects, NEW r \in RedirectKinds, NEW u
  PROVE  Grown(f, Redirected(f, r, u), Assigns(r) \union (Besides(r) \ Uncovered(r, u)),
               Uncovered(r, u))
<1> DEFINE D == Assigns(r) \union (Besides(r) \ Uncovered(r, u))
           X == Uncovered(r, u)
           T2 == (f.touched \union Assigns(r)) \union (Besides(r) \ X)
           B2 == f.besides \union X
           h == Redirected(f, r, u)
<1>1. D \in SUBSET UserFds /\ X \in SUBSET UserFds
  BY AssignedNumbers
<1>2. T2 = f.touched \union D
  OBVIOUS
<1>3. f.touched \in SUBSET UserFds /\ f.besides \in SUBSET UserFds
  BY FrameFields
<1>4. T2 \in SUBSET UserFds /\ B2 \in SUBSET UserFds
  BY <1>1, <1>2, <1>3
<1>5. h = [f EXCEPT !.done = @ + 1, !.touched = T2, !.besides = B2]
  BY DEF Redirected
<1> HIDE DEF D, T2, B2, h
<1>6. /\ h \in Frames /\ h.undo = f.undo /\ h.kind = f.kind /\ h.done = f.done + 1
      /\ h.cap = f.cap /\ h.saved = f.saved /\ h.before = f.before
      /\ h.touched = T2 /\ h.besides = B2
  BY <1>4, <1>5 DEF Frames
<1> QED
  BY <1>2, <1>6 DEF D, h, B2, Grown

\* q is s after a redirection of its top that assigns D, and X without a way back.
Grows(s, q, D, X) ==
  /\ s \in Seq(Frames) /\ q \in Seq(Frames) /\ Len(s) \in Nat \ {0} /\ Len(q) = Len(s)
  /\ \A k \in 1 .. Len(s) - 1 : q[k] = s[k]
  /\ LET f == s[Len(s)]
         h == q[Len(s)]
     IN /\ h.cap = f.cap /\ h.saved = f.saved /\ h.before = f.before
        /\ h.touched = f.touched \union D /\ h.besides = f.besides \union X
  /\ D \in SUBSET UserFds /\ X \in SUBSET UserFds

\* Copies that were open are as they were, and so is what was not assigned.
Kept(ds, es, D, X) ==
  /\ es \in Descriptors
  /\ \A d \in FDs \ UserFds : ds[d] # Closed => es[d] = ds[d]
  /\ \A d \in UserFds \ (D \union X) : es[d] = ds[d]

\* What f has not touched is as at its start.
Fresh(f, ds) == \A d \in UserFds \ (f.touched \union f.besides) : ds[d] = Start(f)[d]

LEMMA GrowsFacts ==
  ASSUME NEW s, NEW q, NEW D, NEW X, Grows(s, q, D, X), NEW i \in 1 .. Len(s)
  PROVE  /\ s[i] \in Frames /\ q[i] \in Frames
         /\ q[i].cap = s[i].cap /\ q[i].saved = s[i].saved /\ q[i].before = s[i].before
         /\ q[i].touched = s[i].touched \union (IF i = Len(s) THEN D ELSE {})
         /\ q[i].besides = s[i].besides \union (IF i = Len(s) THEN X ELSE {})
         /\ Captured(q[i]) = Captured(s[i]) /\ Start(q[i]) = Start(s[i])
         /\ Assigned(q[i]) = Assigned(s[i]) \union (IF i = Len(s) THEN D ELSE {})
         /\ i < Len(s) => q[i] = s[i]
<1>1. s[i] \in Frames /\ q[i] \in Frames
  BY ElementOfSeq DEF Grows
<1>2. CASE i = Len(s)
  <2> DEFINE f == s[i]
             h == q[i]
  <2>1. /\ h.cap = f.cap /\ h.saved = f.saved /\ h.before = f.before
        /\ h.touched = f.touched \union D /\ h.besides = f.besides \union X
    BY <1>2 DEF Grows
  <2> HIDE DEF f, h
  <2>2. Captured(h) = Captured(f)
    BY <2>1 DEF Captured
  <2>3. Start(h) = Start(f)
    BY <2>1, Zenon DEF Start
  <2>4. Assigned(h) = Assigned(f) \union D
    BY <2>1 DEF Assigned
  <2> QED
    BY <1>1, <1>2, <2>1, <2>2, <2>3, <2>4 DEF f, h
<1>3. CASE i < Len(s)
  <2>1. q[i] = s[i] /\ i # Len(s)
    BY <1>3 DEF Grows
  <2>2. \A S : S \union {} = S
    OBVIOUS
  <2> QED
    BY <1>1, <2>1, <2>2
<1> QED
  BY <1>2, <1>3 DEF Grows

LEMMA SavedGrows ==
  ASSUME NEW s, NEW q, NEW D, NEW X, Grows(s, q, D, X), NEW i \in 1 .. Len(s),
         NEW ds, NEW es, StackOK(s, ds), Kept(ds, es, D, X), Fresh(s[Len(s)], ds),
         s[i].cap # 0, s[i].saved \notin X
  PROVE  SavedOK(q, i, es)
<1> DEFINE n == Len(s)
           d == s[i].saved
           f == s[n]
           h == q[n]
<1>1. /\ n \in Nat \ {0} /\ Len(q) = n /\ n \in 1 .. n /\ n \in i .. n /\ i <= n
      /\ \A j \in i .. n : j \in 1 .. n /\ j <= n
      /\ D \in SUBSET UserFds
  BY DEF Grows
<1>2. CaptureOK(s[i]) /\ SavedOK(s, i, ds) /\ s[i] \in Frames
  BY GrowsFacts, Zenon DEF StackOK
<1>3. d \in FDs /\ d # 0 /\ q[i].saved = d /\ q[i].before = s[i].before
  BY <1>2, CaptureFacts, GrowsFacts
<1>4. /\ \A j \in i .. n : d \notin s[j].besides
      /\ Inside(s, i) = {} => ds[d] = s[i].before[1]
      /\ \A m \in Inside(s, i) :
           (\A j \in Inside(s, i) : m <= j) => m = i \/ s[m].before[d] = s[i].before[1]
  BY <1>2 DEF SavedOK
<1>5. \A j \in i .. n : /\ q[j].before = s[j].before
                        /\ q[j].touched = s[j].touched \union (IF j = n THEN D ELSE {})
                        /\ q[j].besides = s[j].besides \union (IF j = n THEN X ELSE {})
                        /\ Assigned(q[j]) = Assigned(s[j]) \union (IF j = n THEN D ELSE {})
  BY <1>1, GrowsFacts
<1>6. \A j : j \in Inside(q, i) <=> j \in Inside(s, i) \/ (j = n /\ d \in D)
  BY <1>1, <1>3, <1>5 DEF Inside
<1>7. Inside(s, i) \subseteq i .. n
  BY DEF Inside
<1>8. d \notin D => es[d] = ds[d]
  <2>1. CASE d \in UserFds
    BY <2>1 DEF Kept
  <2>2. CASE d \notin UserFds
    <3>1. d \in HeldBy(s[i])
      BY <1>3, <2>2 DEF HeldBy, Captured
    <3>2. ds[d] # Closed
      BY <1>3, <2>2, <3>1 DEF StackOK
    <3> QED
      BY <1>3, <2>2, <3>2 DEF Kept
  <2> QED
    BY <2>1, <2>2
<1>9. ASSUME d \in D, Inside(s, i) = {}, i # n PROVE s[n].before[d] = s[i].before[1]
  <2>1. d \in UserFds
    BY <1>1, <1>9
  <2>2. d \notin Assigned(f) /\ d \notin f.touched
    <3>1. n \notin Inside(s, i)
      BY <1>9
    <3> QED
      BY <1>1, <1>9, <3>1 DEF Inside
  <2>3. d \notin f.besides
    BY <1>1, <1>4
  <2>4. ds[d] = Start(f)[d]
    BY <2>1, <2>2, <2>3 DEF Fresh
  <2>5. Start(f)[d] = f.before[d]
    BY <1>3, <2>2 DEF Start, Assigned
  <2> QED
    BY <1>4, <1>9, <2>4, <2>5
<1> HIDE DEF n, d
<1>10. \A j \in i .. Len(q) : q[i].saved \notin q[j].besides
  BY <1>1, <1>3, <1>4, <1>5 DEF d
<1>11. ASSUME Inside(q, i) = {} PROVE es[q[i].saved] = q[i].before[1]
  <2>1. Inside(s, i) = {} /\ d \notin D
    BY <1>6, <1>11
  <2> QED
    BY <1>3, <1>4, <1>8, <2>1
<1>12. ASSUME NEW m \in Inside(q, i), \A j \in Inside(q, i) : m <= j
       PROVE  m = i \/ q[m].before[q[i].saved] = q[i].before[1]
  <2>1. CASE m \in Inside(s, i)
    <3>1. \A j \in Inside(s, i) : m <= j
      BY <1>6, <1>12
    <3>2. m = i \/ s[m].before[d] = s[i].before[1]
      BY <1>4, <2>1, <3>1
    <3>3. q[m].before = s[m].before
      BY <1>5, <1>7, <2>1
    <3> QED
      BY <1>3, <3>2, <3>3
  <2>2. CASE m \notin Inside(s, i)
    <3>1. m = n /\ d \in D
      BY <1>6, <2>2
    <3>2. Inside(s, i) = {}
      <4> SUFFICES ASSUME NEW j \in Inside(s, i) PROVE FALSE
        OBVIOUS
      <4>1. j \in i .. n /\ n <= j
        BY <1>6, <1>7, <1>12, <3>1
      <4>2. j = n
        BY <1>1, <4>1
      <4> QED
        BY <2>2, <3>1, <4>2
    <3>3. q[m].before = s[n].before
      BY <1>1, <1>5, <3>1
    <3> QED
      BY <1>3, <1>9, <3>1, <3>2, <3>3
  <2> QED
    BY <2>1, <2>2
<1> QED
  BY <1>10, <1>11, <1>12 DEF SavedOK

\* The numbers for copies that the commands of s hold, but for the list on top.
HeldBelow(s) ==
  {d \in FDs : \/ \E i \in 1 .. Len(s) - 1 : d \in HeldBy(s[i])
               \/ d \in Captured(s[Len(s)])}

LEMMA RedirectOK ==
  ASSUME NEW s, NEW q, NEW D, NEW X, Grows(s, q, D, X), NEW n, n = Len(s),
         NEW ds, NEW es, StackOK(s, ds), Kept(ds, es, D, X), Fresh(s[n], ds),
         \A i \in 1 .. n : s[i].cap # 0 => s[i].saved \notin X,
         WellFormed(q[n].undo), Restores(q[n], q[n].undo, es),
         Numbers(q[n].undo) \cap HeldBelow(s) = {},
         \A d \in FDs \ UserFds : es[d] # Closed <=> d \in HeldBelow(s) \union Numbers(q[n].undo)
  PROVE  StackOK(q, es)
<1> DEFINE list == q[n].undo
<1>1. /\ n \in Nat \ {0} /\ Len(q) = n /\ n \in 1 .. n
      /\ \A i : i \in 1 .. n <=> i \in 1 .. n - 1 \/ i = n
      /\ \A i \in 1 .. n - 1 : i # n /\ i < n
  BY DEF Grows
<1>2. ASSUME NEW i \in 1 .. n
      PROVE  /\ s[i] \in Frames /\ q[i] \in Frames /\ q[i].cap = s[i].cap /\ q[i].saved = s[i].saved
             /\ q[i].before = s[i].before
             /\ Captured(q[i]) = Captured(s[i]) /\ (i < n => q[i] = s[i])
             /\ CaptureOK(s[i])
             /\ WellFormed(s[i].undo) /\ Restores(s[i], s[i].undo, ds)
             /\ Numbers(s[i].undo) \cap Captured(s[i]) = {}
  <2>1. /\ CaptureOK(s[i]) /\ WellFormed(s[i].undo) /\ Restores(s[i], s[i].undo, ds)
        /\ Numbers(s[i].undo) \cap Captured(s[i]) = {}
    BY Zenon DEF StackOK
  <2> QED
    BY <2>1, GrowsFacts
<1>3. ASSUME NEW i \in 1 .. n PROVE HeldBy(s[i]) \subseteq FDs \ UserFds
  <2>1. Numbers(s[i].undo) \subseteq FDs \ UserFds
    BY <1>2, FrameFields, EntriesOf
  <2>2. Captured(s[i]) \subseteq FDs \ UserFds
    BY <1>2, FrameFields DEF Captured
  <2> QED
    BY <2>1, <2>2 DEF HeldBy
<1>4. \A d \in FDs : d \in HeldBelow(s) <=> \/ \E i \in 1 .. n - 1 : d \in HeldBy(s[i])
                                            \/ d \in Captured(s[n])
  BY DEF HeldBelow
<1>5. \A d \in FDs \ UserFds : ds[d] # Closed <=> \E i \in 1 .. n : d \in HeldBy(s[i])
  BY DEF StackOK
<1>6. HeldBy(q[n]) = Numbers(list) \union Captured(s[n])
  BY <1>1, <1>2 DEF HeldBy
<1>7. \A d \in Captured(s[n]) : d \in HeldBelow(s)
  <2>1. Captured(s[n]) \subseteq FDs
    BY <1>1, <1>2, FrameFields DEF Captured
  <2> QED
    BY <1>4, <2>1
<1>8. Numbers(list) \cap Captured(q[n]) = {}
  BY <1>1, <1>2, <1>7
<1> HIDE DEF list
<1>9. ASSUME NEW i \in 1 .. n - 1 PROVE Restores(q[i], q[i].undo, es)
  <2>1. i \in 1 .. n /\ q[i] = s[i]
    BY <1>1, <1>2
  <2>2. \A d \in Numbers(s[i].undo) : es[d] = ds[d]
    <3> SUFFICES ASSUME NEW d \in Numbers(s[i].undo) PROVE es[d] = ds[d]
      OBVIOUS
    <3>1. d \in HeldBy(s[i]) /\ d \in FDs \ UserFds
      BY <1>3, <2>1 DEF HeldBy
    <3>2. ds[d] # Closed
      BY <1>5, <2>1, <3>1
    <3> QED
      BY <3>1, <3>2 DEF Kept
  <2> DEFINE h == s[i]
  <2>3. h \in Frames /\ WellFormed(h.undo) /\ Restores(h, h.undo, ds)
    BY <1>2, <2>1
  <2>4. \A d \in Numbers(h.undo) : es[d] = ds[d]
    BY <2>2
  <2> HIDE DEF h
  <2>5. Restores(h, h.undo, es)
    BY <2>3, <2>4, RestoresKept
  <2> QED
    BY <2>1, <2>5 DEF h
<1>10. ASSUME NEW i \in 1 .. n, q[i].cap # 0 PROVE SavedOK(q, i, es)
  <2>1. s[i].cap # 0 /\ s[i].saved \notin X
    BY <1>2, <1>10
  <2> QED
    BY <2>1, SavedGrows
<1>11. ASSUME NEW i \in 1 .. Len(q)
       PROVE  /\ WellFormed(q[i].undo)
              /\ Numbers(q[i].undo) \cap Captured(q[i]) = {}
              /\ Restores(q[i], q[i].undo, es)
              /\ CaptureOK(q[i])
              /\ q[i].cap # 0 => SavedOK(q, i, es)
  <2>1. i \in 1 .. n
    BY <1>1
  <2>2. CaptureOK(q[i])
    BY <1>2, <2>1 DEF CaptureOK
  <2>3. CASE i \in 1 .. n - 1
    <3>1. q[i] = s[i]
      BY <1>1, <1>2, <2>1, <2>3
    <3> QED
      BY <1>2, <1>9, <1>10, <2>1, <2>2, <2>3, <3>1
  <2>4. CASE i = n
    BY <1>8, <1>10, <2>1, <2>2, <2>4 DEF list
  <2> QED
    BY <1>1, <2>1, <2>3, <2>4
<1>12. ASSUME NEW i \in 1 .. n - 1 PROVE HeldBy(q[i]) \cap HeldBy(q[n]) = {}
  <2>1. i \in 1 .. n /\ i # n /\ q[i] = s[i]
    BY <1>1, <1>2
  <2>2. HeldBy(s[i]) \cap HeldBy(s[n]) = {}
    BY <1>1, <2>1, Zenon DEF StackOK
  <2>3. HeldBy(s[i]) \cap Captured(s[n]) = {}
    BY <2>2 DEF HeldBy
  <2>4. \A d \in HeldBy(s[i]) : d \in HeldBelow(s)
    BY <1>3, <1>4, <2>1
  <2>5. HeldBy(s[i]) \cap Numbers(list) = {}
    BY <2>4 DEF list
  <2> QED
    BY <1>6, <2>1, <2>3, <2>5
<1>13. ASSUME NEW i \in 1 .. Len(q), NEW j \in 1 .. Len(q), i # j
       PROVE  HeldBy(q[i]) \cap HeldBy(q[j]) = {}
  <2>1. CASE i \in 1 .. n - 1 /\ j \in 1 .. n - 1
    <3>1. q[i] = s[i] /\ q[j] = s[j] /\ i \in 1 .. n /\ j \in 1 .. n
      BY <1>1, <1>2, <2>1
    <3>2. HeldBy(s[i]) \cap HeldBy(s[j]) = {}
      BY <1>13, <3>1, Zenon DEF StackOK
    <3> QED
      BY <3>1, <3>2
  <2>2. CASE i = n /\ j \in 1 .. n - 1
    BY <1>12, <2>2
  <2>3. CASE i \in 1 .. n - 1 /\ j = n
    BY <1>12, <2>3
  <2> QED
    BY <1>1, <1>13, <2>1, <2>2, <2>3
<1>14. ASSUME NEW d \in FDs \ UserFds
       PROVE  es[d] # Closed <=> \E i \in 1 .. Len(q) : d \in HeldBy(q[i])
  <2>1. (\E i \in 1 .. n : d \in HeldBy(q[i])) <=>
          (\E i \in 1 .. n - 1 : d \in HeldBy(s[i])) \/ d \in HeldBy(q[n])
    BY <1>1, <1>2
  <2>2. es[d] # Closed <=> d \in HeldBelow(s) \union Numbers(list)
    BY DEF list
  <2> QED
    BY <1>1, <1>4, <1>6, <2>1, <2>2
<1> QED
  BY <1>11, <1>13, <1>14 DEF StackOK

LEMMA OthersBelow ==
  ASSUME IInv, frames # <<>>
  PROVE  Others = HeldBelow(Stack)
<1> DEFINE n == Len(frames)
<1>1. /\ Len(Stack) = n /\ \A k \in 1 .. n - 1 : Stack[k] = frames[k]
      /\ SameBut(Top, Stack[n])
  BY StackFacts DEF IInv
<1>2. Captured(Stack[n]) = Captured(Top)
  BY <1>1, SameFrame
<1> HIDE DEF n
<1>3. \A d : d \in Others <=> d \in HeldBelow(Stack)
  BY <1>1, <1>2 DEF Others, HeldBelow, n
<1> QED
  BY <1>3

(* The list on top of the stack leads back to the start of its command. *)
LEMMA TopUndoes ==
  ASSUME IInv, pc = "apply", ~tangled
  PROVE  Undoes(Table, Start(Top), Top.touched, Top.besides)
<1> DEFINE n == Len(frames)
           f == Stack[n]
<1>1. frames # <<>> /\ f.undo = redirection_undo_list
  BY RedirectingStack
<1>2. n \in Nat \ {0} /\ n \in 1 .. n /\ Len(Stack) = n /\ SameBut(Top, f)
  BY <1>1, StackFacts DEF IInv
<1>3. Start(f) = Start(Top) /\ f.touched = Top.touched /\ f.besides = Top.besides
  BY <1>2, SameFrame DEF SameBut
<1>4. Restores(f, f.undo, fds)
  BY <1>2 DEF IInv, StackOK
<1>5. \A d \in UserFds \ (Top.touched \union Top.besides) : fds[d] = Start(Top)[d]
  BY DEF IInv, FreshInv
<1>6. Table.fds = fds /\ Table.undo = f.undo
  BY <1>1, TableType DEF IInv
<1> HIDE DEF f, n
<1> QED
  BY <1>3, <1>4, <1>5, <1>6 DEF Undoes, Restores

LEMMA RedirectKeeps ==
  ASSUME IInv, Redirect
  PROVE  IInv' /\ Len(frames') >= Len(frames)
<1> DEFINE n == Len(frames)
<1>1. PICK r \in Redirects :
        LET u == do_redirection_internal(Table, r)
        IN /\ u.ok /\ Becomes(u)
           /\ frames' = Append(Front(frames), Redirected(Top, r, u))
           /\ tangled' = \/ tangled
                         \/ CopyExposed(u)
                         \/ \E i \in DOMAIN frames : frames[i].saved \in Uncovered(r, u)
  BY DEF Redirect
<1>2. pc = "apply" /\ More /\ pc' = pc /\ capture' = capture /\ execs' = execs
  BY DEF Redirect
<1> DEFINE u == do_redirection_internal(Table, r)
           D == Assigns(r) \union (Besides(r) \ Uncovered(r, u))
           X == Uncovered(r, u)
           h == Redirected(Top, r, u)
           a == Append(Front(frames), h)
           tang == \/ tangled
                   \/ CopyExposed(u)
                   \/ \E i \in DOMAIN frames : frames[i].saved \in X
<1>3. u.ok /\ Becomes(u) /\ frames' = a /\ tangled' = tang /\ tang \in BOOLEAN
  BY <1>1
<1>4. r \in RedirectKinds
  BY RedirectsAssumption
<1>5. u \in Tables /\ (Failed(Table, u) \/ Achieved(Table, u, D, X))
  <2>1. \/ Failed(Table, u)
        \/ \E d \in UserFds : Shut(Table, u, d)
        \/ Achieved(Table, u, D, X)
    BY <1>4, RedirectOutcome DEF IInv
  <2> QED
    BY <1>3, <1>4, <2>1, RedirectOutcome DEF IInv, Shut
<1>6. D \in SUBSET UserFds /\ X \in SUBSET UserFds
  BY <1>4, AssignedNumbers
<1>7. frames # <<>> /\ Stack[n].undo = redirection_undo_list
  BY <1>2, RedirectingStack
<1>8. /\ n \in Nat \ {0} /\ Len(Stack) = n /\ Stack \in Seq(Frames) /\ SameBut(Top, Stack[n])
      /\ Top \in Frames /\ frames[n] = Top /\ frames \in Seq(Frames)
      /\ \A k \in 1 .. n - 1 : Stack[k] = frames[k]
      /\ DOMAIN frames = 1 .. n
  BY <1>7, StackFacts, LenProperties DEF IInv, RedirTypeOK
<1>9. Top.done + 1 \in 0 .. MaxRedirects
  BY <1>2, <1>7, DoneBound DEF IInv
<1>10. u.undo \in Seq(Undos) /\ u.exec \in Seq(Undos) /\ u.fds \in Descriptors /\ u.clexec \in SUBSET FDs
  BY <1>5, TableFields
<1>11. /\ h \in Frames /\ h.undo = Top.undo /\ h.kind = Top.kind /\ h.done = Top.done + 1
       /\ h.cap = Top.cap /\ h.saved = Top.saved /\ h.before = Top.before
       /\ h.touched = Top.touched \union D
       /\ h.besides = Top.besides \union X
  <2>1. Top \in Frames /\ Top.done + 1 \in 0 .. MaxRedirects
    BY <1>8, <1>9
  <2>2. Grown(Top, h, D, X)
    <3> HIDE DEF u
    <3> QED
      BY <1>4, <2>1, RedirectedFrame
  <2> HIDE DEF h, D, X, u
  <2> QED
    BY <2>2 DEF Grown
<1> HIDE DEF tang, h
<1>12. /\ fds' = u.fds /\ clexec' = u.clexec
       /\ redirection_undo_list' = u.undo /\ exec_redirection_undo_list' = u.exec
  BY <1>3 DEF Becomes
<1> HIDE DEF u, D, X
<1>13. /\ a \in Seq(Frames) /\ a # <<>> /\ Len(a) = n /\ a[n] = h
       /\ \A k \in 1 .. n - 1 : a[k] = frames[k]
       /\ Last(a) = h /\ Front(a) = Front(frames)
  BY <1>7, <1>8, <1>11, ReplaceTop
<1> HIDE DEF a
<1>14. Top' = h
  BY <1>3, <1>13 DEF Top
<1> DEFINE e == [h EXCEPT !.undo = u.undo]
           q == Append(Front(frames), e)
<1>15. e \in Frames /\ e.undo = u.undo /\ SameBut(h, e)
  BY <1>10, <1>11, WithUndo
<1>16. Stack' = q
  BY <1>2, <1>3, <1>12, <1>13, <1>14 DEF Stack
<1> HIDE DEF e
<1>17. /\ q \in Seq(Frames) /\ Len(q) = n /\ q[n] = e /\ \A k \in 1 .. n - 1 : q[k] = frames[k]
  BY <1>7, <1>8, <1>15, ReplaceTop
<1> HIDE DEF q, n
<1>18. RedirTypeOK'
  BY <1>2, <1>3, <1>10, <1>12, <1>13 DEF IInv, RedirTypeOK, Descriptors
<1>19. ControlInv'
  <2>1. ASSUME NEW i \in 1 .. Len(a) PROVE a[i].cap = 0 <=> a[i].saved = 0
    <3>1. \A k \in 1 .. n : frames[k].cap = 0 <=> frames[k].saved = 0
      BY DEF IInv, ControlInv, n
    <3>2. CASE i \in 1 .. n - 1
      <4>1. i \in 1 .. n
        BY <1>8, <3>2
      <4> QED
        BY <1>13, <3>1, <3>2, <4>1
    <3>3. CASE i = n
      <4>1. Top.cap = 0 <=> Top.saved = 0
        BY <1>8, <1>13, <3>1, <3>3
      <4> QED
        BY <1>11, <1>13, <3>3, <4>1
    <3> QED
      BY <1>8, <1>13, <3>2, <3>3
  <2>2. Top.undo = <<>> /\ Top.done \in Nat
    <3>1. Top.done \in 0 .. MaxRedirects
      BY <1>8, FrameFields
    <3> QED
      BY <1>2, <3>1, FdAssumption DEF IInv, ControlInv
  <2>3. h.done # 0 /\ h.undo = <<>>
    BY <1>11, <2>2
  <2> QED
    BY <1>2, <1>3, <1>13, <1>14, <2>1, <2>3 DEF ControlInv
<1>20. ASSUME ~tangled'
       PROVE  /\ ~tangled /\ ~Exposed(u.undo) /\ Good(Table, Others)
              /\ Follows(Table, u, Others, D, X)
              /\ \A i \in 1 .. n : frames[i].saved \notin X
  <2>1. ~tangled /\ ~CopyExposed(u) /\ \A i \in 1 .. n : frames[i].saved \notin X
    BY <1>3, <1>8, <1>20 DEF tang
  <2>2. ~Exposed(u.undo)
    <3>1. DOMAIN u.undo = 1 .. Len(u.undo)
      BY <1>10, LenProperties
    <3> QED
      BY <2>1, <3>1 DEF CopyExposed, Exposed
  <2>3. Good(Table, Others)
    BY <1>2, <2>1, TableGood
  <2>4. Achieved(Table, u, D, X)
    BY <1>3, <1>5 DEF Failed
  <2>5. Follows(Table, u, Others, D, X)
    BY <2>2, <2>3, <2>4 DEF Achieved
  <2> QED
    BY <2>1, <2>2, <2>3, <2>5
<1>21. Table.fds = fds
  BY TableType DEF IInv
<1>22. ASSUME ~tangled' PROVE Kept(fds, u.fds, D, X)
  BY <1>10, <1>20, <1>21, <1>22 DEF Follows, Kept
<1>23. ASSUME ~tangled' PROVE Fresh(Top, fds)
  BY <1>2, <1>20, <1>23 DEF IInv, FreshInv, Fresh
<1>24. Start(h) = Start(Top)
  BY <1>11, Zenon DEF Start
<1>25. ExecInv'
  <2>1. ~tangled' => ClosesCopies(u.exec, u.undo)
    BY <1>20 DEF Follows, Good
  <2> QED
    BY <1>2, <1>12, <2>1 DEF ExecInv
<1>26. FreshInv'
  <2> SUFFICES ASSUME ~tangled', NEW d \in UserFds \ (h.touched \union h.besides)
               PROVE  u.fds[d] = Start(h)[d]
    BY <1>12, <1>14 DEF FreshInv
  <2>1. d \in UserFds \ (D \union X) /\ d \in UserFds \ (Top.touched \union Top.besides)
    BY <1>11
  <2> QED
    BY <1>22, <1>23, <1>24, <2>1 DEF Kept, Fresh
<1>27. ASSUME ~tangled' PROVE StackOK(q, u.fds)
  <2> DEFINE s == Stack
             ds == fds
             es == u.fds
  <2>2. Grows(s, q, D, X)
    <3>1. \A k \in 1 .. n - 1 : q[k] = s[k]
      BY <1>8, <1>17
    <3>2. /\ e.cap = s[n].cap /\ e.saved = s[n].saved /\ e.before = s[n].before
          /\ e.touched = s[n].touched \union D /\ e.besides = s[n].besides \union X
      BY <1>8, <1>11, <1>15 DEF SameBut
    <3> QED
      BY <1>6, <1>8, <1>17, <3>1, <3>2 DEF Grows
  <2>3. StackOK(s, ds) /\ Kept(ds, es, D, X)
    BY <1>20, <1>22, <1>27 DEF IInv
  <2>4. Fresh(s[n], ds)
    <3>1. Start(s[n]) = Start(Top) /\ s[n].touched = Top.touched /\ s[n].besides = Top.besides
      BY <1>8, SameFrame DEF SameBut
    <3> QED
      BY <1>23, <1>27, <3>1 DEF Fresh
  <2>5. \A i \in 1 .. n : s[i].cap # 0 => s[i].saved \notin X
    <3>1. \A i \in 1 .. n : s[i].saved = frames[i].saved
      BY <1>7, StackFields DEF SameBut, n
    <3> QED
      BY <1>20, <1>27, <3>1
  <2>6. Good(u, Others)
    BY <1>20, <1>27 DEF Follows
  <2>7. WellFormed(q[n].undo) /\ q[n].undo = u.undo
    BY <1>15, <1>17, <2>6 DEF Good
  <2>8. Restores(q[n], q[n].undo, es)
    <3> DEFINE b == Start(Top)
               T == Top.touched
               B == Top.besides
    <3>1. Undoes(Table, b, T, B)
      BY <1>2, <1>20, <1>27, TopUndoes
    <3>2. Leads(Table, u, D, X)
      BY <1>20, <1>27 DEF Follows
    <3>3. Undoes(u, b, T \union D, B \union X)
      <4> HIDE DEF b, T, B
      <4> QED
        BY <3>1, <3>2, Zenon DEF Leads
    <3>4. Start(e) = b
      BY <1>15, <1>24, SameFrame
    <3>5. e.touched = T \union D /\ e.besides = B \union X
      BY <1>11, <1>15 DEF SameBut
    <3> HIDE DEF b, T, B
    <3>6. Restores(e, u.undo, u.fds)
      BY <3>3, <3>4, <3>5 DEF Undoes, Restores
    <3> QED
      BY <1>17, <2>7, <3>6
  <2>9. Others = HeldBelow(s)
    BY <1>7, OthersBelow
  <2>10. Numbers(q[n].undo) \cap HeldBelow(s) = {}
    BY <2>6, <2>7, <2>9 DEF Good
  <2>11. \A d \in FDs \ UserFds : es[d] # Closed <=> d \in HeldBelow(s) \union Numbers(q[n].undo)
    BY <2>6, <2>7, <2>9 DEF Good
  <2>12. n = Len(s)
    BY <1>8
  <2> HIDE DEF s, ds, es
  <2>13. WellFormed(q[n].undo)
    BY <2>7
  <2>14. StackOK(q, es)
    BY <2>2, <2>3, <2>4, <2>5, <2>8, <2>10, <2>11, <2>12, <2>13, RedirectOK
  <2> QED
    BY <2>14 DEF es
<1>28. (~tangled => StackOK(Stack, fds))'
  BY <1>12, <1>16, <1>27
<1>29. Len(frames') >= Len(frames)
  BY <1>3, <1>8, <1>13 DEF n
<1> QED
  BY <1>18, <1>19, <1>25, <1>26, <1>28, <1>29 DEF IInv

-----------------------------------------------------------------------------
(* The invariant, and what follows from it.                                 *)

LEMMA InitHolds == Init => IInv
<1> SUFFICES ASSUME Init PROVE IInv
  OBVIOUS
<1>1. /\ fds = [d \in FDs |-> IF d <= 2 THEN Tty ELSE Closed]
      /\ clexec = {} /\ redirection_undo_list = <<>> /\ exec_redirection_undo_list = <<>>
      /\ frames = <<>> /\ pc = "run" /\ capture \in Captures /\ execs = 0 /\ tangled = FALSE
  BY DEF Init
<1>2. <<>> \in Seq(Undos) /\ <<>> \in Seq(Frames) /\ Len(<<>>) = 0
  OBVIOUS
<1>3. RedirTypeOK
  <2>1. fds \in [FDs -> Files \union {Tty, Cap, Closed}]
    BY <1>1
  <2>2. capture \in BOOLEAN /\ execs \in 0 .. MaxExecs
    BY <1>1, FdAssumption, RedirectsAssumption
  <2> QED
    BY <1>1, <1>2, <2>1, <2>2 DEF RedirTypeOK
<1>4. ControlInv
  BY <1>1 DEF ControlInv
<1>5. ExecInv /\ FreshInv
  BY <1>1 DEF ExecInv, FreshInv
<1>6. StackOK(Stack, fds)
  <2>1. Stack = <<>>
    BY <1>1 DEF Stack
  <2>2. \A d \in FDs \ UserFds : fds[d] = Closed
    BY <1>1, FdAssumption DEF FDs, UserFds
  <2>3. \A i \in 1 .. Len(<<>>) : FALSE
    BY <1>2
  <2> QED
    BY <2>1, <2>2, <2>3 DEF StackOK
<1> QED
  BY <1>3, <1>4, <1>5, <1>6 DEF IInv

\* What RestoredOnEnd, ExecPermanent and the induction ask of a step.
StepOK ==
  /\ IInv'
  /\ Len(frames') >= Len(frames) \/ ExecKeeps \/ tangled' \/ GivesBack
  /\ ExecKeeps => tangled' \/ \A d \in UserFds : fds'[d] = fds[d]

LEMMA StepHolds == IInv /\ [Next]_vars => StepOK
<1> SUFFICES ASSUME IInv, [Next]_vars PROVE StepOK
  OBVIOUS
<1>1. ASSUME ExecKeeps PROVE StepOK
  BY <1>1, ExecKeepsKeeps, ExecKeepsPermanent DEF StepOK
<1>2. CASE ExecKeeps
  BY <1>1, <1>2
<1>3. CASE ~ExecKeeps
  <2> SUFFICES IInv' /\ (Len(frames') >= Len(frames) \/ tangled' \/ GivesBack)
    BY <1>3, Zenon DEF StepOK
  <2>1. CASE GroupStarts
    <3>1. pc = "run" /\ "group" \in Kinds /\ Begin("group", Table, 0, 0)
      BY <2>1 DEF GroupStarts, Kinds
    <3> QED
      BY <3>1, PlainStarts
  <2>2. CASE NullStarts
    <3>1. pc = "run" /\ "null" \in Kinds /\ Begin("null", Table, 0, 0)
      BY <2>2 DEF NullStarts, Kinds
    <3> QED
      BY <3>1, PlainStarts
  <2>3. CASE SimpleStarts
    BY <2>3, SimpleStartsKeeps
  <2>4. CASE PolicyDenies
    BY <2>4, PolicyDeniesKeeps
  <2>5. CASE ResumeJob
    BY <2>5, ResumeJobKeeps
  <2>6. CASE Redirect
    BY <2>6, RedirectKeeps
  <2>7. CASE RedirectFails
    BY <2>7, RedirectFailsKeeps
  <2>8. CASE RedirectJumps
    BY <2>8, RedirectJumpsKeeps
  <2>9. CASE RedirectsDone
    BY <2>9, RedirectsDoneKeeps
  <2>10. CASE NullReturns
    BY <2>10, NullReturnsKeeps
  <2>11. CASE BodyReturns
    BY <2>11, BodyReturnsKeeps
  <2>12. CASE BodyJumps
    BY <2>12, BodyJumpsKeeps
  <2>13. CASE ExecFails
    BY <2>13, ExecFailsKeeps
  <2>14. CASE UNCHANGED vars
    <3>1. /\ fds' = fds /\ clexec' = clexec
          /\ redirection_undo_list' = redirection_undo_list
          /\ exec_redirection_undo_list' = exec_redirection_undo_list
          /\ frames' = frames /\ pc' = pc /\ capture' = capture /\ execs' = execs
          /\ tangled' = tangled
      BY <2>14 DEF vars, lists
    <3>2. Len(frames') >= Len(frames)
      <4>1. Len(frames) \in Nat
        BY LenProperties DEF IInv, RedirTypeOK
      <4> QED
        BY <3>1, <4>1
    <3>3. IInv'
      <4>1. Top' = Top /\ Stack' = Stack
        BY <3>1 DEF Top, Stack
      <4> QED
        BY <3>1, <4>1 DEF IInv, RedirTypeOK, ControlInv, ExecInv, FreshInv
    <3> QED
      BY <3>2, <3>3
  <2> QED
    BY <1>3, <2>1, <2>2, <2>3, <2>4, <2>5, <2>6, <2>7, <2>8, <2>9, <2>10, <2>11, <2>12,
       <2>13, <2>14, Zenon DEF Next
<1> QED
  BY <1>2, <1>3

LEMMA Inductive == Spec => []IInv
<1>1. IInv /\ [Next]_vars => IInv'
  BY StepHolds DEF StepOK
<1> QED
  BY InitHolds, <1>1, PTL DEF Spec

(* Descriptors, undo lists and frames keep their types: every entry that      *)
(* add_undo_redirect puts into a list names numbers within the descriptor    *)
(* limit, and every redirector a frame remembers is one a script may use.   *)
THEOREM RedirTypeCorrect == Spec => []RedirTypeOK
<1>1. IInv => RedirTypeOK
  BY DEF IInv
<1> QED
  BY Inductive, <1>1, PTL

(* Whatever commands did, failed, were refused or jumped out of, no copy of  *)
(* a descriptor is left open once they have all ended (dispose of the undo  *)
(* lists, redir.c; unwind-protects, execute_cmd.c).                         *)
THEOREM NoCopies == Spec => []NoCopiesLeft
<1>1. IInv => NoCopiesLeft
  <2> SUFFICES ASSUME IInv, frames = <<>>, ~tangled, NEW d \in FDs \ UserFds
               PROVE  fds[d] = Closed
    BY DEF NoCopiesLeft
  <2>1. pc = "run" /\ Stack = <<>>
    <3>1. pc = "run"
      BY DEF IInv, ControlInv
    <3> QED
      BY <3>1 DEF Stack
  <2>2. StackOK(<<>>, fds)
    BY <2>1 DEF IInv
  <2>3. \A i \in 1 .. Len(<<>>) : FALSE
    OBVIOUS
  <2> QED
    BY <2>2, <2>3 DEF StackOK
<1> QED
  BY Inductive, <1>1, PTL

(* What redirections exec without operand keeps, it keeps for good: closing  *)
(* the copies (execute_builtin_or_function after exec_builtin) changes no   *)
(* descriptor a script can name.                                            *)
THEOREM ExecForGood == Spec => ExecPermanent
<1>1. IInv /\ [Next]_vars =>
        [ExecKeeps => tangled' \/ \A d \in UserFds : fds'[d] = fds[d]]_vars
  BY StepHolds DEF StepOK
<1> QED
  BY Inductive, <1>1, PTL DEF Spec, ExecPermanent

(* However commands end, and however many at once, each descriptor they      *)
(* redirected designates what it did before the outermost of them, and the   *)
(* others are as their bodies left them (cleanup_redirects, redir.c, and the *)
(* end of execute_simple_command), but for the three numbers the code does   *)
(* not put back: see RestoredOnEnd.                                         *)
THEOREM Restored == Spec => RestoredOnEnd
<1> DEFINE A == \/ Len(frames') >= Len(frames) \/ ExecKeeps \/ tangled'
                \/ GivesBack
<1>1. IInv /\ [Next]_vars => [A]_vars
  BY StepHolds DEF StepOK
<1>2. GivesBack <=>
        \A d \in UserFds \ UNION {frames[i].besides : i \in EndedFrames} :
          LET owners == {i \in EndedFrames : d \in Assigned(frames[i])}
          IN \/ fds'[d] = IF owners = {} THEN fds[d] ELSE frames[Min(owners)].before[d]
             \/ owners = {} /\ ClosedForGood(d)
  BY Zenon DEF GivesBack, OwnersOf
<1> QED
  BY Inductive, <1>1, <1>2, PTL DEF Spec, RestoredOnEnd
=============================================================================
