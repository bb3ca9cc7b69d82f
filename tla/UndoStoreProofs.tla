-------------------------- MODULE UndoStoreProofs --------------------------
(***************************************************************************)
(* Proofs about UndoStore: what the shared undo directory keeps, for any     *)
(* number of processes, files and entries, whatever fails and whoever dies,   *)
(* as long as an undo has the directory for itself.                         *)
(***************************************************************************)
EXTENDS UndoStore, SequencesExt, FiniteSetTheorems, SequenceTheorems, WellFoundedInduction,
  TLAPS

-----------------------------------------------------------------------------
(* A stack is a sequence of frames; the one that runs is Last.               *)

(* Popping a frame. *)
LEMMA FrontLast ==
  ASSUME NEW S, NEW s \in Seq(S), s # <<>>
  PROVE  /\ Front(s) \in Seq(S)
         /\ Last(s) \in S
         /\ Len(s) \in Nat \ {0}
         /\ Len(Front(s)) = Len(s) - 1
         /\ \A k \in 1 .. Len(s) - 1 : Front(s)[k] = s[k]
<1> DEFINE n == Len(s) - 1
<1>1. Len(s) \in Nat \ {0} /\ n \in Nat /\ Len(s) = n + 1
  BY EmptySeq, LenProperties
<1>2. Last(s) \in S /\ \A i \in 1 .. n : s[i] \in S
  BY <1>1, ElementOfSeq DEF Last
<1>3. Front(s) = SubSeq(s, 1, n)
  BY DEF Front
<1> HIDE DEF n
<1>4. /\ SubSeq(s, 1, n) \in Seq(S)
      /\ Len(SubSeq(s, 1, n)) = IF 1 <= n THEN n - 1 + 1 ELSE 0
      /\ \A i \in 1 .. n - 1 + 1 : SubSeq(s, 1, n)[i] = s[1 + i - 1]
  BY <1>1, <1>2, SubSeqProperties
<1>5. n - 1 + 1 = n /\ (~(1 <= n) => n = 0) /\ Len(s) - 1 = n
  BY <1>1
<1>6. Len(Front(s)) = n
  BY <1>3, <1>4, <1>5
<1>7. \A k \in 1 .. n : k \in 1 .. n - 1 + 1 /\ 1 + k - 1 = k
  BY <1>1
<1> QED
  BY <1>1, <1>2, <1>3, <1>4, <1>5, <1>6, <1>7

(* Pushing a frame. *)
LEMMA PushTop ==
  ASSUME NEW S, NEW s \in Seq(S), NEW e \in S
  PROVE  /\ Append(s, e) \in Seq(S)
         /\ Append(s, e) # <<>>
         /\ Len(s) \in Nat
         /\ Len(Append(s, e)) = Len(s) + 1
         /\ \A k \in 1 .. Len(s) : Append(s, e)[k] = s[k]
         /\ Append(s, e)[Len(s) + 1] = e
         /\ Last(Append(s, e)) = e
         /\ Front(Append(s, e)) = s
<1> DEFINE t == Append(s, e)
<1>1. /\ t \in Seq(S) /\ t # <<>> /\ Len(s) \in Nat /\ Len(t) = Len(s) + 1
      /\ \A k \in 1 .. Len(s) : t[k] = s[k]
      /\ t[Len(s) + 1] = e
  BY AppendProperties, LenProperties
<1> HIDE DEF t
<1>2. /\ Front(t) \in Seq(S) /\ Len(Front(t)) = Len(s)
      /\ \A k \in 1 .. Len(s) : Front(t)[k] = s[k]
  BY <1>1, FrontLast
<1>3. Front(t) = s /\ Last(t) = e
  BY <1>1, <1>2, SeqEqual DEF Last
<1> QED
  BY <1>1, <1>3 DEF t

-----------------------------------------------------------------------------
(* An undo runs alone: users see to it, or there is only one process.        *)
Alone == UndoAlone \/ \A p, r \in Procs : p = r

(* Where a process writes into an entry, and where it takes one away.        *)
Filling == {"meta", "copy", "close"}
Removing == {"unlink", "truncate", "restore", "drop", "rmdir"}

(* The locals are those of the operation. *)
LocalsInv == \A p \in Procs : pc[p] # "idle" => mine[p].seq \in Seqs /\ mine[p].path \in Paths

(* An undo has the directory for itself. *)
AloneInv == \A p, r \in Procs : p # r /\ pc[p] \in Undoing => pc[r] = "idle"

(* A snapshot under way owns its entry, which nobody has been promised, and    *)
(* which holds a preimage once it has been copied.                          *)
FillingInv ==
  \A p \in Procs : pc[p] \in Filling =>
    /\ entry[mine[p].seq] # None
    /\ entry[mine[p].seq].path = mine[p].path
    /\ acked[mine[p].seq] = None
    /\ pc[p] = "copy" => mine[p].existed
    /\ IF pc[p] = "close" /\ mine[p].existed
       THEN entry[mine[p].seq].data \in (Contents \union {Empty}) \ {Absent}
       ELSE entry[mine[p].seq].data = None

(* An undo under way removes an entry that is there, and after its data is     *)
(* gone nobody relies on it.                                                *)
RemovingInv ==
  \A p \in Procs : pc[p] \in Removing =>
    /\ entry[mine[p].seq] # None
    /\ pc[p] = "rmdir" => acked[mine[p].seq] = None

IInv ==
  /\ UndoTypeOK
  /\ LocalsInv
  /\ AloneInv
  /\ FillingInv
  /\ RemovingInv
  /\ SnapshotsExclusive
  /\ AckedKept

Places == {"idle", "reset", "put", "mkdir", "meta", "copy", "close",
           "unlink", "truncate", "restore", "drop", "rmdir", "useq", "uput"}

(* A set of numbers up to n has a last one. *)
LEMMA LastOfSet ==
  ASSUME NEW n \in Nat, NEW S, S \subseteq 1 .. n, S # {}
  PROVE  \E i \in S : \A j \in S : j <= i
<1> DEFINE R == OpToRel(<, Nat)
           T == {k \in Nat : n - k \in S}
<1>1. T \subseteq Nat /\ T # {}
  <2>1. PICK i : i \in S
    OBVIOUS
  <2>2. n - i \in Nat /\ n - (n - i) = i
    BY <2>1
  <2> QED
    BY <2>1, <2>2
<1>2. IsWellFoundedOn(R, Nat)
  BY NatLessThanWellFounded
<1> HIDE DEF R, T
<1>3. PICK x \in T : \A y \in T : ~ (<<y, x>> \in R)
  BY <1>1, <1>2, WFMin
<1> USE DEF R, T
<1>4. x \in Nat /\ n - x \in S
  BY <1>3
<1>5. ASSUME NEW j \in S PROVE j <= n - x
  <2>1. n - j \in Nat /\ n - (n - j) = j
    OBVIOUS
  <2>2. n - j \in T
    BY <2>1
  <2>3. ~(n - j < x)
    BY <1>3, <1>4, <2>1, <2>2 DEF OpToRel
  <2> QED
    BY <1>4, <2>1, <2>3
<1> QED
  BY <1>4, <1>5

(* The entry an undo acts on has a meta file, and none after it has. *)
LEMMA LatestProps ==
  ASSUME UndoTypeOK, LatestEntry # 0
  PROVE  /\ LatestEntry \in Seqs /\ LatestEntry <= seq /\ Recorded(LatestEntry)
         /\ \A j \in 1 .. seq : Recorded(j) => j <= LatestEntry
<1> DEFINE found == {i \in 1 .. seq : Recorded(i)}
<1>1. seq \in Nat /\ seq <= MaxSeq /\ MaxSeq \in Nat
  BY MaxSeqAssumption DEF UndoTypeOK
<1>2. LatestEntry = IF found = {} THEN 0 ELSE CHOOSE i \in found : \A j \in found : j <= i
  BY DEF LatestEntry
<1>3. found # {}
  BY <1>2
<1>4. found \subseteq 1 .. seq
  OBVIOUS
<1>5. \E i \in found : \A j \in found : j <= i
  <2> HIDE DEF found
  <2> QED
    BY <1>1, <1>3, <1>4, LastOfSet
<1>6. LatestEntry \in found /\ \A j \in found : j <= LatestEntry
  BY <1>2, <1>3, <1>5
<1> QED
  BY <1>1, <1>6 DEF Seqs

-----------------------------------------------------------------------------
(* Steps that leave the entries alone.                                      *)

LEMMA QuietMove ==
  ASSUME IInv, NEW p \in Procs, NEW l, NEW m, l \notin Filling,
         pc' = [pc EXCEPT ![p] = l], mine' = [mine EXCEPT ![p] = m],
         UNCHANGED <<entry, acked>>,
         l # "idle" => m.seq \in Seqs /\ m.path \in Paths,
         l \in Removing => l # "rmdir" /\ entry[m.seq] # None,
         l \in Undoing => \A r \in Procs : r # p => pc[r] = "idle",
         l # "idle" => \A r \in Procs : r # p => pc[r] \notin Undoing
  PROVE  /\ LocalsInv' /\ AloneInv' /\ FillingInv' /\ RemovingInv'
         /\ SnapshotsExclusive' /\ AckedKept'
<1>1. \A r \in Procs : /\ pc'[r] = IF r = p THEN l ELSE pc[r]
                       /\ mine'[r] = IF r = p THEN m ELSE mine[r]
  BY DEF IInv, UndoTypeOK
<1>2. LocalsInv'
  BY <1>1 DEF IInv, LocalsInv
<1>3. AloneInv'
  BY <1>1 DEF IInv, AloneInv
<1>4. FillingInv'
  BY <1>1 DEF IInv, FillingInv
<1>5. RemovingInv'
  BY <1>1 DEF IInv, RemovingInv
<1>6. SnapshotsExclusive'
  BY <1>1 DEF IInv, SnapshotsExclusive, Filling
<1>7. AckedKept'
  BY DEF IInv, AckedKept
<1> QED
  BY <1>2, <1>3, <1>4, <1>5, <1>6, <1>7

(* The operation returns to Lua, or its process dies. *)
LEMMA DoneMove ==
  ASSUME IInv, NEW p \in Procs, Done(p), UNCHANGED <<entry, acked>>
  PROVE  /\ LocalsInv' /\ AloneInv' /\ FillingInv' /\ RemovingInv'
         /\ SnapshotsExclusive' /\ AckedKept'
<1>1. /\ "idle" \notin Filling /\ "idle" \notin Removing /\ "idle" \notin Undoing
      /\ pc' = [pc EXCEPT ![p] = "idle"] /\ mine' = [mine EXCEPT ![p] = NoLocals]
  BY DEF Filling, Removing, Undoing, Done, Goto
<1> QED
  BY <1>1, QuietMove

LEMMA DoneType ==
  ASSUME UndoTypeOK, NEW p \in Procs, Done(p)
  PROVE  pc' \in [Procs -> Places] /\ mine' \in [Procs -> Locals]
<1>1. NoLocals \in Locals
  BY MaxSeqAssumption DEF NoLocals, Locals
<1> QED
  BY <1>1 DEF UndoTypeOK, Done, Goto, Places

(* The operation goes on, with the same locals. *)
LEMMA StayMove ==
  ASSUME IInv, NEW p \in Procs, NEW l \in Places \ Filling, l \notin {"idle", "rmdir"},
         pc[p] # "idle", Goto(p, l), UNCHANGED <<mine, entry, acked>>,
         l \in Removing => entry[mine[p].seq] # None,
         pc[p] \in Undoing <=> l \in Undoing
  PROVE  /\ LocalsInv' /\ AloneInv' /\ FillingInv' /\ RemovingInv'
         /\ SnapshotsExclusive' /\ AckedKept'
<1>1. pc' = [pc EXCEPT ![p] = l] /\ mine' = [mine EXCEPT ![p] = mine[p]]
  BY DEF Goto, IInv, UndoTypeOK
<1>2. mine[p].seq \in Seqs /\ mine[p].path \in Paths
  BY DEF IInv, LocalsInv
<1>3. \A r \in Procs : r # p => pc[r] \notin Undoing
  BY DEF IInv, AloneInv
<1>4. l \in Undoing => \A r \in Procs : r # p => pc[r] = "idle"
  BY DEF IInv, AloneInv
<1> QED
  BY <1>1, <1>2, <1>3, <1>4, QuietMove

LEMMA GotoType ==
  ASSUME UndoTypeOK, NEW p \in Procs, NEW l \in Places, Goto(p, l)
  PROVE  pc' \in [Procs -> Places]
  BY DEF UndoTypeOK, Goto, Places

(* A process that may start an operation. *)
LEMMA StartProps ==
  ASSUME Alone, NEW p \in Procs, NEW u \in BOOLEAN, MayStart(p, u)
  PROVE  /\ pc[p] = "idle"
         /\ u => \A r \in Procs : pc[r] = "idle"
         /\ \A r \in Procs : pc[r] \notin Undoing
<1>1. pc[p] = "idle" /\ \A r \in Procs : pc[r] # "idle" => ~u /\ pc[r] \notin Undoing
  BY DEF MayStart, Alone
<1> QED
  BY <1>1 DEF Undoing

-----------------------------------------------------------------------------
(* The shell around the two operations, and snapshots.                      *)

LEMMA ShellInv ==
  ASSUME IInv, NEW p \in Procs,
         \/ \E q \in Paths, c \in Contents \union {Absent} : Write(p, q, c)
         \/ ApplyBegin(p) \/ ApplyEnd(p)
  PROVE  IInv'
<1>1. UNCHANGED <<seq, entry, acked, pc, mine>>
  BY DEF Write, ApplyBegin, ApplyEnd, store
<1>2. file' \in [Paths -> Files]
  BY DEF Write, ApplyBegin, ApplyEnd, Files, IInv, UndoTypeOK
<1>3. window' \in [Procs -> (SUBSET Paths) \union {None}]
  BY DEF Write, ApplyBegin, ApplyEnd, IInv, UndoTypeOK
<1>4. UndoTypeOK'
  BY <1>1, <1>2, <1>3 DEF IInv, UndoTypeOK
<1> QED
  BY <1>1, <1>4 DEF IInv, LocalsInv, AloneInv, FillingInv, RemovingInv, SnapshotsExclusive, AckedKept

LEMMA CrashInv ==
  ASSUME IInv, NEW p \in Procs, Crash(p)
  PROVE  IInv'
<1>1. /\ Done(p) /\ UNCHANGED <<file, seq, entry, acked>>
      /\ window' = [window EXCEPT ![p] = None]
  BY DEF Crash, store
<1>2. UndoTypeOK'
  <2>1. pc' \in [Procs -> Places] /\ mine' \in [Procs -> Locals]
    BY <1>1, DoneType DEF IInv
  <2>2. window' \in [Procs -> (SUBSET Paths) \union {None}]
    BY <1>1 DEF IInv, UndoTypeOK
  <2> QED
    BY <1>1, <2>1, <2>2 DEF IInv, UndoTypeOK, Places
<1>3. UNCHANGED <<entry, acked>>
  BY <1>1
<1> QED
  BY <1>1, <1>2, <1>3, DoneMove DEF IInv

(* What fails leaves everything as it is. *)
LEMMA FailsInv ==
  ASSUME IInv, NEW p \in Procs, SnapFails(p) \/ SnapCopyFails(p) \/ UndoFails(p)
  PROVE  IInv'
<1>1. Done(p) /\ UNCHANGED <<file, seq, entry, acked, window>>
  BY DEF SnapFails, SnapCopyFails, UndoFails, store
<1>2. UndoTypeOK'
  <2>1. pc' \in [Procs -> Places] /\ mine' \in [Procs -> Locals]
    BY <1>1, DoneType DEF IInv
  <2> QED
    BY <1>1, <2>1 DEF IInv, UndoTypeOK, Places
<1>3. UNCHANGED <<entry, acked>>
  BY <1>1
<1> QED
  BY <1>1, <1>2, <1>3, DoneMove DEF IInv

LEMMA SnapBeginInv ==
  ASSUME Alone, IInv, NEW p \in Procs, NEW q \in Paths, SnapBegin(p, q)
  PROVE  IInv'
<1> DEFINE m == [seq |-> NextSeq, path |-> q, existed |-> file[q] # Absent, old |-> None]
<1>1. /\ Goto(p, "reset") /\ UNCHANGED <<file, seq, entry, acked, window>>
      /\ mine' = [mine EXCEPT ![p] = m] /\ NextSeq <= MaxSeq
  BY DEF SnapBegin, store
<1>2. /\ pc[p] = "idle" /\ \A r \in Procs : pc[r] \notin Undoing
  BY StartProps DEF SnapBegin
<1>3. NextSeq \in Seqs
  BY <1>1, MaxSeqAssumption DEF NextSeq, Seqs, IInv, UndoTypeOK
<1>4. m \in Locals /\ m.seq \in Seqs /\ m.path \in Paths
  <2> DEFINE existed == (file[q] # Absent)
  <2>1. existed \in BOOLEAN
    OBVIOUS
  <2>2. m = [seq |-> NextSeq, path |-> q, existed |-> existed, old |-> None]
    OBVIOUS
  <2> HIDE DEF existed, m
  <2>3. NextSeq \in 0 .. MaxSeq
    BY <1>3, MaxSeqAssumption DEF Seqs
  <2> QED
    BY <1>3, <2>1, <2>2, <2>3 DEF Locals
<1> HIDE DEF m
<1>5. "reset" \in Places /\ "reset" \notin Filling \union Removing \union Undoing \union {"idle"}
  BY DEF Places, Filling, Removing, Undoing
<1>6. UndoTypeOK'
  <2>1. pc' \in [Procs -> Places] /\ mine' \in [Procs -> Locals]
    BY <1>1, <1>4, <1>5, GotoType DEF IInv, UndoTypeOK
  <2> QED
    BY <1>1, <2>1 DEF IInv, UndoTypeOK, Places
<1>7. pc' = [pc EXCEPT ![p] = "reset"]
  BY <1>1 DEF Goto
<1> QED
  BY <1>1, <1>2, <1>4, <1>5, <1>6, <1>7, QuietMove DEF IInv

(* A step of an operation that neither starts, ends nor touches an entry.     *)
LEMMA SeqAndFileInv ==
  ASSUME IInv, NEW p \in Procs,
         \/ SnapResetSeq(p) \/ SnapPutSeq(p) \/ UndoUnlink(p) \/ UndoTruncate(p)
         \/ UndoRestore(p) \/ UndoResetSeq(p)
  PROVE  IInv'
<1>0. mine[p].seq \in Seqs /\ mine[p].path \in Paths /\ mine[p].seq \in 0 .. MaxSeq
  BY MaxSeqAssumption
     DEF IInv, LocalsInv, SnapResetSeq, SnapPutSeq, UndoUnlink, UndoTruncate, UndoRestore,
         UndoResetSeq, Seqs
<1>1. PICK l \in Places \ Filling :
        /\ Goto(p, l) /\ l \notin {"idle", "rmdir"} /\ pc[p] # "idle"
        /\ l \in Removing => pc[p] \in Removing
        /\ pc[p] \in Undoing <=> l \in Undoing
  BY DEF SnapResetSeq, SnapPutSeq, UndoUnlink, UndoTruncate, UndoRestore, UndoResetSeq,
         Places, Filling, Removing, Undoing
<1>2. UNCHANGED <<mine, entry, acked, window>>
  BY DEF SnapResetSeq, SnapPutSeq, UndoUnlink, UndoTruncate, UndoRestore, UndoResetSeq, store
<1>3. l \in Removing => entry[mine[p].seq] # None
  BY <1>1 DEF IInv, RemovingInv
<1>4. file' \in [Paths -> Files]
  <2>1. CASE UNCHANGED file
    BY <2>1 DEF IInv, UndoTypeOK
  <2>2. CASE UndoRestore(p)
    <3>1. entry[mine[p].seq].data \in Contents \union {Empty}
      <4>1. entry[mine[p].seq] # None
        BY <2>2 DEF UndoRestore, IInv, RemovingInv, Removing
      <4>2. entry[mine[p].seq] \in Entries
        BY <1>0, <4>1 DEF IInv, UndoTypeOK
      <4> QED
        BY <2>2, <4>2 DEF UndoRestore, Entries
    <3> QED
      BY <2>2, <3>1 DEF UndoRestore, IInv, UndoTypeOK, Files
  <2>3. CASE UndoUnlink(p) \/ UndoTruncate(p)
    BY <2>3 DEF UndoUnlink, UndoTruncate, IInv, UndoTypeOK, Files
  <2> QED
    BY <2>1, <2>2, <2>3 DEF SnapResetSeq, SnapPutSeq, UndoResetSeq
<1>5. seq' \in 0 .. MaxSeq
  BY <1>0, MaxSeqAssumption
     DEF SnapResetSeq, SnapPutSeq, UndoUnlink, UndoTruncate, UndoRestore, UndoResetSeq, store,
         IInv, UndoTypeOK
<1>6. UndoTypeOK'
  <2>1. pc' \in [Procs -> Places]
    BY <1>1, GotoType DEF IInv
  <2> QED
    BY <1>2, <1>4, <1>5, <2>1 DEF IInv, UndoTypeOK, Places
<1> QED
  BY <1>1, <1>2, <1>3, <1>6, StayMove DEF IInv

LEMMA UndoPutSeqInv ==
  ASSUME IInv, NEW p \in Procs, UndoPutSeq(p)
  PROVE  IInv'
<1>1. Done(p) /\ UNCHANGED <<file, entry, acked, window>> /\ seq' = mine[p].seq - 1
  BY DEF UndoPutSeq, SeqAfterUndo
<1>2. mine[p].seq \in Seqs
  BY DEF IInv, LocalsInv, UndoPutSeq
<1>3. seq' \in 0 .. MaxSeq
  BY <1>1, <1>2, MaxSeqAssumption DEF Seqs
<1>4. UndoTypeOK'
  <2>1. pc' \in [Procs -> Places] /\ mine' \in [Procs -> Locals]
    BY <1>1, DoneType DEF IInv
  <2> QED
    BY <1>1, <1>3, <2>1 DEF IInv, UndoTypeOK, Places
<1>5. UNCHANGED <<entry, acked>>
  BY <1>1
<1> QED
  BY <1>1, <1>4, <1>5, DoneMove DEF IInv

LEMMA UndoBeginInv ==
  ASSUME Alone, IInv, NEW p \in Procs, UndoBegin(p)
  PROVE  IInv'
<1> DEFINE e == entry[LatestEntry]
           m == [seq |-> LatestEntry, path |-> e.path,
                 existed |-> e.meta = "existed", old |-> file[e.path]]
           l == IF e.meta = "existed" THEN "truncate" ELSE "unlink"
<1>1. /\ pc[p] = "idle" /\ \A r \in Procs : pc[r] = "idle"
      /\ \A r \in Procs : pc[r] \notin Undoing
  BY StartProps DEF UndoBegin
<1>2. /\ LatestEntry # 0 /\ mine' = [mine EXCEPT ![p] = m]
      /\ Goto(p, l) /\ UNCHANGED <<file, seq, entry, acked, window>>
  BY DEF UndoBegin, store
<1>3. LatestEntry \in Seqs /\ LatestEntry \in 0 .. MaxSeq /\ Recorded(LatestEntry)
  BY <1>2, LatestProps, MaxSeqAssumption DEF IInv, Seqs
<1>4. e # None /\ e \in Entries
  BY <1>3 DEF Recorded, IInv, UndoTypeOK
<1>5. e.path \in Paths /\ file[e.path] \in Files
  BY <1>4 DEF Entries, IInv, UndoTypeOK
<1>6. m \in Locals /\ m.seq = LatestEntry /\ m.path = e.path
  <2> DEFINE existed == (e.meta = "existed")
  <2>1. existed \in BOOLEAN
    OBVIOUS
  <2>2. m = [seq |-> LatestEntry, path |-> e.path, existed |-> existed, old |-> file[e.path]]
    OBVIOUS
  <2> HIDE DEF existed, m, e
  <2> QED
    BY <1>3, <1>5, <2>1, <2>2 DEF Locals
<1>7. /\ l \in Places /\ l \notin Filling /\ l # "idle" /\ l # "rmdir"
  BY DEF Places, Filling
<1>8. pc' = [pc EXCEPT ![p] = l]
  BY <1>2 DEF Goto
<1>9. m.seq \in Seqs /\ m.path \in Paths /\ entry[m.seq] # None
  BY <1>3, <1>4, <1>5, <1>6
<1> HIDE DEF m, l, e
<1>10. UndoTypeOK'
  <2>1. pc' \in [Procs -> Places]
    BY <1>2, <1>7, GotoType DEF IInv
  <2>2. mine' \in [Procs -> Locals]
    BY <1>2, <1>6 DEF IInv, UndoTypeOK
  <2> QED
    BY <1>2, <2>1, <2>2 DEF IInv, UndoTypeOK, Places
<1>11. UNCHANGED <<entry, acked>>
  BY <1>2
<1> QED
  BY <1>1, <1>2, <1>7, <1>8, <1>9, <1>10, <1>11, QuietMove DEF IInv

-----------------------------------------------------------------------------
(* Steps that change an entry.                                              *)

(* A step of p that changes entry i, which no other operation under way is at. *)
LEMMA EntryMove ==
  ASSUME IInv, NEW p \in Procs, NEW i \in Seqs, NEW e, NEW a, NEW l, NEW m,
         entry' = [entry EXCEPT ![i] = e], acked' = [acked EXCEPT ![i] = a],
         pc' = [pc EXCEPT ![p] = l], mine' = [mine EXCEPT ![p] = m],
         \A r \in Procs : r # p =>
           /\ pc[r] \in Filling => mine[r].seq # i
           /\ pc[r] \notin Removing,
         l # "idle" => m.seq = i /\ m.path \in Paths,
         l \in Undoing => \A r \in Procs : r # p => pc[r] = "idle",
         l # "idle" => \A r \in Procs : r # p => pc[r] \notin Undoing,
         l \in Filling =>
           /\ e # None /\ e.path = m.path /\ a = None
           /\ l = "copy" => m.existed
           /\ IF l = "close" /\ m.existed
              THEN e.data \in (Contents \union {Empty}) \ {Absent}
              ELSE e.data = None,
         l \in Removing => e # None /\ (l = "rmdir" => a = None),
         a # None =>
           /\ e # None /\ e.path = a.path
           /\ e.data = (IF a.preimage = Absent THEN None ELSE a.preimage)
  PROVE  /\ LocalsInv' /\ AloneInv' /\ FillingInv' /\ RemovingInv'
         /\ SnapshotsExclusive' /\ AckedKept'
<1>1. \A r \in Procs : /\ pc'[r] = IF r = p THEN l ELSE pc[r]
                       /\ mine'[r] = IF r = p THEN m ELSE mine[r]
  BY DEF IInv, UndoTypeOK
<1>2. \A j \in Seqs : /\ entry'[j] = IF j = i THEN e ELSE entry[j]
                      /\ acked'[j] = IF j = i THEN a ELSE acked[j]
  BY DEF IInv, UndoTypeOK
<1>3. LocalsInv'
  BY <1>1 DEF IInv, LocalsInv
<1>4. AloneInv'
  BY <1>1 DEF IInv, AloneInv
<1>5. "idle" \notin Filling /\ "idle" \notin Removing
  BY DEF Filling, Removing
<1>6. FillingInv'
  <2> SUFFICES ASSUME NEW r \in Procs, pc'[r] \in Filling
               PROVE  /\ entry'[mine'[r].seq] # None
                      /\ entry'[mine'[r].seq].path = mine'[r].path
                      /\ acked'[mine'[r].seq] = None
                      /\ pc'[r] = "copy" => mine'[r].existed
                      /\ IF pc'[r] = "close" /\ mine'[r].existed
                         THEN entry'[mine'[r].seq].data \in (Contents \union {Empty}) \ {Absent}
                         ELSE entry'[mine'[r].seq].data = None
    BY DEF FillingInv
  <2>1. CASE r = p
    BY <1>1, <1>2, <1>5, <2>1
  <2>2. CASE r # p
    <3>1. pc'[r] = pc[r] /\ mine'[r] = mine[r]
      BY <1>1, <2>2
    <3>2. mine[r].seq \in Seqs /\ mine[r].seq # i
      BY <1>5, <2>2, <3>1 DEF IInv, LocalsInv
    <3>3. entry'[mine[r].seq] = entry[mine[r].seq] /\ acked'[mine[r].seq] = acked[mine[r].seq]
      BY <1>2, <3>2
    <3> QED
      BY <3>1, <3>3 DEF IInv, FillingInv
  <2> QED
    BY <2>1, <2>2
<1>7. RemovingInv'
  BY <1>1, <1>2, <1>5 DEF RemovingInv
<1>8. SnapshotsExclusive'
  <2> SUFFICES ASSUME NEW r \in Procs, NEW q \in Procs, r # q,
                      pc'[r] \in Filling, pc'[q] \in Filling
               PROVE  mine'[r].seq # mine'[q].seq
    BY DEF SnapshotsExclusive, Filling
  <2>1. CASE r # p /\ q # p
    BY <1>1, <2>1 DEF IInv, SnapshotsExclusive, Filling
  <2>2. CASE r = p \/ q = p
    BY <1>1, <1>5, <2>2
  <2> QED
    BY <2>1, <2>2
<1>9. AckedKept'
  BY <1>2 DEF IInv, AckedKept
<1> QED
  BY <1>3, <1>4, <1>6, <1>7, <1>8, <1>9

(* While p takes a snapshot, nobody undoes; while it fills its entry, no one   *)
(* else fills the same.                                                     *)
LEMMA SnapAlone ==
  ASSUME IInv, NEW p \in Procs, pc[p] \notin Undoing \union {"idle"}
  PROVE  \A r \in Procs : pc[r] \notin Undoing /\ pc[r] \notin Removing
BY DEF IInv, AloneInv, Undoing, Removing

LEMMA SnapMkdirInv ==
  ASSUME IInv, NEW p \in Procs, SnapMkdir(p)
  PROVE  IInv'
<1> DEFINE i == mine[p].seq
           e == [path |-> mine[p].path, meta |-> "none", data |-> None]
<1>1. pc[p] = "mkdir" /\ UNCHANGED <<file, seq, acked, window>>
  BY DEF SnapMkdir
<1>2. i \in Seqs /\ mine[p].path \in Paths
  BY <1>1 DEF IInv, LocalsInv
<1>3. CASE ~EntryFree(i)
  <2>1. Done(p) /\ UNCHANGED <<entry, acked>>
    BY <1>3 DEF SnapMkdir
  <2>2. UndoTypeOK'
    <3>1. pc' \in [Procs -> Places] /\ mine' \in [Procs -> Locals]
      BY <2>1, DoneType DEF IInv
    <3> QED
      BY <1>1, <2>1, <3>1 DEF IInv, UndoTypeOK, Places
  <2> QED
    BY <2>1, <2>2, DoneMove DEF IInv
<1>4. CASE EntryFree(i)
  <2>1. /\ entry' = [entry EXCEPT ![i] = e] /\ Goto(p, "meta") /\ mine' = mine
        /\ entry[i] = None
    BY <1>4 DEF SnapMkdir, EntryFree
  <2>2. e \in Entries /\ e # None /\ e.path = mine[p].path /\ e.data = None
    BY <1>2, NoneAssumption DEF Entries
  <2>3. acked[i] = None
    BY <1>2, <2>1 DEF IInv, AckedKept
  <2>4. /\ acked' = [acked EXCEPT ![i] = None] /\ mine' = [mine EXCEPT ![p] = mine[p]]
        /\ pc' = [pc EXCEPT ![p] = "meta"]
    BY <1>1, <1>2, <2>1, <2>3 DEF Goto, IInv, UndoTypeOK
  <2>5. \A r \in Procs : pc[r] \notin Undoing /\ pc[r] \notin Removing
    BY <1>1, SnapAlone DEF Undoing
  <2>6. \A r \in Procs : pc[r] \in Filling => mine[r].seq # i
    BY <2>1 DEF IInv, FillingInv
  <2>7. "meta" \in Places /\ "meta" \notin Undoing \union Removing
    BY DEF Places, Undoing, Removing
  <2>8. UndoTypeOK'
    <3>1. pc' \in [Procs -> Places]
      BY <2>1, <2>7, GotoType DEF IInv
    <3>2. entry' \in [Seqs -> Entries \union {None}]
      BY <1>2, <2>1, <2>2 DEF IInv, UndoTypeOK
    <3> QED
      BY <1>1, <2>1, <3>1, <3>2 DEF IInv, UndoTypeOK, Places
  <2> HIDE DEF e
  <2>9. /\ LocalsInv' /\ AloneInv' /\ FillingInv' /\ RemovingInv'
        /\ SnapshotsExclusive' /\ AckedKept'
    <3> DEFINE m == mine[p]
    <3>1. /\ \A r \in Procs : r # p => /\ pc[r] \in Filling => mine[r].seq # i
                                       /\ pc[r] \notin Removing
          /\ \A r \in Procs : r # p => pc[r] \notin Undoing
      BY <2>5, <2>6
    <3>2. m.seq = i /\ m.path \in Paths /\ i \in Seqs
      BY <1>2
    <3>3. /\ e # None /\ e.path = m.path /\ e.data = None
      BY <2>2
    <3>4. /\ entry' = [entry EXCEPT ![i] = e] /\ acked' = [acked EXCEPT ![i] = None]
          /\ mine' = [mine EXCEPT ![p] = m] /\ pc' = [pc EXCEPT ![p] = "meta"]
      BY <2>1, <2>4
    <3> HIDE DEF m, i
    <3> QED
      BY <2>7, <3>1, <3>2, <3>3, <3>4, EntryMove
  <2> QED
    BY <2>8, <2>9 DEF IInv
<1> QED
  BY <1>3, <1>4

(* Where p stands before it changes the entry of its snapshot. *)
LEMMA FillProps ==
  ASSUME IInv, NEW p \in Procs, pc[p] \in Filling
  PROVE  /\ mine[p].seq \in Seqs /\ mine[p].path \in Paths
         /\ mine[p] \in Locals
         /\ entry[mine[p].seq] \in Entries /\ entry[mine[p].seq] # None
         /\ entry[mine[p].seq].path = mine[p].path
         /\ acked[mine[p].seq] = None
         /\ \A r \in Procs : pc[r] \notin Undoing /\ pc[r] \notin Removing
         /\ \A r \in Procs : r # p /\ pc[r] \in Filling => mine[r].seq # mine[p].seq
<1>1. pc[p] # "idle" /\ pc[p] \notin Undoing
  BY DEF Filling, Undoing
<1>2. mine[p].seq \in Seqs /\ mine[p].path \in Paths /\ mine[p] \in Locals
  BY <1>1 DEF IInv, LocalsInv, UndoTypeOK
<1>3. /\ entry[mine[p].seq] # None /\ entry[mine[p].seq].path = mine[p].path
      /\ acked[mine[p].seq] = None
  BY DEF IInv, FillingInv
<1>4. entry[mine[p].seq] \in Entries
  BY <1>2, <1>3 DEF IInv, UndoTypeOK
<1>5. \A r \in Procs : pc[r] \notin Undoing /\ pc[r] \notin Removing
  BY <1>1, SnapAlone
<1>6. \A r \in Procs : r # p /\ pc[r] \in Filling => mine[r].seq # mine[p].seq
  BY DEF IInv, SnapshotsExclusive, Filling
<1> QED
  BY <1>2, <1>3, <1>4, <1>5, <1>6

LEMMA SnapMetaInv ==
  ASSUME IInv, NEW p \in Procs, SnapMeta(p)
  PROVE  IInv'
<1> DEFINE i == mine[p].seq
           e == [entry[i] EXCEPT !.meta = "empty"]
           l == IF mine[p].existed THEN "copy" ELSE "close"
<1>1. /\ pc[p] = "meta" /\ pc[p] \in Filling /\ UNCHANGED <<file, seq, acked, window, mine>>
      /\ entry' = [entry EXCEPT ![i] = e] /\ Goto(p, l)
  BY DEF SnapMeta, Filling
<1>2. /\ i \in Seqs /\ mine[p].path \in Paths
      /\ entry[i] \in Entries /\ entry[i].path = mine[p].path /\ acked[i] = None
      /\ \A r \in Procs : pc[r] \notin Undoing /\ pc[r] \notin Removing
      /\ \A r \in Procs : r # p /\ pc[r] \in Filling => mine[r].seq # i
  BY <1>1, FillProps
<1>3. entry[i].data = None
  BY <1>1 DEF IInv, FillingInv
<1>4. e \in Entries /\ e # None /\ e.path = mine[p].path /\ e.data = None
  BY <1>2, <1>3, NoneAssumption DEF Entries
<1>5. /\ acked' = [acked EXCEPT ![i] = None] /\ mine' = [mine EXCEPT ![p] = mine[p]]
      /\ pc' = [pc EXCEPT ![p] = l]
  BY <1>1, <1>2 DEF Goto, IInv, UndoTypeOK
<1>6. /\ l \in Places /\ l \notin Undoing /\ l \notin Removing
      /\ l = "copy" => mine[p].existed
      /\ ~(l = "close" /\ mine[p].existed)
  BY DEF Places, Undoing, Removing
<1> HIDE DEF e, l
<1>7. UndoTypeOK'
  <2>1. pc' \in [Procs -> Places]
    BY <1>1, <1>6, GotoType DEF IInv
  <2>2. entry' \in [Seqs -> Entries \union {None}]
    BY <1>1, <1>2, <1>4 DEF IInv, UndoTypeOK
  <2> QED
    BY <1>1, <2>1, <2>2 DEF IInv, UndoTypeOK, Places
<1>8. /\ LocalsInv' /\ AloneInv' /\ FillingInv' /\ RemovingInv'
      /\ SnapshotsExclusive' /\ AckedKept'
  <2> DEFINE m == mine[p]
  <2>1. /\ \A r \in Procs : r # p => /\ pc[r] \in Filling => mine[r].seq # i
                                     /\ pc[r] \notin Removing
        /\ \A r \in Procs : r # p => pc[r] \notin Undoing
    BY <1>2
  <2>2. m.seq = i /\ m.path \in Paths /\ i \in Seqs
    BY <1>2
  <2>3. /\ e # None /\ e.path = m.path /\ e.data = None
        /\ l = "copy" => m.existed
        /\ ~(l = "close" /\ m.existed)
    BY <1>4, <1>6
  <2>4. /\ entry' = [entry EXCEPT ![i] = e] /\ acked' = [acked EXCEPT ![i] = None]
        /\ mine' = [mine EXCEPT ![p] = m] /\ pc' = [pc EXCEPT ![p] = l]
    BY <1>1, <1>5
  <2> HIDE DEF m, i
  <2> QED
    BY <1>6, <2>1, <2>2, <2>3, <2>4, EntryMove
<1> QED
  BY <1>7, <1>8 DEF IInv

LEMMA SnapCopyInv ==
  ASSUME IInv, NEW p \in Procs, SnapCopy(p)
  PROVE  IInv'
<1> DEFINE i == mine[p].seq
           d == file[mine[p].path]
           e == [entry[i] EXCEPT !.data = d]
<1>1. /\ pc[p] = "copy" /\ pc[p] \in Filling /\ UNCHANGED <<file, seq, acked, window, mine>>
      /\ entry' = [entry EXCEPT ![i] = e] /\ Goto(p, "close") /\ d # Absent
  BY DEF SnapCopy, Filling
<1>2. /\ i \in Seqs /\ mine[p].path \in Paths
      /\ entry[i] \in Entries /\ entry[i].path = mine[p].path /\ acked[i] = None
      /\ \A r \in Procs : pc[r] \notin Undoing /\ pc[r] \notin Removing
      /\ \A r \in Procs : r # p /\ pc[r] \in Filling => mine[r].seq # i
  BY <1>1, FillProps
<1>3. d \in (Contents \union {Empty}) \ {Absent}
  BY <1>1, <1>2 DEF IInv, UndoTypeOK, Files
<1>4. mine[p].existed
  BY <1>1 DEF IInv, FillingInv
<1> HIDE DEF d
<1>5. e \in Entries /\ e # None /\ e.path = mine[p].path /\ e.data = d
  BY <1>2, <1>3, NoneAssumption DEF Entries
<1>6. /\ acked' = [acked EXCEPT ![i] = None] /\ mine' = [mine EXCEPT ![p] = mine[p]]
      /\ pc' = [pc EXCEPT ![p] = "close"]
  BY <1>1, <1>2 DEF Goto, IInv, UndoTypeOK
<1>7. "close" \in Places /\ "close" \notin Undoing /\ "close" \notin Removing
  BY DEF Places, Undoing, Removing
<1> HIDE DEF e
<1>8. UndoTypeOK'
  <2>1. pc' \in [Procs -> Places]
    BY <1>1, <1>7, GotoType DEF IInv
  <2>2. entry' \in [Seqs -> Entries \union {None}]
    BY <1>1, <1>2, <1>5 DEF IInv, UndoTypeOK
  <2> QED
    BY <1>1, <2>1, <2>2 DEF IInv, UndoTypeOK, Places
<1>9. /\ LocalsInv' /\ AloneInv' /\ FillingInv' /\ RemovingInv'
      /\ SnapshotsExclusive' /\ AckedKept'
  <2> DEFINE m == mine[p]
  <2>1. /\ \A r \in Procs : r # p => /\ pc[r] \in Filling => mine[r].seq # i
                                     /\ pc[r] \notin Removing
        /\ \A r \in Procs : r # p => pc[r] \notin Undoing
    BY <1>2
  <2>2. m.seq = i /\ m.path \in Paths
    BY <1>2
  <2>3. /\ e # None /\ e.path = m.path
        /\ "close" = "copy" => m.existed
        /\ IF "close" = "close" /\ m.existed
           THEN e.data \in (Contents \union {Empty}) \ {Absent}
           ELSE e.data = None
    BY <1>3, <1>4, <1>5
  <2>4. i \in Seqs
    BY <1>2
  <2>5. /\ entry' = [entry EXCEPT ![i] = e] /\ acked' = [acked EXCEPT ![i] = None]
        /\ mine' = [mine EXCEPT ![p] = m] /\ pc' = [pc EXCEPT ![p] = "close"]
    BY <1>1, <1>6
  <2> HIDE DEF m, i
  <2> QED
    BY <1>7, <2>1, <2>2, <2>3, <2>4, <2>5, EntryMove
<1> QED
  BY <1>8, <1>9 DEF IInv

LEMMA SnapCloseInv ==
  ASSUME IInv, NEW p \in Procs, SnapClose(p)
  PROVE  IInv'
<1> DEFINE i == mine[p].seq
           d == entry[i].data
           x == mine[p].existed
           q == mine[p].path
           a == [path |-> q, preimage |-> IF x THEN d ELSE Absent]
<1>1. PICK t \in {"existed", "absent", "empty"} :
        entry' = [entry EXCEPT ![i] = [entry[i] EXCEPT !.meta = t]]
  BY DEF SnapClose
<1> DEFINE e == [entry[i] EXCEPT !.meta = t]
<1>2. /\ pc[p] = "close" /\ pc[p] \in Filling /\ Done(p)
      /\ acked' = [acked EXCEPT ![i] = a] /\ UNCHANGED <<file, seq>>
  BY DEF SnapClose, Filling
<1>3. window' \in [Procs -> (SUBSET Paths) \union {None}]
  <2>1. window[p] # None => window[p] \union {q} \in SUBSET Paths
    BY <1>2, FillProps DEF IInv, UndoTypeOK
  <2> QED
    BY <2>1 DEF SnapClose, IInv, UndoTypeOK
<1>4. /\ i \in Seqs /\ q \in Paths
      /\ entry[i] \in Entries /\ entry[i].path = q
      /\ \A r \in Procs : pc[r] \notin Undoing /\ pc[r] \notin Removing
      /\ \A r \in Procs : r # p /\ pc[r] \in Filling => mine[r].seq # i
  BY <1>2, FillProps
<1>5. /\ x => d \in (Contents \union {Empty}) \ {Absent}
      /\ ~x => d = None
  BY <1>2 DEF IInv, FillingInv
<1>6. e \in Entries /\ e # None /\ e.path = q /\ e.data = d
  BY <1>4, NoneAssumption DEF Entries
<1> HIDE DEF d, x, q
<1>7. /\ a \in [path: Paths, preimage: Files]
      /\ a.path = q
      /\ d = IF a.preimage = Absent THEN None ELSE a.preimage
  BY <1>4, <1>5 DEF Files
<1>8. UndoTypeOK'
  <2>1. pc' \in [Procs -> Places] /\ mine' \in [Procs -> Locals]
    BY <1>2, DoneType DEF IInv
  <2> HIDE DEF e, a
  <2>2. entry' \in [Seqs -> Entries \union {None}]
    BY <1>1, <1>4, <1>6 DEF e, IInv, UndoTypeOK
  <2>3. acked' \in [Seqs -> [path: Paths, preimage: Files] \union {None}]
    BY <1>2, <1>4, <1>7 DEF IInv, UndoTypeOK
  <2> QED
    BY <1>2, <1>3, <2>1, <2>2, <2>3 DEF IInv, UndoTypeOK, Places
<1>9. /\ LocalsInv' /\ AloneInv' /\ FillingInv' /\ RemovingInv'
      /\ SnapshotsExclusive' /\ AckedKept'
  <2>1. \A r \in Procs : r # p => /\ pc[r] \in Filling => mine[r].seq # i
                                  /\ pc[r] \notin Removing
    BY <1>4
  <2>2. /\ entry' = [entry EXCEPT ![i] = e] /\ acked' = [acked EXCEPT ![i] = a]
        /\ mine' = [mine EXCEPT ![p] = NoLocals] /\ pc' = [pc EXCEPT ![p] = "idle"]
    BY <1>1, <1>2 DEF Done, Goto
  <2>3. e # None /\ e.path = a.path /\ e.data = IF a.preimage = Absent THEN None ELSE a.preimage
    BY <1>6, <1>7
  <2>4. "idle" \notin Filling /\ "idle" \notin Removing /\ "idle" \notin Undoing
    BY DEF Filling, Removing, Undoing
  <2>5. i \in Seqs
    BY <1>4
  <2> HIDE DEF e, a, i
  <2> QED
    BY <2>1, <2>2, <2>3, <2>4, <2>5, EntryMove
<1> QED
  BY <1>8, <1>9 DEF IInv

(* An undo that removes its entry: everyone else is idle. *)
LEMMA RemoveProps ==
  ASSUME IInv, NEW p \in Procs, pc[p] \in Removing
  PROVE  /\ mine[p].seq \in Seqs /\ mine[p].path \in Paths
         /\ entry[mine[p].seq] \in Entries /\ entry[mine[p].seq] # None
         /\ \A r \in Procs : r # p => /\ pc[r] = "idle"
                                     /\ pc[r] \notin Filling
                                     /\ pc[r] \notin Removing
                                     /\ pc[r] \notin Undoing
<1>1. pc[p] # "idle" /\ pc[p] \in Undoing
  BY DEF Removing, Undoing
<1>2. mine[p].seq \in Seqs /\ mine[p].path \in Paths
  BY <1>1 DEF IInv, LocalsInv
<1>3. entry[mine[p].seq] # None
  BY DEF IInv, RemovingInv
<1>4. entry[mine[p].seq] \in Entries
  BY <1>2, <1>3 DEF IInv, UndoTypeOK
<1>5. \A r \in Procs : r # p => pc[r] = "idle"
  BY <1>1 DEF IInv, AloneInv
<1> QED
  BY <1>2, <1>3, <1>4, <1>5 DEF Filling, Removing, Undoing

LEMMA UndoDropInv ==
  ASSUME IInv, NEW p \in Procs, UndoDrop(p)
  PROVE  IInv'
<1> DEFINE i == mine[p].seq
           m == mine[p]
           e == [entry[i] EXCEPT !.data = None]
<1>1. /\ pc[p] = "drop" /\ pc[p] \in Removing /\ UNCHANGED <<file, seq, window, mine>>
      /\ entry' = [entry EXCEPT ![i] = e] /\ acked' = [acked EXCEPT ![i] = None]
      /\ Goto(p, "rmdir")
  BY DEF UndoDrop, Removing
<1>2. /\ i \in Seqs /\ m.seq = i /\ m.path \in Paths /\ entry[i] \in Entries
      /\ \A r \in Procs : r # p => /\ pc[r] = "idle"
                                  /\ pc[r] \notin Filling
                                  /\ pc[r] \notin Removing
                                  /\ pc[r] \notin Undoing
  BY <1>1, RemoveProps
<1>3. e \in Entries /\ e # None
  BY <1>2, NoneAssumption DEF Entries
<1>4. mine' = [mine EXCEPT ![p] = m] /\ pc' = [pc EXCEPT ![p] = "rmdir"]
  BY <1>1 DEF Goto, IInv, UndoTypeOK
<1>5. "rmdir" \in Places /\ "rmdir" \notin Filling
  BY DEF Places, Filling
<1> HIDE DEF e
<1>6. UndoTypeOK'
  <2>1. pc' \in [Procs -> Places]
    BY <1>1, <1>5, GotoType DEF IInv
  <2>2. entry' \in [Seqs -> Entries \union {None}]
    BY <1>1, <1>2, <1>3 DEF IInv, UndoTypeOK
  <2>3. acked' \in [Seqs -> [path: Paths, preimage: Files] \union {None}]
    BY <1>1, <1>2 DEF IInv, UndoTypeOK
  <2> QED
    BY <1>1, <2>1, <2>2, <2>3 DEF IInv, UndoTypeOK, Places
<1>7. /\ LocalsInv' /\ AloneInv' /\ FillingInv' /\ RemovingInv'
      /\ SnapshotsExclusive' /\ AckedKept'
  <2>1. /\ entry' = [entry EXCEPT ![i] = e] /\ acked' = [acked EXCEPT ![i] = None]
    BY <1>1
  <2> HIDE DEF i, m
  <2> QED
    BY <1>2, <1>3, <1>4, <1>5, <2>1, EntryMove
<1> QED
  BY <1>6, <1>7 DEF IInv

LEMMA UndoRmdirInv ==
  ASSUME IInv, NEW p \in Procs, UndoRmdir(p)
  PROVE  IInv'
<1> DEFINE i == mine[p].seq
           m == mine[p]
<1>1. /\ pc[p] = "rmdir" /\ pc[p] \in Removing /\ UNCHANGED <<file, seq, acked, window, mine>>
      /\ entry' = [entry EXCEPT ![i] = None] /\ Goto(p, "useq")
  BY DEF UndoRmdir, Removing
<1>2. /\ i \in Seqs /\ m.seq = i /\ m.path \in Paths
      /\ \A r \in Procs : r # p => /\ pc[r] = "idle"
                                  /\ pc[r] \notin Filling
                                  /\ pc[r] \notin Removing
                                  /\ pc[r] \notin Undoing
  BY <1>1, RemoveProps
<1>3. acked[i] = None
  BY <1>1 DEF IInv, RemovingInv
<1>4. /\ mine' = [mine EXCEPT ![p] = m] /\ pc' = [pc EXCEPT ![p] = "useq"]
      /\ acked' = [acked EXCEPT ![i] = None]
  BY <1>1, <1>2, <1>3 DEF Goto, IInv, UndoTypeOK
<1>5. "useq" \in Places /\ "useq" \notin Filling /\ "useq" \notin Removing
  BY DEF Places, Filling, Removing
<1>6. UndoTypeOK'
  <2>1. pc' \in [Procs -> Places]
    BY <1>1, <1>5, GotoType DEF IInv
  <2>2. entry' \in [Seqs -> Entries \union {None}]
    BY <1>1, <1>2 DEF IInv, UndoTypeOK
  <2> QED
    BY <1>1, <2>1, <2>2 DEF IInv, UndoTypeOK, Places
<1>7. /\ LocalsInv' /\ AloneInv' /\ FillingInv' /\ RemovingInv'
      /\ SnapshotsExclusive' /\ AckedKept'
  <2>1. entry' = [entry EXCEPT ![i] = None]
    BY <1>1
  <2> HIDE DEF i, m
  <2> QED
    BY <1>2, <1>4, <1>5, <2>1, EntryMove
<1> QED
  BY <1>6, <1>7 DEF IInv

-----------------------------------------------------------------------------
(* The theorems.                                                            *)

LEMMA InitIInv == Init => IInv
<1> SUFFICES ASSUME Init PROVE IInv
  OBVIOUS
<1>1. NoLocals \in Locals
  BY MaxSeqAssumption DEF NoLocals, Locals
<1>2. UndoTypeOK
  <2>1. file \in [Paths -> Files]
    BY DEF Init, Files
  <2>2. mine \in [Procs -> Locals] /\ seq \in 0 .. MaxSeq
    BY <1>1, MaxSeqAssumption DEF Init
  <2> QED
    BY <2>1, <2>2 DEF Init, UndoTypeOK
<1>3. LocalsInv /\ AloneInv /\ FillingInv /\ RemovingInv
  BY DEF Init, LocalsInv, AloneInv, FillingInv, RemovingInv, Filling, Removing, Undoing
<1>4. SnapshotsExclusive /\ AckedKept
  BY DEF Init, SnapshotsExclusive, AckedKept
<1> QED
  BY <1>2, <1>3, <1>4 DEF IInv

LEMMA NextIInv ==
  ASSUME Alone, IInv, [Next]_vars
  PROVE  IInv'
<1>1. CASE UNCHANGED vars
  BY <1>1 DEF vars, IInv, UndoTypeOK, LocalsInv, AloneInv, FillingInv, RemovingInv,
              SnapshotsExclusive, AckedKept
<1>2. ASSUME NEW p \in Procs,
             \/ \E q \in Paths, c \in Contents \union {Absent} : Write(p, q, c)
             \/ ApplyBegin(p) \/ ApplyEnd(p) \/ Crash(p)
      PROVE  IInv'
  BY <1>2, ShellInv, CrashInv
<1>3. ASSUME NEW p \in Procs, Snap(p) PROVE IInv'
  BY <1>3, SnapBeginInv, SeqAndFileInv, SnapMkdirInv, SnapMetaInv, FailsInv, SnapCopyInv,
     SnapCloseInv DEF Snap
<1>4. ASSUME NEW p \in Procs, Undo(p) PROVE IInv'
  BY <1>4, UndoBeginInv, SeqAndFileInv, FailsInv, UndoDropInv, UndoRmdirInv, UndoPutSeqInv
     DEF Undo
<1> QED
  BY <1>1, <1>2, <1>3, <1>4 DEF Next

LEMMA UndoInvariant ==
  ASSUME Alone
  PROVE  Spec => []IInv
<1>1. IInv /\ [Next]_vars => IInv'
  BY NextIInv
<1> QED
  BY InitIInv, <1>1, PTL DEF Spec

(* The undo directory, the operations' locals and the apply window keep their   *)
(* shape through every interleaving of snapshots, failures and deaths, as long   *)
(* as an undo (rash_lua_undo_last) has the directory for itself.             *)
THEOREM UndoTypeCorrect ==
  ASSUME Alone
  PROVE  Spec => []UndoTypeOK
<1>1. IInv => UndoTypeOK
  BY DEF IInv
<1> QED
  BY UndoInvariant, <1>1, PTL

(* mkdir of a numbered entry is what makes an entry one snapshot's own: no two   *)
(* processes write into the same entry, although the seq file is read, truncated  *)
(* and rewritten with no lock and two of them may be handed the same number.    *)
THEOREM Exclusive ==
  ASSUME Alone
  PROVE  Spec => []SnapshotsExclusive
<1>1. IInv => SnapshotsExclusive
  BY DEF IInv
<1> QED
  BY UndoInvariant, <1>1, PTL

(* Once rash.snapshot_file has returned success, the preimage stays in its entry  *)
(* as it was taken until an undo removes it, whatever the other processes do,    *)
(* whichever call fails and wherever a process dies.                        *)
THEOREM Kept ==
  ASSUME Alone
  PROVE  Spec => []AckedKept
<1>1. IInv => AckedKept
  BY DEF IInv
<1> QED
  BY UndoInvariant, <1>1, PTL

-----------------------------------------------------------------------------
(* One process, and nothing fails: the directory is a stack.                 *)
(*                                                                           *)
(* c and m are where the process is and its locals, en the entries, f the     *)
(* files and n the number in the seq file.                                  *)

(* How many snapshots are complete and not being removed. *)
HeightOf(c, m, n) ==
  CASE c = "idle" -> n
    [] c \in {"unlink", "truncate", "restore"} -> m.seq
    [] OTHER -> m.seq - 1

(* A completed entry holds a preimage exactly if there was a file. *)
Whole(e) ==
  /\ e # None
  /\ e.meta \in {"existed", "absent"}
  /\ e.meta = "existed" => e.data # None

(* The entries are numbered without a gap; above them there is only the one      *)
(* under way.  Files do not change during an operation.                     *)
SoleOK(c, m, en, f, n) ==
  /\ HeightOf(c, m, n) \in 0 .. MaxSeq
  /\ \A i \in 1 .. HeightOf(c, m, n) : Whole(en[i])
  /\ \A i \in Seqs : i > HeightOf(c, m, n) =>
       \/ en[i] = None
       \/ i = m.seq /\ c \in Filling \union {"drop", "rmdir"}
  /\ c \in {"mkdir"} \union Filling => n = m.seq
  /\ c \in {"reset", "put", "mkdir"} \union Filling => m.existed = (f[m.path] # Absent)
  /\ c \in Filling => en[m.seq].meta = IF c = "meta" THEN "none" ELSE "empty"
  /\ c = "close" /\ m.existed => en[m.seq].data = f[m.path]
  /\ c \in {"unlink", "truncate", "restore"} =>
       /\ m.path = en[m.seq].path
       /\ en[m.seq].meta = IF c = "unlink" THEN "absent" ELSE "existed"
  /\ c = "truncate" => m.old = f[m.path]

SoleInv == \A p \in Procs : SoleOK(pc[p], mine[p], entry, file, seq)

(* Complete, StackFile and StackOf of any state. *)
CompleteFrom(en, cs, ms) ==
  {i \in Seqs : /\ en[i] # None
                /\ en[i].meta \in {"existed", "absent"}
                /\ \A p \in Procs : ~(cs[p] \in {"drop", "rmdir"} /\ ms[p].seq = i)}
FileFrom(f, cs, ms) ==
  [q \in Paths |->
     IF \E p \in Procs : cs[p] = "restore" /\ ms[p].path = q
     THEN ms[CHOOSE p \in Procs : cs[p] = "restore" /\ ms[p].path = q].old
     ELSE f[q]]
NthFrom(C, k) == CHOOSE i \in C : Cardinality({j \in C : j <= i}) = k
Preimage(e) ==
  [path |-> e.path, preimage |-> IF e.meta = "existed" THEN e.data ELSE Absent]
StackFrom(C, en) == [k \in 1 .. Cardinality(C) |-> Preimage(en[NthFrom(C, k)])]

(* With one process. *)
FileOf(f, c, m) == [q \in Paths |-> IF c = "restore" /\ m.path = q THEN m.old ELSE f[q]]
StackTo(en, n) == [k \in 1 .. n |-> Preimage(en[k])]

LEMMA NthOfRun ==
  ASSUME NEW n \in Nat, NEW k \in 1 .. n
  PROVE  NthFrom(1 .. n, k) = k
<1> DEFINE C == 1 .. n
           P(i) == Cardinality({j \in C : j <= i}) = k
<1>1. ASSUME NEW i \in C PROVE Cardinality({j \in C : j <= i}) = i
  <2>1. {j \in C : j <= i} = 1 .. i
    OBVIOUS
  <2>2. Cardinality(1 .. i) = i
    BY FS_Interval
  <2> QED
    BY <2>1, <2>2
<1>2. k \in C /\ \A i \in C : P(i) <=> i = k
  BY <1>1
<1>3. NthFrom(C, k) = CHOOSE i \in C : P(i)
  BY DEF NthFrom
<1> HIDE DEF C, P
<1>4. NthFrom(C, k) \in C /\ P(NthFrom(C, k))
  BY <1>2, <1>3
<1>5. NthFrom(C, k) = k
  BY <1>2, <1>4
<1> QED
  BY <1>5 DEF C

LEMMA StackOfRun ==
  ASSUME NEW n \in Nat, NEW en
  PROVE  StackFrom(1 .. n, en) = StackTo(en, n)
<1>1. Cardinality(1 .. n) = n
  BY FS_Interval
<1>2. \A k \in 1 .. n : NthFrom(1 .. n, k) = k
  BY NthOfRun
<1> QED
  BY <1>1, <1>2 DEF StackFrom, StackTo

LEMMA CompleteRun ==
  ASSUME NEW c, NEW m \in Locals, NEW en, NEW f, NEW n, SoleOK(c, m, en, f, n),
         NEW p, Procs = {p}, NEW cs, NEW ms, cs[p] = c, ms[p] = m
  PROVE  CompleteFrom(en, cs, ms) = 1 .. HeightOf(c, m, n)
<1> DEFINE h == HeightOf(c, m, n)
<1>1. m.seq \in Nat /\ MaxSeq \in Nat
  BY MaxSeqAssumption DEF Locals
<1>2. h \in Nat /\ h <= MaxSeq
  BY <1>1 DEF SoleOK
<1>3. c \in {"drop", "rmdir"} => m.seq > h
  BY <1>1 DEF HeightOf
<1>4. \A i \in 1 .. h : i \in Seqs /\ i \in CompleteFrom(en, cs, ms)
  <2> TAKE i \in 1 .. h
  <2>1. i \in Seqs
    BY <1>1, <1>2 DEF Seqs
  <2>2. en[i] # None /\ en[i].meta \in {"existed", "absent"}
    BY DEF SoleOK, Whole
  <2>3. ~(c \in {"drop", "rmdir"} /\ m.seq = i)
    BY <1>1, <1>2, <1>3
  <2> QED
    BY <2>1, <2>2, <2>3 DEF CompleteFrom
<1>5. \A i \in CompleteFrom(en, cs, ms) : i \in 1 .. h
  <2> TAKE i \in CompleteFrom(en, cs, ms)
  <2>1. /\ i \in Seqs /\ en[i] # None /\ en[i].meta \in {"existed", "absent"}
        /\ ~(c \in {"drop", "rmdir"} /\ m.seq = i)
    BY DEF CompleteFrom
  <2>2. ASSUME i > h PROVE FALSE
    <3>1. i = m.seq /\ c \in Filling
      BY <2>1, <2>2 DEF SoleOK
    <3> QED
      BY <2>1, <3>1 DEF SoleOK
  <2> QED
    BY <1>1, <1>2, <2>1, <2>2 DEF Seqs
<1> QED
  BY <1>4, <1>5

LEMMA FileOfOne ==
  ASSUME NEW f, NEW cs, NEW ms, NEW p, Procs = {p}
  PROVE  FileFrom(f, cs, ms) = FileOf(f, cs[p], ms[p])
<1>1. ASSUME NEW q \in Paths
      PROVE  FileFrom(f, cs, ms)[q] = FileOf(f, cs[p], ms[p])[q]
  <2> DEFINE P(r) == cs[r] = "restore" /\ ms[r].path = q
  <2>1. (CHOOSE r \in Procs : P(r)) = p \/ ~P(p)
    <3> HIDE DEF P
    <3> QED
      OBVIOUS
  <2> QED
    BY <2>1 DEF FileFrom, FileOf
<1> QED
  BY <1>1 DEF FileFrom, FileOf

(* The state of the stack that the directory implements. *)
LEMMA Mapping ==
  /\ StackFile = FileFrom(file, pc, mine) /\ StackFile' = FileFrom(file', pc', mine')
  /\ StackOf = StackFrom(CompleteFrom(entry, pc, mine), entry)
  /\ StackOf' = StackFrom(CompleteFrom(entry', pc', mine'), entry')
<1>1. /\ Complete = CompleteFrom(entry, pc, mine)
      /\ Complete' = CompleteFrom(entry', pc', mine')
  BY DEF Complete, CompleteFrom
<1>2. StackFile = FileFrom(file, pc, mine) /\ StackFile' = FileFrom(file', pc', mine')
  BY DEF StackFile, FileFrom
<1>3. StackOf = StackFrom(Complete, entry) /\ StackOf' = StackFrom(Complete', entry')
  BY DEF StackOf, StackFrom, Nth, NthFrom, Preimage
<1> QED
  BY <1>1, <1>2, <1>3

(* What holds of process p and of the directory in such a state. *)
LEMMA SoleFacts ==
  ASSUME IInv, SoleInv, NEW p \in Procs
  PROVE  /\ pc[p] \in Places /\ mine[p] \in Locals
         /\ pc \in [Procs -> Places] /\ mine \in [Procs -> Locals]
         /\ entry \in [Seqs -> Entries \union {None}] /\ file \in [Paths -> Files]
         /\ seq \in 0 .. MaxSeq /\ MaxSeq \in Nat /\ mine[p].seq \in Nat
         /\ pc[p] # "idle" => mine[p].seq \in Seqs /\ mine[p].path \in Paths
         /\ pc[p] \in Filling =>
              /\ entry[mine[p].seq] # None
              /\ entry[mine[p].seq].path = mine[p].path
              /\ pc[p] = "copy" => mine[p].existed
         /\ pc[p] \in Removing => entry[mine[p].seq] # None
         /\ SoleOK(pc[p], mine[p], entry, file, seq)
<1>1. /\ pc \in [Procs -> Places] /\ mine \in [Procs -> Locals]
      /\ entry \in [Seqs -> Entries \union {None}] /\ file \in [Paths -> Files]
      /\ seq \in 0 .. MaxSeq /\ MaxSeq \in Nat
  BY MaxSeqAssumption DEF IInv, UndoTypeOK, Places
<1>2. mine[p].seq \in Nat
  BY <1>1 DEF Locals
<1>3. pc[p] # "idle" => mine[p].seq \in Seqs /\ mine[p].path \in Paths
  BY DEF IInv, LocalsInv
<1>4. pc[p] \in Filling => /\ entry[mine[p].seq] # None
                           /\ entry[mine[p].seq].path = mine[p].path
                           /\ pc[p] = "copy" => mine[p].existed
  BY DEF IInv, FillingInv
<1>5. pc[p] \in Removing => entry[mine[p].seq] # None
  BY DEF IInv, RemovingInv
<1>6. SoleOK(pc[p], mine[p], entry, file, seq)
  BY DEF SoleInv
<1> QED
  BY <1>1, <1>2, <1>3, <1>4, <1>5, <1>6

(* A step that the stack does not see. *)
Stays(p) ==
  /\ SoleOK(pc'[p], mine'[p], entry', file', seq')
  /\ HeightOf(pc'[p], mine'[p], seq') = HeightOf(pc[p], mine[p], seq)
  /\ \A k \in 1 .. HeightOf(pc[p], mine[p], seq) : entry'[k] = entry[k]
  /\ FileOf(file', pc'[p], mine'[p]) = FileOf(file, pc[p], mine[p])

LEMMA SeqStays ==
  ASSUME IInv, SoleInv, NEW p \in Procs,
         \/ ApplyBegin(p) \/ ApplyEnd(p)
         \/ SnapResetSeq(p) \/ SnapPutSeq(p) \/ UndoResetSeq(p) \/ UndoPutSeq(p)
  PROVE  Stays(p)
<1> DEFINE c == pc[p]
           m == mine[p]
<1>1. UNCHANGED <<file, entry>>
  BY DEF ApplyBegin, ApplyEnd, SnapResetSeq, SnapPutSeq, UndoResetSeq, UndoPutSeq, store
<1>2. CASE ApplyBegin(p) \/ ApplyEnd(p)
  <2>1. UNCHANGED <<pc, mine, seq>>
    BY <1>2 DEF ApplyBegin, ApplyEnd, store
  <2> QED
    BY <1>1, <2>1, SoleFacts DEF Stays
<1>3. CASE SnapResetSeq(p)
  <2>1. c = "reset" /\ pc'[p] = "put" /\ UNCHANGED mine
    BY <1>3, SoleFacts DEF SnapResetSeq, Goto
  <2> QED
    BY <1>1, <2>1, SoleFacts DEF Stays, SoleOK, HeightOf, FileOf, Filling
<1>4. CASE SnapPutSeq(p)
  <2>1. c = "put" /\ pc'[p] = "mkdir" /\ seq' = m.seq /\ UNCHANGED mine
    BY <1>4, SoleFacts DEF SnapPutSeq, Goto
  <2> QED
    BY <1>1, <2>1, SoleFacts DEF Stays, SoleOK, HeightOf, FileOf, Filling
<1>5. CASE UndoResetSeq(p)
  <2>1. c = "useq" /\ pc'[p] = "uput" /\ UNCHANGED mine
    BY <1>5, SoleFacts DEF UndoResetSeq, Goto
  <2> QED
    BY <1>1, <2>1, SoleFacts DEF Stays, SoleOK, HeightOf, FileOf, Filling
<1>6. CASE UndoPutSeq(p)
  <2>1. c = "uput" /\ pc'[p] = "idle" /\ seq' = m.seq - 1
    BY <1>6, SoleFacts DEF UndoPutSeq, SeqAfterUndo, Done, Goto
  <2> QED
    BY <1>1, <2>1, SoleFacts DEF Stays, SoleOK, HeightOf, FileOf, Filling
<1> QED
  BY <1>2, <1>3, <1>4, <1>5, <1>6

LEMMA SnapBeginStays ==
  ASSUME IInv, SoleInv, NEW p \in Procs, NEW q \in Paths, SnapBegin(p, q)
  PROVE  Stays(p)
<1>1. /\ pc[p] = "idle" /\ pc'[p] = "reset" /\ UNCHANGED <<file, entry, seq>>
      /\ seq + 1 <= MaxSeq
      /\ mine'[p] = [seq |-> seq + 1, path |-> q, existed |-> file[q] # Absent, old |-> None]
  BY SoleFacts DEF SnapBegin, MayStart, NextSeq, Goto, store
<1>2. /\ mine'[p].seq = seq + 1 /\ mine'[p].path = q
      /\ mine'[p].existed = (file[q] # Absent)
  BY <1>1
<1> QED
  BY <1>1, <1>2, SoleFacts DEF Stays, SoleOK, HeightOf, FileOf, Filling

LEMMA Below == \A i \in Seqs : i \in Int /\ \A k \in 1 .. i - 1 : k \in Seqs /\ k # i
BY MaxSeqAssumption DEF Seqs

(* A step of p that changes the entry under way, above the others. *)
LEMMA EntryStays ==
  ASSUME IInv, SoleInv, NEW p \in Procs, pc[p] # "idle", mine'[p] = mine[p],
         NEW e, entry' = [entry EXCEPT ![mine[p].seq] = e], UNCHANGED <<file, seq>>,
         pc[p] \in Places \ {"unlink", "truncate", "restore"},
         pc'[p] \in Places \ {"idle", "unlink", "truncate", "restore"},
         e = None \/ pc'[p] \in Filling \union {"drop", "rmdir"},
         pc'[p] \in {"reset", "put", "mkdir"} \union Filling =>
           pc[p] \in {"reset", "put", "mkdir"} \union Filling,
         pc'[p] \in {"mkdir"} \union Filling => pc[p] \in {"mkdir"} \union Filling,
         pc'[p] \in Filling => e.meta = IF pc'[p] = "meta" THEN "none" ELSE "empty",
         pc'[p] = "close" /\ mine[p].existed => e.data = file[mine[p].path]
  PROVE  Stays(p)
<1> DEFINE m == mine[p]
           i == m.seq
           h == HeightOf(pc[p], m, seq)
<1>1. i \in Seqs /\ i - 1 \in Nat /\ i > i - 1
  BY SoleFacts DEF Seqs
<1>2. h = i - 1 /\ HeightOf(pc'[p], m, seq') = i - 1
  BY DEF HeightOf
<1>3. /\ entry'[i] = e
      /\ \A k \in Seqs : k # i => entry'[k] = entry[k]
  BY <1>1, SoleFacts
<1>4. \A k \in 1 .. i - 1 : k \in Seqs /\ k # i /\ entry'[k] = entry[k]
  <2> HIDE DEF i
  <2> QED
    BY <1>1, <1>3, Below
<1>5. SoleOK(pc[p], m, entry, file, seq)
  BY SoleFacts
<1>6. SoleOK(pc'[p], m, entry', file', seq')
  <2>1. \A k \in 1 .. i - 1 : Whole(entry'[k])
    BY <1>2, <1>4, <1>5 DEF SoleOK
  <2>2. \A k \in Seqs : k > i - 1 =>
          entry'[k] = None \/ (k = i /\ pc'[p] \in Filling \union {"drop", "rmdir"})
    BY <1>2, <1>3, <1>5 DEF SoleOK
  <2>3. i - 1 \in 0 .. MaxSeq
    BY <1>2, <1>5 DEF SoleOK
  <2> HIDE DEF m, i, h
  <2>4. pc'[p] \in {"mkdir"} \union Filling => seq = m.seq
    BY <1>5 DEF SoleOK, m
  <2>5. pc'[p] \in {"reset", "put", "mkdir"} \union Filling =>
          m.existed = (file[m.path] # Absent)
    BY <1>5 DEF SoleOK, m
  <2> QED
    BY <1>2, <1>3, <2>1, <2>2, <2>3, <2>4, <2>5 DEF SoleOK, m, i
<1>7. FileOf(file', pc'[p], m) = FileOf(file, pc[p], m)
  BY DEF FileOf
<1> QED
  BY <1>2, <1>4, <1>6, <1>7 DEF Stays

LEMMA SnapMkdirStays ==
  ASSUME IInv, SoleInv, NEW p \in Procs, SnapMkdir(p)
  PROVE  Stays(p)
<1> DEFINE m == mine[p]
           e == [path |-> m.path, meta |-> "none", data |-> None]
<1>1. pc[p] = "mkdir" /\ UNCHANGED <<file, seq>>
  BY DEF SnapMkdir
<1>2. entry[m.seq] = None
  <2>1. m.seq \in Seqs /\ m.seq > m.seq - 1
    BY <1>1, SoleFacts DEF Seqs
  <2> QED
    BY <1>1, <2>1, SoleFacts DEF SoleOK, HeightOf, Filling
<1>3. entry' = [entry EXCEPT ![m.seq] = e] /\ mine' = mine /\ pc'[p] = "meta"
  BY <1>1, <1>2, SoleFacts DEF SnapMkdir, EntryFree, Goto
<1>4. e.meta = "none"
  OBVIOUS
<1> HIDE DEF e, m
<1>5. mine'[p] = mine[p] /\ entry' = [entry EXCEPT ![mine[p].seq] = e]
  BY <1>3 DEF m
<1> QED
  BY <1>1, <1>3, <1>4, <1>5, EntryStays DEF Places, Filling

LEMMA EntryStepsStay ==
  ASSUME IInv, SoleInv, NEW p \in Procs,
         SnapMeta(p) \/ SnapCopy(p) \/ UndoDrop(p) \/ UndoRmdir(p)
  PROVE  Stays(p)
<1> DEFINE m == mine[p]
<1>1. /\ pc[p] \in {"meta", "copy", "drop", "rmdir"} /\ UNCHANGED <<file, seq>>
      /\ mine' = mine
  BY DEF SnapMeta, SnapCopy, UndoDrop, UndoRmdir
<1>2. m.seq \in Seqs /\ entry[m.seq] \in Entries /\ mine'[p] = mine[p]
  <2>1. entry[m.seq] # None
    BY <1>1, SoleFacts DEF Filling, Removing
  <2>2. m.seq \in Seqs
    BY <1>1, SoleFacts
  <2> QED
    BY <1>1, <2>1, <2>2, SoleFacts
<1>3. CASE SnapMeta(p)
  <2> DEFINE e == [entry[m.seq] EXCEPT !.meta = "empty"]
  <2>1. /\ pc[p] = "meta" /\ pc'[p] = IF m.existed THEN "copy" ELSE "close"
        /\ entry' = [entry EXCEPT ![m.seq] = e]
    BY <1>3, SoleFacts DEF SnapMeta, Goto
  <2>2. e.meta = "empty"
    BY <1>2 DEF Entries
  <2> HIDE DEF e
  <2> QED
    BY <1>1, <1>2, <2>1, <2>2, EntryStays DEF Places, Filling
<1>4. CASE SnapCopy(p)
  <2> DEFINE e == [entry[m.seq] EXCEPT !.data = file[m.path]]
  <2>1. /\ pc[p] = "copy" /\ pc'[p] = "close"
        /\ entry' = [entry EXCEPT ![m.seq] = e]
    BY <1>4, SoleFacts DEF SnapCopy, Goto
  <2>2. entry[m.seq].meta = "empty"
    BY <2>1, SoleFacts DEF SoleOK, Filling
  <2>3. e.meta = "empty" /\ e.data = file[m.path]
    BY <1>2, <2>2 DEF Entries
  <2> HIDE DEF e
  <2> QED
    BY <1>1, <1>2, <2>1, <2>3, EntryStays DEF Places, Filling
<1>5. CASE UndoDrop(p)
  <2> DEFINE e == [entry[m.seq] EXCEPT !.data = None]
  <2>1. /\ pc[p] = "drop" /\ pc'[p] = "rmdir"
        /\ entry' = [entry EXCEPT ![m.seq] = e]
    BY <1>5, SoleFacts DEF UndoDrop, Goto
  <2> HIDE DEF e
  <2> QED
    BY <1>1, <1>2, <2>1, EntryStays DEF Places, Filling
<1>6. CASE UndoRmdir(p)
  <2>1. /\ pc[p] = "rmdir" /\ pc'[p] = "useq"
        /\ entry' = [entry EXCEPT ![m.seq] = None]
    BY <1>6, SoleFacts DEF UndoRmdir, Goto
  <2> QED
    BY <1>1, <1>2, <2>1, EntryStays DEF Places, Filling
<1> QED
  BY <1>3, <1>4, <1>5, <1>6

(* The last entry is the one the counter names. *)
LEMMA UndoBeginStays ==
  ASSUME IInv, SoleInv, NEW p \in Procs, UndoBegin(p)
  PROVE  Stays(p)
<1> DEFINE n == LatestEntry
           e == entry[n]
<1>1. /\ pc[p] = "idle" /\ n # 0 /\ UNCHANGED <<file, entry, seq>>
      /\ mine'[p] = [seq |-> n, path |-> e.path, existed |-> e.meta = "existed",
                     old |-> file[e.path]]
      /\ pc'[p] = IF e.meta = "existed" THEN "truncate" ELSE "unlink"
  BY SoleFacts DEF UndoBegin, MayStart, Goto, store
<1>2. mine'[p].seq = n /\ mine'[p].path = e.path /\ mine'[p].old = file[e.path]
  BY <1>1
<1>3. /\ n \in Seqs /\ n <= seq /\ \A j \in 1 .. seq : Recorded(j) => j <= n
  BY <1>1, LatestProps DEF IInv
<1> HIDE DEF n, e
<1>4. SoleOK("idle", mine[p], entry, file, seq) /\ HeightOf("idle", mine[p], seq) = seq
  BY <1>1, SoleFacts DEF HeightOf
<1>5. seq \in Nat /\ seq \in 1 .. seq /\ n \in Nat
  BY <1>3, SoleFacts DEF Seqs
<1>6. n = seq
  <2>1. Recorded(seq)
    BY <1>4, <1>5 DEF SoleOK, Whole, Recorded
  <2> QED
    BY <1>3, <1>5, <2>1
<1>7. Whole(e)
  BY <1>4, <1>5, <1>6 DEF SoleOK, e
<1>8. HeightOf(pc'[p], mine'[p], seq') = seq
  BY <1>1, <1>2, <1>6 DEF HeightOf
<1>9. SoleOK(pc'[p], mine'[p], entry', file', seq')
  BY <1>1, <1>2, <1>4, <1>6, <1>7, <1>8 DEF SoleOK, Whole, Filling, e
<1>10. FileOf(file', pc'[p], mine'[p]) = FileOf(file, pc[p], mine[p])
  BY <1>1 DEF FileOf
<1> QED
  BY <1>1, <1>4, <1>8, <1>9, <1>10 DEF Stays

(* Until it is restored the file counts as it was. *)
LEMMA UndoTruncateStays ==
  ASSUME IInv, SoleInv, NEW p \in Procs, UndoTruncate(p)
  PROVE  Stays(p)
<1> DEFINE m == mine[p]
<1>1. /\ pc[p] = "truncate" /\ pc'[p] = "restore" /\ UNCHANGED <<entry, seq, mine>>
      /\ file' = [file EXCEPT ![m.path] = Empty]
  BY SoleFacts DEF UndoTruncate, Goto, store
<1>2. m.path \in Paths /\ m.old = file[m.path]
  BY <1>1, SoleFacts DEF SoleOK
<1>3. SoleOK(pc'[p], mine'[p], entry', file', seq')
  BY <1>1, SoleFacts DEF SoleOK, HeightOf, Filling
<1>4. FileOf(file', pc'[p], mine'[p]) = FileOf(file, pc[p], mine[p])
  <2>1. ASSUME NEW q \in Paths
        PROVE  (IF m.path = q THEN m.old ELSE file'[q]) = file[q]
    BY <1>1, <1>2, SoleFacts
  <2> QED
    BY <1>1, <2>1 DEF FileOf
<1> QED
  BY <1>1, <1>3, <1>4 DEF Stays, HeightOf

-----------------------------------------------------------------------------
(* The steps of the stack.                                                  *)

LEMMA StackType ==
  ASSUME NEW n \in Nat, NEW en, NEW S, \A k \in 1 .. n : Preimage(en[k]) \in S
  PROVE  /\ StackTo(en, n) \in Seq(S) /\ Len(StackTo(en, n)) = n
         /\ \A k \in 1 .. n : StackTo(en, n)[k] = Preimage(en[k])
<1> DEFINE t == StackTo(en, n)
<1>1. t \in [1 .. n -> S]
  BY DEF StackTo
<1>2. t \in Seq(S)
  BY <1>1, SeqDef
<1>3. \A k \in 1 .. n : t[k] = Preimage(en[k])
  BY DEF StackTo
<1>4. DOMAIN t = 1 .. n
  BY <1>1
<1> HIDE DEF t
<1>5. Len(t) = n
  BY <1>2, <1>4, LenProperties
<1> QED
  BY <1>2, <1>3, <1>5 DEF t

(* An entry on top. *)
LEMMA StackTop ==
  ASSUME NEW n \in Nat \ {0}, NEW en, NEW en2, \A k \in 1 .. n - 1 : en2[k] = en[k]
  PROVE  /\ StackTo(en2, n) = Append(StackTo(en, n - 1), Preimage(en2[n]))
         /\ StackTo(en2, n) # <<>>
         /\ Last(StackTo(en2, n)) = Preimage(en2[n])
         /\ Front(StackTo(en2, n)) = StackTo(en, n - 1)
<1> DEFINE S == {Preimage(en2[k]) : k \in 1 .. n}
           t == StackTo(en2, n)
           s == StackTo(en, n - 1)
           e == Preimage(en2[n])
<1>1. \A k \in 1 .. n : Preimage(en2[k]) \in S
  OBVIOUS
<1>2. n \in 1 .. n /\ n - 1 \in Nat /\ \A k \in 1 .. n - 1 : k \in 1 .. n
  OBVIOUS
<1>3. \A k \in 1 .. n - 1 : Preimage(en[k]) \in S
  BY <1>1, <1>2
<1> HIDE DEF S
<1>4. /\ t \in Seq(S) /\ Len(t) = n
      /\ \A k \in 1 .. n : t[k] = Preimage(en2[k])
  BY <1>1, StackType
<1>5. /\ s \in Seq(S) /\ Len(s) = n - 1
      /\ \A k \in 1 .. n - 1 : s[k] = Preimage(en[k])
  BY <1>2, <1>3, StackType
<1>6. e \in S /\ t[n] = e
  BY <1>1, <1>2, <1>4
<1> HIDE DEF t, s, e
<1>7. /\ Append(s, e) \in Seq(S) /\ Append(s, e) # <<>> /\ Len(Append(s, e)) = Len(s) + 1
      /\ \A k \in 1 .. Len(s) : Append(s, e)[k] = s[k]
      /\ Append(s, e)[Len(s) + 1] = e
      /\ Last(Append(s, e)) = e /\ Front(Append(s, e)) = s
  BY <1>5, <1>6, PushTop
<1>8. \A k \in 1 .. n : k \in 1 .. n - 1 \/ k = n
  OBVIOUS
<1>9. \A k \in 1 .. n - 1 : t[k] = Preimage(en2[k]) /\ s[k] = Preimage(en2[k])
  BY <1>2, <1>4, <1>5
<1>10. \A k \in 1 .. Len(t) : t[k] = Append(s, e)[k]
  BY <1>4, <1>5, <1>6, <1>7, <1>8, <1>9
<1>11. t = Append(s, e)
  BY <1>4, <1>5, <1>7, <1>10, SeqEqual
<1> QED
  BY <1>7, <1>11 DEF t, s, e

LEMMA AbsNow ==
  ASSUME IInv, SoleInv, NEW p, Procs = {p}
  PROVE  /\ p \in Procs
         /\ StackFile = FileOf(file, pc[p], mine[p])
         /\ StackOf = StackTo(entry, HeightOf(pc[p], mine[p], seq))
<1>1. p \in Procs
  OBVIOUS
<1>2. /\ SoleOK(pc[p], mine[p], entry, file, seq) /\ mine[p] \in Locals
      /\ HeightOf(pc[p], mine[p], seq) \in Nat
  BY <1>1, SoleFacts DEF SoleOK
<1>3. CompleteFrom(entry, pc, mine) = 1 .. HeightOf(pc[p], mine[p], seq)
  BY <1>2, CompleteRun
<1> QED
  BY <1>1, <1>2, <1>3, StackOfRun, FileOfOne, Mapping

LEMMA AbsThen ==
  ASSUME IInv', NEW p, Procs = {p}, SoleOK(pc'[p], mine'[p], entry', file', seq')
  PROVE  /\ SoleInv'
         /\ StackFile' = FileOf(file', pc'[p], mine'[p])
         /\ StackOf' = StackTo(entry', HeightOf(pc'[p], mine'[p], seq'))
<1>1. p \in Procs /\ SoleInv'
  BY DEF SoleInv
<1>2. /\ mine'[p] \in Locals
      /\ HeightOf(pc'[p], mine'[p], seq') \in Nat
  BY <1>1, MaxSeqAssumption DEF SoleOK, IInv, UndoTypeOK
<1>3. CompleteFrom(entry', pc', mine') = 1 .. HeightOf(pc'[p], mine'[p], seq')
  BY <1>2, CompleteRun
<1> QED
  BY <1>1, <1>2, <1>3, StackOfRun, FileOfOne, Mapping

LEMMA StaysStutter ==
  ASSUME IInv, IInv', SoleInv, NEW p, Procs = {p}, Stays(p)
  PROVE  SoleInv' /\ UNCHANGED <<StackFile, StackOf>>
<1> DEFINE h == HeightOf(pc[p], mine[p], seq)
<1>1. /\ StackFile = FileOf(file, pc[p], mine[p])
      /\ StackOf = StackTo(entry, h)
  BY AbsNow
<1>2. /\ SoleInv'
      /\ StackFile' = FileOf(file', pc'[p], mine'[p])
      /\ StackOf' = StackTo(entry', HeightOf(pc'[p], mine'[p], seq'))
  BY AbsThen DEF Stays
<1>3. StackTo(entry', h) = StackTo(entry, h)
  BY DEF Stays, StackTo
<1> QED
  BY <1>1, <1>2, <1>3 DEF Stays

LEMMA FileSeen ==
  ASSUME NEW f \in [Paths -> Files], NEW c, NEW m, c # "restore"
  PROVE  FileOf(f, c, m) = f
BY DEF FileOf

LEMMA WriteStep ==
  ASSUME IInv, IInv', SoleInv, NEW p, Procs = {p},
         NEW q \in Paths, NEW c \in Contents \union {Absent}, Write(p, q, c)
  PROVE  SoleInv' /\ Abs!Write(q, c)
<1>1. pc[p] = "idle" /\ file' = [file EXCEPT ![q] = c] /\ UNCHANGED <<entry, seq, pc, mine>>
  BY DEF Write, store
<1>2. SoleOK(pc'[p], mine'[p], entry', file', seq')
  BY <1>1, SoleFacts DEF SoleOK, HeightOf, Filling
<1>3. file \in [Paths -> Files] /\ file' \in [Paths -> Files]
  BY DEF IInv, UndoTypeOK
<1>4. StackFile = file /\ StackFile' = file'
  <2>1. FileOf(file, pc[p], mine[p]) = file /\ FileOf(file', pc'[p], mine'[p]) = file'
    BY <1>1, <1>3, FileSeen
  <2> QED
    BY <1>2, <2>1, AbsNow, AbsThen
<1>5. SoleInv' /\ StackOf' = StackOf
  BY <1>1, <1>2, AbsNow, AbsThen
<1> QED
  BY <1>1, <1>4, <1>5 DEF Abs!Write

(* Closing the meta file is what completes a snapshot. *)
LEMMA SnapCloseStep ==
  ASSUME IInv, IInv', SoleInv, NEW p, Procs = {p}, Faults = {}, SnapClose(p)
  PROVE  SoleInv' /\ Abs!Snapshot(mine[p].path)
<1> DEFINE m == mine[p]
           i == m.seq
           e == [entry[i] EXCEPT !.meta = IF m.existed THEN "existed" ELSE "absent"]
<1>1. /\ pc[p] = "close" /\ pc'[p] = "idle" /\ UNCHANGED <<file, seq>>
      /\ entry' = [entry EXCEPT ![i] = e]
  BY SoleFacts DEF SnapClose, Done, Goto
<1>2. /\ i \in Seqs /\ m.path \in Paths /\ m.existed \in BOOLEAN /\ seq = i
      /\ entry[i] \in Entries /\ entry[i].path = m.path
      /\ m.existed = (file[m.path] # Absent)
      /\ m.existed => entry[i].data = file[m.path]
  <2>1. pc[p] \in Filling
    BY <1>1 DEF Filling
  <2>2. i \in Seqs /\ m.path \in Paths /\ m.existed \in BOOLEAN
    BY <1>1, SoleFacts DEF Locals
  <2>3. entry[i] # None /\ entry[i].path = m.path
    BY <2>1, SoleFacts
  <2>4. entry[i] \in Entries
    BY <2>2, <2>3, SoleFacts
  <2> QED
    BY <1>1, <2>1, <2>2, <2>3, <2>4, SoleFacts DEF SoleOK
<1>3. file[m.path] \in Files /\ file[m.path] # None
  BY <1>2, NoneAssumption, SoleFacts
<1>4. /\ e \in Entries /\ e.path = m.path /\ e.data = entry[i].data
      /\ e.meta = IF m.existed THEN "existed" ELSE "absent"
  BY <1>2 DEF Entries
<1>5. Whole(e) /\ Preimage(e) = [path |-> m.path, preimage |-> file[m.path]]
  <2>1. e # None
    BY <1>4, NoneAssumption
  <2> HIDE DEF e, m
  <2> QED
    BY <1>2, <1>3, <1>4, <2>1 DEF Whole, Preimage
<1>6. /\ i \in Nat \ {0} /\ i \in 0 .. MaxSeq
      /\ HeightOf(pc[p], m, seq) = i - 1 /\ HeightOf(pc'[p], mine'[p], seq') = i
  BY <1>1, <1>2, MaxSeqAssumption DEF HeightOf, Seqs
<1>7. entry'[i] = e /\ \A k \in Seqs : k # i => entry'[k] = entry[k]
  BY <1>1, <1>2, SoleFacts
<1>8. \A k \in 1 .. i - 1 : k \in Seqs /\ k # i /\ entry'[k] = entry[k]
  <2> HIDE DEF i, e
  <2> QED
    BY <1>2, <1>7, Below
<1>9. SoleOK(pc[p], m, entry, file, seq)
  BY SoleFacts
<1>10. SoleOK(pc'[p], mine'[p], entry', file', seq')
  <2>1. \A k \in 1 .. i : k \in 1 .. i - 1 \/ k = i
    BY <1>6
  <2>2. \A k \in 1 .. i - 1 : Whole(entry'[k])
    BY <1>6, <1>8, <1>9 DEF SoleOK
  <2>3. \A k \in Seqs : k > i => k # i /\ k > i - 1
    BY <1>6 DEF Seqs
  <2>4. \A k \in Seqs : k > i => entry'[k] = None
    BY <1>6, <1>7, <1>9, <2>3 DEF SoleOK
  <2> HIDE DEF i, e
  <2> QED
    BY <1>1, <1>5, <1>6, <1>7, <2>1, <2>2, <2>4 DEF SoleOK, Filling
<1>11. StackFile = file /\ StackFile' = file
  <2>1. FileOf(file, pc[p], mine[p]) = file /\ FileOf(file', pc'[p], mine'[p]) = file
    BY <1>1, FileSeen, SoleFacts
  <2> QED
    BY <1>10, <2>1, AbsNow, AbsThen
<1>12. SoleInv' /\ StackOf = StackTo(entry, i - 1) /\ StackOf' = StackTo(entry', i)
  BY <1>6, <1>10, AbsNow, AbsThen
<1>13. StackOf' = Append(StackOf, Preimage(entry'[i]))
  <2> HIDE DEF i, e
  <2> QED
    BY <1>6, <1>8, <1>12, StackTop
<1> QED
  BY <1>5, <1>7, <1>11, <1>12, <1>13 DEF Abs!Snapshot

(* Unlinking a created file, or writing the preimage of one that was there. *)
LEMMA UndoStep ==
  ASSUME IInv, IInv', SoleInv, NEW p, Procs = {p}, UndoUnlink(p) \/ UndoRestore(p)
  PROVE  SoleInv' /\ Abs!UndoLast
<1> DEFINE m == mine[p]
           i == m.seq
           e == entry[i]
           v == Preimage(e).preimage
<1>1. /\ pc[p] \in {"unlink", "restore"} /\ pc'[p] = "drop" /\ UNCHANGED <<entry, seq, mine>>
  BY SoleFacts DEF UndoUnlink, UndoRestore, Goto, store
<1>2. /\ i \in Seqs /\ m.path \in Paths /\ m.path = e.path
      /\ e.meta = IF pc[p] = "unlink" THEN "absent" ELSE "existed"
  BY <1>1, SoleFacts DEF SoleOK
<1>3. file' = [file EXCEPT ![m.path] = v]
  BY <1>1, <1>2 DEF UndoUnlink, UndoRestore, Preimage
<1>4. /\ i \in Nat \ {0} /\ i \in 0 .. MaxSeq /\ i - 1 \in 0 .. MaxSeq
      /\ HeightOf(pc[p], m, seq) = i /\ HeightOf(pc'[p], mine'[p], seq') = i - 1
  BY <1>1, <1>2, MaxSeqAssumption DEF HeightOf, Seqs
<1>5. SoleOK(pc[p], m, entry, file, seq)
  BY SoleFacts
<1>6. SoleOK(pc'[p], mine'[p], entry', file', seq')
  <2>1. \A k \in 1 .. i - 1 : k \in 1 .. i
    BY <1>4
  <2>2. \A k \in 1 .. i - 1 : Whole(entry[k])
    BY <1>4, <1>5, <2>1 DEF SoleOK
  <2>3. \A k \in Seqs : k > i - 1 => k > i \/ k = i
    BY <1>4 DEF Seqs
  <2>4. \A k \in Seqs : k > i => entry[k] = None
    BY <1>1, <1>4, <1>5 DEF SoleOK, Filling
  <2> HIDE DEF i
  <2> QED
    BY <1>1, <1>4, <2>2, <2>3, <2>4 DEF SoleOK, Filling, i
<1>7. /\ SoleInv' /\ StackOf = StackTo(entry, i) /\ StackOf' = StackTo(entry, i - 1)
      /\ StackFile = FileOf(file, pc[p], m) /\ StackFile' = FileOf(file', pc'[p], m)
  BY <1>1, <1>4, <1>6, AbsNow, AbsThen
<1>8. /\ StackOf # <<>> /\ Last(StackOf) = Preimage(e) /\ Front(StackOf) = StackOf'
  <2> HIDE DEF i
  <2> QED
    BY <1>4, <1>7, StackTop DEF e
<1>9. StackFile' = [StackFile EXCEPT ![m.path] = v]
  <2>1. StackFile' = [q \in Paths |-> file'[q]]
    BY <1>1, <1>7 DEF FileOf
  <2>2. ASSUME NEW q \in Paths
        PROVE  file'[q] = IF q = m.path THEN v ELSE FileOf(file, pc[p], m)[q]
    <3>1. file'[q] = IF q = m.path THEN v ELSE file[q]
      BY <1>2, <1>3, SoleFacts
    <3> QED
      BY <3>1 DEF FileOf
  <2> QED
    BY <1>7, <2>1, <2>2 DEF FileOf
<1>10. Preimage(e).path = m.path
  BY <1>2 DEF Preimage
<1>11. Abs!Last(StackOf) = Last(StackOf) /\ Abs!Front(StackOf) = Front(StackOf)
  BY DEF Abs!Last, Abs!Front, Last, Front
<1> QED
  BY <1>7, <1>8, <1>9, <1>10, <1>11 DEF Abs!UndoLast

-----------------------------------------------------------------------------
(* What cannot happen then, and the refinement.                             *)

LEMMA NothingFails ==
  ASSUME IInv, SoleInv, NEW p \in Procs, Faults = {}, ~Crashes
  PROVE  ~(Crash(p) \/ SnapFails(p) \/ SnapCopyFails(p) \/ UndoFails(p))
<1>1. ~Crash(p) /\ ~SnapFails(p)
  BY DEF Crash, SnapFails
<1>2. ~SnapCopyFails(p)
  <2>1. pc[p] = "copy" => mine[p].existed /\ file[mine[p].path] # Absent
    BY SoleFacts DEF SoleOK, Filling
  <2> QED
    BY <2>1 DEF SnapCopyFails
<1>3. ~UndoFails(p)
  <2>1. SUFFICES ASSUME pc[p] = "restore" PROVE entry[mine[p].seq].data # None
    BY DEF UndoFails
  <2>2. mine[p].seq \in Seqs /\ mine[p].seq \in 1 .. mine[p].seq
    BY <2>1, SoleFacts DEF Seqs
  <2>3. Whole(entry[mine[p].seq]) /\ entry[mine[p].seq].meta = "existed"
    BY <2>1, <2>2, SoleFacts DEF SoleOK, HeightOf
  <2> QED
    BY <2>3 DEF Whole
<1> QED
  BY <1>1, <1>2, <1>3

LEMMA SoleInit ==
  ASSUME NEW p, Procs = {p}, Init
  PROVE  SoleInv /\ Abs!Init
<1>1. /\ pc[p] = "idle" /\ mine[p] = NoLocals /\ seq = 0 /\ entry = [i \in Seqs |-> None]
      /\ file \in [Paths -> Contents \union {Absent}]
  BY DEF Init
<1>2. SoleOK(pc[p], mine[p], entry, file, seq)
  BY <1>1, MaxSeqAssumption DEF SoleOK, HeightOf, Filling
<1>3. IInv /\ SoleInv
  BY <1>2, InitIInv DEF SoleInv
<1>4. HeightOf(pc[p], mine[p], seq) = 0
  BY <1>1 DEF HeightOf
<1>5. StackFile = file
  <2>1. FileOf(file, pc[p], mine[p]) = file
    BY <1>1, FileSeen DEF Files
  <2> QED
    BY <1>3, <2>1, AbsNow
<1>6. StackOf = <<>>
  <2>1. StackTo(entry, 0) \in Seq({}) /\ Len(StackTo(entry, 0)) = 0
    BY StackType
  <2>2. StackTo(entry, 0) = <<>>
    BY <2>1, EmptySeq
  <2> QED
    BY <1>3, <1>4, <2>2, AbsNow
<1> QED
  BY <1>1, <1>3, <1>5, <1>6 DEF Abs!Init

LEMMA SoleNext ==
  ASSUME NEW p, Procs = {p}, Faults = {}, ~Crashes, IInv, SoleInv, [Next]_vars
  PROVE  IInv' /\ SoleInv' /\ [Abs!Next]_(Abs!vars)
<1> DEFINE Goal == SoleInv' /\ [Abs!Next]_(Abs!vars)
<1>1. p \in Procs /\ Alone
  BY DEF Alone
<1>2. IInv'
  BY <1>1, NextIInv
<1> SUFFICES Goal
  BY <1>2
<1>3. ASSUME Stays(p) PROVE Goal
  BY <1>2, <1>3, StaysStutter DEF Abs!vars
<1>4. CASE UNCHANGED vars
  <2>1. Stays(p)
    BY <1>1, <1>4, SoleFacts DEF Stays, vars
  <2> QED
    BY <1>3, <2>1
<1>5. ASSUME NEW q \in Paths, NEW c \in Contents \union {Absent}, Write(p, q, c) PROVE Goal
  BY <1>2, <1>5, WriteStep DEF Abs!Next
<1>6. CASE ApplyBegin(p) \/ ApplyEnd(p)
  BY <1>1, <1>3, <1>6, SeqStays
<1>7. CASE Snap(p)
  <2>1. CASE SnapClose(p)
    <3>1. mine[p].path \in Paths
      BY <1>1, <2>1, SoleFacts DEF SnapClose
    <3>2. SoleInv' /\ Abs!Snapshot(mine[p].path)
      BY <1>2, <2>1, SnapCloseStep
    <3> QED
      BY <3>1, <3>2 DEF Abs!Next
  <2>2. CASE ~SnapClose(p)
    <3>1. Stays(p)
      BY <1>1, <1>7, <2>2, SnapBeginStays, SeqStays, SnapMkdirStays, EntryStepsStay,
         NothingFails DEF Snap
    <3> QED
      BY <1>3, <3>1
  <2> QED
    BY <2>1, <2>2
<1>8. CASE Undo(p)
  <2>1. CASE UndoUnlink(p) \/ UndoRestore(p)
    BY <1>2, <2>1, UndoStep DEF Abs!Next
  <2>2. CASE ~(UndoUnlink(p) \/ UndoRestore(p))
    <3>1. Stays(p)
      BY <1>1, <1>8, <2>2, UndoBeginStays, UndoTruncateStays, SeqStays, EntryStepsStay,
         NothingFails DEF Undo
    <3> QED
      BY <1>3, <3>1
  <2> QED
    BY <2>1, <2>2
<1>9. CASE Next
  <2>1. \/ \E q \in Paths, c \in Contents \union {Absent} : Write(p, q, c)
        \/ ApplyBegin(p) \/ ApplyEnd(p) \/ Snap(p) \/ Undo(p)
    BY <1>1, <1>9, NothingFails DEF Next
  <2> QED
    BY <1>5, <1>6, <1>7, <1>8, <2>1
<1> QED
  BY <1>4, <1>9

(* For one process whose calls do not fail and that is not killed, the seq file   *)
(* and the numbered entries are a stack: rash.snapshot_file pushes what the file  *)
(* holds, rash.undo_last puts the last preimage back and pops it, and nothing    *)
(* else is seen, however many system calls each of them takes.              *)
THEOREM StackRefinement ==
  ASSUME NEW p, Procs = {p}, Faults = {}, ~Crashes
  PROVE  Spec => IsAStack
<1>1. Init => IInv /\ SoleInv /\ Abs!Init
  BY InitIInv, SoleInit
<1>2. IInv /\ SoleInv /\ [Next]_vars => IInv' /\ SoleInv' /\ [Abs!Next]_(Abs!vars)
  BY SoleNext
<1> QED
  BY <1>1, <1>2, PTL DEF Spec, IsAStack, Abs!Spec

=============================================================================
