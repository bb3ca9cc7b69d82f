----------------------------- MODULE UndoStore -----------------------------
(***************************************************************************)
(* The undo directory of Rash (hooks.c): rash.snapshot_file keeps preimages *)
(* in numbered entries under RASH_UNDO_DIR, rash.undo_last restores the     *)
(* last one.  The directory is shared by every process that names it, the   *)
(* forked children of a pipeline among them, and nothing locks it, so each  *)
(* system call that changes it is a step of its own.                        *)
(*                                                                          *)
(* A file's mode travels with its contents and is left out.  Snapshots of   *)
(* irregular or oversize files are refused before they touch the directory. *)
(***************************************************************************)
EXTENDS Integers, FiniteSets

CONSTANTS
  Procs,      \* shell processes that share the directory
  Undoers,    \* those whose hooks call rash.undo_last
  UndoAlone,  \* is an undo called only while no other operation is under way
  Paths,      \* files a redirect may write to
  Contents,   \* what a file may hold
  Empty,      \* the contents of a truncated file
  Absent,     \* there is no such file
  None,       \* no entry, no value
  Faults,     \* I/O failures that occur
  Crashes,    \* may a process die between two system calls
  MaxSeq      \* bound: entry numbers

ASSUME UndoersAssumption == Undoers \subseteq Procs
ASSUME UndoAloneAssumption == UndoAlone \in BOOLEAN
ASSUME FaultsAssumption == Faults \subseteq {"entry", "copy", "close", "restore"}
ASSUME CrashesAssumption == Crashes \in BOOLEAN
ASSUME MaxSeqAssumption == MaxSeq \in Nat \ {0}

Files == Contents \union {Empty, Absent}
Seqs == 1 .. MaxSeq

VARIABLES
  file,     \* the users' files
  seq,      \* the number in the seq file; 0 if absent or empty
  entry,    \* the numbered entry directories
  window,   \* apply_window: None, or the paths snapshotted in this apply
  pc,       \* where each process is
  mine,     \* the locals of the operation each process is in
  acked     \* history: preimages whose snapshot has returned success

vars == <<file, seq, entry, window, pc, mine, acked>>
store == <<seq, entry, acked>>

\* meta: no meta file, an empty one, or its existed= line.
Entries == [path: Paths, meta: {"none", "empty", "existed", "absent"},
            data: Contents \union {Empty, None}]

ASSUME NoneAssumption == None \notin Entries \union Files

Locals == [seq: 0 .. MaxSeq, path: Paths \union {None}, existed: BOOLEAN,
           old: Files \union {None}]
NoLocals == [seq |-> 0, path |-> None, existed |-> FALSE, old |-> None]

UndoTypeOK ==
  /\ file \in [Paths -> Files]
  /\ seq \in 0 .. MaxSeq
  /\ entry \in [Seqs -> Entries \union {None}]
  /\ window \in [Procs -> (SUBSET Paths) \union {None}]
  /\ pc \in [Procs -> {"idle", "reset", "put", "mkdir", "meta", "copy", "close",
                       "unlink", "truncate", "restore", "drop", "rmdir",
                       "useq", "uput"}]
  /\ mine \in [Procs -> Locals]
  /\ acked \in [Seqs -> [path: Paths, preimage: Files] \union {None}]

Init ==
  /\ file \in [Paths -> Contents \union {Absent}]
  /\ seq = 0
  /\ entry = [i \in Seqs |-> None]
  /\ window = [p \in Procs |-> None]
  /\ pc = [p \in Procs |-> "idle"]
  /\ mine = [p \in Procs |-> NoLocals]
  /\ acked = [i \in Seqs |-> None]

-----------------------------------------------------------------------------
(* Helpers.  A definition named *_Mutant is the definition after it with a   *)
(* plausible mistake; no property or action uses it.                        *)

Goto(p, l) == pc' = [pc EXCEPT ![p] = l]

\* The operation returns to Lua.
Done(p) ==
  /\ Goto(p, "idle")
  /\ mine' = [mine EXCEPT ![p] = NoLocals]

Undoing == {"unlink", "truncate", "restore", "drop", "rmdir", "useq", "uput"}

\* May p start an operation, given that a user waits for his shells to be quiet
\* before he undoes, and for the undo to end.
MayStart(p, undo) ==
  /\ pc[p] = "idle"
  /\ UndoAlone => \A r \in Procs : pc[r] # "idle" => ~undo /\ pc[r] \notin Undoing

Recorded(i) == entry[i] # None /\ entry[i].meta # "none"

\* Takes an entry directory that is already there.
EntryFree_Mutant(i) == TRUE

\* mkdir of the entry directory succeeds.
EntryFree(i) == entry[i] = None

\* Restores the entry the counter names, even if it is one too far.
LatestEntry_Mutant == IF seq > 1 THEN seq - 1 ELSE seq

\* The highest entry up to seq that has a meta file, or 0.
LatestEntry ==
  LET found == {i \in 1 .. seq : Recorded(i)} IN
  IF found = {} THEN 0 ELSE CHOOSE i \in found : \A j \in found : j <= i

\* The number rash_undo_next_seq hands out.
NextSeq == IF seq = 0 THEN 1 ELSE seq + 1

\* Goes back one entry too far.
SeqAfterUndo_Mutant(i) == i - 2

\* The number rash_undo_last leaves behind.
SeqAfterUndo(i) == i - 1

-----------------------------------------------------------------------------
(* The shell around the two operations.                                     *)

\* A command of the process writes or removes a file.
Write(p, q, c) ==
  /\ pc[p] = "idle"
  /\ file' = [file EXCEPT ![q] = c]
  /\ UNCHANGED <<store, window, pc, mine>>

\* rash_hooks_redirect_apply_begin and _end around one apply of redirects.
ApplyBegin(p) ==
  /\ pc[p] = "idle"
  /\ window' = [window EXCEPT ![p] = {}]
  /\ UNCHANGED <<file, store, pc, mine>>

ApplyEnd(p) ==
  /\ pc[p] = "idle"
  /\ window' = [window EXCEPT ![p] = None]
  /\ UNCHANGED <<file, store, pc, mine>>

\* The process is killed.
Crash(p) ==
  /\ Crashes
  /\ pc[p] # "idle"
  /\ Done(p)
  /\ window' = [window EXCEPT ![p] = None]
  /\ UNCHANGED <<file, store>>

-----------------------------------------------------------------------------
(* rash_lua_snapshot_file.                                                  *)

\* Not in the window already; lstat; rash_undo_next_seq reads the number.
SnapBegin(p, q) ==
  /\ MayStart(p, FALSE)
  /\ window[p] # None => q \notin window[p]
  /\ NextSeq <= MaxSeq
  /\ mine' = [mine EXCEPT ![p] = [seq |-> NextSeq, path |-> q,
                                  existed |-> file[q] # Absent, old |-> None]]
  /\ Goto(p, "reset")
  /\ UNCHANGED <<file, store, window>>

\* ... truncates the file ...
SnapResetSeq(p) ==
  /\ pc[p] = "reset"
  /\ seq' = 0
  /\ Goto(p, "put")
  /\ UNCHANGED <<file, entry, acked, window, mine>>

\* ... and writes the next one.
SnapPutSeq(p) ==
  /\ pc[p] = "put"
  /\ seq' = mine[p].seq
  /\ Goto(p, "mkdir")
  /\ UNCHANGED <<file, entry, acked, window, mine>>

\* mkdir fails on a number that is taken.
SnapMkdir(p) ==
  /\ pc[p] = "mkdir"
  /\ IF EntryFree(mine[p].seq)
     THEN /\ entry' = [entry EXCEPT ![mine[p].seq] =
                         [path |-> mine[p].path, meta |-> "none", data |-> None]]
          /\ Goto(p, "meta")
          /\ UNCHANGED mine
     ELSE Done(p) /\ UNCHANGED entry
  /\ UNCHANGED <<file, seq, acked, window>>

\* The path and an empty meta file.
SnapMeta(p) ==
  /\ pc[p] = "meta"
  /\ entry' = [entry EXCEPT ![mine[p].seq].meta = "empty"]
  /\ Goto(p, IF mine[p].existed THEN "copy" ELSE "close")
  /\ UNCHANGED <<file, seq, acked, window, mine>>

\* The seq file, the directory or a file in it cannot be written: what is there
\* so far stays.
SnapFails(p) ==
  /\ "entry" \in Faults
  /\ pc[p] \in {"reset", "put", "mkdir", "meta"}
  /\ Done(p)
  /\ UNCHANGED <<file, store, window>>

\* rash_undo_copy_file.
SnapCopy(p) ==
  /\ pc[p] = "copy"
  /\ file[mine[p].path] # Absent
  /\ entry' = [entry EXCEPT ![mine[p].seq].data = file[mine[p].path]]
  /\ Goto(p, "close")
  /\ UNCHANGED <<file, seq, acked, window, mine>>

\* The copy fails (the file is unreadable, gone or no longer of the size seen,
\* or the disk is full).  The empty meta file stays.
SnapCopyFails(p) ==
  /\ pc[p] = "copy"
  /\ "copy" \in Faults \/ file[mine[p].path] = Absent
  /\ Done(p)
  /\ UNCHANGED <<file, store, window>>

\* The meta file is written and closed, the window records the path.  A failure
\* to write is not noticed: the entry keeps an empty meta file.
SnapClose(p) ==
  /\ pc[p] = "close"
  /\ \E m \in {IF mine[p].existed THEN "existed" ELSE "absent"}
              \union (IF "close" \in Faults THEN {"empty"} ELSE {}) :
       entry' = [entry EXCEPT ![mine[p].seq].meta = m]
  /\ acked' = [acked EXCEPT ![mine[p].seq] =
                 [path |-> mine[p].path,
                  preimage |-> IF mine[p].existed
                               THEN entry[mine[p].seq].data ELSE Absent]]
  /\ window' = IF window[p] = None THEN window
               ELSE [window EXCEPT ![p] = @ \union {mine[p].path}]
  /\ Done(p)
  /\ UNCHANGED <<file, seq>>

-----------------------------------------------------------------------------
(* rash_lua_undo_last.                                                      *)

\* Find the entry and read its path and meta.  The existed= line decides; an
\* empty meta file reads as existed=0.
UndoBegin(p) ==
  /\ p \in Undoers
  /\ MayStart(p, TRUE)
  /\ LatestEntry # 0
  /\ LET e == entry[LatestEntry] IN
     /\ mine' = [mine EXCEPT ![p] = [seq |-> LatestEntry, path |-> e.path,
                                     existed |-> e.meta = "existed",
                                     old |-> file[e.path]]]
     /\ Goto(p, IF e.meta = "existed" THEN "truncate" ELSE "unlink")
  /\ UNCHANGED <<file, store, window>>

UndoUnlink(p) ==
  /\ pc[p] = "unlink"
  /\ file' = [file EXCEPT ![mine[p].path] = Absent]
  /\ Goto(p, "drop")
  /\ UNCHANGED <<store, window, mine>>

\* The target is opened with O_TRUNC before the preimage is opened.
UndoTruncate(p) ==
  /\ pc[p] = "truncate"
  /\ file' = [file EXCEPT ![mine[p].path] = Empty]
  /\ Goto(p, "restore")
  /\ UNCHANGED <<store, window, mine>>

UndoRestore(p) ==
  /\ pc[p] = "restore"
  /\ entry[mine[p].seq].data # None
  /\ file' = [file EXCEPT ![mine[p].path] = entry[mine[p].seq].data]
  /\ Goto(p, "drop")
  /\ UNCHANGED <<store, window, mine>>

\* The preimage is missing, or a call on the target or the seq file fails (the
\* mode is restored between "restore" and "drop"): what is done so far stays.
UndoFails(p) ==
  /\ \/ pc[p] = "restore" /\ entry[mine[p].seq].data = None
     \/ /\ "restore" \in Faults
        /\ \/ pc[p] \in {"unlink", "truncate", "restore", "useq", "uput"}
           \/ pc[p] = "drop" /\ mine[p].existed
  /\ Done(p)
  /\ UNCHANGED <<file, store, window>>

\* rash_undo_remove_entry unlinks data first ...
UndoDrop(p) ==
  /\ pc[p] = "drop"
  /\ entry' = [entry EXCEPT ![mine[p].seq].data = None]
  /\ acked' = [acked EXCEPT ![mine[p].seq] = None]
  /\ Goto(p, "rmdir")
  /\ UNCHANGED <<file, seq, window, mine>>

\* ... then meta, path and the directory.
UndoRmdir(p) ==
  /\ pc[p] = "rmdir"
  /\ entry' = [entry EXCEPT ![mine[p].seq] = None]
  /\ Goto(p, "useq")
  /\ UNCHANGED <<file, seq, acked, window, mine>>

UndoResetSeq(p) ==
  /\ pc[p] = "useq"
  /\ seq' = 0
  /\ Goto(p, "uput")
  /\ UNCHANGED <<file, entry, acked, window, mine>>

UndoPutSeq(p) ==
  /\ pc[p] = "uput"
  /\ seq' = SeqAfterUndo(mine[p].seq)
  /\ Done(p)
  /\ UNCHANGED <<file, entry, acked, window>>

-----------------------------------------------------------------------------

Snap(p) ==
  \/ \E q \in Paths : SnapBegin(p, q)
  \/ SnapResetSeq(p) \/ SnapPutSeq(p) \/ SnapMkdir(p)
  \/ SnapMeta(p) \/ SnapFails(p)
  \/ SnapCopy(p) \/ SnapCopyFails(p) \/ SnapClose(p)

Undo(p) ==
  \/ UndoBegin(p) \/ UndoUnlink(p) \/ UndoTruncate(p)
  \/ UndoRestore(p) \/ UndoFails(p)
  \/ UndoDrop(p) \/ UndoRmdir(p) \/ UndoResetSeq(p) \/ UndoPutSeq(p)

Next ==
  \E p \in Procs :
    \/ \E q \in Paths, c \in Contents \union {Absent} : Write(p, q, c)
    \/ ApplyBegin(p) \/ ApplyEnd(p) \/ Crash(p)
    \/ Snap(p) \/ Undo(p)

Spec == Init /\ [][Next]_vars

-----------------------------------------------------------------------------
(* Refinement: without faults, crashes and rivals this is a stack.          *)

\* A file whose restore is under way still counts as holding what it held.
StackFile ==
  [q \in Paths |->
     IF \E p \in Procs : pc[p] = "restore" /\ mine[p].path = q
     THEN mine[CHOOSE p \in Procs : pc[p] = "restore" /\ mine[p].path = q].old
     ELSE file[q]]

Complete ==
  {i \in Seqs : /\ entry[i] # None
                /\ entry[i].meta \in {"existed", "absent"}
                /\ \A p \in Procs : ~(pc[p] \in {"drop", "rmdir"}
                                      /\ mine[p].seq = i)}

\* The number of the k-th of them.
Nth(k) == CHOOSE i \in Complete : Cardinality({j \in Complete : j <= i}) = k

StackOf ==
  [k \in 1 .. Cardinality(Complete) |->
     LET e == entry[Nth(k)] IN
     [path |-> e.path,
      preimage |-> IF e.meta = "existed" THEN e.data ELSE Absent]]

Abs == INSTANCE UndoStack WITH file <- StackFile, stack <- StackOf

-----------------------------------------------------------------------------
(* Properties.                                                              *)

\* rash.snapshot_file and rash.undo_last of one process are a stack: undo
\* restores the last preimage that has not been restored yet.
IsAStack == Abs!Spec

\* A preimage whose snapshot has returned success stays as it was taken until
\* it is undone, whatever snapshots other processes take meanwhile, whatever
\* fails in them, and wherever they die; an undo runs alone (UndoAlone).
AckedKept ==
  \A i \in Seqs : acked[i] # None =>
    /\ entry[i] # None
    /\ entry[i].path = acked[i].path
    /\ entry[i].data = (IF acked[i].preimage = Absent THEN None
                        ELSE acked[i].preimage)

\* No two snapshots write into the same entry.
SnapshotsExclusive ==
  \A p, r \in Procs :
    (/\ p # r
     /\ pc[p] \in {"meta", "copy", "close"}
     /\ pc[r] \in {"meta", "copy", "close"}) => mine[p].seq # mine[r].seq

\* README.md: "Snapshotting a not-yet-created path makes undo unlink it."  Undo
\* unlinks nothing else: the entry it acts on is a snapshot that returned
\* success and saw no file.
UndoUnlinksOnlyCreated ==
  \A p \in Procs : pc[p] = "unlink" =>
    acked[mine[p].seq] = [path |-> mine[p].path, preimage |-> Absent]
=============================================================================
