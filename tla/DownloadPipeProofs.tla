------------------------- MODULE DownloadPipeProofs -------------------------
(***************************************************************************)
(* Theorems about DownloadPipe for any number of callbacks, any limits and *)
(* pipes of any capacity: what the packaged callback runs was approved and *)
(* is complete unless a signal cut the capture, and rash.spawn returns all *)
(* of the helper's output that fits.                                       *)
(***************************************************************************)
EXTENDS DownloadPipe, TLAPS

(* The two halves of the type invariant. *)
ShellType ==
    /\ policy \in [1..Callbacks -> {"packaged", "other"}]
    /\ enforcing \in [1..Callbacks -> BOOLEAN]
    /\ sigpipe \in {"kills", "ignored"}
    /\ pc \in {"idle", "capture", "callback", "dead"} \cup Waiting
    /\ callback \in 1..Callbacks
    /\ answer \in {"unasked", "yes", "no", "done"}
    /\ left \in 0..MaxBytes
    /\ script \in [len : 0..MaxBytes, whole : BOOLEAN, cut : BOOLEAN]
    /\ stage_denied \in BOOLEAN /\ download_pipe_handled \in BOOLEAN
    /\ download_pipe_exec_status \in Statuses
    /\ result \in Statuses \cup {"none", "plain"}
    /\ agreed \in BOOLEAN
    /\ fed \in [agreed : BOOLEAN, whole : BOOLEAN, cut : BOOLEAN]

ChildType ==
    /\ child \in [role : {"none", "producer", "helper", "consumer"},
                  state : {"none", "runs", "exited"} \cup Outputs,
                  status : Statuses]
    /\ holder \in BOOLEAN
    /\ pipe \in [Streams -> 0..PipeSize]
    /\ made \in [Outputs -> 0..MaxOutput]
    /\ got \in [Outputs -> 0..MaxOutput]
    /\ \A s \in Outputs : got[s] <= made[s]
    /\ open \subseteq Outputs

Capturing == {"reading", "closing", "reapProducer"}
Spawning  == {"polling", "reapHelper"}

(* The child is what the shell waits for, and none at all between calls. *)
RoleInv ==
    /\ pc \in {"idle", "capture", "callback"} => child = NoChild /\ ~ holder
    /\ pc \in Capturing => child.role = "producer"
    /\ pc \in Spawning => child.role = "helper"
    /\ child.state \in Outputs =>
         child.state \in WritesTo(child.role) /\ made[child.state] < MaxOutput

(* What the producer wrote is in the pipe or in the buffer, as long as the *)
(* shell reads; at a true end of file nothing is left to come.             *)
CaptureInv ==
    /\ pc = "reading" => open = {"out"}
    /\ pc = "closing" => open = {"out"}
    /\ pc \in {"reading", "closing"} => made["out"] = got["out"] + pipe["out"]
    /\ pc \in Capturing => got["out"] <= MaxBytes
    /\ pc = "closing" /\ ~ script.cut => pipe["out"] = 0 /\ ~ Held
    /\ pc = "reapProducer" /\ ~ script.cut => got["out"] = made["out"] /\ ~ Held
    /\ script.whole \/ script.cut

(* What the helper wrote to a stream and is no longer in the pipe has been *)
(* kept as far as the buffer goes; a stream is closed at its end only.     *)
SpawnInv ==
    /\ pc \in Spawning => \A s \in Outputs :
         /\ pipe[s] <= made[s]
         /\ got[s] <= SpawnOutputMax
         /\ got[s] <= made[s] - pipe[s]
         /\ got[s] = made[s] - pipe[s] \/ got[s] = SpawnOutputMax
         /\ s \notin open => pipe[s] = 0 /\ ~ Held
    /\ pc = "reapHelper" => open = {}

(* The packaged callback goes on to run the script only once it is agreed. *)
ApprovalInv ==
    /\ answer = "yes" => agreed
    /\ pc \in {"idle", "capture"} \cup Capturing => answer = "unasked" /\ script.whole
    /\ RunsWhatWasApproved

IInv == DownloadTypeOK /\ RoleInv /\ CaptureInv /\ SpawnInv /\ ApprovalInv

-----------------------------------------------------------------------------
USE DownloadAssumption

LEMMA MinPair ==
    ASSUME NEW a \in Nat, NEW b \in Nat
    PROVE  Min({a, b}) = IF a <= b THEN a ELSE b
  BY DEF Min

LEMMA Constants ==
    /\ NoScript \in [len : 0..MaxBytes, whole : BOOLEAN, cut : BOOLEAN]
    /\ NotFed \in [agreed : BOOLEAN, whole : BOOLEAN, cut : BOOLEAN]
    /\ NoChild \in [role : {"none", "producer", "helper", "consumer"},
                    state : {"none", "runs", "exited"} \cup Outputs,
                    status : Statuses]
    /\ Nothing \in [Streams -> 0..PipeSize]
    /\ NoOutput \in [Outputs -> 0..MaxOutput]
    /\ \A s \in Outputs : NoOutput[s] = 0 /\ Nothing[s] = 0
    /\ NoChild.state = "none"
    /\ 1 \in 1..Callbacks
  BY DEF NoScript, NotFed, NoChild, Nothing, NoOutput, Outputs, Streams, Statuses

LEMMA TypeSplit ==
    /\ DownloadTypeOK <=> ShellType /\ ChildType
    /\ DownloadTypeOK' <=> ShellType' /\ ChildType'
  BY DEF DownloadTypeOK, ShellType, ChildType

LEMMA InitIInv == Init => IInv
<1> SUFFICES ASSUME Init PROVE IInv
  OBVIOUS
<1>1. ShellType
  <2>1. /\ policy \in [1..Callbacks -> {"packaged", "other"}]
        /\ enforcing \in [1..Callbacks -> BOOLEAN]
        /\ sigpipe \in {"kills", "ignored"}
        /\ pc \in {"idle", "capture", "callback", "dead"} \cup Waiting
        /\ callback \in 1..Callbacks
        /\ answer \in {"unasked", "yes", "no", "done"}
        /\ left \in 0..MaxBytes
    BY DEF Init
  <2>2. /\ script \in [len : 0..MaxBytes, whole : BOOLEAN, cut : BOOLEAN]
        /\ fed \in [agreed : BOOLEAN, whole : BOOLEAN, cut : BOOLEAN]
    BY Constants DEF Init
  <2>3. /\ stage_denied \in BOOLEAN /\ download_pipe_handled \in BOOLEAN
        /\ download_pipe_exec_status \in Statuses
        /\ result \in Statuses \cup {"none", "plain"}
        /\ agreed \in BOOLEAN
    BY DEF Init, Statuses
  <2> QED
    BY <2>1, <2>2, <2>3 DEF ShellType
<1>2. ChildType
  <2>1. child = NoChild /\ holder \in BOOLEAN /\ open \subseteq Outputs
    BY DEF Init
  <2>2. pipe = Nothing /\ made = NoOutput /\ got = NoOutput
    BY DEF Init
  <2>3. \A s \in Outputs : got[s] <= made[s]
    BY <2>2, Constants
  <2> QED
    BY <2>1, <2>2, <2>3, Constants DEF ChildType
<1>3. RoleInv
  BY Constants DEF Init, RoleInv, Capturing, Spawning, Outputs
<1>4. CaptureInv /\ SpawnInv
  BY DEF Init, CaptureInv, SpawnInv, Capturing, Spawning, NoScript
<1>5. ApprovalInv
  BY DEF Init, ApprovalInv, RunsWhatWasApproved, NotFed, NoScript
<1> QED
  BY <1>1, <1>2, <1>3, <1>4, <1>5, TypeSplit DEF IInv

-----------------------------------------------------------------------------
(* The child's side: only the child, its descendant and the pipes change.  *)

LEMMA ChildWantsIInv ==
    ASSUME IInv, NEW s \in Outputs, ChildWants(s),
           UNCHANGED <<fixedVars, pc, callback, answer, left, script, stageVars, result,
                       agreed, fed>>
    PROVE  IInv'
<1> USE DEF fixedVars, stageVars
<1>1. /\ child.state = "runs" /\ s \in WritesTo(child.role) /\ made[s] < MaxOutput
      /\ child' = [child EXCEPT !.state = s]
      /\ UNCHANGED <<holder, pipe, made, got, open>>
  BY DEF ChildWants
<1>2. ShellType /\ ChildType
  BY TypeSplit DEF IInv
<1>3. ShellType'
  BY <1>2 DEF ShellType
<1>4. /\ child' \in [role : {"none", "producer", "helper", "consumer"},
                  state : {"none", "runs", "exited"} \cup Outputs,
                  status : Statuses]
      /\ child'.state = s /\ child'.role = child.role
  BY <1>1, <1>2 DEF ChildType
<1>5. ChildType'
  BY <1>1, <1>2, <1>4 DEF ChildType
<1>6. Runs /\ Runs' /\ Held /\ Held'
  BY <1>1, <1>4 DEF Runs, Held, Outputs
<1>7. RoleInv'
  BY <1>1, <1>4 DEF IInv, RoleInv, NoChild
<1>8. CaptureInv' /\ SpawnInv' /\ ApprovalInv'
  BY <1>1, <1>6 DEF IInv, CaptureInv, SpawnInv, ApprovalInv, RunsWhatWasApproved
<1> QED
  BY <1>3, <1>5, <1>7, <1>8, TypeSplit DEF IInv

LEMMA ChildWritesIInv ==
    ASSUME IInv, NEW s \in Outputs, ChildWrites(s),
           UNCHANGED <<fixedVars, pc, callback, answer, left, script, stageVars, result,
                       agreed, fed>>
    PROVE  IInv'
<1> USE DEF fixedVars, stageVars
<1>1. /\ child.state = s
      /\ made' = [made EXCEPT ![s] = @ + 1]
      /\ UNCHANGED <<holder, got, open>>
  BY DEF ChildWrites
<1>2. ShellType /\ ChildType
  BY TypeSplit DEF IInv
<1>3. ShellType'
  BY <1>2 DEF ShellType
<1>4. \/ /\ s \in open /\ pipe[s] < PipeSize
         /\ pipe' = [pipe EXCEPT ![s] = @ + 1]
         /\ child' = [child EXCEPT !.state = "runs"]
      \/ /\ s \notin open /\ pipe' = pipe
         /\ \/ child' = [child EXCEPT !.state = "exited", !.status = "failure"]
            \/ child' = [child EXCEPT !.state = "runs"]
  BY DEF ChildWrites
<1>5. /\ child' \in [role : {"none", "producer", "helper", "consumer"},
                  state : {"none", "runs", "exited"} \cup Outputs,
                  status : Statuses]
      /\ child'.role = child.role /\ child'.state \in {"runs", "exited"}
  BY <1>2, <1>4 DEF ChildType, Statuses
<1>6. made[s] < MaxOutput /\ s \in WritesTo(child.role) /\ Held
  BY <1>1 DEF IInv, RoleInv, Held, Runs, Outputs
<1>7. /\ made' \in [Outputs -> 0..MaxOutput]
      /\ made'[s] = made[s] + 1
      /\ \A t \in Outputs : t # s => made'[t] = made[t]
  BY <1>1, <1>2, <1>6 DEF ChildType
<1>8. /\ pipe' \in [Streams -> 0..PipeSize]
      /\ \A t \in Outputs : t # s => pipe'[t] = pipe[t]
      /\ s \in open => pipe'[s] = pipe[s] + 1
      /\ s \notin open => pipe'[s] = pipe[s]
  BY <1>2, <1>4 DEF ChildType, Streams
<1>9. ChildType'
  BY <1>1, <1>2, <1>5, <1>7, <1>8 DEF ChildType
<1>10. child # NoChild
  BY <1>1 DEF NoChild, Outputs
<1>11. RoleInv'
  BY <1>5, <1>10 DEF IInv, RoleInv, Outputs
<1>12. CaptureInv'
  <2>1. CASE pc \in Capturing
    <3>1. s = "out"
      BY <1>6, <2>1 DEF IInv, RoleInv, WritesTo
    <3>2. CASE pc \in {"reading", "closing"}
      BY <1>1, <1>2, <1>6, <1>7, <1>8, <3>1, <3>2 DEF IInv, CaptureInv, ChildType, Capturing, Outputs, Streams
    <3>3. CASE pc = "reapProducer"
      BY <1>1, <1>6, <3>3 DEF IInv, CaptureInv, Capturing
    <3> QED
      BY <2>1, <3>2, <3>3 DEF Capturing
  <2>2. CASE pc \notin Capturing
    BY <2>2 DEF IInv, CaptureInv, Capturing
  <2> QED
    BY <2>1, <2>2
<1>13. SpawnInv'
  BY <1>1, <1>2, <1>6, <1>7, <1>8 DEF IInv, SpawnInv, ChildType, RoleInv, Spawning, Outputs, Streams
<1>14. ApprovalInv'
  BY DEF IInv, ApprovalInv, RunsWhatWasApproved
<1> QED
  BY <1>3, <1>9, <1>11, <1>12, <1>13, <1>14, TypeSplit DEF IInv

(* A child that reads, exits or gains a descendant, and a descendant that   *)
(* ends, write nothing.                                                    *)
LEMMA QuietChildIInv ==
    ASSUME IInv,
           \/ ConsumerReads
           \/ \E status \in Statuses : ChildExits(status)
           \/ ChildLeavesHolder
           \/ HolderEnds,
           UNCHANGED <<fixedVars, pc, callback, answer, left, script, stageVars, result,
                       agreed, fed>>
    PROVE  IInv'
<1> USE DEF fixedVars, stageVars
<1>2. ShellType /\ ChildType
  BY TypeSplit DEF IInv
<1>1. /\ UNCHANGED <<made, got, open>>
      /\ child'.role = child.role
      /\ child' # child => child.state = "runs" /\ child'.state = "exited"
      /\ holder' /\ ~ holder => child.state = "runs"
  <2>1. CASE ConsumerReads
    BY <2>1 DEF ConsumerReads
  <2>2. CASE \E status \in Statuses : ChildExits(status)
    BY <1>2, <2>2 DEF ChildExits, ChildType
  <2>3. CASE ChildLeavesHolder \/ HolderEnds
    BY <2>3 DEF ChildLeavesHolder, HolderEnds
  <2> QED
    BY <2>1, <2>2, <2>3
<1>3. ShellType'
  BY <1>2 DEF ShellType
<1>4. /\ pipe' \in [Streams -> 0..PipeSize]
      /\ \A s \in Outputs : pipe'[s] = pipe[s]
  <2>1. CASE ConsumerReads
    BY <1>2, <2>1 DEF ConsumerReads, ChildType, Streams, Outputs
  <2>2. CASE ~ ConsumerReads
    BY <1>2, <2>2 DEF ChildType, ChildExits, ChildLeavesHolder, HolderEnds
  <2> QED
    BY <2>1, <2>2
<1>5. /\ holder' \in BOOLEAN
      /\ child' \in [role : {"none", "producer", "helper", "consumer"},
                     state : {"none", "runs", "exited"} \cup Outputs,
                     status : Statuses]
  BY <1>2 DEF ConsumerReads, ChildExits, ChildLeavesHolder, HolderEnds, ChildType
<1>6. ChildType'
  BY <1>1, <1>2, <1>4, <1>5 DEF ChildType
<1>7. ~ Held => ~ Held'
  BY <1>1, <1>2, <1>5 DEF Held, Runs, ChildType
<1>8. RoleInv'
  <2>1. pc \in {"idle", "capture", "callback"} => child' = NoChild /\ ~ holder'
    BY <1>1 DEF IInv, RoleInv, NoChild
  <2>2. child'.state \in Outputs => child' = child
    BY <1>1 DEF Outputs
  <2> QED
    BY <1>1, <2>1, <2>2 DEF IInv, RoleInv
<1>9. CaptureInv'
  BY <1>1, <1>4, <1>7 DEF IInv, CaptureInv, Outputs
<1>10. SpawnInv'
  BY <1>1, <1>4, <1>7 DEF IInv, SpawnInv
<1>11. ApprovalInv'
  BY DEF IInv, ApprovalInv, RunsWhatWasApproved
<1> QED
  BY <1>3, <1>6, <1>8, <1>9, <1>10, <1>11, TypeSplit DEF IInv

LEMMA OutsideIInv ==
    ASSUME IInv, Outside
    PROVE  IInv'
  BY ChildWantsIInv, ChildWritesIInv, QuietChildIInv DEF Outside, ChildMoves

-----------------------------------------------------------------------------
(* What fork and waitpid do to the child's variables, and the return of    *)
(* rash_hooks_try_download_pipe to the others.                             *)

LEMMA ForkedProps ==
    ASSUME NEW r \in {"producer", "helper", "consumer"}, Forked(r)
    PROVE  /\ ChildType'
           /\ child'.role = r /\ child'.state = "runs"
           /\ \A s \in Outputs : made'[s] = 0 /\ got'[s] = 0 /\ pipe'[s] = 0
           /\ open' = WritesTo(r)
<1>1. /\ child' = [role |-> r, state |-> "runs", status |-> "success"]
      /\ holder' = FALSE /\ pipe' = Nothing /\ made' = NoOutput /\ got' = NoOutput
      /\ open' = WritesTo(r)
  BY DEF Forked
<1>2. child' \in [role : {"none", "producer", "helper", "consumer"},
                 state : {"none", "runs", "exited"} \cup Outputs,
                 status : Statuses]
  BY <1>1 DEF Statuses
<1>3. \A s \in Outputs : made'[s] = 0 /\ got'[s] = 0 /\ pipe'[s] = 0
  BY <1>1, Constants
<1>4. open' \subseteq Outputs
  BY <1>1 DEF WritesTo, Outputs
<1>5. child'.role = r /\ child'.state = "runs"
  BY <1>1
<1>6. \A s \in Outputs : got'[s] <= made'[s]
  BY <1>3
<1>7. /\ pipe' \in [Streams -> 0..PipeSize]
      /\ made' \in [Outputs -> 0..MaxOutput]
      /\ got' \in [Outputs -> 0..MaxOutput]
      /\ holder' \in BOOLEAN
  BY <1>1, Constants
<1>8. ChildType'
  BY <1>2, <1>4, <1>6, <1>7 DEF ChildType
<1> QED
  BY <1>1, <1>3, <1>5, <1>8

LEMMA GoneProps ==
    ASSUME Gone
    PROVE  ChildType' /\ child' = NoChild /\ ~ holder'
<1>1. /\ child' = NoChild /\ holder' = FALSE /\ pipe' = Nothing
      /\ made' = NoOutput /\ got' = NoOutput /\ open' = {}
  BY DEF Gone
<1>2. \A s \in Outputs : got'[s] <= made'[s]
  BY <1>1, Constants
<1> QED
  BY <1>1, <1>2, Constants DEF ChildType

LEMMA ReturnProps ==
    ASSUME ShellType, NEW r \in Statuses \cup {"none", "plain"}, Return(r),
           UNCHANGED fixedVars, agreed' \in BOOLEAN,
           fed' \in [agreed : BOOLEAN, whole : BOOLEAN, cut : BOOLEAN]
    PROVE  /\ ShellType'
           /\ pc' = "idle" /\ answer' = "unasked"
           /\ script'.whole
<1>1. /\ pc' = "idle" /\ result' = r /\ callback' = 1 /\ answer' = "unasked" /\ left' = 0
      /\ script' = NoScript
      /\ stage_denied' = FALSE /\ download_pipe_handled' = FALSE
      /\ download_pipe_exec_status' = "failure"
  BY DEF Return
<1>2. /\ script' \in [len : 0..MaxBytes, whole : BOOLEAN, cut : BOOLEAN]
      /\ script'.whole
  BY <1>1, Constants DEF NoScript
<1>3. UNCHANGED <<policy, enforcing, sigpipe>>
  BY DEF fixedVars
<1>4. 1 \in 1..Callbacks /\ 0 \in 0..MaxBytes /\ "failure" \in Statuses
  BY DEF Statuses
<1> QED
  BY <1>1, <1>2, <1>3, <1>4 DEF ShellType

(* The parts of the invariant that speak of a capture or a spawn under way *)
(* say nothing elsewhere.                                                  *)
LEMMA Elsewhere ==
    ASSUME pc' \notin Capturing \cup Spawning, script'.whole \/ script'.cut
    PROVE  CaptureInv' /\ SpawnInv'
  BY DEF CaptureInv, SpawnInv, Capturing, Spawning

(* Back to a state without a child. *)
LEMMA NoChildLeft ==
    ASSUME pc' \in {"idle", "callback"}, child' = NoChild, ~ holder'
    PROVE  RoleInv'
  BY Constants DEF RoleInv, Capturing, Spawning, Outputs

(* A step that ends a call or the pipeline and asks nobody anything. *)
LEMMA Over ==
    ASSUME IInv, ShellType', ChildType', child' = NoChild, ~ holder',
           pc' \in {"idle", "callback"}, script'.whole \/ script'.cut,
           pc' = "idle" => script'.whole,
           answer' = "unasked" \/ (answer' \in {answer, "done"} /\ pc' = "callback"),
           UNCHANGED <<agreed, fed>>
    PROVE  IInv'
<1>1. CaptureInv' /\ SpawnInv'
  BY Elsewhere DEF Capturing, Spawning
<1>2. RoleInv'
  BY NoChildLeft
<1>3. ApprovalInv'
  BY DEF IInv, ApprovalInv, RunsWhatWasApproved, Capturing
<1> QED
  BY <1>1, <1>2, <1>3, TypeSplit DEF IInv

LEMMA CallbackOverProps ==
    ASSUME IInv, NEW denied \in BOOLEAN, CallbackOver(denied),
           UNCHANGED <<fixedVars, agreed, fed>>
    PROVE  /\ ShellType'
           /\ pc' \in {"idle", "callback"} /\ answer' = "unasked"
           /\ script'.whole \/ script'.cut
           /\ pc' = "idle" => script'.whole
<1>1. ShellType
  BY TypeSplit DEF IInv
<1>2. agreed' \in BOOLEAN /\ fed' \in [agreed : BOOLEAN, whole : BOOLEAN, cut : BOOLEAN]
  BY <1>1 DEF ShellType
<1>3. CASE Return(Verdict(denied))
  <2>1. Verdict(denied) \in Statuses \cup {"none", "plain"}
    BY <1>1 DEF Verdict, ShellType, Statuses
  <2> QED
    BY <1>1, <1>2, <1>3, <2>1, ReturnProps
<1>4. CASE /\ callback < Callbacks
           /\ pc' = "callback" /\ callback' = callback + 1 /\ answer' = "unasked"
           /\ left' = 0
           /\ UNCHANGED <<script, stageVars, result>>
  <2>1. callback' \in 1..Callbacks
    BY <1>1, <1>4 DEF ShellType
  <2> QED
    BY <1>1, <1>4, <2>1 DEF ShellType, IInv, CaptureInv, fixedVars, stageVars
<1> QED
  BY <1>3, <1>4 DEF CallbackOver

LEMMA LuaErrorProps ==
    ASSUME IInv, LuaError, UNCHANGED <<fixedVars, agreed, fed>>
    PROVE  /\ ShellType'
           /\ pc' \in {"idle", "callback"}
           /\ answer' = "unasked" \/ (answer' = answer /\ pc' = "callback")
           /\ script'.whole \/ script'.cut
           /\ pc' = "idle" => script'.whole
<1>1. CASE CallbackOver(TRUE)
  BY <1>1, CallbackOverProps
<1>2. CASE /\ pc' = "callback"
           /\ UNCHANGED <<callback, answer, left, script, stageVars, result>>
  <2>1. ShellType
    BY TypeSplit DEF IInv
  <2>2. ShellType'
    BY <1>2, <2>1 DEF ShellType, fixedVars, stageVars
  <2>3. script'.whole \/ script'.cut
    BY <1>2 DEF IInv, CaptureInv
  <2> QED
    BY <1>2, <2>2, <2>3
<1> QED
  BY <1>1, <1>2 DEF LuaError

(* The end of a pipeline with its child. *)
LEMMA ReturnGone ==
    ASSUME IInv, Return("failure"), Gone, UNCHANGED <<fixedVars, agreed, fed>>
    PROVE  IInv'
<1>1. ShellType
  BY TypeSplit DEF IInv
<1>2. ShellType' /\ pc' = "idle" /\ answer' = "unasked" /\ script'.whole
  BY <1>1, ReturnProps DEF ShellType, Statuses
<1> QED
  BY <1>2, GoneProps, Over

-----------------------------------------------------------------------------
(* The pipeline: interception, capture, end. *)

LEMMA EntryIInv ==
    ASSUME IInv, PlainPipeline \/ Intercept \/ CaptureFails \/ NewShell
    PROVE  IInv'
<1>1. ShellType /\ ChildType
  BY TypeSplit DEF IInv
<1>2. CASE PlainPipeline \/ Intercept
  <2>1. /\ pc = "idle" /\ pc' \in {"idle", "capture"}
        /\ result' \in {"plain", "none"} /\ fed' = NotFed /\ agreed' = FALSE
        /\ UNCHANGED <<fixedVars, callback, answer, left, script, childVars, stageVars>>
    BY <1>2 DEF PlainPipeline, Intercept
  <2>2. ShellType'
    <3>1. /\ fed' \in [agreed : BOOLEAN, whole : BOOLEAN, cut : BOOLEAN]
          /\ result' \in Statuses \cup {"none", "plain"}
          /\ pc' \in {"idle", "capture", "callback", "dead"} \cup Waiting
      BY <2>1, Constants
    <3> QED
      BY <1>1, <2>1, <3>1 DEF ShellType, fixedVars, stageVars
  <2>3. ChildType'
    BY <1>1, <2>1 DEF ChildType, childVars
  <2>4. RoleInv'
    BY <2>1 DEF IInv, RoleInv, Capturing, Spawning, childVars
  <2>5. CaptureInv' /\ SpawnInv'
    BY <2>1, Elsewhere DEF IInv, CaptureInv, Capturing, Spawning
  <2>6. answer # "yes"
    BY <2>1 DEF IInv, ApprovalInv
  <2>7. ApprovalInv'
    BY <2>1, <2>6 DEF IInv, ApprovalInv, RunsWhatWasApproved, NotFed, Capturing
  <2> QED
    BY <2>2, <2>3, <2>4, <2>5, <2>7, TypeSplit DEF IInv
<1>3. CASE CaptureFails
  <2>1. child' = NoChild /\ ~ holder' /\ ChildType'
    BY <1>1, <1>3 DEF CaptureFails, childVars, IInv, RoleInv, ChildType
  <2>2. ShellType' /\ pc' = "idle" /\ answer' = "unasked" /\ script'.whole
    BY <1>1, <1>3, ReturnProps DEF CaptureFails, ShellType, Statuses
  <2> QED
    BY <1>3, <2>1, <2>2, Over DEF CaptureFails
<1>4. CASE NewShell
  <2>1. ShellType' /\ pc' = "idle" /\ answer' = "unasked" /\ script'.whole
    BY <1>1, <1>4, ReturnProps, Constants DEF NewShell
  <2>2. ChildType' /\ RoleInv'
    BY <1>4, <2>1, GoneProps, NoChildLeft DEF NewShell
  <2>3. CaptureInv' /\ SpawnInv'
    BY <2>1, Elsewhere DEF Capturing, Spawning
  <2>4. ApprovalInv'
    BY <1>4, <2>1 DEF NewShell, ApprovalInv, RunsWhatWasApproved, NotFed
  <2> QED
    BY <2>1, <2>2, <2>3, <2>4, TypeSplit DEF IInv
<1> QED
  BY <1>2, <1>3, <1>4

LEMMA CaptureIInv ==
    ASSUME IInv, Capture
    PROVE  IInv'
<1>1. ShellType
  BY TypeSplit DEF IInv
<1>2. /\ pc = "capture" /\ pc' = "reading" /\ Forked("producer")
      /\ UNCHANGED <<fixedVars, callback, answer, left, script, stageVars, result, agreed, fed>>
  BY DEF Capture
<1>3. ShellType'
  BY <1>1, <1>2 DEF ShellType, Waiting, fixedVars, stageVars
<1>4. /\ ChildType'
      /\ child'.role = "producer" /\ child'.state = "runs"
      /\ \A s \in Outputs : made'[s] = 0 /\ got'[s] = 0 /\ pipe'[s] = 0
      /\ open' = {"out"}
  BY <1>2, ForkedProps DEF WritesTo
<1>5. RoleInv'
  BY <1>2, <1>4 DEF RoleInv, Capturing, Spawning, Outputs
<1>6. CaptureInv'
  BY <1>2, <1>4 DEF IInv, CaptureInv, Capturing, Outputs
<1>7. SpawnInv'
  BY <1>2 DEF SpawnInv, Spawning
<1>8. ApprovalInv'
  BY <1>2 DEF IInv, ApprovalInv, RunsWhatWasApproved
<1> QED
  BY <1>3, <1>4, <1>5, <1>6, <1>7, <1>8, TypeSplit DEF IInv

(* read returns data, which fits or is too much. *)
LEMMA CaptureReadsIInv ==
    ASSUME IInv, NEW k \in 1..PipeSize, CaptureReads(k)
    PROVE  IInv'
<1>1. ShellType /\ ChildType
  BY TypeSplit DEF IInv
<1>2. pc = "reading" /\ k \in 1..pipe["out"] /\ UNCHANGED <<fixedVars, agreed, fed>>
  BY DEF CaptureReads
<1>3. CASE Return("failure") /\ Gone
  BY <1>2, <1>3, ReturnGone
<1>4. CASE /\ ~ Oversize(k)
           /\ Take("out", k)
           /\ UNCHANGED <<pc, callback, answer, left, script, stageVars, result,
                          child, holder, made, open>>
  <2>1. /\ pipe["out"] \in 0..PipeSize /\ got["out"] \in 0..MaxOutput
        /\ made["out"] \in 0..MaxOutput /\ made["out"] = got["out"] + pipe["out"]
    BY <1>1, <1>2 DEF ChildType, Outputs, Streams, IInv, CaptureInv
  <2>2. /\ got["out"] + k <= MaxBytes
        /\ got["out"] + k \in 0..MaxOutput /\ pipe["out"] - k \in 0..PipeSize
    BY <1>2, <1>4, <2>1 DEF Oversize
  <2>3. /\ pipe' \in [Streams -> 0..PipeSize] /\ got' \in [Outputs -> 0..MaxOutput]
        /\ pipe'["out"] = pipe["out"] - k /\ got'["out"] = got["out"] + k
        /\ got'["err"] = got["err"]
    BY <1>1, <1>4, <2>2 DEF Take, ChildType, Outputs, Streams
  <2>4. \A s \in Outputs : got'[s] <= made'[s]
    BY <1>1, <1>2, <1>4, <2>1, <2>3 DEF ChildType, Outputs
  <2>5. ChildType'
    BY <1>1, <1>4, <2>3, <2>4 DEF ChildType
  <2>6. ShellType'
    BY <1>1, <1>2, <1>4 DEF ShellType, fixedVars, stageVars
  <2>7. RoleInv'
    BY <1>4 DEF IInv, RoleInv
  <2>8. CaptureInv'
    BY <1>2, <1>4, <2>1, <2>2, <2>3 DEF IInv, CaptureInv, Capturing
  <2>9. SpawnInv' /\ ApprovalInv'
    BY <1>2, <1>4 DEF IInv, SpawnInv, Spawning, ApprovalInv, RunsWhatWasApproved
  <2> QED
    BY <2>5, <2>6, <2>7, <2>8, <2>9, TypeSplit DEF IInv
<1> QED
  BY <1>3, <1>4 DEF CaptureReads

(* The loop ends, at end of file or by a signal, and the pipe is closed. *)
LEMMA CaptureEndsIInv ==
    ASSUME IInv, CaptureEof \/ CaptureInterrupted \/ CaptureCloses
    PROVE  IInv'
<1> USE DEF fixedVars, stageVars, childVars
<1>1. ShellType /\ ChildType
  BY TypeSplit DEF IInv
<1>2. ASSUME pc = "reading", NEW cut \in BOOLEAN, LoopEnds(cut),
             cut \/ (pipe["out"] = 0 /\ ~ Held)
      PROVE  IInv'
  <2>1. /\ pc' = "closing" /\ script' = [script EXCEPT !.cut = cut]
        /\ UNCHANGED <<fixedVars, callback, answer, left, childVars, stageVars, result,
                       agreed, fed>>
    BY <1>2 DEF LoopEnds
  <2>2. /\ script' \in [len : 0..MaxBytes, whole : BOOLEAN, cut : BOOLEAN]
        /\ script'.cut = cut /\ script'.whole = script.whole
    BY <1>1, <2>1 DEF ShellType
  <2>3. ShellType' /\ ChildType'
    BY <1>1, <2>1, <2>2 DEF ShellType, ChildType, Waiting
  <2>4. RoleInv'
    BY <1>2, <2>1 DEF IInv, RoleInv, Capturing, Spawning
  <2>5. script'.whole
    BY <1>2, <2>2 DEF IInv, ApprovalInv, Capturing
  <2>6. Held' = Held
    BY <2>1 DEF Held, Runs
  <2>7. CaptureInv'
    <3>1. /\ made["out"] = got["out"] + pipe["out"] /\ got["out"] <= MaxBytes
          /\ open = {"out"}
      BY <1>2 DEF IInv, CaptureInv, Capturing
    <3>2. ~ script'.cut => pipe'["out"] = 0 /\ ~ Held'
      BY <1>2, <2>1, <2>2, <2>6
    <3> QED
      BY <2>1, <2>5, <3>1, <3>2 DEF CaptureInv, Capturing
  <2>8. SpawnInv' /\ ApprovalInv'
    BY <1>2, <2>1, <2>5 DEF IInv, SpawnInv, Spawning, ApprovalInv, RunsWhatWasApproved, Capturing
  <2> QED
    BY <2>3, <2>4, <2>7, <2>8, TypeSplit DEF IInv
<1>3. CASE CaptureEof
  BY <1>2, <1>3 DEF CaptureEof, Eof
<1>4. CASE CaptureInterrupted
  BY <1>2, <1>4 DEF CaptureInterrupted
<1>5. CASE CaptureCloses
  <2>1. /\ pc = "closing" /\ pc' = "reapProducer" /\ open' = {}
        /\ UNCHANGED <<fixedVars, callback, answer, left, child, holder, pipe, made, got,
                       script, stageVars, result, agreed, fed>>
    BY <1>5 DEF CaptureCloses
  <2>2. ShellType' /\ ChildType'
    BY <1>1, <2>1 DEF ShellType, ChildType, Waiting
  <2>3. RoleInv'
    BY <2>1 DEF IInv, RoleInv, Capturing, Spawning
  <2>4. made["out"] \in Nat /\ got["out"] \in Nat /\ pipe["out"] \in Nat
    BY <1>1 DEF ChildType, Outputs, Streams
  <2>5. Held' = Held
    BY <2>1 DEF Held, Runs
  <2>6. CaptureInv'
    BY <2>1, <2>4, <2>5 DEF IInv, CaptureInv, Capturing
  <2>7. SpawnInv' /\ ApprovalInv'
    BY <2>1 DEF IInv, SpawnInv, Spawning, ApprovalInv, RunsWhatWasApproved, Capturing
  <2> QED
    BY <2>2, <2>3, <2>6, <2>7, TypeSplit DEF IInv
<1> QED
  BY <1>3, <1>4, <1>5

(* The producer is reaped: its output becomes the script, or all is over. *)
LEMMA ReapProducerIInv ==
    ASSUME IInv, ReapProducer \/ ReapProducerInterrupted
    PROVE  IInv'
<1>1. ShellType /\ ChildType
  BY TypeSplit DEF IInv
<1>2. pc = "reapProducer" /\ Gone /\ UNCHANGED <<fixedVars, agreed, fed>>
  BY DEF ReapProducer, ReapProducerInterrupted
<1>3. CASE Return("failure")
  BY <1>2, <1>3, ReturnGone
<1>4. CASE /\ pc' = "callback"
           /\ script' = [len |-> got["out"], whole |-> got["out"] = made["out"],
                         cut |-> script.cut]
           /\ UNCHANGED <<callback, answer, left, stageVars, result>>
  <2>1. got["out"] \in 0..MaxBytes /\ script.cut \in BOOLEAN
    BY <1>1, <1>2 DEF ChildType, ShellType, Outputs, IInv, CaptureInv, Capturing
  <2>2. (got["out"] = made["out"]) \in BOOLEAN
    OBVIOUS
  <2>3. script' \in [len : 0..MaxBytes, whole : BOOLEAN, cut : BOOLEAN]
    BY <1>4, <2>1, <2>2
  <2>4. script'.whole \/ script'.cut
    BY <1>2, <1>4 DEF IInv, CaptureInv
  <2>5. ShellType'
    BY <1>1, <1>2, <1>4, <2>3 DEF ShellType, fixedVars, stageVars
  <2> QED
    BY <1>2, <1>4, <2>4, <2>5, GoneProps, Over
<1> QED
  BY <1>3, <1>4 DEF ReapProducer, ReapProducerInterrupted

-----------------------------------------------------------------------------
(* The callbacks. *)

LEMMA CallbackIInv ==
    ASSUME IInv, CallbackReturns \/ CallbackFails \/ Deny
    PROVE  IInv'
<1>1. ShellType /\ ChildType
  BY TypeSplit DEF IInv
<1>2. pc = "callback" /\ UNCHANGED <<fixedVars, childVars, agreed, fed>>
  BY DEF CallbackReturns, CallbackFails, Deny, InCallback
<1>3. child' = NoChild /\ ~ holder' /\ ChildType'
  BY <1>1, <1>2 DEF childVars, ChildType, IInv, RoleInv
<1>4. CASE CallbackReturns
  <2>1. CallbackOver(stage_denied) /\ stage_denied \in BOOLEAN
    BY <1>1, <1>4 DEF CallbackReturns, ShellType
  <2> QED
    BY <1>2, <1>3, <2>1, CallbackOverProps, Over
<1>5. CASE CallbackFails
  BY <1>2, <1>3, <1>5, LuaErrorProps, Over DEF CallbackFails
<1>6. CASE Deny
  <2>1. /\ stage_denied' \in BOOLEAN /\ answer' \in {answer, "done"}
        /\ UNCHANGED <<pc, callback, left, script, result, download_pipe_handled,
                       download_pipe_exec_status>>
    BY <1>1, <1>6 DEF Deny, ShellType
  <2>2. ShellType'
    BY <1>1, <1>2, <2>1 DEF ShellType, fixedVars
  <2> QED
    BY <1>2, <1>3, <2>1, <2>2, Over DEF IInv, CaptureInv
<1> QED
  BY <1>4, <1>5, <1>6

(* rash.approve_bytes says yes only where the person or the override did. *)
LEMMA ApproveBytesIInv ==
    ASSUME IInv, NEW override \in {"always", "never", "unset"},
           NEW reply \in {"y", "n", "none"}, ApproveBytes(override, reply)
    PROVE  IInv'
<1>1. ShellType /\ ChildType
  BY TypeSplit DEF IInv
<1>2. /\ pc = "callback"
      /\ UNCHANGED <<fixedVars, pc, callback, left, childVars, script, stageVars, result, fed>>
      /\ agreed' \in BOOLEAN /\ answer' \in {"yes", "no"}
      /\ answer' = "yes" => agreed'
  BY DEF ApproveBytes, InCallback, Approval
<1>3. ShellType' /\ ChildType'
  BY <1>1, <1>2 DEF ShellType, ChildType, fixedVars, stageVars, childVars
<1>4. RoleInv'
  BY <1>2 DEF IInv, RoleInv, childVars
<1>5. CaptureInv' /\ SpawnInv'
  BY <1>2, Elsewhere DEF IInv, CaptureInv, Capturing, Spawning
<1>6. ApprovalInv'
  BY <1>2 DEF IInv, ApprovalInv, RunsWhatWasApproved, Capturing
<1> QED
  BY <1>3, <1>4, <1>5, <1>6, TypeSplit DEF IInv

-----------------------------------------------------------------------------
(* rash.exec_with_stdin. *)

LEMMA ExecIInv ==
    ASSUME IInv, NEW bytes \in 0..MaxBytes, ExecWithStdin(bytes)
    PROVE  IInv'
<1>1. ShellType
  BY TypeSplit DEF IInv
<1>2. /\ pc' = "feeding" /\ left' = bytes /\ Forked("consumer")
      /\ UNCHANGED <<fixedVars, callback, answer, script, stageVars, result, agreed>>
      /\ \/ fed' = [agreed |-> agreed, whole |-> script.whole, cut |-> script.cut]
            /\ answer = "yes"
         \/ fed' = fed
  BY DEF ExecWithStdin
<1>3. /\ fed' \in [agreed : BOOLEAN, whole : BOOLEAN, cut : BOOLEAN]
      /\ fed'.agreed /\ (fed'.whole \/ fed'.cut)
  BY <1>1, <1>2 DEF ShellType, IInv, ApprovalInv, CaptureInv, RunsWhatWasApproved
<1>4. ShellType'
  BY <1>1, <1>2, <1>3 DEF ShellType, fixedVars, stageVars, Waiting
<1>5. ChildType' /\ child'.state = "runs"
  BY <1>2, ForkedProps
<1>6. RoleInv'
  BY <1>2, <1>5 DEF RoleInv, Capturing, Spawning, Outputs
<1>7. CaptureInv' /\ SpawnInv'
  BY <1>2, Elsewhere DEF IInv, CaptureInv, Capturing, Spawning
<1>8. ApprovalInv'
  BY <1>2, <1>3 DEF IInv, ApprovalInv, RunsWhatWasApproved, Capturing
<1> QED
  BY <1>4, <1>5, <1>6, <1>7, <1>8, TypeSplit DEF IInv

LEMMA FeedIInv ==
    ASSUME IInv, Feed \/ FeedBroken \/ FeedEnds
    PROVE  IInv'
<1>1. ShellType /\ ChildType
  BY TypeSplit DEF IInv
<1>2. /\ pc = "feeding" /\ pc' \in {"feeding", "dead", "reapConsumer"}
      /\ left' \in 0..MaxBytes
      /\ UNCHANGED <<fixedVars, callback, answer, child, holder, made, got, open, script,
                     stageVars, result, agreed, fed>>
  BY <1>1 DEF Feed, FeedBroken, FeedEnds, childVars, ShellType
<1>3. pipe' \in [Streams -> 0..PipeSize]
  <2>1. CASE Feed
    BY <1>1, <2>1 DEF Feed, ChildType, Streams
  <2>2. CASE FeedBroken \/ FeedEnds
    BY <1>1, <2>2 DEF FeedBroken, FeedEnds, childVars, ChildType
  <2> QED
    BY <2>1, <2>2
<1>4. ShellType' /\ ChildType'
  BY <1>1, <1>2, <1>3 DEF ShellType, ChildType, fixedVars, stageVars, Waiting
<1>5. RoleInv'
  BY <1>2 DEF IInv, RoleInv, Capturing, Spawning
<1>6. CaptureInv' /\ SpawnInv'
  BY <1>2, Elsewhere DEF IInv, CaptureInv, Capturing, Spawning
<1>7. ApprovalInv'
  BY <1>2 DEF IInv, ApprovalInv, RunsWhatWasApproved, Capturing
<1> QED
  BY <1>4, <1>5, <1>6, <1>7, TypeSplit DEF IInv

LEMMA ReapConsumerIInv ==
    ASSUME IInv, ReapConsumer \/ ReapConsumerInterrupted
    PROVE  IInv'
<1>1. ShellType /\ ChildType
  BY TypeSplit DEF IInv
<1>2. ChildType' /\ child' = NoChild /\ ~ holder'
  BY GoneProps DEF ReapConsumer, ReapConsumerInterrupted
<1>3. CASE ReapConsumer
  <2>1. /\ pc' = "callback" /\ answer' \in {answer, "done"}
        /\ download_pipe_handled' = TRUE /\ download_pipe_exec_status' = child.status
        /\ UNCHANGED <<fixedVars, callback, left, script, stage_denied, result, agreed, fed>>
    BY <1>3 DEF ReapConsumer
  <2>2. child.status \in Statuses
    BY <1>1 DEF ChildType
  <2>3. ShellType'
    BY <1>1, <2>1, <2>2 DEF ShellType, fixedVars
  <2> QED
    BY <1>2, <2>1, <2>3, Over DEF IInv, CaptureInv
<1>4. CASE ReapConsumerInterrupted
  BY <1>2, <1>4, LuaErrorProps, Over DEF ReapConsumerInterrupted
<1> QED
  BY <1>3, <1>4

-----------------------------------------------------------------------------
(* rash.spawn. *)

LEMMA SpawnIInv ==
    ASSUME IInv, Spawn
    PROVE  IInv'
<1>1. ShellType
  BY TypeSplit DEF IInv
<1>2. /\ pc' = "polling" /\ Forked("helper")
      /\ UNCHANGED <<fixedVars, callback, answer, left, script, stageVars, result, agreed, fed>>
  BY DEF Spawn
<1>3. ShellType'
  BY <1>1, <1>2 DEF ShellType, fixedVars, stageVars, Waiting
<1>4. /\ ChildType'
      /\ child'.role = "helper" /\ child'.state = "runs"
      /\ \A s \in Outputs : made'[s] = 0 /\ got'[s] = 0 /\ pipe'[s] = 0
      /\ open' = Outputs
  BY <1>2, ForkedProps DEF WritesTo
<1>5. RoleInv'
  BY <1>2, <1>4 DEF RoleInv, Capturing, Spawning, Outputs
<1>6. CaptureInv'
  BY <1>2 DEF IInv, CaptureInv, Capturing
<1>7. SpawnInv'
  BY <1>2, <1>4 DEF SpawnInv, Spawning
<1>8. ApprovalInv'
  BY <1>2 DEF IInv, ApprovalInv, RunsWhatWasApproved, Capturing
<1> QED
  BY <1>3, <1>4, <1>5, <1>6, <1>7, <1>8, TypeSplit DEF IInv

(* One turn of the poll loop. *)
LEMMA PollIInv ==
    ASSUME IInv, NEW n \in [Outputs -> 0..PipeSize], Poll(n)
    PROVE  IInv'
<1>1. ShellType /\ ChildType
  BY TypeSplit DEF IInv
<1>2. /\ pc = "polling" /\ pc' = "polling"
      /\ \A s \in Outputs : IF s \in Ready /\ pipe[s] > 0 THEN n[s] \in 1..pipe[s]
                                                          ELSE n[s] = 0
      /\ pipe' = [s \in Streams |-> IF s \in Outputs THEN pipe[s] - n[s] ELSE pipe[s]]
      /\ got' = [s \in Outputs |-> got[s] + Kept(s, n[s])]
      /\ open' = open \ {s \in Ready : pipe[s] = 0}
      /\ UNCHANGED <<fixedVars, callback, answer, left, child, holder, made, script,
                     stageVars, result, agreed, fed>>
  BY DEF Poll
<1>3. \A s \in Outputs :
        /\ made[s] \in 0..MaxOutput /\ got[s] \in 0..MaxOutput /\ pipe[s] \in 0..PipeSize
        /\ n[s] \in 0..pipe[s]
        /\ pipe[s] <= made[s]
        /\ got[s] <= SpawnOutputMax /\ got[s] <= made[s] - pipe[s]
        /\ got[s] = made[s] - pipe[s] \/ got[s] = SpawnOutputMax
  BY <1>1, <1>2 DEF ChildType, Streams, IInv, SpawnInv, Spawning
<1>4. \A s \in Outputs : /\ pipe'[s] = pipe[s] - n[s] /\ pipe'[s] \in 0..PipeSize
                         /\ pipe'[s] <= made[s]
                         /\ got'[s] = got[s] + Kept(s, n[s])
  BY <1>2, <1>3 DEF Streams
<1>5. \A s \in Outputs : /\ got'[s] \in 0..MaxOutput
                         /\ got'[s] <= SpawnOutputMax /\ got'[s] <= made[s] - pipe'[s]
                         /\ got'[s] = made[s] - pipe'[s] \/ got'[s] = SpawnOutputMax
  BY <1>3, <1>4 DEF Kept
<1>6. /\ pipe' \in [Streams -> 0..PipeSize] /\ got' \in [Outputs -> 0..MaxOutput]
      /\ open' \subseteq Outputs
  BY <1>1, <1>2, <1>4, <1>5 DEF ChildType, Streams
<1>7. \A s \in Outputs : got'[s] <= made'[s]
  <2> SUFFICES ASSUME NEW s \in Outputs PROVE got'[s] <= made'[s]
    OBVIOUS
  <2>1. made'[s] = made[s]
    BY <1>2
  <2>2. made[s] \in Int /\ pipe'[s] \in Int /\ 0 <= pipe'[s] /\ got'[s] \in Int
    BY <1>3, <1>4, <1>5
  <2>3. got'[s] <= made[s] - pipe'[s]
    BY <1>5
  <2> QED
    BY <2>1, <2>2, <2>3
<1>8. ShellType' /\ ChildType'
  <2>1. ShellType'
    BY <1>1, <1>2 DEF ShellType, fixedVars, stageVars
  <2>2. ChildType'
    BY <1>1, <1>2, <1>6, <1>7 DEF ChildType
  <2> QED
    BY <2>1, <2>2
<1>9. RoleInv'
  BY <1>2 DEF IInv, RoleInv
<1>10. CaptureInv' /\ ApprovalInv'
  BY <1>2 DEF IInv, CaptureInv, Capturing, ApprovalInv, RunsWhatWasApproved
<1>11. Held' = Held
  BY <1>2 DEF Held, Runs
<1>12. ASSUME NEW s \in Outputs, s \notin open' PROVE pipe'[s] = 0 /\ ~ Held'
  <2>1. CASE s \notin open
    BY <1>2, <1>3, <1>4, <1>11, <2>1 DEF IInv, SpawnInv, Spawning
  <2>2. CASE s \in open
    BY <1>2, <1>3, <1>4, <1>11, <1>12, <2>2 DEF Ready, Eof
  <2> QED
    BY <2>1, <2>2
<1>13. SpawnInv'
  BY <1>2, <1>4, <1>5, <1>12 DEF SpawnInv
<1> QED
  BY <1>8, <1>9, <1>10, <1>13, TypeSplit DEF IInv

LEMMA PollEndsIInv ==
    ASSUME IInv, PollFails \/ PollEnds \/ ReapHelper
    PROVE  IInv'
<1>1. ShellType /\ ChildType
  BY TypeSplit DEF IInv
<1>2. CASE PollFails
  BY <1>2, GoneProps, LuaErrorProps, Over DEF PollFails
<1>3. CASE PollEnds
  <2>1. /\ pc = "polling" /\ open = {} /\ pc' = "reapHelper"
        /\ UNCHANGED <<fixedVars, callback, answer, left, childVars, script, stageVars,
                       result, agreed, fed>>
    BY <1>3 DEF PollEnds
  <2>2. ShellType' /\ ChildType'
    BY <1>1, <2>1 DEF ShellType, ChildType, fixedVars, stageVars, childVars, Waiting
  <2>3. Held' = Held
    BY <2>1 DEF Held, Runs, childVars
  <2>4. RoleInv' /\ CaptureInv'
    BY <2>1 DEF IInv, RoleInv, CaptureInv, Capturing, Spawning, childVars
  <2>5. SpawnInv'
    BY <2>1, <2>3 DEF IInv, SpawnInv, Spawning, childVars
  <2>6. ApprovalInv'
    BY <2>1 DEF IInv, ApprovalInv, RunsWhatWasApproved, Capturing
  <2> QED
    BY <2>2, <2>4, <2>5, <2>6, TypeSplit DEF IInv
<1>4. CASE ReapHelper
  <2>1. /\ pc' = "callback" /\ Gone
        /\ UNCHANGED <<fixedVars, callback, answer, left, script, stageVars, result, agreed, fed>>
    BY <1>4 DEF ReapHelper
  <2>2. ShellType'
    BY <1>1, <2>1 DEF ShellType, fixedVars, stageVars
  <2> QED
    BY <2>1, <2>2, GoneProps, Over DEF IInv, CaptureInv
<1> QED
  BY <1>2, <1>3, <1>4

-----------------------------------------------------------------------------
LEMMA NextIInv == IInv /\ [Next]_vars => IInv'
<1> SUFFICES ASSUME IInv, [Next]_vars PROVE IInv'
  OBVIOUS
<1>1. CASE PlainPipeline \/ Intercept \/ CaptureFails \/ Capture \/ NewShell
  BY <1>1, EntryIInv, CaptureIInv
<1>2. CASE Wait
  BY <1>2, CaptureReadsIInv, CaptureEndsIInv, ReapProducerIInv, FeedIInv, ReapConsumerIInv,
     PollIInv, PollEndsIInv DEF Wait
<1>3. CASE Lua
  BY <1>3, ApproveBytesIInv, ExecIInv, SpawnIInv, CallbackIInv DEF Lua
<1>4. CASE CaptureInterrupted \/ ReapProducerInterrupted \/ ReapConsumerInterrupted \/ PollFails
  BY <1>4, CaptureEndsIInv, ReapProducerIInv, ReapConsumerIInv, PollEndsIInv
<1>5. CASE Outside
  BY <1>5, OutsideIInv
<1>6. CASE UNCHANGED vars
  <2> USE <1>6 DEF vars
  <2>1. DownloadTypeOK' /\ RoleInv'
    BY DEF IInv, DownloadTypeOK, RoleInv
  <2>2. CaptureInv' /\ SpawnInv' /\ ApprovalInv'
    BY DEF IInv, CaptureInv, SpawnInv, ApprovalInv, RunsWhatWasApproved, Held, Runs
  <2> QED
    BY <2>1, <2>2 DEF IInv
<1> QED
  BY <1>1, <1>2, <1>3, <1>4, <1>5, <1>6 DEF Next

LEMMA Invariance == Spec => []IInv
  BY InitIInv, NextIInv, PTL DEF Spec

(* The state of the seam keeps its type: in particular no buffer outgrows   *)
(* its limit and nothing is read that was not written.                     *)
THEOREM DownloadTypeCorrect == Spec => []DownloadTypeOK
<1>1. IInv => DownloadTypeOK
  BY DEF IInv
<1> QED
  BY <1>1, Invariance, PTL

(* rash.exec_with_stdin of the packaged callback is given only what          *)
(* rash.approve_bytes agreed to in this pipeline, and all of the producer's *)
(* output unless a signal ended the capture.                               *)
THEOREM ApprovedOnly == Spec => []RunsWhatWasApproved
<1>1. IInv => RunsWhatWasApproved
  BY DEF IInv, ApprovalInv
<1> QED
  BY <1>1, Invariance, PTL

(* rash_lua_spawn leaves its poll loop with all that fits of both streams. *)
THEOREM SpawnCompleteTheorem == Spec => []SpawnComplete
<1>1. IInv => SpawnComplete
  <2> SUFFICES ASSUME IInv, pc = "reapHelper", NEW s \in Outputs
               PROVE  got[s] = Min({made[s], SpawnOutputMax})
    BY DEF SpawnComplete
  <2>1. made[s] \in Nat /\ got[s] \in Nat
    BY DEF IInv, DownloadTypeOK
  <2>2. /\ pipe[s] = 0 /\ got[s] <= SpawnOutputMax /\ got[s] <= made[s] - pipe[s]
        /\ got[s] = made[s] - pipe[s] \/ got[s] = SpawnOutputMax
    BY DEF IInv, SpawnInv, Spawning
  <2>3. Min({made[s], SpawnOutputMax}) = IF made[s] <= SpawnOutputMax
                                         THEN made[s] ELSE SpawnOutputMax
    BY <2>1, MinPair
  <2> QED
    BY <2>1, <2>2, <2>3
<1> QED
  BY <1>1, Invariance, PTL
=============================================================================
