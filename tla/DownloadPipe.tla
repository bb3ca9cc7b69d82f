---------------------------- MODULE DownloadPipe ----------------------------
(***************************************************************************)
(* The approval of download-to-shell pipelines and the helpers of its      *)
(* callbacks (hooks.c: rash_hooks_try_download_pipe,                       *)
(* rash_capture_argv_stdout, rash_lua_approve_bytes,                       *)
(* rash_lua_exec_with_stdin, rash_lua_spawn).  For curl or wget piped into *)
(* a shell, the producer's output is captured to the end, every            *)
(* rash.on_download_pipe callback sees the captured bytes, and one of them *)
(* has to run the consumer; nothing falls through to a plain pipeline.     *)
(*                                                                         *)
(* The shell has one child at a time: the producer, a helper of rash.spawn *)
(* or the consumer.  Child and shell meet in bounded pipes, and a child    *)
(* may leave a descendant behind that keeps its end of the pipe open.  A   *)
(* stream of bytes is counted in chunks: since a child writes in order,    *)
(* what was read of it is told by how much was read.                       *)
(***************************************************************************)
EXTENDS Naturals, FiniteSetsExt

CONSTANTS
    Callbacks,      \* download_pipe_count
    MaxBytes,       \* RASH_INSTALLER_MAX_BYTES, in chunks
    SpawnOutputMax, \* RASH_SPAWN_OUTPUT_MAX, in chunks
    PipeSize,       \* the capacity of a pipe, in chunks
    MaxOutput       \* bound: what a child writes to one stream, in chunks

ASSUME DownloadAssumption ==
    /\ Callbacks \in Nat \ {0}
    /\ PipeSize \in Nat \ {0}
    /\ MaxBytes \in Nat /\ SpawnOutputMax \in Nat /\ MaxOutput \in Nat

VARIABLES
    policy,     \* what each callback is: the packaged one or any other
    enforcing,  \* download_pipe_enforcing
    sigpipe,    \* what SIGPIPE does to the shell and, inherited, to its children
    pc,         \* where the shell is
    callback,   \* the callback that runs (the loop variable i)
    answer,     \* how far the packaged callback is: what approve_bytes returned
    left,       \* what exec_with_stdin has still to write
    child,      \* the shell's child
    holder,     \* a descendant of the child keeps its end of the pipes open
    pipe,       \* chunks in each pipe
    made,       \* chunks written to each stream by the child
    got,        \* chunks of each stream the shell has kept
    open,       \* the streams whose reading end the shell has open
    script,     \* the captured output, after the capture
    stage_denied, download_pipe_handled, download_pipe_exec_status,
    result,     \* how the latest pipeline ended
    agreed,     \* history: the person, or the override, approved the script
    fed         \* history: what the packaged callback gave to the consumer, or NotFed

vars == <<policy, enforcing, sigpipe, pc, callback, answer, left, child, holder,
          pipe, made, got, open, script, stage_denied, download_pipe_handled,
          download_pipe_exec_status, result, agreed, fed>>

childVars == <<child, holder, pipe, made, got, open>>
stageVars == <<stage_denied, download_pipe_handled, download_pipe_exec_status>>
fixedVars == <<policy, enforcing, sigpipe>>

Outputs == {"out", "err"}
Streams == Outputs \cup {"in"}
Statuses == {"success", "failure"}

\* The calls that wait for a child, by what the shell waits for.
Waiting == {"reading", "closing", "reapProducer", "polling", "reapHelper",
            "feeding", "reapConsumer"}

NoChild  == [role |-> "none", state |-> "none", status |-> "success"]
Nothing  == [s \in Streams |-> 0]
NoOutput == [s \in Outputs |-> 0]
NoScript == [len |-> 0, whole |-> TRUE, cut |-> FALSE]
NotFed   == [agreed |-> TRUE, whole |-> TRUE, cut |-> FALSE]

(* One type invariant: the control of the seam, its child and its pipes. *)
DownloadTypeOK ==
    /\ policy \in [1..Callbacks -> {"packaged", "other"}]
    /\ enforcing \in [1..Callbacks -> BOOLEAN]
    /\ sigpipe \in {"kills", "ignored"}
    /\ pc \in {"idle", "capture", "callback", "dead"} \cup Waiting
    /\ callback \in 1..Callbacks
    /\ answer \in {"unasked", "yes", "no", "done"}
    /\ left \in 0..MaxBytes
    /\ child \in [role : {"none", "producer", "helper", "consumer"},
                  state : {"none", "runs", "exited"} \cup Outputs,
                  status : Statuses]
    /\ holder \in BOOLEAN
    /\ pipe \in [Streams -> 0..PipeSize]
    /\ made \in [Outputs -> 0..MaxOutput]
    /\ got \in [Outputs -> 0..MaxOutput]
    /\ \A s \in Outputs : got[s] <= made[s]
    /\ open \subseteq Outputs
    /\ script \in [len : 0..MaxBytes, whole : BOOLEAN, cut : BOOLEAN]
    /\ stage_denied \in BOOLEAN /\ download_pipe_handled \in BOOLEAN
    /\ download_pipe_exec_status \in Statuses
    /\ result \in Statuses \cup {"none", "plain"}
    /\ agreed \in BOOLEAN
    /\ fed \in [agreed : BOOLEAN, whole : BOOLEAN, cut : BOOLEAN]

Init ==
    /\ policy \in [1..Callbacks -> {"packaged", "other"}]
    /\ enforcing \in [1..Callbacks -> BOOLEAN]
    /\ sigpipe \in {"kills", "ignored"}
    /\ pc = "idle" /\ callback = 1 /\ answer = "unasked" /\ left = 0
    /\ child = NoChild /\ holder = FALSE /\ pipe = Nothing
    /\ made = NoOutput /\ got = NoOutput /\ open = {}
    /\ script = NoScript
    /\ stage_denied = FALSE /\ download_pipe_handled = FALSE
    /\ download_pipe_exec_status = "failure"
    /\ result = "none" /\ agreed = FALSE /\ fed = NotFed

(***************************************************************************)
(* The child, its pipes and its descendant.                                *)
(***************************************************************************)
Runs == child.state \notin {"none", "exited"}

\* Somebody has the child's end of the pipes open.
Held == Runs \/ holder

WritesTo(role) == CASE role = "producer" -> {"out"}
                    [] role = "helper"   -> Outputs
                    [] OTHER             -> {}

\* fork: a child in role r, with new pipes; the shell reads from the streams it writes.
Forked(r) ==
    /\ child' = [role |-> r, state |-> "runs", status |-> "success"]
    /\ holder' = FALSE /\ pipe' = Nothing
    /\ made' = NoOutput /\ got' = NoOutput
    /\ open' = WritesTo(r)

\* waitpid, or no more interest in the child: its pipes are closed on this side.
Gone ==
    /\ child' = NoChild /\ holder' = FALSE /\ pipe' = Nothing
    /\ made' = NoOutput /\ got' = NoOutput /\ open' = {}

\* The child starts to write a chunk; until it has written it cannot end.
ChildWants(s) ==
    /\ child.state = "runs" /\ s \in WritesTo(child.role) /\ made[s] < MaxOutput
    /\ child' = [child EXCEPT !.state = s]
    /\ UNCHANGED <<holder, pipe, made, got, open>>

\* There is room in the pipe, or nobody reads and SIGPIPE or EPIPE answers.
ChildWrites(s) ==
    /\ child.state = s
    /\ made' = [made EXCEPT ![s] = @ + 1]
    /\ \/ s \in open /\ pipe[s] < PipeSize
          /\ pipe' = [pipe EXCEPT ![s] = @ + 1]
          /\ child' = [child EXCEPT !.state = "runs"]
       \/ s \notin open /\ pipe' = pipe
          /\ child' = IF sigpipe = "kills"
                      THEN [child EXCEPT !.state = "exited", !.status = "failure"]
                      ELSE [child EXCEPT !.state = "runs"]
    /\ UNCHANGED <<holder, got, open>>

ConsumerReads ==
    /\ child.role = "consumer" /\ Held /\ pipe["in"] > 0
    /\ pipe' = [pipe EXCEPT !["in"] = @ - 1]
    /\ UNCHANGED <<child, holder, made, got, open>>

ChildExits(status) ==
    /\ child.state = "runs"
    /\ child' = [child EXCEPT !.state = "exited", !.status = status]
    /\ UNCHANGED <<holder, pipe, made, got, open>>

\* A descendant of the child inherits its end of the pipes, and closes it.
ChildLeavesHolder ==
    /\ child.state = "runs" /\ ~ holder
    /\ holder' = TRUE
    /\ UNCHANGED <<child, pipe, made, got, open>>

HolderEnds ==
    /\ holder /\ holder' = FALSE
    /\ UNCHANGED <<child, pipe, made, got, open>>

ChildMoves == \/ \E s \in Outputs : ChildWants(s) \/ ChildWrites(s)
              \/ ConsumerReads
              \/ \E status \in Statuses : ChildExits(status)

Outside ==
    /\ ChildMoves \/ ChildLeavesHolder \/ HolderEnds
    /\ UNCHANGED <<fixedVars, pc, callback, answer, left, script, stageVars,
                   result, agreed, fed>>

(***************************************************************************)
(* The pipeline: interception, capture, end.                               *)
(***************************************************************************)
\* rash_hooks_try_download_pipe returns r for the pipeline.
Return(r) ==
    /\ pc' = "idle" /\ result' = r
    /\ callback' = 1 /\ answer' = "unasked" /\ left' = 0 /\ script' = NoScript
    /\ stage_denied' = FALSE /\ download_pipe_handled' = FALSE
    /\ download_pipe_exec_status' = "failure"

\* Asynchronous, inside another pipe or a trap, no callback, or another shape.
PlainPipeline ==
    /\ pc = "idle"
    /\ result' = "plain" /\ fed' = NotFed /\ agreed' = FALSE
    /\ UNCHANGED <<fixedVars, pc, callback, answer, left, script, childVars, stageVars>>

Intercept ==
    /\ pc = "idle"
    /\ pc' = "capture" /\ result' = "none" /\ fed' = NotFed /\ agreed' = FALSE
    /\ UNCHANGED <<fixedVars, callback, answer, left, script, childVars, stageVars>>

\* Too many words for an argv; no pipe, no fork.
CaptureFails ==
    /\ pc = "capture"
    /\ Return("failure")
    /\ UNCHANGED <<fixedVars, childVars, agreed, fed>>

Capture ==
    /\ pc = "capture"
    /\ pc' = "reading" /\ Forked("producer")
    /\ UNCHANGED <<fixedVars, callback, answer, left, script, stageVars, result, agreed, fed>>

Take(s, k) ==
    /\ pipe' = [pipe EXCEPT ![s] = @ - k]
    /\ got' = [got EXCEPT ![s] = @ + k]

Oversize_Mutant(k) == got["out"] > MaxBytes
Oversize(k) == got["out"] + k > MaxBytes

\* read returns data: it is kept, or the producer is killed and the whole refused.
CaptureReads(k) ==
    /\ pc = "reading" /\ k \in 1..pipe["out"]
    /\ \/ /\ ~ Oversize(k)
          /\ Take("out", k)
          /\ UNCHANGED <<pc, callback, answer, left, script, stageVars, result,
                         child, holder, made, open>>
       \/ /\ Oversize(k)
          /\ Return("failure") /\ Gone
    /\ UNCHANGED <<fixedVars, agreed, fed>>

Eof(s) == pipe[s] = 0 /\ ~ Held

\* The read loop ends; only history knows whether it was cut short.
LoopEnds(cut) ==
    /\ pc' = "closing"
    /\ script' = [script EXCEPT !.cut = cut]
    /\ UNCHANGED <<fixedVars, callback, answer, left, childVars, stageVars, result, agreed, fed>>

CaptureEof ==
    /\ pc = "reading" /\ Eof("out")
    /\ LoopEnds(FALSE)

\* A signal with a handler interrupts the read that waits: the code takes it for the end.
CaptureInterrupted ==
    /\ pc = "reading" /\ pipe["out"] = 0 /\ ~ Eof("out")
    /\ LoopEnds(TRUE)

CaptureCloses ==
    /\ pc = "closing"
    /\ pc' = "reapProducer" /\ open' = {}
    /\ UNCHANGED <<fixedVars, callback, answer, left, child, holder, pipe, made, got,
                   script, stageVars, result, agreed, fed>>

ProducerSucceeded == child.status = "success"

\* waitpid returns: with a status other than 0 nothing is run.
ReapProducer ==
    /\ pc = "reapProducer" /\ child.state = "exited"
    /\ \/ /\ ProducerSucceeded
          /\ pc' = "callback"
          /\ script' = [len |-> got["out"], whole |-> got["out"] = made["out"],
                        cut |-> script.cut]
          /\ UNCHANGED <<callback, answer, left, stageVars, result>>
       \/ ~ ProducerSucceeded /\ Return("failure")
    /\ Gone
    /\ UNCHANGED <<fixedVars, agreed, fed>>

\* waitpid is interrupted: capture failed, the producer is left to the handler.
ReapProducerInterrupted ==
    /\ pc = "reapProducer" /\ Runs
    /\ Return("failure") /\ Gone
    /\ UNCHANGED <<fixedVars, agreed, fed>>

(***************************************************************************)
(* The callbacks.  The packaged one (hooks/approve_download_pipe.lua) asks *)
(* and then runs the consumer or denies; the others do anything.           *)
(***************************************************************************)
InCallback == pc = "callback"
Packaged   == policy[callback] = "packaged"

\* After the loop: denied and unhandled pipelines fail, without falling through.
Verdict(denied) ==
    IF denied \/ ~ download_pipe_handled THEN "failure" ELSE download_pipe_exec_status

\* The callback is over; the loop goes on unless it is decided.
CallbackOver(denied) ==
    \/ /\ denied \/ download_pipe_handled \/ callback = Callbacks
       /\ Return(Verdict(denied))
    \/ /\ ~ denied /\ ~ download_pipe_handled /\ callback < Callbacks
       /\ pc' = "callback" /\ callback' = callback + 1 /\ answer' = "unasked"
       /\ left' = 0
       /\ UNCHANGED <<script, stageVars, result>>

CallbackReturns ==
    /\ InCallback /\ (Packaged => answer = "done")
    /\ CallbackOver(stage_denied)
    /\ UNCHANGED <<fixedVars, childVars, agreed, fed>>

\* A Lua error in the callback denies, whether the callback may enforce or not,
\* unless the callback catches it.
LuaError ==
    \/ CallbackOver(TRUE)
    \/ /\ ~ Packaged
       /\ pc' = "callback"
       /\ UNCHANGED <<callback, answer, left, script, stageVars, result>>

\* An error of the callback's own, or of exec_with_stdin and spawn at pipe or fork.
CallbackFails ==
    /\ InCallback /\ (Packaged => answer = "yes")
    /\ LuaError
    /\ UNCHANGED <<fixedVars, childVars, agreed, fed>>

Deny ==
    /\ InCallback /\ (Packaged => answer = "no")
    /\ stage_denied' = (stage_denied \/ enforcing[callback])
    /\ answer' = IF Packaged THEN "done" ELSE answer
    /\ UNCHANGED <<fixedVars, pc, callback, left, childVars, script, result, agreed, fed,
                   download_pipe_handled, download_pipe_exec_status>>

\* The answer of approve_bytes: the override decides, or the reply at the terminal
\* (none: no terminal, no answer, an interrupted read).  In other callbacks the
\* question changes nothing the shell knows of.
Approval_Mutant(override, reply) ==
    override = "always" \/ (override = "unset" /\ reply /= "n")
Approval(override, reply) ==
    override = "always" \/ (override = "unset" /\ reply = "y")

ApproveBytes(override, reply) ==
    /\ InCallback /\ Packaged /\ answer = "unasked"
    /\ answer' = IF Approval(override, reply) THEN "yes" ELSE "no"
    /\ agreed' = (override = "always" \/ (override = "unset" /\ reply = "y"))
    /\ UNCHANGED <<fixedVars, pc, callback, left, childVars, script, stageVars, result, fed>>

(***************************************************************************)
(* rash.exec_with_stdin: the consumer is fed the bytes of its argument.    *)
(***************************************************************************)
ExecWithStdin(bytes) ==
    /\ InCallback
    /\ Packaged => answer = "yes" /\ bytes = script.len
    /\ pc' = "feeding" /\ left' = bytes /\ Forked("consumer")
    /\ fed' = IF Packaged
              THEN [agreed |-> agreed, whole |-> script.whole, cut |-> script.cut]
              ELSE fed
    /\ UNCHANGED <<fixedVars, callback, answer, script, stageVars, result, agreed>>

Feed ==
    /\ pc = "feeding" /\ left > 0 /\ Held /\ pipe["in"] < PipeSize
    /\ left' = left - 1
    /\ pipe' = [pipe EXCEPT !["in"] = @ + 1]
    /\ UNCHANGED <<fixedVars, pc, callback, answer, child, holder, made, got, open,
                   script, stageVars, result, agreed, fed>>

\* Nobody reads the rest: SIGPIPE ends the shell, or the loop ends with EPIPE.
FeedBroken ==
    /\ pc = "feeding" /\ left > 0 /\ ~ Held
    /\ left' = 0
    /\ pc' = IF sigpipe = "kills" THEN "dead" ELSE "feeding"
    /\ UNCHANGED <<fixedVars, callback, answer, childVars, script, stageVars, result, agreed, fed>>

FeedEnds ==
    /\ pc = "feeding" /\ left = 0
    /\ pc' = "reapConsumer"
    /\ UNCHANGED <<fixedVars, callback, answer, left, childVars, script, stageVars,
                   result, agreed, fed>>

ReapConsumer ==
    /\ pc = "reapConsumer" /\ child.state = "exited"
    /\ pc' = "callback" /\ answer' = IF Packaged THEN "done" ELSE answer
    /\ download_pipe_handled' = TRUE /\ download_pipe_exec_status' = child.status
    /\ Gone
    /\ UNCHANGED <<fixedVars, callback, left, script, stage_denied, result, agreed, fed>>

\* waitpid is interrupted: an error, and the consumer runs on without the shell.
ReapConsumerInterrupted ==
    /\ pc = "reapConsumer" /\ Runs
    /\ LuaError /\ Gone
    /\ UNCHANGED <<fixedVars, agreed, fed>>

(***************************************************************************)
(* rash.spawn: the output of a helper, read from two pipes with poll.      *)
(***************************************************************************)
Spawn ==
    /\ InCallback /\ ~ Packaged
    /\ pc' = "polling" /\ Forked("helper")
    /\ UNCHANGED <<fixedVars, callback, answer, left, script, stageVars, result, agreed, fed>>

\* The streams poll waits for.
Polled_Mutant == IF "out" \in open THEN {"out"} ELSE open
Polled == open

\* poll reports a stream that has data or is at its end.
Ready == {s \in Polled : pipe[s] > 0 \/ Eof(s)}

\* What of k chunks read goes into the buffer; the rest is dropped.
Kept_Mutant(s, k) == IF got[s] + k > SpawnOutputMax THEN 0 ELSE k
Kept(s, k) == IF got[s] + k > SpawnOutputMax THEN SpawnOutputMax - got[s] ELSE k

\* One turn of the loop: one read from each ready stream.
Poll(n) ==
    /\ pc = "polling" /\ Ready /= {}
    /\ \A s \in Outputs : IF s \in Ready /\ pipe[s] > 0 THEN n[s] \in 1..pipe[s]
                                                        ELSE n[s] = 0
    /\ pipe' = [s \in Streams |-> IF s \in Outputs THEN pipe[s] - n[s] ELSE pipe[s]]
    /\ got' = [s \in Outputs |-> got[s] + Kept(s, n[s])]
    /\ open' = open \ {s \in Ready : pipe[s] = 0}
    /\ UNCHANGED <<fixedVars, pc, callback, answer, left, child, holder, made, script,
                   stageVars, result, agreed, fed>>

\* poll fails: the helper is killed and the call is an error.
PollFails ==
    /\ pc = "polling" /\ open /= {}
    /\ LuaError /\ Gone
    /\ UNCHANGED <<fixedVars, agreed, fed>>

PollEnds ==
    /\ pc = "polling" /\ open = {}
    /\ pc' = "reapHelper"
    /\ UNCHANGED <<fixedVars, callback, answer, left, childVars, script, stageVars,
                   result, agreed, fed>>

ReapHelper ==
    /\ pc = "reapHelper" /\ child.state = "exited"
    /\ pc' = "callback" /\ Gone
    /\ UNCHANGED <<fixedVars, callback, answer, left, script, stageVars, result, agreed, fed>>

\* The user starts another shell.
NewShell ==
    /\ pc = "dead"
    /\ Return("none") /\ Gone /\ agreed' = FALSE /\ fed' = NotFed
    /\ UNCHANGED fixedVars

(***************************************************************************)
(* The specification.                                                      *)
(***************************************************************************)
Wait ==
    \/ \E k \in 1..PipeSize : CaptureReads(k)
    \/ CaptureEof \/ CaptureCloses \/ ReapProducer
    \/ Feed \/ FeedBroken \/ FeedEnds \/ ReapConsumer
    \/ \E n \in [Outputs -> 0..PipeSize] : Poll(n)
    \/ PollEnds \/ ReapHelper

Lua ==
    \/ \E o \in {"always", "never", "unset"}, r \in {"y", "n", "none"} : ApproveBytes(o, r)
    \/ \E bytes \in 0..MaxBytes : ExecWithStdin(bytes)
    \/ Spawn \/ Deny \/ CallbackReturns \/ CallbackFails

Next ==
    \/ PlainPipeline \/ Intercept \/ CaptureFails \/ Capture
    \/ Wait \/ Lua
    \/ CaptureInterrupted \/ ReapProducerInterrupted \/ ReapConsumerInterrupted
    \/ PollFails
    \/ NewShell
    \/ Outside

Spec == Init /\ [][Next]_vars
FairSpec ==
    /\ Spec
    /\ WF_vars(Wait)
    /\ WF_vars(ChildMoves /\ Outside)

(***************************************************************************)
(* Properties.                                                             *)
(***************************************************************************)

(* What the packaged callback gives to the consumer (exec_with_stdin) was   *)
(* approved by the person asked in this pipeline, or by the override, and   *)
(* is all the producer wrote, unless a signal cut the capture's read loop   *)
(* short: no failure of capture, terminal, earlier callback or helper runs  *)
(* a script nobody approved, or part of one.                                *)
RunsWhatWasApproved ==
    fed.agreed /\ (fed.whole \/ fed.cut)

(* The documents exclude truncation altogether: what the consumer is given  *)
(* is all that a producer which ended well has written.                     *)
NoTruncatedScript == fed.whole

(* When rash.spawn is done reading, it has of each stream all that the      *)
(* helper wrote, up to the size of its buffer, in whatever order the two    *)
(* pipes filled and were read.  A descendant that keeps a pipe only delays  *)
(* its end: in the model it writes nothing.                                 *)
SpawnComplete ==
    pc = "reapHelper" =>
        \A s \in Outputs : got[s] = Min({made[s], SpawnOutputMax})

(* No call that waits for a child waits for ever (the comment `Interleave   *)
(* reads so a full pipe cannot deadlock the child`), except while a         *)
(* descendant of the child keeps the child's end of a pipe.                 *)
CallsReturn == []<>(pc \notin Waiting \/ holder)

=============================================================================
