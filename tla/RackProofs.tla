----------------------------- MODULE RackProofs -----------------------------
(***************************************************************************)
(* Proofs about the Rack, for any number of layers and any number of calls   *)
(* of next().  The properties are not inductive: IInv adds how the depths,   *)
(* the flags and the layers asked depend on the stack of layers.            *)
(***************************************************************************)
EXTENDS Rack, Integers, SequenceTheorems, TLAPS

-----------------------------------------------------------------------------
(* A stack is a sequence of frames; the one that runs is Last.               *)

(* Popping a frame. *)
LEMMA FrontLast ==
  ASSUME NEW S, NEW s \in Seq(S), s # <<>>
  PROVE  /\ Front(s) \in Seq(S)
         /\ Last(s) \in S
         /\ Len(s) \in Nat \ {0}
         /\ Len(Front(s)) = Len(s) - 1
         /\ \A k \in 1 .. Len(s) - 1 : Front(s)[k] = s[k]
<1> DEFINE n == Len(s) - 1
<1>1. Len(s) \in Nat \ {0} /\ n \in Nat /\ Len(s) = n + 1
  BY EmptySeq, LenProperties
<1>2. Last(s) \in S /\ \A i \in 1 .. n : s[i] \in S
  BY <1>1, ElementOfSeq DEF Last
<1>3. Front(s) = SubSeq(s, 1, n)
  BY DEF Front
<1> HIDE DEF n
<1>4. /\ SubSeq(s, 1, n) \in Seq(S)
      /\ Len(SubSeq(s, 1, n)) = IF 1 <= n THEN n - 1 + 1 ELSE 0
      /\ \A i \in 1 .. n - 1 + 1 : SubSeq(s, 1, n)[i] = s[1 + i - 1]
  BY <1>1, <1>2, SubSeqProperties
<1>5. n - 1 + 1 = n /\ (~(1 <= n) => n = 0) /\ Len(s) - 1 = n
  BY <1>1
<1>6. Len(Front(s)) = n
  BY <1>3, <1>4, <1>5
<1>7. \A k \in 1 .. n : k \in 1 .. n - 1 + 1 /\ 1 + k - 1 = k
  BY <1>1
<1> QED
  BY <1>1, <1>2, <1>3, <1>4, <1>5, <1>6, <1>7

(* Pushing a frame. *)
LEMMA PushTop ==
  ASSUME NEW S, NEW s \in Seq(S), NEW e \in S
  PROVE  /\ Append(s, e) \in Seq(S)
         /\ Append(s, e) # <<>>
         /\ Len(s) \in Nat
         /\ Len(Append(s, e)) = Len(s) + 1
         /\ \A k \in 1 .. Len(s) : Append(s, e)[k] = s[k]
         /\ Append(s, e)[Len(s) + 1] = e
         /\ Last(Append(s, e)) = e
         /\ Front(Append(s, e)) = s
<1> DEFINE t == Append(s, e)
<1>1. /\ t \in Seq(S) /\ t # <<>> /\ Len(s) \in Nat /\ Len(t) = Len(s) + 1
      /\ \A k \in 1 .. Len(s) : t[k] = s[k]
      /\ t[Len(s) + 1] = e
  BY AppendProperties, LenProperties
<1> HIDE DEF t
<1>2. /\ Front(t) \in Seq(S) /\ Len(Front(t)) = Len(s)
      /\ \A k \in 1 .. Len(s) : Front(t)[k] = s[k]
  BY <1>1, FrontLast
<1>3. Front(t) = s /\ Last(t) = e
  BY <1>1, <1>2, SeqEqual DEF Last
<1> QED
  BY <1>1, <1>3 DEF t

-----------------------------------------------------------------------------
(* A Rack is open exactly while rack_depth is 1, but for a command that      *)
(* jumped to top level: it leaves the depths behind, and no Rack is opened  *)
(* again.  While one is open there is a Lua call per frame.                 *)
DepthInv ==
  /\ rack_depth \in {0, 1}
  /\ pc # "idle" => rack_depth = 1 /\ rash_lua_call_depth = Len(frames) /\ ended = "no"
  /\ pc = "idle" => frames = <<>>
  /\ pc = "lua" => frames # <<>>
  /\ rack_depth = 0 => rash_lua_call_depth = 0
  /\ ended = "returned" => rack_depth = 0

(* A layer is asked after all the layers outside it. *)
AskedInv ==
  /\ \A i \in asked : 1 .. i \subseteq asked
  /\ pc = "invoke" => 1 .. index - 1 \subseteq asked

(* current_hook_enforcing, and every copy of it kept in a frame, is set only  *)
(* for a layer of an enforcing file.                                        *)
ModeInv ==
  /\ \A k \in 1 .. Len(frames) :
       frames[k].saved_enforcing => k > 1 /\ rack_enforcing[frames[k - 1].layer]
  /\ pc # "idle" \/ rack_depth = 0 =>
       (current_hook_enforcing => frames # <<>> /\ rack_enforcing[Last(frames).layer])

(* A denial that stands is recorded until the layers have returned. *)
DenyInv == standing => pc = "idle" \/ (pc = "lua" /\ rack_denied)

IInv == RackTypeOK /\ DepthInv /\ AskedInv /\ ModeInv /\ DenyInv

USE RackCountAssumption
  DEF DepthUp, DepthDown, RestoreMode, DenialFirst, NextLayer

-----------------------------------------------------------------------------
LEMMA FirstCall == 1 \in Calls
  BY DEF Calls

LEMMA InitIInv == Init => IInv
<1> SUFFICES ASSUME Init PROVE IInv
  OBVIOUS
<1>1. frames \in Seq(Frames) /\ Len(frames) = 0
  BY EmptySeq DEF Init
<1>2. RackTypeOK
  <2>1. 1 \in Calls
    BY FirstCall
  <2>2. EXECUTION_SUCCESS \in Status
    BY DEF Status
  <2> QED
    BY <1>1, <2>1, <2>2 DEF Init, RackTypeOK
<1>3. DepthInv /\ AskedInv /\ DenyInv
  BY DEF Init, DepthInv, AskedInv, DenyInv
<1>4. ModeInv
  BY <1>1 DEF Init, ModeInv
<1> QED
  BY <1>2, <1>3, <1>4 DEF IInv

(* rash_rack_invoke returns to the layer below or ends the command. *)
LEMMA ReturnToProps ==
  ASSUME NEW fs, NEW s, ReturnTo(fs, s)
  PROVE  /\ frames' = fs /\ result' = s
         /\ fs = <<>> => pc' = "idle" /\ ended' = "returned" /\ rack_depth' = rack_depth - 1
         /\ fs # <<>> => pc' = "lua" /\ ended' = ended /\ rack_depth' = rack_depth
  BY DEF ReturnTo

LEMMA DirectExecuteIInv == ASSUME IInv, DirectExecute PROVE IInv'
<1>1. RackTypeOK'
  BY DEF IInv, RackTypeOK, DirectExecute, mode, depths, control
<1>2. DepthInv' /\ AskedInv' /\ DenyInv'
  BY DEF IInv, DepthInv, AskedInv, DenyInv, DirectExecute, depths, control
<1>3. current_hook_enforcing' => current_hook_enforcing
  BY DEF DirectExecute, mode
<1>4. ModeInv'
  BY <1>3 DEF IInv, ModeInv, DirectExecute, depths, control
<1> QED
  BY <1>1, <1>2, <1>4 DEF IInv

(* A Rack is opened with no frame on the stack and no flag left over. *)
LEMMA RackExecuteIInv == ASSUME IInv, RackExecute PROVE IInv'
<1>1. /\ pc = "idle" /\ rack_depth = 0 /\ frames = <<>> /\ rash_lua_call_depth = 0
      /\ ~ current_hook_enforcing
  BY DEF IInv, RackTypeOK, DepthInv, ModeInv, RackExecute
<1>2. Len(frames) = 0
  BY <1>1, EmptySeq
<1>3. RackTypeOK'
  <2>1. rack_depth' = 1 /\ index' \in Calls
    BY <1>1, FirstCall DEF RackExecute
  <2>2. asked' \in SUBSET Layers /\ runs' \in Nat /\ nexts' \in Nat
    BY DEF RackExecute
  <2>3. /\ pc' = "invoke" /\ standing' = FALSE /\ ended' = "no"
        /\ UNCHANGED <<rack_enforcing, rack_denied, current_hook_enforcing,
                       rash_lua_call_depth, result, frames>>
    BY DEF RackExecute, mode
  <2> QED
    BY <2>1, <2>2, <2>3 DEF IInv, RackTypeOK
<1>4. DepthInv' /\ AskedInv' /\ DenyInv'
  BY <1>1, <1>2 DEF IInv, DepthInv, AskedInv, DenyInv, RackExecute, mode
<1>5. ModeInv'
  BY <1>1, <1>2 DEF ModeInv, RackExecute, mode
<1> QED
  BY <1>3, <1>4, <1>5 DEF IInv

(* A layer is entered. *)
LEMMA InvokeLayerIInv == ASSUME IInv, InvokeLayer PROVE IInv'
<1> DEFINE f == [layer |-> index, saved_enforcing |-> current_hook_enforcing]
<1>1. /\ pc = "invoke" /\ index \in Layers /\ frames' = Append(frames, f)
      /\ current_hook_enforcing' = rack_enforcing[index] /\ rack_denied' = FALSE
      /\ rash_lua_call_depth' = rash_lua_call_depth + 1 /\ pc' = "lua"
      /\ asked' = asked \union {index}
      /\ UNCHANGED <<rack_enforcing, rack_depth, result, index, runs, nexts, standing, ended>>
  BY DEF IInv, RackTypeOK, InvokeLayer, Calls, Layers
<1>2. f \in Frames /\ frames \in Seq(Frames)
  BY <1>1 DEF IInv, RackTypeOK, Frames
<1>3. f.layer = index /\ f.saved_enforcing = current_hook_enforcing
  OBVIOUS
<1> HIDE DEF f
<1>4. /\ frames' \in Seq(Frames) /\ frames' # <<>> /\ Len(frames) \in Nat
      /\ Len(frames') = Len(frames) + 1 /\ Last(frames') = f
      /\ \A k \in 1 .. Len(frames) : frames'[k] = frames[k]
      /\ frames'[Len(frames) + 1] = f
  BY <1>1, <1>2, PushTop
<1>5. rack_enforcing[index] \in BOOLEAN
  BY <1>1 DEF IInv, RackTypeOK
<1>6. RackTypeOK'
  <2>1. asked' \in SUBSET Layers /\ rash_lua_call_depth' \in Nat
    BY <1>1 DEF IInv, RackTypeOK
  <2> QED
    BY <1>1, <1>4, <1>5, <2>1 DEF IInv, RackTypeOK
<1>7. DepthInv' /\ DenyInv'
  BY <1>1, <1>4 DEF IInv, DepthInv, DenyInv
<1>8. AskedInv'
  <2>1. 1 .. index \subseteq asked'
    BY <1>1 DEF IInv, AskedInv, Layers
  <2> QED
    BY <1>1, <2>1 DEF IInv, AskedInv
<1>9. ModeInv'
  <2>1. ASSUME NEW k \in 1 .. Len(frames'), frames'[k].saved_enforcing
        PROVE  k > 1 /\ rack_enforcing'[frames'[k - 1].layer]
    <3>1. CASE k \in 1 .. Len(frames)
      <4>1. k > 1 /\ rack_enforcing[frames[k - 1].layer]
        BY <1>4, <2>1, <3>1 DEF IInv, ModeInv
      <4> QED
        BY <1>1, <1>4, <3>1, <4>1
    <3>2. CASE k = Len(frames) + 1
      <4>1. frames # <<>> /\ rack_enforcing[Last(frames).layer]
        BY <1>1, <1>3, <1>4, <2>1, <3>2 DEF IInv, ModeInv
      <4>2. Len(frames) # 0 /\ frames'[k - 1] = Last(frames)
        BY <1>2, <1>4, <3>2, <4>1, EmptySeq DEF Last
      <4> QED
        BY <1>1, <1>4, <3>2, <4>1, <4>2
    <3> QED
      BY <1>4, <3>1, <3>2
  <2>2. current_hook_enforcing' => rack_enforcing'[Last(frames').layer]
    BY <1>1, <1>3, <1>4
  <2> QED
    BY <1>4, <2>1, <2>2 DEF ModeInv
<1> QED
  BY <1>6, <1>7, <1>8, <1>9 DEF IInv

LEMMA InvokeBodyIInv == ASSUME IInv, InvokeBody PROVE IInv'
<1>1. RackTypeOK'
  BY DEF IInv, RackTypeOK, InvokeBody, mode, depths
<1>2. DepthInv' /\ AskedInv' /\ ModeInv' /\ DenyInv'
  BY DEF IInv, DepthInv, AskedInv, ModeInv, DenyInv, InvokeBody, mode, depths
<1> QED
  BY <1>1, <1>2 DEF IInv

LEMMA BodyDeniesIInv == ASSUME IInv, BodyDenies PROVE IInv'
<1>1. RackTypeOK'
  BY DEF IInv, RackTypeOK, BodyDenies, depths, control, history
<1>2. DepthInv' /\ AskedInv' /\ ModeInv' /\ DenyInv'
  BY DEF IInv, DepthInv, AskedInv, ModeInv, DenyInv, BodyDenies, depths, control, history
<1> QED
  BY <1>1, <1>2 DEF IInv

LEMMA BodyReturnsIInv == ASSUME IInv, BodyReturns PROVE IInv'
<1>1. PICK s \in Status : ReturnTo(frames, s)
  BY DEF BodyReturns
<1>2. /\ pc = "body" /\ current_hook_enforcing' \in {current_hook_enforcing, FALSE}
      /\ UNCHANGED <<rack_enforcing, rack_denied, rash_lua_call_depth, index,
                     runs, nexts, asked, standing>>
  BY DEF BodyReturns
<1>3. /\ frames' = frames /\ result' = s /\ ended = "no"
      /\ rack_depth = 1 /\ rash_lua_call_depth = Len(frames)
      /\ frames = <<>> => pc' = "idle" /\ ended' = "returned" /\ rack_depth' = 0
      /\ frames # <<>> => pc' = "lua" /\ ended' = ended /\ rack_depth' = rack_depth
  BY <1>1, <1>2, ReturnToProps DEF IInv, DepthInv
<1>4. frames = <<>> => Len(frames) = 0
  BY EmptySeq
<1>5. RackTypeOK'
  BY <1>2, <1>3 DEF IInv, RackTypeOK
<1>6. DepthInv'
  BY <1>2, <1>3, <1>4 DEF IInv, DepthInv
<1>7. AskedInv' /\ DenyInv'
  BY <1>2, <1>3 DEF IInv, AskedInv, DenyInv
<1>8. current_hook_enforcing' => current_hook_enforcing
  BY <1>2
<1>9. ModeInv'
  BY <1>2, <1>3, <1>8 DEF IInv, ModeInv
<1> QED
  BY <1>5, <1>6, <1>7, <1>9 DEF IInv

LEMMA BodyUnwindsIInv == ASSUME IInv, BodyUnwinds PROVE IInv'
<1>1. /\ pc = "body" /\ frames' = <<>> /\ pc' = "idle" /\ ended' = "unwound"
      /\ rash_lua_call_depth' \in {rash_lua_call_depth, 0}
      /\ UNCHANGED <<rack_enforcing, mode, rack_depth, result, index,
                     runs, nexts, asked, standing>>
  BY DEF BodyUnwinds
<1>2. frames' \in Seq(Frames) /\ Len(frames') = 0
  BY <1>1, EmptySeq
<1>3. RackTypeOK'
  BY <1>1, <1>2 DEF IInv, RackTypeOK, mode
<1>4. DepthInv' /\ AskedInv' /\ ModeInv' /\ DenyInv'
  BY <1>1, <1>2 DEF IInv, DepthInv, AskedInv, ModeInv, DenyInv, mode
<1> QED
  BY <1>3, <1>4 DEF IInv

(* next() leads to the layer after one that has been asked. *)
LEMMA RackNextIInv == ASSUME IInv, RackNext PROVE IInv'
<1>1. PICK i \in asked : index' = i + 1
  BY DEF RackNext, Proxies
<1>2. i \in Layers /\ 1 .. i \subseteq asked
  BY DEF IInv, RackTypeOK, AskedInv
<1>3. index' \in Calls /\ index' - 1 = i
  BY <1>1, <1>2 DEF Layers, Calls
<1>4. RackTypeOK'
  <2>1. nexts' \in Nat
    BY DEF IInv, RackTypeOK, RackNext
  <2> QED
    BY <1>3, <2>1 DEF IInv, RackTypeOK, RackNext, mode, depths
<1>5. DepthInv' /\ AskedInv' /\ ModeInv' /\ DenyInv'
  BY <1>2, <1>3 DEF IInv, DepthInv, AskedInv, ModeInv, DenyInv, RackNext, mode, depths
<1> QED
  BY <1>4, <1>5 DEF IInv

LEMMA LayerDeniesIInv == ASSUME IInv, LayerDenies PROVE IInv'
<1>1. RackTypeOK'
  BY DEF IInv, RackTypeOK, LayerDenies, depths, control
<1>2. DepthInv' /\ AskedInv' /\ ModeInv' /\ DenyInv'
  BY DEF IInv, DepthInv, AskedInv, ModeInv, DenyInv, LayerDenies, depths, control
<1> QED
  BY <1>1, <1>2 DEF IInv

(* What the end of a layer does to the stack and the flags. *)
LEMMA LeaveLayerProps ==
  ASSUME IInv, pc = "lua", LeaveLayer, frames' = Front(frames)
  PROVE  /\ frames' \in Seq(Frames) /\ Len(frames') \in Nat
         /\ frames' = <<>> => Len(frames') = 0
         /\ Last(frames).layer \in Layers
         /\ rash_lua_call_depth' = Len(frames') /\ rack_depth = 1 /\ ended = "no"
         /\ current_hook_enforcing' \in BOOLEAN
         /\ \A k \in 1 .. Len(frames') :
              frames'[k].saved_enforcing => k > 1 /\ rack_enforcing[frames'[k - 1].layer]
         /\ current_hook_enforcing' =>
              frames' # <<>> /\ rack_enforcing[Last(frames').layer]
<1>1. frames # <<>> /\ frames \in Seq(Frames)
  BY DEF IInv, RackTypeOK, DepthInv
<1>2. /\ frames' \in Seq(Frames) /\ Last(frames) \in Frames /\ Len(frames) \in Nat \ {0}
      /\ Len(frames') = Len(frames) - 1
      /\ \A k \in 1 .. Len(frames) - 1 : frames'[k] = frames[k]
  BY <1>1, FrontLast
<1>3. /\ rash_lua_call_depth' = Len(frames') /\ rack_depth = 1 /\ ended = "no"
  BY <1>2 DEF IInv, DepthInv, LeaveLayer
<1>4. /\ current_hook_enforcing' = Last(frames).saved_enforcing
      /\ current_hook_enforcing' \in BOOLEAN /\ Last(frames).layer \in Layers
  BY <1>2 DEF LeaveLayer, Frames
<1>5. \A k \in 1 .. Len(frames') :
        frames'[k].saved_enforcing => k > 1 /\ rack_enforcing[frames'[k - 1].layer]
  BY <1>2 DEF IInv, ModeInv
<1>6. ASSUME current_hook_enforcing' PROVE frames' # <<>> /\ rack_enforcing[Last(frames').layer]
  <2>1. frames[Len(frames)].saved_enforcing
    BY <1>4, <1>6 DEF Last
  <2>2. Len(frames) > 1 /\ rack_enforcing[frames[Len(frames) - 1].layer]
    BY <1>2, <2>1 DEF IInv, ModeInv
  <2>3. frames' # <<>>
    BY <1>2, <2>2, EmptySeq
  <2>4. Last(frames') = frames[Len(frames) - 1]
    BY <1>2, <2>2 DEF Last
  <2> QED
    BY <2>2, <2>3, <2>4
<1>7. frames' = <<>> => Len(frames') = 0
  BY EmptySeq
<1>8. Len(frames') \in Nat
  BY <1>2
<1> QED
  BY <1>2, <1>3, <1>4, <1>5, <1>6, <1>7, <1>8

(* A layer hands a status to what is below it. *)
LEMMA LayerOverIInv ==
  ASSUME IInv, pc = "lua", LeaveLayer, NEW s \in Status, ReturnTo(Front(frames), s),
         UNCHANGED runs
  PROVE  IInv'
<1>1. /\ frames' = Front(frames) /\ result' = s
      /\ frames' = <<>> => pc' = "idle" /\ ended' = "returned" /\ rack_depth' = rack_depth - 1
      /\ frames' # <<>> => pc' = "lua" /\ ended' = ended /\ rack_depth' = rack_depth
  BY ReturnToProps
<1>2. /\ frames' \in Seq(Frames) /\ Len(frames') \in Nat
      /\ frames' = <<>> => Len(frames') = 0
      /\ rash_lua_call_depth' = Len(frames') /\ rack_depth = 1 /\ ended = "no"
      /\ current_hook_enforcing' \in BOOLEAN
  BY <1>1, LeaveLayerProps
<1>3. /\ \A k \in 1 .. Len(frames') :
           frames'[k].saved_enforcing => k > 1 /\ rack_enforcing[frames'[k - 1].layer]
      /\ current_hook_enforcing' => frames' # <<>> /\ rack_enforcing[Last(frames').layer]
  BY <1>1, LeaveLayerProps
<1>4. UNCHANGED <<rack_enforcing, rack_denied, index, nexts, asked, standing>>
  BY DEF LeaveLayer
<1>5. rack_depth' \in {0, 1} /\ rack_depth' \in Nat
      /\ pc' \in {"idle", "lua"} /\ ended' \in {"no", "returned"}
  BY <1>1, <1>2
<1>6. RackTypeOK'
  BY <1>1, <1>2, <1>4, <1>5 DEF IInv, RackTypeOK
<1>7. DepthInv'
  BY <1>1, <1>2, <1>5 DEF DepthInv
<1>8. AskedInv' /\ DenyInv'
  BY <1>4, <1>5 DEF IInv, AskedInv, DenyInv
<1>9. ModeInv'
  BY <1>3, <1>4 DEF ModeInv
<1> QED
  BY <1>6, <1>7, <1>8, <1>9 DEF IInv

LEMMA LayerReturnsIInv == ASSUME IInv, LayerReturns PROVE IInv'
<1>1. PICK s \in Status :
        ReturnTo(Front(frames), IF rack_denied THEN EXECUTION_FAILURE ELSE s)
  BY DEF LayerReturns
<1>2. (IF rack_denied THEN EXECUTION_FAILURE ELSE s) \in Status
  BY DEF Status
<1> QED
  BY <1>1, <1>2, LayerOverIInv DEF LayerReturns

(* A layer that fails ends the same way, or is replaced by the command. *)
LEMMA LayerFailsIInv == ASSUME IInv, LayerFails PROVE IInv'
<1>1. pc = "lua" /\ LeaveLayer
  BY DEF LayerFails
<1>2. CASE rack_denied \/ rack_enforcing[Last(frames).layer]
  <2>1. EXECUTION_FAILURE \in Status
    BY DEF Status
  <2>2. ReturnTo(Front(frames), EXECUTION_FAILURE) /\ UNCHANGED runs
    BY <1>2 DEF LayerFails
  <2> QED
    BY <1>1, <2>1, <2>2, LayerOverIInv
<1>3. CASE ~ (rack_denied \/ rack_enforcing[Last(frames).layer])
  <2>1. /\ frames' = Front(frames) /\ pc' = "body" /\ runs' = runs + 1
        /\ UNCHANGED <<result, rack_depth, ended>>
    BY <1>3 DEF LayerFails
  <2>2. /\ frames' \in Seq(Frames) /\ Len(frames') \in Nat
        /\ rash_lua_call_depth' = Len(frames') /\ rack_depth = 1 /\ ended = "no"
        /\ current_hook_enforcing' \in BOOLEAN
    BY <1>1, <2>1, LeaveLayerProps
  <2>3. /\ \A k \in 1 .. Len(frames') :
             frames'[k].saved_enforcing => k > 1 /\ rack_enforcing[frames'[k - 1].layer]
        /\ current_hook_enforcing' => frames' # <<>> /\ rack_enforcing[Last(frames').layer]
    BY <1>1, <2>1, LeaveLayerProps
  <2>4. UNCHANGED <<rack_enforcing, rack_denied, index, nexts, asked, standing>>
    BY <1>1 DEF LeaveLayer
  <2>5. RackTypeOK'
    BY <2>1, <2>2, <2>4 DEF IInv, RackTypeOK
  <2>6. DepthInv' /\ AskedInv'
    BY <2>1, <2>2, <2>4 DEF IInv, DepthInv, AskedInv
  <2>7. DenyInv'
    BY <1>1, <1>3, <2>4 DEF IInv, DenyInv
  <2>8. ModeInv'
    BY <2>3, <2>4 DEF ModeInv
  <2> QED
    BY <2>5, <2>6, <2>7, <2>8 DEF IInv
<1> QED
  BY <1>2, <1>3

LEMMA NextIInv == IInv /\ [Next]_vars => IInv'
<1> SUFFICES ASSUME IInv, [Next]_vars PROVE IInv'
  OBVIOUS
<1>1. CASE UNCHANGED vars
  <2>1. RackTypeOK'
    BY <1>1 DEF IInv, RackTypeOK, vars, mode, depths, control, history
  <2>2. DepthInv' /\ AskedInv' /\ ModeInv' /\ DenyInv'
    BY <1>1 DEF IInv, DepthInv, AskedInv, ModeInv, DenyInv, vars, mode, depths, control, history
  <2> QED
    BY <2>1, <2>2 DEF IInv
<1> QED
  BY <1>1, DirectExecuteIInv, RackExecuteIInv, InvokeLayerIInv, InvokeBodyIInv,
     BodyDeniesIInv, BodyReturnsIInv, BodyUnwindsIInv, RackNextIInv, LayerDeniesIInv, LayerFailsIInv,
     LayerReturnsIInv DEF Next

LEMMA Invariance == Spec => []IInv
  BY InitIInv, NextIInv, PTL DEF Spec

-----------------------------------------------------------------------------
(* The Rack's state keeps its type: no depth is counted below zero, no      *)
(* next() leads past the command.                                           *)
THEOREM RackTypeCorrect == Spec => []RackTypeOK
<1>1. IInv => RackTypeOK
  BY DEF IInv
<1> QED
  BY <1>1, Invariance, PTL

(* When rash_rack_execute returns, rack_depth and rash_lua_call_depth are   *)
(* back at zero, however its layers ended.                                  *)
THEOREM Balanced == Spec => []BalancedOnReturn
<1>1. IInv => BalancedOnReturn
  BY DEF IInv, DepthInv, BalancedOnReturn
<1> QED
  BY <1>1, Invariance, PTL

(* next() starts a layer, or the command, only after all the layers outside *)
(* it were called, also if a layer calls the next() of another.             *)
THEOREM OuterFirst == Spec => []OuterLayersAsked
<1>1. IInv => OuterLayersAsked
  BY DEF IInv, AskedInv, OuterLayersAsked
<1> QED
  BY <1>1, Invariance, PTL

(* After rash.deny in an enforcing layer, and until next() is called, the   *)
(* command does not run and the Rack ends in failure.                       *)
THEOREM DenyAborts == Spec => DenyAbortsWithoutNext
<1> DEFINE Aborts == (standing /\ standing') =>
                       /\ runs' = runs
                       /\ (pc # "idle" /\ pc' = "idle") => result' = EXECUTION_FAILURE
<1>1. IInv /\ [Next]_vars => [Aborts]_vars
  <2> SUFFICES ASSUME IInv, Next, standing, standing'
               PROVE  /\ runs' = runs
                      /\ (pc # "idle" /\ pc' = "idle") => result' = EXECUTION_FAILURE
    OBVIOUS
  <2>1. pc = "idle" \/ (pc = "lua" /\ rack_denied)
    BY DEF IInv, DenyInv
  <2>2. CASE DirectExecute
    BY <2>2 DEF DirectExecute
  <2>3. CASE RackExecute \/ RackNext
    BY <2>3 DEF RackExecute, RackNext
  <2>4. CASE InvokeLayer \/ InvokeBody \/ BodyDenies \/ BodyReturns \/ BodyUnwinds
    BY <2>1, <2>4 DEF InvokeLayer, InvokeBody, BodyDenies, BodyReturns, BodyUnwinds
  <2>5. CASE LayerDenies
    BY <2>5 DEF LayerDenies, control
  <2>6. CASE LayerFails
    <3>1. ReturnTo(Front(frames), EXECUTION_FAILURE) /\ UNCHANGED runs
      BY <2>1, <2>6 DEF LayerFails
    <3> QED
      BY <3>1, ReturnToProps
  <2>7. CASE LayerReturns
    <3>1. ReturnTo(Front(frames), EXECUTION_FAILURE) /\ UNCHANGED runs
      BY <2>1, <2>7 DEF LayerReturns
    <3> QED
      BY <3>1, ReturnToProps
  <2> QED
    BY <2>2, <2>3, <2>4, <2>5, <2>6, <2>7 DEF Next
<1> QED
  BY <1>1, Invariance, PTL DEF Spec, DenyAbortsWithoutNext

(* While a layer is on top of the stack, its rash.deny sets rack_denied only *)
(* if the layer is from an enforcing file, whatever the layers and callbacks *)
(* inside it did to current_hook_enforcing.  The denials of callbacks inside *)
(* the command itself are outside it.                                       *)
THEOREM OnlyEnforcingLayers == Spec => OnlyEnforcingLayersDeny
<1> DEFINE Enforced == (pc = "lua" /\ ~rack_denied /\ rack_denied')
                         => rack_enforcing[Last(frames).layer]
<1>1. IInv /\ [Next]_vars => [Enforced]_vars
  <2> SUFFICES ASSUME IInv, Next, pc = "lua", ~rack_denied, rack_denied'
               PROVE  rack_enforcing[Last(frames).layer]
    OBVIOUS
  <2>1. CASE LayerDenies
    BY <2>1 DEF IInv, ModeInv, LayerDenies
  <2>2. CASE DirectExecute \/ RackExecute \/ InvokeLayer \/ InvokeBody \/ BodyDenies
             \/ BodyReturns \/ BodyUnwinds
    BY <2>2 DEF DirectExecute, RackExecute, InvokeLayer, InvokeBody, BodyDenies, BodyReturns,
       BodyUnwinds
  <2>3. CASE RackNext \/ LayerFails \/ LayerReturns
    BY <2>3 DEF RackNext, LayerFails, LayerReturns, LeaveLayer, mode
  <2> QED
    BY <2>1, <2>2, <2>3 DEF Next
<1> QED
  BY <1>1, Invariance, PTL DEF Spec, OnlyEnforcingLayersDeny
=============================================================================
