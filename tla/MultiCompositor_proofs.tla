------------------------ MODULE MultiCompositor_proofs ------------------------
(***************************************************************************)
(* Theorems about MultiCompositor, for any number of frames, any length of *)
(* the pacer's array, any display times and any steps of the threads.      *)
(*                                                                         *)
(*   HandOff   who owns the frame in progress: the client that fills it,   *)
(*             the one that was pushed, or the wait thread;                *)
(*   Order     frames are begun, submitted and retired in turn;            *)
(*   Pacing    the entry of every frame that will still be marked.         *)
(***************************************************************************)
EXTENDS MultiCompositor, TLAPS

USE DEF pacerVars, clientVars, waitVars, slotVars, renderVars, stateVars, ghostVars

-----------------------------------------------------------------------------
(* The invariant.                                                          *)

\* The wait thread has a frame to move on; the client has one in progress.
Busy == {"fence", "gpu_done", "sched", "move"}
Filling == {"layers", "sched", "move"}

HandOff ==
  /\ waiting <=> wpc \in Busy \cup {"release"}
  /\ pushed # None => wpc = "cond" /\ progress = pushed
  /\ wpc \in Busy => wframe # None /\ progress = wframe
  /\ cpc \in Filling => begun # None /\ progress = begun /\ pushed = None /\ wpc = "cond"
  /\ progress # None => pushed # None \/ wpc \in Busy \/ cpc \in Filling
  /\ cpc \in {"wait_wt", "blocked"} => begun # None
  /\ blocked => cpc = "blocked"
  /\ cpc = "blocked" /\ ~blocked => pushed = None /\ ~waiting
  /\ running <=> cpc \notin {"join", "gone"}
  /\ wpc = "exited" => ~running
  /\ cpc \in {"stop", "join", "gone"} => ~listed
  /\ cpc = "gone" => wpc = "exited"

\* Every submitted frame is older than the one begun and the one waited for.
Newer ==
  /\ waited # None => waited = frame_counter /\ begun < waited
  /\ begun <= frame_counter
  /\ \A f \in submitted :
       /\ f <= frame_counter
       /\ waited # None => f < waited
       /\ begun # None => f < begun \/ (f = begun /\ cpc \in Filling)

Order ==
  /\ Newer
  /\ shown \in submitted \cup {None}
  /\ RetiredOnce
  /\ SlotsInOrder
  /\ cpc = "gone" => retired = submitted

\* PacerState in the array fr.
StateIn(fr, f) == LET e == fr[f % FrameCount] IN IF e.id = f THEN e.state ELSE "OTHER"

Pacing ==
  /\ waited # None => StateIn(frames, waited) \in {"PREDICTED", "WAIT_LEFT"}
  /\ begun # None /\ cpc \in {"wait_wt", "blocked", "layers"} =>
       StateIn(frames, begun) = "DELIVERED"
  /\ begun # None /\ cpc \in {"idle", "end_session"} => StateIn(frames, begun) = "BEGUN"
  /\ pushed # None => StateIn(frames, pushed) = "DELIVERED"
  /\ wpc \in {"fence", "gpu_done"} => StateIn(frames, wframe) = "DELIVERED"

PacerFrames == {"READY", "PREDICTED", "WAIT_LEFT", "BEGUN", "DELIVERED"}
Entries == [id : Slot, state : PacerFrames]

Inv == TypeOK /\ HandOff /\ Order /\ Pacing

-----------------------------------------------------------------------------
(* The entries of the pacer.                                               *)

\* Every frame has an entry.
LEMMA EntryOf == \A f \in Frames : f % FrameCount \in 0 .. FrameCount - 1
<1>1. \A f \in Nat : f % FrameCount \in 0 .. FrameCount - 1
  BY ConstantsAssumption
<1>2. Frames \subseteq Nat
  BY ConstantsAssumption DEF Frames
<1> QED
  BY <1>1, <1>2

\* Marking a frame leaves alone the entry of every other frame that has one.
LEMMA MarkOne ==
  ASSUME frames \in [0 .. FrameCount - 1 -> Entries], NEW g \in Frames, NEW from,
         "OTHER" \notin from, NEW e \in Entries, Mark(g, from, e)
  PROVE  /\ frames' \in [0 .. FrameCount - 1 -> Entries]
         /\ StateIn(frames, g) \in from
         /\ e.id = g => StateIn(frames', g) = e.state
         /\ \A f \in Frames : f # g /\ StateIn(frames, f) # "OTHER"
                                => StateIn(frames', f) = StateIn(frames, f)
<1>1. /\ frames' = [frames EXCEPT ![g % FrameCount] = e]
      /\ StateIn(frames, g) \in from
  BY DEF Mark, PacerState, StateIn
<1>2. g % FrameCount \in 0 .. FrameCount - 1
  BY EntryOf
<1>3. frames[g % FrameCount].id = g
  BY <1>1 DEF StateIn
<1>4. frames' \in [0 .. FrameCount - 1 -> Entries] /\ frames'[g % FrameCount] = e
  BY <1>1, <1>2
<1>5. e.id = g => StateIn(frames', g) = e.state
  BY <1>4 DEF StateIn
<1>6. ASSUME NEW f \in Frames, f # g, StateIn(frames, f) # "OTHER"
      PROVE  StateIn(frames', f) = StateIn(frames, f)
  <2>1. frames[f % FrameCount].id = f
    BY <1>6 DEF StateIn
  <2>2. f % FrameCount \in 0 .. FrameCount - 1
    BY EntryOf
  <2>3. frames'[f % FrameCount] = frames[f % FrameCount]
    BY <1>1, <1>3, <1>6, <2>1, <2>2
  <2> QED
    BY <2>3 DEF StateIn
<1> QED
  BY <1>1, <1>4, <1>5, <1>6

\* So does predicting one, which takes an entry that no frame has.
LEMMA PredictOne ==
  ASSUME frames \in [0 .. FrameCount - 1 -> Entries], NEW g \in Frames, Predict(g)
  PROVE  /\ frames' \in [0 .. FrameCount - 1 -> Entries]
         /\ StateIn(frames', g) = "PREDICTED"
         /\ \A f \in Frames : StateIn(frames, f) # "OTHER"
                                => StateIn(frames', f) = StateIn(frames, f)
<1> DEFINE e == [id |-> g, state |-> "PREDICTED"]
<1>1. /\ frames[g % FrameCount] = Ready
      /\ frames' = [frames EXCEPT ![g % FrameCount] = e]
  BY DEF Predict
<1>2. g % FrameCount \in 0 .. FrameCount - 1 /\ e \in Entries /\ e.id = g /\ e.state = "PREDICTED"
  BY EntryOf, ConstantsAssumption DEF Frames, Entries, Slot, PacerFrames
<1> HIDE DEF e
<1>3. frames' \in [0 .. FrameCount - 1 -> Entries] /\ frames'[g % FrameCount] = e
  BY <1>1, <1>2
<1>4. StateIn(frames', g) = "PREDICTED"
  BY <1>2, <1>3 DEF StateIn
<1>5. ASSUME NEW f \in Frames, StateIn(frames, f) # "OTHER"
      PROVE  StateIn(frames', f) = StateIn(frames, f)
  <2>1. frames[f % FrameCount].id = f /\ f # None
    BY <1>5, ConstantsAssumption DEF StateIn, Frames, None
  <2>2. f % FrameCount \in 0 .. FrameCount - 1
    BY EntryOf
  <2>3. frames[g % FrameCount].id = None
    BY <1>1 DEF Ready
  <2>4. frames'[f % FrameCount] = frames[f % FrameCount]
    BY <1>1, <2>1, <2>2, <2>3
  <2> QED
    BY <2>4 DEF StateIn
<1> QED
  BY <1>3, <1>4, <1>5

-----------------------------------------------------------------------------
(* Handing a frame on.                                                     *)

\* Every step keeps one owner of the frame in progress.
LEMMA HandOffStep ==
  ASSUME TypeOK, HandOff, [Next]_vars
  PROVE  HandOff'
<1>0. /\ waiting \in BOOLEAN /\ blocked \in BOOLEAN /\ running \in BOOLEAN /\ listed \in BOOLEAN
      /\ wpc \in {"cond", "fence", "gpu_done", "sched", "move", "release", "exited"}
  BY DEF TypeOK
<1>1. CASE UNCHANGED <<waiting, wpc, pushed, progress, wframe, cpc, begun, blocked, running, listed>>
  BY <1>1 DEF HandOff
<1>2. CASE PredictFrame
  BY <1>0, <1>2 DEF PredictFrame, HandOff, Busy, Filling, None
<1>3. CASE MarkFrame
  BY <1>0, <1>3 DEF MarkFrame, HandOff, Busy, Filling, None
<1>4. CASE BeginFrame
  BY <1>0, <1>4 DEF BeginFrame, InUse, HandOff, Busy, Filling, None
<1>5. CASE LayerCommitPush
  BY <1>0, <1>5 DEF LayerCommitPush, HandOff, Busy, Filling, None
<1>6. CASE LayerCommit
  BY <1>0, <1>6 DEF LayerCommit, HandOff, Busy, Filling, None
<1>7. CASE WaitForWaitThread
  BY <1>0, <1>7 DEF WaitForWaitThread, UseProgress, HandOff, Busy, Filling, None
<1>8. CASE Unblocked
  BY <1>0, <1>8 DEF Unblocked, UseProgress, HandOff, Busy, Filling, None
<1>9. CASE CommitScheduledFree
  BY <1>0, <1>9 DEF CommitScheduledFree, HandOff, Busy, Filling, None
<1>10. CASE CommitMove
  BY <1>0, <1>10 DEF CommitMove, MoveToScheduled, HandOff, Busy, Filling, None
<1>11. CASE Destroy
  BY <1>0, <1>11 DEF Destroy, HandOff, Busy, Filling, None
<1>12. CASE DestroyUnlist
  BY <1>0, <1>12 DEF DestroyUnlist, HandOff, Busy, Filling, None
<1>13. CASE DestroyStop
  BY <1>0, <1>13 DEF DestroyStop, HandOff, Busy, Filling, None
<1>14. CASE DestroyClear
  BY <1>0, <1>14 DEF DestroyClear, HandOff, Busy, Filling, None
<1>15. CASE WaitThreadWakes
  BY <1>0, <1>15 DEF WaitThreadWakes, HandOff, Busy, Filling, None
<1>16. CASE WaitFence
  BY <1>0, <1>16 DEF WaitFence, HandOff, Busy, Filling, None
<1>17. CASE WaitThreadGpuDone
  BY <1>0, <1>17 DEF WaitThreadGpuDone, HandOff, Busy, Filling, None
<1>18. CASE WaitThreadScheduledFree
  BY <1>0, <1>18 DEF WaitThreadScheduledFree, HandOff, Busy, Filling, None
<1>19. CASE WaitThreadMove
  BY <1>0, <1>19 DEF WaitThreadMove, MoveToScheduled, HandOff, Busy, Filling, None
<1>20. CASE WaitThreadRelease
  BY <1>0, <1>20 DEF WaitThreadRelease, HandOff, Busy, Filling, None
<1>21. ASSUME NEW f \in {waited, begun}, DiscardFrame(f)
      PROVE  HandOff'
  BY <1>0, <1>21 DEF DiscardFrame, HandOff, Busy, Filling, None
<1>22. ASSUME NEW d \in 1 .. MaxTime - 1, LayerBegin(d)
      PROVE  HandOff'
  BY <1>0, <1>22 DEF LayerBegin, HandOff, Busy, Filling, None
<1>23. CASE BeginSession \/ EndSession \/ RenderThread \/ SetVisible \/ Tick \/ UNCHANGED vars
  BY <1>1, <1>23 DEF BeginSession, EndSession, RenderThread, RenderPredict, RenderPacers, TransferLayers,
                    SetVisible, Tick, vars
<1> QED
  BY <1>2, <1>3, <1>4, <1>5, <1>6, <1>7, <1>8, <1>9, <1>10, <1>11, <1>12, <1>13, <1>14,
     <1>15, <1>16, <1>17, <1>18, <1>19, <1>20, <1>21, <1>22, <1>23 DEF Next, App,
     ClientThread, WaitThread

-----------------------------------------------------------------------------
(* Types.                                                                  *)

\* The types without the pacer's array.
RestTypes ==
  /\ frame_counter \in 0 .. MaxFrames
  /\ cpc \in {"idle", "wait_wt", "blocked", "layers", "sched", "move",
              "end_session", "unlist", "stop", "join", "gone"}
  /\ waited \in Slot /\ begun \in Slot
  /\ dtime \in [Frames -> Times]
  /\ wpc \in {"cond", "fence", "gpu_done", "sched", "move", "release", "exited"}
  /\ wframe \in Slot /\ pushed \in Slot
  /\ waiting \in BOOLEAN /\ blocked \in BOOLEAN /\ running \in BOOLEAN
  /\ progress \in Slot /\ scheduled \in Slot /\ delivered \in Slot
  /\ slot_next_frame_display \in Times
  /\ rpc \in {"predict", "pacers", "transfer"}
  /\ rtime \in Times
  /\ listed \in BOOLEAN /\ visible \in BOOLEAN /\ session_active \in BOOLEAN
  /\ now \in Times
  /\ submitted \in SUBSET Frames /\ retired \in SUBSET Frames
  /\ shown \in Slot

\* Every step keeps the types.
LEMMA RestTypesStep ==
  ASSUME RestTypes, HandOff, [Next]_vars
  PROVE  RestTypes'
<1>0. /\ None \in Slot /\ \A x \in Slot : x # None => x \in Frames
      /\ \A x \in 0 .. MaxFrames : x < MaxFrames => x + 1 \in 0 .. MaxFrames /\ x + 1 \in Slot
      /\ \A x \in Times : x < MaxTime => x + 1 \in Times
      /\ \A x \in Times : \A t \in x .. MaxTime : t \in Times
      /\ \A t \in 1 .. MaxTime - 1 : t \in Times
  BY ConstantsAssumption DEF None, Slot, Frames, Times
<1>1. CASE PredictFrame
  BY <1>0, <1>1 DEF PredictFrame, Predict, RestTypes
<1>2. CASE MarkFrame
  BY <1>0, <1>2 DEF MarkFrame, RestTypes
<1>3. CASE BeginFrame
  BY <1>0, <1>3 DEF BeginFrame, RestTypes
<1>4. CASE LayerCommit
  BY <1>0, <1>4 DEF LayerCommit, RestTypes
<1>5. CASE BeginSession
  BY <1>0, <1>5 DEF BeginSession, RestTypes
<1>6. CASE EndSession
  BY <1>0, <1>6 DEF EndSession, RestTypes
<1>7. CASE Destroy
  BY <1>0, <1>7 DEF Destroy, RestTypes
<1>8. CASE CommitScheduledFree
  BY <1>0, <1>8 DEF CommitScheduledFree, RestTypes
<1>9. CASE CommitMove
  BY <1>0, <1>9 DEF CommitMove, MoveToScheduled, Retire, RestTypes
<1>10. CASE DestroyUnlist
  BY <1>0, <1>10 DEF DestroyUnlist, RestTypes
<1>11. CASE DestroyStop
  BY <1>0, <1>11 DEF DestroyStop, RestTypes
<1>12. CASE DestroyClear
  BY <1>0, <1>12 DEF DestroyClear, Retire, RestTypes
<1>13. CASE LayerCommitPush
  BY <1>0, <1>13 DEF LayerCommitPush, RestTypes
<1>14. CASE WaitForWaitThread
  <2>1. CASE UNCHANGED <<progress, submitted>>
    BY ZenonT(60), <1>0, <1>14, <2>1 DEF WaitForWaitThread, UseProgress, RestTypes
  <2>2. CASE UseProgress /\ UNCHANGED blocked
    <3>1. begun \in Frames
      BY <1>0, <1>14 DEF WaitForWaitThread, HandOff, RestTypes
    <3> QED
      BY <1>0, <1>14, <2>2, <3>1 DEF WaitForWaitThread, UseProgress, RestTypes
  <2> QED
    BY <1>14, <2>1, <2>2 DEF WaitForWaitThread
<1>15. CASE Unblocked
  <2>1. begun \in Frames
    BY <1>0, <1>15 DEF Unblocked, HandOff, RestTypes
  <2> QED
    BY <1>0, <1>15, <2>1 DEF Unblocked, UseProgress, RestTypes
<1>16. CASE WaitThreadWakes
  <2>1. CASE pushed # None
    BY ZenonT(60), <1>0, <1>16, <2>1 DEF WaitThreadWakes, RestTypes
  <2>2. CASE pushed = None
    <3>1. /\ UNCHANGED <<wframe, pushed, waiting>> /\ wpc' \in {"cond", "exited"}
          /\ UNCHANGED <<pacerVars, clientVars, blocked, running, slotVars, renderVars,
                         stateVars, now, ghostVars>>
      BY <1>16, <2>2 DEF WaitThreadWakes
    <3> QED
      BY <3>1 DEF RestTypes
  <2> QED
    BY <2>1, <2>2
<1>17. CASE WaitFence
  BY <1>0, <1>17 DEF WaitFence, RestTypes
<1>18. CASE WaitThreadScheduledFree
  BY <1>0, <1>18 DEF WaitThreadScheduledFree, RestTypes
<1>19. CASE WaitThreadMove
  BY <1>0, <1>19 DEF WaitThreadMove, MoveToScheduled, Retire, RestTypes
<1>20. CASE WaitThreadRelease
  BY <1>0, <1>20 DEF WaitThreadRelease, RestTypes
<1>21. CASE RenderPredict
  BY <1>0, <1>21 DEF RenderPredict, RestTypes
<1>22. CASE RenderPacers
  BY <1>0, <1>22 DEF RenderPacers, RestTypes
<1>23. CASE TransferLayers
  BY <1>0, <1>23 DEF TransferLayers, Retire, RestTypes
<1>24. CASE SetVisible
  BY <1>0, <1>24 DEF SetVisible, RestTypes
<1>25. CASE Tick
  BY <1>0, <1>25 DEF Tick, RestTypes
<1>26. CASE WaitThreadGpuDone
  BY <1>0, <1>26 DEF WaitThreadGpuDone, RestTypes
<1>27. ASSUME NEW f \in {waited, begun}, DiscardFrame(f)
      PROVE  RestTypes'
  BY <1>0, <1>27 DEF DiscardFrame, Retire, RestTypes
<1>28. ASSUME NEW d \in 1 .. MaxTime - 1, LayerBegin(d)
      PROVE  RestTypes'
  BY <1>0, <1>28 DEF LayerBegin, RestTypes
<1>29. CASE UNCHANGED vars
  BY <1>29 DEF vars, RestTypes
<1> QED
  BY <1>1, <1>2, <1>3, <1>4, <1>5, <1>6, <1>7, <1>8, <1>9, <1>10, <1>11, <1>12, <1>13,
     <1>14, <1>15, <1>16, <1>17, <1>18, <1>19, <1>20, <1>21, <1>22, <1>23, <1>24, <1>25,
     <1>26, <1>27, <1>28, <1>29 DEF Next, App, ClientThread, WaitThread, RenderThread

\* Frames are numbers, None is below all of them.
LEMMA Numbers ==
  /\ Slot \subseteq Nat /\ Frames \subseteq Nat /\ 0 .. MaxFrames \subseteq Nat
  /\ Frames \subseteq Slot /\ \A f \in Frames : f > None
  /\ \A x \in Slot : x # None => x \in Frames
<1> QED
  BY ConstantsAssumption DEF Slot, Frames, None

\* What the type invariant says of the frames alone.
LEMMA TypeFacts ==
  ASSUME TypeOK
  PROVE  /\ RestTypes
         /\ frames \in [0 .. FrameCount - 1 -> Entries]
<1> QED
  BY DEF TypeOK, RestTypes, Entries, PacerFrames

-----------------------------------------------------------------------------
(* The order of the frames.                                                *)

\* Every step leaves the submitted frames older than those to come.
LEMMA NewerStep ==
  ASSUME TypeOK, HandOff, Newer, [Next]_vars
  PROVE  Newer'
<1>0. /\ frame_counter \in Nat /\ waited \in Nat /\ begun \in Nat
      /\ submitted \subseteq Nat
  BY TypeFacts, Numbers DEF RestTypes
<1>1. ASSUME UNCHANGED <<frame_counter, waited, begun, submitted>>,
             cpc \in Filling => cpc' \in Filling
      PROVE  Newer'
  BY <1>1 DEF Newer
<1>2. CASE PredictFrame
  <2>1. /\ waited' = frame_counter + 1 /\ frame_counter' = frame_counter + 1
        /\ UNCHANGED <<cpc, begun, submitted>>
    BY <1>2 DEF PredictFrame, Predict
  <2> QED
    BY <1>0, <2>1 DEF Newer, None
<1>3. CASE BeginFrame
  <2>1. /\ waited # None /\ begun' = waited /\ waited' = None
        /\ UNCHANGED <<cpc, frame_counter, submitted>>
    BY <1>3 DEF BeginFrame
  <2> QED
    BY <1>0, <2>1 DEF Newer, None
<1>4. CASE LayerCommitPush \/ CommitMove
  <2>1. begun' = None /\ UNCHANGED <<waited, frame_counter, submitted>>
    BY <1>4 DEF LayerCommitPush, CommitMove
  <2> QED
    BY <1>0, <2>1 DEF Newer, None
<1>5. ASSUME NEW f \in {waited, begun}, DiscardFrame(f)
      PROVE  Newer'
  <2>1. /\ waited' \in {waited, None} /\ begun' \in {begun, None}
        /\ UNCHANGED <<frame_counter, submitted>> /\ cpc \notin Filling
    BY <1>5 DEF DiscardFrame, Filling
  <2> QED
    BY <1>0, <2>1 DEF Newer, None
<1>6. ASSUME UseProgress, begun # None, UNCHANGED <<frame_counter, waited, begun>>
      PROVE  Newer'
  <2>1. submitted' = submitted \cup {begun} /\ cpc' \in Filling
    BY <1>6 DEF UseProgress, Filling
  <2> QED
    BY <1>0, <1>6, <2>1 DEF Newer, None
<1>7. CASE WaitForWaitThread
  <2>1. begun # None /\ UNCHANGED <<frame_counter, waited, begun>> /\ cpc \notin Filling
    BY <1>7 DEF WaitForWaitThread, HandOff, Filling
  <2> QED
    BY <1>1, <1>6, <1>7, <2>1 DEF WaitForWaitThread
<1>8. CASE Unblocked
  <2>1. begun # None /\ UNCHANGED <<frame_counter, waited, begun>>
    BY <1>8 DEF Unblocked, HandOff
  <2> QED
    BY <1>6, <1>8, <2>1 DEF Unblocked
<1>9. ASSUME NEW d \in 1 .. MaxTime - 1, LayerBegin(d)
      PROVE  Newer'
  BY <1>1, <1>9 DEF LayerBegin, Filling
<1>10. CASE MarkFrame \/ LayerCommit \/ BeginSession \/ EndSession \/ Destroy
             \/ CommitScheduledFree \/ DestroyUnlist \/ DestroyStop \/ DestroyClear
  BY <1>1, <1>10 DEF MarkFrame, LayerCommit, BeginSession, EndSession, Destroy,
                     CommitScheduledFree, DestroyUnlist, DestroyStop, DestroyClear, Filling
<1>11. CASE WaitThread
  BY <1>1, <1>11 DEF WaitThread, WaitThreadWakes, WaitFence, WaitThreadGpuDone,
                     WaitThreadScheduledFree, WaitThreadMove, WaitThreadRelease
<1>12. CASE RenderThread \/ SetVisible \/ Tick \/ UNCHANGED vars
  BY <1>1, <1>12 DEF RenderThread, RenderPredict, RenderPacers, TransferLayers, SetVisible,
                     Tick, vars
<1> QED
  BY <1>2, <1>3, <1>4, <1>5, <1>7, <1>8, <1>9, <1>10, <1>11, <1>12 DEF Next, App, ClientThread

\* The frames in the slots, and the one shown, were submitted.
LEMMA HeldFrames ==
  ASSUME TypeOK, Order
  PROVE  /\ progress # None => progress \in submitted
         /\ scheduled # None => scheduled \in submitted
         /\ delivered # None => delivered \in submitted
         /\ retired \subseteq submitted
<1> QED
  BY DEF Order, RetiredOnce

\* Every step retires a frame at most once and keeps the slots in order.
LEMMA SlotsStep ==
  ASSUME TypeOK, HandOff, Order, [Next]_vars
  PROVE  /\ shown' \in submitted' \cup {None}
         /\ RetiredOnce' /\ SlotsInOrder'
         /\ cpc' = "gone" => retired' = submitted'
<1> DEFINE Goal == /\ shown' \in submitted' \cup {None}
                   /\ RetiredOnce' /\ SlotsInOrder'
                   /\ cpc' = "gone" => retired' = submitted'
<1>0. /\ progress \in Nat /\ scheduled \in Nat /\ delivered \in Nat /\ shown \in Nat
      /\ begun \in Nat /\ submitted \subseteq Nat /\ None = 0
  BY TypeFacts, Numbers DEF RestTypes, None
<1>1. ASSUME UNCHANGED <<progress, scheduled, delivered, submitted, retired, shown>>,
             cpc' = "gone" => cpc = "gone"
      PROVE  Goal
  BY <1>1 DEF Order, RetiredOnce, SlotsInOrder
<1>2. ASSUME NEW f \in {waited, begun}, DiscardFrame(f)
      PROVE  Goal
  <2>1. /\ retired' = retired \cup ({delivered} \ {None}) /\ delivered' = None
        /\ UNCHANGED <<progress, scheduled, submitted, shown>> /\ cpc' # "gone"
    BY <1>2 DEF DiscardFrame, Retire
  <2>2. RetiredOnce'
    BY <2>1 DEF Order, RetiredOnce
  <2>3. SlotsInOrder'
    BY <1>0, <2>1 DEF Order, SlotsInOrder
  <2> QED
    BY <2>1, <2>2, <2>3 DEF Order
<1>3. ASSUME UseProgress, begun # None, cpc \notin Filling,
             UNCHANGED <<scheduled, delivered, retired, shown>>
      PROVE  Goal
  <2>1. /\ progress = None /\ progress' = begun /\ submitted' = submitted \cup {begun}
        /\ cpc' # "gone"
    BY <1>3 DEF UseProgress
  <2>2. \A f \in submitted : f < begun
    BY <1>3 DEF Order, Newer
  <2>3. /\ scheduled < begun /\ delivered < begun /\ shown < begun
        /\ begun \notin retired /\ begun \notin submitted
    BY <1>0, <1>3, <2>2, HeldFrames DEF Order
  <2>4. RetiredOnce'
    BY <1>0, <1>3, <2>1, <2>3 DEF Order, RetiredOnce
  <2>5. SlotsInOrder'
    BY <1>0, <1>3, <2>1, <2>3 DEF Order, SlotsInOrder
  <2> QED
    BY <1>3, <2>1, <2>4, <2>5 DEF Order
<1>4. CASE WaitForWaitThread
  <2>1. /\ begun # None /\ cpc \notin Filling
        /\ UNCHANGED <<scheduled, delivered, retired, shown>>
    BY <1>4 DEF WaitForWaitThread, HandOff, Filling
  <2>2. CASE UseProgress
    BY <1>3, <2>1, <2>2
  <2>3. CASE UNCHANGED <<progress, submitted>> /\ cpc' = "blocked"
    BY <1>1, <2>1, <2>3
  <2> QED
    BY <1>4, <2>2, <2>3 DEF WaitForWaitThread
<1>5. CASE Unblocked
  <2>1. begun # None /\ cpc \notin Filling /\ UNCHANGED <<scheduled, delivered, retired, shown>>
    BY <1>5 DEF Unblocked, HandOff, Filling
  <2> QED
    BY <1>3, <1>5, <2>1 DEF Unblocked
<1>6. ASSUME MoveToScheduled, progress # None, cpc' # "gone", UNCHANGED <<submitted, shown>>
      PROVE  Goal
  <2>1. /\ retired' = retired \cup ({scheduled} \ {None}) /\ scheduled' = progress
        /\ progress' = None /\ delivered' = delivered
    BY <1>6 DEF MoveToScheduled, Retire
  <2>2. RetiredOnce'
    BY <1>6, <2>1 DEF Order, RetiredOnce
  <2>3. SlotsInOrder'
    BY <1>0, <1>6, <2>1 DEF Order, SlotsInOrder
  <2> QED
    BY <1>6, <2>2, <2>3 DEF Order
<1>7. CASE CommitMove
  <2>1. progress # None /\ cpc' # "gone" /\ UNCHANGED <<submitted, shown>>
    BY <1>7 DEF CommitMove, HandOff, Filling
  <2> QED
    BY <1>6, <1>7, <2>1 DEF CommitMove
<1>8. CASE WaitThreadMove
  <2>1. progress # None /\ cpc' # "gone" /\ UNCHANGED <<submitted, shown>>
    BY <1>8 DEF WaitThreadMove, HandOff, Busy
  <2> QED
    BY <1>6, <1>8, <2>1 DEF WaitThreadMove
<1>9. CASE DestroyClear
  <2>1. /\ retired' = retired \cup ({progress, scheduled, delivered} \ {None})
        /\ progress' = None /\ scheduled' = None /\ delivered' = None
        /\ UNCHANGED <<submitted, shown>>
    BY <1>9 DEF DestroyClear, Retire
  <2>2. retired' = submitted /\ RetiredOnce'
    BY <2>1 DEF Order, RetiredOnce
  <2>3. SlotsInOrder'
    BY <2>1 DEF SlotsInOrder
  <2> QED
    BY <2>1, <2>2, <2>3 DEF Order
<1>10. CASE TransferLayers
  <2>1. cpc' = cpc /\ progress' = progress /\ submitted' = submitted
    BY <1>10 DEF TransferLayers
  <2>2. CASE ~listed
    BY <1>1, <1>10, <2>1, <2>2 DEF TransferLayers
  <2>3. CASE listed
    <3>1. cpc' # "gone"
      BY <2>1, <2>3 DEF HandOff
    <3>2. PICK frame \in {scheduled, delivered}, gone \in SUBSET {scheduled, delivered} :
             /\ (scheduled' = scheduled /\ frame = delivered /\ gone = {})
                \/ (scheduled # None /\ scheduled' = None /\ frame = scheduled /\ gone = {delivered})
             /\ (delivered' = frame /\ retired' = retired \cup (gone \ {None})
                   /\ shown' = IF frame # None THEN frame ELSE shown)
                \/ (delivered' = None /\ retired' = retired \cup ((gone \cup {frame}) \ {None})
                      /\ shown' = shown)
      <4>1. CASE scheduled # None /\ rtime >= dtime[scheduled]
        <5> WITNESS scheduled \in {scheduled, delivered}, {delivered} \in SUBSET {scheduled, delivered}
        <5> QED
          BY <1>10, <2>3, <4>1 DEF TransferLayers, Retire
      <4>2. CASE ~(scheduled # None /\ rtime >= dtime[scheduled])
        <5> WITNESS delivered \in {scheduled, delivered}, {} \in SUBSET {scheduled, delivered}
        <5> QED
          BY <1>10, <2>3, <4>2 DEF TransferLayers, Retire
      <4> QED
        BY <4>1, <4>2
    <3>3. RetiredOnce'
      BY <2>1, <3>2 DEF Order, RetiredOnce
    <3>4. SlotsInOrder'
      BY <1>0, <2>1, <3>2 DEF Order, SlotsInOrder
    <3>5. shown' \in submitted \cup {None}
      BY <3>2, HeldFrames DEF Order
    <3> QED
      BY <2>1, <3>1, <3>3, <3>4, <3>5
  <2> QED
    BY <2>2, <2>3
<1>11. ASSUME NEW d \in 1 .. MaxTime - 1, LayerBegin(d)
       PROVE  Goal
  BY <1>1, <1>11 DEF LayerBegin
<1>12. CASE PredictFrame \/ MarkFrame \/ BeginFrame \/ LayerCommitPush \/ LayerCommit
             \/ BeginSession \/ EndSession \/ Destroy
             \/ CommitScheduledFree \/ DestroyUnlist \/ DestroyStop
  BY <1>1, <1>12 DEF PredictFrame, MarkFrame, BeginFrame, LayerCommitPush, LayerCommit,
                     BeginSession, EndSession, Destroy, CommitScheduledFree, DestroyUnlist,
                     DestroyStop
<1>13. CASE WaitThreadWakes \/ WaitFence \/ WaitThreadGpuDone \/ WaitThreadScheduledFree
             \/ WaitThreadRelease
  BY <1>1, <1>13 DEF WaitThreadWakes, WaitFence, WaitThreadGpuDone, WaitThreadScheduledFree,
                     WaitThreadRelease
<1>14. CASE RenderPredict \/ RenderPacers \/ SetVisible \/ Tick \/ UNCHANGED vars
  BY <1>1, <1>14 DEF RenderPredict, RenderPacers, SetVisible, Tick, vars
<1> QED
  BY <1>2, <1>4, <1>5, <1>7, <1>8, <1>9, <1>10, <1>11, <1>12, <1>13, <1>14
     DEF Next, App, ClientThread, WaitThread, RenderThread

-----------------------------------------------------------------------------
(* The pacer.                                                              *)

\* The frame waited for, the one begun and the one on its way to the scheduled
\* slot are different ones, whichever of them there are.
LEMMA Apart ==
  ASSUME TypeOK, HandOff, Order
  PROVE  /\ waited # None => waited # begun
         /\ pushed # None => pushed # waited /\ pushed # begun
         /\ wpc \in Busy => wframe # waited /\ wframe # begun
<1>0. begun \in Nat /\ waited \in Nat /\ submitted \subseteq Nat
  BY TypeFacts, Numbers DEF RestTypes
<1>1. waited # None => waited # begun
  BY <1>0 DEF Order, Newer
<1>2. ASSUME NEW f \in submitted, f # None, cpc \notin Filling
      PROVE  f # waited /\ f # begun
  BY <1>0, <1>2 DEF Order, Newer
<1>3. pushed # None => pushed \in submitted /\ cpc \notin Filling
  BY HeldFrames DEF HandOff
<1>4. wpc \in Busy => wframe # None /\ wframe \in submitted /\ cpc \notin Filling
  BY HeldFrames DEF HandOff, Busy
<1> QED
  BY <1>1, <1>2, <1>3, <1>4

\* Every step finds each frame in the state that the pacer asserts, and leaves
\* the others as they were.
LEMMA PacingStep ==
  ASSUME TypeOK, HandOff, Order, Pacing, [Next]_vars
  PROVE  frames' \in [0 .. FrameCount - 1 -> Entries] /\ Pacing'
<1> DEFINE Goal == frames' \in [0 .. FrameCount - 1 -> Entries] /\ Pacing'
<1>0. /\ frames \in [0 .. FrameCount - 1 -> Entries]
      /\ waited # None => waited \in Frames
      /\ begun # None => begun \in Frames
      /\ pushed # None => pushed \in Frames
      /\ wpc \in Busy => wframe \in Frames
      /\ frame_counter < MaxFrames => frame_counter + 1 \in Frames
      /\ frame_counter < MaxFrames => frame_counter + 1 # None
  <2>1. frame_counter < MaxFrames => frame_counter + 1 \in Frames /\ frame_counter + 1 # None
    BY ConstantsAssumption DEF TypeOK, Frames, None
  <2> QED
    BY <2>1, TypeFacts, Numbers DEF RestTypes, HandOff
<1>1. /\ Ready \in Entries
      /\ \A f \in Frames : \A st \in PacerFrames :
           /\ [id |-> f, state |-> st] \in Entries
           /\ [id |-> f, state |-> st].id = f /\ [id |-> f, state |-> st].state = st
  BY Numbers DEF Ready, Entries, PacerFrames, Slot
<1>2. \A st \in PacerFrames : st # "OTHER"
  BY DEF PacerFrames
<1>3. ASSUME UNCHANGED <<frames, waited, begun, cpc, pushed, wpc, wframe>>
      PROVE  Goal
  BY <1>0, <1>3 DEF Pacing
<1>4. CASE PredictFrame
  <2>1. PICK g \in Frames : g # None /\ waited' = g /\ Predict(g)
    BY <1>0, <1>4 DEF PredictFrame
  <2>2. UNCHANGED <<cpc, begun, pushed, wpc, wframe>>
    BY <1>4 DEF PredictFrame
  <2>3. /\ frames' \in [0 .. FrameCount - 1 -> Entries]
        /\ StateIn(frames', g) = "PREDICTED"
        /\ \A f \in Frames : StateIn(frames, f) # "OTHER"
                               => StateIn(frames', f) = StateIn(frames, f)
    BY <1>0, <2>1, PredictOne
  <2> QED
    BY <1>0, <2>1, <2>2, <2>3 DEF Pacing, Busy
<1>5. CASE MarkFrame
  <2>1. /\ waited # None /\ Mark(waited, {"PREDICTED"}, [id |-> waited, state |-> "WAIT_LEFT"])
        /\ UNCHANGED <<waited, begun, cpc, pushed, wpc, wframe>>
    BY <1>5 DEF MarkFrame, MarkWakeUp
  <2>2. [id |-> waited, state |-> "WAIT_LEFT"] \in Entries
    BY <1>0, <1>1, <2>1 DEF PacerFrames
  <2>3. /\ frames' \in [0 .. FrameCount - 1 -> Entries]
        /\ StateIn(frames', waited) = "WAIT_LEFT"
        /\ \A f \in Frames : f # waited /\ StateIn(frames, f) # "OTHER"
                               => StateIn(frames', f) = StateIn(frames, f)
    BY ZenonT(60), <1>0, <2>1, <2>2, MarkOne
  <2> QED
    BY <1>0, <2>1, <2>3, Apart DEF Pacing, Busy
<1>6. CASE BeginFrame
  <2>1. /\ waited # None /\ Mark(waited, {"WAIT_LEFT"}, [id |-> waited, state |-> "BEGUN"])
        /\ cpc = "idle" /\ begun' = waited /\ waited' = None
        /\ UNCHANGED <<cpc, pushed, wpc, wframe>>
    BY <1>6 DEF BeginFrame, MarkBegin
  <2>2. [id |-> waited, state |-> "BEGUN"] \in Entries
    BY <1>0, <1>1, <2>1 DEF PacerFrames
  <2>3. /\ frames' \in [0 .. FrameCount - 1 -> Entries]
        /\ StateIn(frames', waited) = "BEGUN"
        /\ \A f \in Frames : f # waited /\ StateIn(frames, f) # "OTHER"
                               => StateIn(frames', f) = StateIn(frames, f)
    BY ZenonT(60), <1>0, <2>1, <2>2, MarkOne
  <2> QED
    BY <1>0, <2>1, <2>3, Apart DEF Pacing, Busy
<1>7. ASSUME NEW g \in {waited, begun}, DiscardFrame(g)
      PROVE  Goal
  <2>1. /\ g # None /\ Mark(g, {"WAIT_LEFT", "BEGUN"}, Ready)
        /\ waited' = IF g = waited THEN None ELSE waited
        /\ begun' = IF g = begun THEN None ELSE begun
        /\ cpc \in {"idle", "end_session"} /\ cpc' \in {"idle", "end_session"}
        /\ UNCHANGED <<pushed, wpc, wframe>>
    BY <1>7 DEF DiscardFrame, MarkDiscarded
  <2>2. g \in Frames
    BY <1>0, <1>7, <2>1
  <2>3. /\ frames' \in [0 .. FrameCount - 1 -> Entries]
        /\ \A f \in Frames : f # g /\ StateIn(frames, f) # "OTHER"
                               => StateIn(frames', f) = StateIn(frames, f)
    BY <1>0, <1>1, <2>1, <2>2, MarkOne
  <2> QED
    BY <1>0, <1>7, <2>1, <2>3, Apart DEF Pacing, Busy
<1>8. ASSUME NEW d \in 1 .. MaxTime - 1, LayerBegin(d)
      PROVE  Goal
  <2>1. /\ begun # None /\ Mark(begun, {"BEGUN"}, [id |-> begun, state |-> "DELIVERED"])
        /\ cpc' = "wait_wt"
        /\ UNCHANGED <<waited, begun, pushed, wpc, wframe>>
    BY <1>8 DEF LayerBegin, MarkDelivered
  <2>2. [id |-> begun, state |-> "DELIVERED"] \in Entries
    BY <1>0, <1>1, <2>1 DEF PacerFrames
  <2>3. /\ frames' \in [0 .. FrameCount - 1 -> Entries]
        /\ StateIn(frames', begun) = "DELIVERED"
        /\ \A f \in Frames : f # begun /\ StateIn(frames, f) # "OTHER"
                               => StateIn(frames', f) = StateIn(frames, f)
    BY ZenonT(60), <1>0, <2>1, <2>2, MarkOne
  <2> QED
    BY <1>0, <2>1, <2>3, Apart DEF Pacing, Busy
<1>9. CASE LayerCommit
  <2>1. /\ cpc = "layers" /\ cpc' = "sched" /\ Mark(progress, {"DELIVERED"}, Ready)
        /\ begun # None /\ progress = begun
        /\ UNCHANGED <<waited, begun, pushed, wpc, wframe>>
    BY <1>9 DEF LayerCommit, MarkGpuDone, HandOff, Filling
  <2>2. Mark(begun, {"DELIVERED"}, Ready)
    BY <2>1
  <2>3. /\ frames' \in [0 .. FrameCount - 1 -> Entries]
        /\ \A f \in Frames : f # begun /\ StateIn(frames, f) # "OTHER"
                               => StateIn(frames', f) = StateIn(frames, f)
    BY <1>0, <1>1, <2>1, <2>2, MarkOne
  <2> QED
    BY <1>0, <2>1, <2>3, Apart DEF Pacing, Busy
<1>10. CASE WaitThreadGpuDone
  <2>1. /\ wpc = "gpu_done" /\ wpc' = "sched" /\ Mark(wframe, {"DELIVERED"}, Ready)
        /\ UNCHANGED <<waited, begun, cpc, pushed, wframe>>
    BY <1>10 DEF WaitThreadGpuDone, MarkGpuDone
  <2>2. wframe \in Frames /\ pushed = None
    BY <1>0, <2>1 DEF Busy, HandOff
  <2>3. /\ frames' \in [0 .. FrameCount - 1 -> Entries]
        /\ \A f \in Frames : f # wframe /\ StateIn(frames, f) # "OTHER"
                               => StateIn(frames', f) = StateIn(frames, f)
    BY <1>0, <1>1, <2>1, <2>2, MarkOne
  <2> QED
    BY <1>0, <2>1, <2>2, <2>3, Apart DEF Pacing, Busy
<1>11. CASE LayerCommitPush
  <2>1. /\ cpc = "layers" /\ begun # None /\ pushed' = begun
        /\ begun' = None /\ cpc' = "idle" /\ UNCHANGED <<frames, waited, wpc, wframe>>
    BY <1>11 DEF LayerCommitPush, HandOff, Filling
  <2> QED
    BY <1>0, <2>1 DEF Pacing
<1>12. CASE WaitForWaitThread \/ Unblocked
  <2>1. /\ cpc \in {"wait_wt", "blocked"} /\ cpc' \in {"blocked", "layers"}
        /\ UNCHANGED <<frames, waited, begun, pushed, wpc, wframe>>
    BY <1>12 DEF WaitForWaitThread, Unblocked, UseProgress
  <2> QED
    BY <1>0, <2>1 DEF Pacing
<1>13. CASE CommitMove
  <2>1. begun' = None /\ UNCHANGED <<frames, waited, pushed, wpc, wframe>>
    BY <1>13 DEF CommitMove
  <2> QED
    BY <1>0, <2>1 DEF Pacing
<1>14. CASE CommitScheduledFree \/ Destroy \/ DestroyUnlist \/ DestroyStop \/ DestroyClear
  <2>1. /\ cpc' \in {"move", "unlist", "stop", "join", "gone"}
        /\ UNCHANGED <<frames, waited, begun, pushed, wpc, wframe>>
    BY <1>14 DEF CommitScheduledFree, Destroy, DestroyUnlist, DestroyStop, DestroyClear
  <2> QED
    BY <1>0, <2>1 DEF Pacing
<1>15. CASE WaitThreadWakes
  <2>1. /\ (pushed # None /\ wframe' = pushed /\ pushed' = None /\ wpc' = "fence")
           \/ (UNCHANGED <<wframe, pushed>> /\ wpc' \in {"cond", "exited"})
        /\ UNCHANGED <<frames, waited, begun, cpc>>
    BY <1>15 DEF WaitThreadWakes
  <2> QED
    BY <1>0, <2>1 DEF Pacing
<1>16. CASE WaitFence
  <2>1. wpc = "fence" /\ UNCHANGED <<frames, waited, begun, cpc, pushed, wframe>>
    BY <1>16 DEF WaitFence
  <2> QED
    BY <1>0, <2>1 DEF Pacing
<1>17. CASE WaitThreadScheduledFree \/ WaitThreadMove \/ WaitThreadRelease
  <2>1. /\ wpc' \in {"move", "release", "cond", "exited"}
        /\ UNCHANGED <<frames, waited, begun, cpc, pushed>>
    BY <1>17 DEF WaitThreadScheduledFree, WaitThreadMove, WaitThreadRelease
  <2> QED
    BY <1>0, <2>1 DEF Pacing
<1>18. CASE BeginSession \/ EndSession \/ RenderThread \/ SetVisible \/ Tick \/ UNCHANGED vars
  BY <1>3, <1>18 DEF BeginSession, EndSession, RenderThread, RenderPredict, RenderPacers,
                     TransferLayers, SetVisible, Tick, vars
<1> QED
  BY <1>4, <1>5, <1>6, <1>7, <1>8, <1>9, <1>10, <1>11, <1>12, <1>13, <1>14, <1>15, <1>16,
     <1>17, <1>18 DEF Next, App, ClientThread, WaitThread

-----------------------------------------------------------------------------
(* The theorems.                                                           *)

\* A new compositor satisfies the invariant.
LEMMA InitInv == Init => Inv
<1> SUFFICES ASSUME Init
             PROVE  Inv
  OBVIOUS
<1>1. Ready \in Entries /\ frames \in [0 .. FrameCount - 1 -> Entries]
  BY DEF Init, Ready, Entries, Slot, PacerFrames
<1>2. TypeOK
  <2>1. /\ None \in Slot /\ 0 \in 0 .. MaxFrames /\ 0 \in Times
    BY ConstantsAssumption DEF None, Slot, Times
  <2>2. RestTypes
    BY <2>1 DEF Init, RestTypes
  <2> QED
    BY <1>1, <2>2 DEF TypeOK, RestTypes, Entries, PacerFrames
<1>3. HandOff
  BY DEF Init, HandOff, Busy, Filling
<1>4. Order
  BY DEF Init, Order, Newer, RetiredOnce, SlotsInOrder, None
<1>5. Pacing
  BY DEF Init, Pacing
<1> QED
  BY <1>2, <1>3, <1>4, <1>5 DEF Inv

\* Every step keeps the invariant.
LEMMA InvStep ==
  ASSUME Inv, [Next]_vars
  PROVE  Inv'
<1>1. TypeOK /\ HandOff /\ Order /\ Newer /\ Pacing
  BY DEF Inv, Order
<1>2. RestTypes'
  BY <1>1, TypeFacts, RestTypesStep
<1>3. frames' \in [0 .. FrameCount - 1 -> Entries] /\ Pacing'
  BY <1>1, PacingStep
<1>4. TypeOK'
  BY <1>2, <1>3 DEF TypeOK, RestTypes, Entries, PacerFrames
<1>5. HandOff'
  BY <1>1, HandOffStep
<1>6. Newer'
  BY <1>1, NewerStep
<1>7. Order'
  BY <1>1, <1>6, SlotsStep DEF Order
<1> QED
  BY <1>3, <1>4, <1>5, <1>7 DEF Inv

\* The invariant holds in every state, for any number of frames and threads' steps.
LEMMA InvHolds == Spec => []Inv
<1>1. Init => Inv
  BY InitInv
<1>2. Inv /\ [Next]_vars => Inv'
  BY InvStep
<1> QED
  BY <1>1, <1>2, PTL DEF Spec

\* No assert of the submission and of the marks fails: neither those of
\* wait_for_wait_thread, multi_compositor_layer_begin and push_fence_to_wait_thread,
\* nor those of pa_mark_*, whichever of the threads gets there first.  That of
\* pa_predict, which wants a free entry, is not among them.
THEOREM AssertsHoldAlways == Spec => []AssertsHold
<1>1. Inv => AssertsHold
  <2> SUFFICES ASSUME Inv
               PROVE  AssertsHold
    OBVIOUS
  <2>1. TypeOK /\ HandOff /\ Pacing
    BY DEF Inv
  <2>2. SubmissionAsserts
    BY <2>1 DEF HandOff, SubmissionAsserts, Busy, Filling
  <2>3. \A f : PacerState(f) = StateIn(frames, f)
    BY DEF PacerState, StateIn
  <2>4. PacerAsserts
    BY <2>1, <2>3 DEF HandOff, Pacing, PacerAsserts, Busy, Filling
  <2> QED
    BY <2>1, <2>2, <2>4 DEF AssertsHold
<1> QED
  BY <1>1, InvHolds, PTL

\* The frame in progress, which no lock protects, is used by one thread at a time.
THEOREM ProgressIsOwned == Spec => []ProgressHasOneOwner
<1>1. Inv => ProgressHasOneOwner
  BY DEF Inv, HandOff, ProgressHasOneOwner, Busy, Filling
<1> QED
  BY <1>1, InvHolds, PTL

\* Each submitted frame is in one slot until it is retired, once, and the slots
\* are in the order in which the frames were begun; none is left at the end.
THEOREM SlotsHold == Spec => []SlotsAreSound
<1>1. Inv => SlotsAreSound
  BY DEF Inv, HandOff, Order, SlotsAreSound, NothingLeftBehind, Busy
<1> QED
  BY <1>1, InvHolds, PTL

\* What the render loop latches for a client never goes back to an older frame,
\* whatever display times the app gives.
THEOREM ShownNeverBackwards == Spec => NeverBackwards
<1>1. ASSUME Inv, [Next]_vars
      PROVE  [shown' >= shown]_vars
  <2>0. shown \in Nat /\ delivered \in Nat /\ scheduled \in Nat /\ None = 0
    BY <1>1, TypeFacts, Numbers DEF Inv, RestTypes, None
  <2>1. CASE shown' = shown
    BY <2>0, <2>1
  <2>2. CASE TransferLayers
    <3>1. SlotsInOrder
      BY <1>1 DEF Inv, Order
    <3>2. \/ shown' = shown
          \/ scheduled # None /\ shown' = scheduled
          \/ delivered # None /\ shown' = delivered
      BY <2>2 DEF TransferLayers
    <3> QED
      BY <2>0, <3>1, <3>2 DEF SlotsInOrder
  <2>3. CASE App \/ ClientThread
    BY <2>1, <2>3 DEF App, PredictFrame, MarkFrame, BeginFrame, DiscardFrame, LayerBegin,
         LayerCommitPush, LayerCommit, BeginSession, EndSession, Destroy, ClientThread,
         WaitForWaitThread, Unblocked, CommitScheduledFree, CommitMove, DestroyUnlist,
         DestroyStop, DestroyClear
  <2>4. CASE WaitThread
    BY <2>1, <2>4 DEF WaitThread, WaitThreadWakes, WaitFence, WaitThreadGpuDone,
         WaitThreadScheduledFree, WaitThreadMove, WaitThreadRelease
  <2>5. CASE RenderPredict \/ RenderPacers \/ SetVisible \/ Tick \/ UNCHANGED vars
    BY <2>1, <2>5 DEF RenderPredict, RenderPacers, SetVisible, Tick, vars
  <2> QED
    BY <1>1, <2>2, <2>3, <2>4, <2>5 DEF Next, RenderThread
<1> QED
  BY <1>1, InvHolds, PTL DEF Spec, NeverBackwards

=============================================================================
