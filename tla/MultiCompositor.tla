-------------------------- MODULE MultiCompositor --------------------------
(***************************************************************************)
(* The frames of one client in the multi-client compositor: how a frame    *)
(* goes from the app through the progress, scheduled and delivered slots   *)
(* to the render loop, between three threads:                              *)
(*   - the client's thread, which waits for, begins, submits or discards   *)
(*     frames, and at last destroys the compositor;                        *)
(*   - the compositor's wait thread, which waits for the GPU to finish a   *)
(*     frame and then schedules it;                                        *)
(*   - the render thread of the system compositor, which delivers          *)
(*     scheduled frames and latches or drops the delivered one.            *)
(*                                                                         *)
(* Each critical section (list_and_timing_lock, slot_lock, wait_thread.oth)*)
(* is one step.  Time is counted in display periods, so the comparisons    *)
(* within half a millisecond are equality and >=.  A slot is the frame it  *)
(* holds; that slot.active is false is None.  A failed assert() ends the   *)
(* program, so an action that asserts has the assertion as a guard, and    *)
(* the properties say that the guard holds whenever the code gets there.   *)
(***************************************************************************)
EXTENDS Integers, FiniteSets

CONSTANTS
  FrameCount,   \* FRAME_COUNT, the length of the pacer's frame array
  MaxFrames,    \* bound: frames predicted in one behaviour
  MaxTime       \* bound: display periods in one behaviour

ASSUME ConstantsAssumption ==
  /\ FrameCount \in Nat \ {0}
  /\ MaxFrames \in Nat
  /\ MaxTime \in Nat /\ MaxTime > 1

VARIABLES
  \* The app pacer.
  frame_counter,
  frames,       \* frames[index]: [id, state] of struct u_pa_frame
  \* The client's thread.
  cpc,
  waited,       \* the frame the app got from its last wait, not yet begun
  begun,        \* the frame the app has begun, not yet submitted or discarded
  dtime,        \* dtime[f]: the display time the app submitted frame f with
  \* The wait thread.
  wpc,
  wframe,       \* the frame the wait thread handles
  pushed,       \* the frame of wait_thread.xcf or xcsem, None when both are NULL
  waiting,
  blocked,
  running,      \* wait_thread.oth is running
  \* The slots.
  progress,
  scheduled,
  delivered,
  slot_next_frame_display,
  \* The render thread, and what other threads tell it.
  rpc,
  rtime,        \* predicted_display_time_ns of this turn of the render loop
  listed,       \* the compositor is in multi_system_compositor.clients
  visible,
  session_active,
  now,
  \* What happened so far.
  submitted,    \* frames that were put into progress
  retired,      \* frames whose slot was cleared
  shown         \* the last frame that was latched

pacerVars == <<frame_counter, frames>>
clientVars == <<cpc, waited, begun, dtime>>
waitVars == <<wpc, wframe, pushed, waiting, blocked, running>>
slotVars == <<progress, scheduled, delivered>>
renderVars == <<rpc, rtime, slot_next_frame_display>>
stateVars == <<listed, visible, session_active>>
ghostVars == <<submitted, retired, shown>>
vars == <<pacerVars, clientVars, waitVars, slotVars, renderVars, stateVars, now, ghostVars>>

None == 0
Frames == 1 .. MaxFrames
Times == 0 .. MaxTime
Ready == [id |-> None, state |-> "READY"]

-----------------------------------------------------------------------------
(* The app pacer: the states of a frame, each in frames[id % FrameCount].  *)

PacerState(f) ==
  LET e == frames[f % FrameCount] IN IF e.id = f THEN e.state ELSE "OTHER"

\* A frame in one of the states from becomes the entry e.
Mark(f, from, e) ==
  /\ PacerState(f) \in from
  /\ frames' = [frames EXCEPT ![f % FrameCount] = e]

\* pa_predict
Predict(f) ==
  /\ frames[f % FrameCount] = Ready
  /\ frames' = [frames EXCEPT ![f % FrameCount] = [id |-> f, state |-> "PREDICTED"]]
  /\ frame_counter' = f

\* pa_mark_point, for waking up and for beginning the frame
MarkWakeUp(f) == Mark(f, {"PREDICTED"}, [id |-> f, state |-> "WAIT_LEFT"])
MarkBegin(f) == Mark(f, {"WAIT_LEFT"}, [id |-> f, state |-> "BEGUN"])

MarkDelivered(f) == Mark(f, {"BEGUN"}, [id |-> f, state |-> "DELIVERED"])

\* pa_mark_discarded and pa_mark_gpu_done free the entry.
MarkDiscarded(f) == Mark(f, {"WAIT_LEFT", "BEGUN"}, Ready)
MarkGpuDone(f) == Mark(f, {"DELIVERED"}, Ready)

-----------------------------------------------------------------------------
(* Slots.                                                                  *)

\* slot_clear_locked retires the frame of an active slot.
Retire(slots) == retired' = retired \cup (slots \ {None})

\* wait_for_scheduled_free: whether the loop ends.
ScheduledFree ==
  scheduled # None =>
    \/ dtime[progress] = slot_next_frame_display
    \/ dtime[scheduled] < now

\* Mutant: the frame that was scheduled is overwritten, not retired.
MoveToScheduledNoClear ==
  /\ scheduled' = progress
  /\ progress' = None
  /\ UNCHANGED <<delivered, retired>>

\* Its end: slot_move_and_clear_locked(mc, &mc->scheduled, &mc->progress).
MoveToScheduled ==
  /\ Retire({scheduled})
  /\ scheduled' = progress
  /\ progress' = None
  /\ UNCHANGED delivered

-----------------------------------------------------------------------------
(* The client's thread.  The app may wait for its next frame on another    *)
(* thread while it submits one, so predict and wake up go along with any   *)
(* step of a submission.                                                   *)

InUse == cpc \in {"idle", "wait_wt", "blocked", "layers", "sched", "move"}

\* multi_compositor_predict_frame.  The OpenXR state tracker waits for a frame
\* only once the one waited for before has begun.
PredictFrame ==
  /\ InUse
  /\ waited = None
  /\ frame_counter < MaxFrames
  /\ Predict(frame_counter + 1)
  /\ waited' = frame_counter + 1
  /\ UNCHANGED <<cpc, begun, dtime, waitVars, slotVars, renderVars, stateVars, now, ghostVars>>

\* multi_compositor_mark_frame
MarkFrame ==
  /\ InUse
  /\ waited # None /\ PacerState(waited) = "PREDICTED"
  /\ MarkWakeUp(waited)
  /\ UNCHANGED <<frame_counter, clientVars, waitVars, slotVars, renderVars, stateVars, now, ghostVars>>

\* multi_compositor_begin_frame
BeginFrame ==
  /\ cpc = "idle"
  /\ begun = None
  /\ waited # None /\ PacerState(waited) # "PREDICTED"
  /\ MarkBegin(waited)
  /\ begun' = waited
  /\ waited' = None
  /\ UNCHANGED <<frame_counter, cpc, dtime, waitVars, slotVars, renderVars, stateVars, now, ghostVars>>

\* Mutant: the app goes on to submit the frame it discarded.
DiscardFrameKeepsBegun(f) ==
  /\ cpc = "idle" /\ cpc' = "idle"
  /\ f # None /\ PacerState(f) # "PREDICTED"
  /\ MarkDiscarded(f)
  /\ waited' = IF f = waited THEN None ELSE waited
  /\ Retire({delivered})
  /\ delivered' = None
  /\ UNCHANGED <<frame_counter, begun, dtime, waitVars, progress, scheduled, renderVars,
                 stateVars, now, submitted, shown>>

\* multi_compositor_discard_frame: xrEndFrame without layers, xrBeginFrame with
\* a frame already begun; xrEndSession discards the waited frame, then the begun
\* one.  The delivered frame goes too.
DiscardFrame(f) ==
  /\ \/ f = begun /\ cpc \in {"idle", "end_session"} /\ cpc' = "idle"
     \/ f = waited /\ cpc = "idle" /\ cpc' = IF begun = None THEN "idle" ELSE "end_session"
  /\ f # None /\ PacerState(f) # "PREDICTED"
  /\ MarkDiscarded(f)
  /\ waited' = IF f = waited THEN None ELSE waited
  /\ begun' = IF f = begun THEN None ELSE begun
  /\ Retire({delivered})
  /\ delivered' = None
  /\ UNCHANGED <<frame_counter, dtime, waitVars, progress, scheduled, renderVars,
                 stateVars, now, submitted, shown>>

\* multi_compositor_layer_begin up to wait_for_wait_thread, with the display time
\* the app chose.
LayerBegin(d) ==
  /\ cpc = "idle"
  /\ begun # None
  /\ MarkDelivered(begun)
  /\ dtime' = [dtime EXCEPT ![begun] = d]
  /\ cpc' = "wait_wt"
  /\ UNCHANGED <<frame_counter, waited, begun, waitVars, slotVars, renderVars, stateVars, now, ghostVars>>

\* The rest of it, once the wait thread is done: fill progress.
UseProgress ==
  /\ progress = None
  /\ progress' = begun
  /\ submitted' = submitted \cup {begun}
  /\ cpc' = "layers"

\* wait_for_wait_thread
WaitForWaitThread ==
  /\ cpc = "wait_wt"
  /\ IF waiting \/ pushed # None
     THEN /\ ~blocked
          /\ blocked' = TRUE
          /\ cpc' = "blocked"
          /\ UNCHANGED <<progress, submitted>>
     ELSE UseProgress /\ UNCHANGED blocked
  /\ UNCHANGED <<pacerVars, waited, begun, dtime, wpc, wframe, pushed, waiting, running,
                 scheduled, delivered, renderVars, stateVars, now, retired, shown>>

\* Its loop ends once the wait thread has cleared blocked.
Unblocked ==
  /\ cpc = "blocked"
  /\ ~blocked
  /\ UseProgress
  /\ UNCHANGED <<pacerVars, waited, begun, dtime, waitVars, scheduled, delivered,
                 renderVars, stateVars, now, retired, shown>>

\* multi_compositor_layer_commit with a fence, or with a semaphore:
\* push_fence_to_wait_thread, push_semaphore_to_wait_thread.
LayerCommitPush ==
  /\ cpc = "layers"
  /\ ~waiting /\ pushed = None
  /\ pushed' = progress
  /\ begun' = None
  /\ cpc' = "idle"
  /\ UNCHANGED <<pacerVars, waited, dtime, wpc, wframe, waiting, blocked, running, slotVars,
                 renderVars, stateVars, now, ghostVars>>

\* multi_compositor_layer_commit without a fence marks the GPU work as done and
\* schedules the frame itself, in the two steps below.
LayerCommit ==
  /\ cpc = "layers"
  /\ MarkGpuDone(progress)
  /\ cpc' = "sched"
  /\ UNCHANGED <<frame_counter, waited, begun, dtime, waitVars, slotVars, renderVars,
                 stateVars, now, ghostVars>>

CommitScheduledFree ==
  /\ cpc = "sched"
  /\ ScheduledFree
  /\ cpc' = "move"
  /\ UNCHANGED <<pacerVars, waited, begun, dtime, waitVars, slotVars, renderVars, stateVars,
                 now, ghostVars>>

CommitMove ==
  /\ cpc = "move"
  /\ MoveToScheduled
  /\ begun' = None
  /\ cpc' = "idle"
  /\ UNCHANGED <<pacerVars, waited, dtime, waitVars, renderVars, stateVars, now, submitted, shown>>

\* multi_compositor_begin_session
BeginSession ==
  /\ cpc = "idle"
  /\ ~session_active
  /\ session_active' = TRUE
  /\ UNCHANGED <<pacerVars, clientVars, waitVars, slotVars, renderVars, listed, visible,
                 now, ghostVars>>

\* multi_compositor_end_session
EndSession ==
  /\ cpc = "idle"
  /\ session_active
  /\ session_active' = FALSE
  /\ UNCHANGED <<pacerVars, clientVars, waitVars, slotVars, renderVars, listed, visible,
                 now, ghostVars>>

\* multi_compositor_destroy: end the session, leave the list, ...
Destroy ==
  /\ cpc = "idle"
  /\ session_active' = FALSE
  /\ cpc' = "unlist"
  /\ UNCHANGED <<pacerVars, waited, begun, dtime, waitVars, slotVars, renderVars, listed,
                 visible, now, ghostVars>>

DestroyUnlist ==
  /\ cpc = "unlist"
  /\ listed' = FALSE
  /\ cpc' = "stop"
  /\ UNCHANGED <<pacerVars, waited, begun, dtime, waitVars, slotVars, renderVars, visible,
                 session_active, now, ghostVars>>

\* Mutant: the wait thread is joined without being told to stop.
DestroyStopNoStop ==
  /\ cpc = "stop"
  /\ cpc' = "join"
  /\ UNCHANGED <<pacerVars, waited, begun, dtime, waitVars, slotVars, renderVars,
                 stateVars, now, ghostVars>>

\* ... stop the wait thread, join it, ...
DestroyStop ==
  /\ cpc = "stop"
  /\ running' = FALSE
  /\ cpc' = "join"
  /\ UNCHANGED <<pacerVars, waited, begun, dtime, wpc, wframe, pushed, waiting, blocked,
                 slotVars, renderVars, stateVars, now, ghostVars>>

\* Mutant: the slots are cleared before the wait thread has ended.
DestroyClearNoJoin ==
  /\ cpc = "join"
  /\ Retire({progress, scheduled, delivered})
  /\ progress' = None
  /\ scheduled' = None
  /\ delivered' = None
  /\ cpc' = "gone"
  /\ UNCHANGED <<pacerVars, waited, begun, dtime, waitVars, renderVars, stateVars, now,
                 submitted, shown>>

\* ... and clear the slots.
DestroyClear ==
  /\ cpc = "join"
  /\ wpc = "exited"
  /\ Retire({progress, scheduled, delivered})
  /\ progress' = None
  /\ scheduled' = None
  /\ delivered' = None
  /\ cpc' = "gone"
  /\ UNCHANGED <<pacerVars, waited, begun, dtime, waitVars, renderVars, stateVars, now,
                 submitted, shown>>

-----------------------------------------------------------------------------
(* The wait thread, run_func.                                              *)

\* It wakes up from os_thread_helper_wait_locked: signalled by a push or by the
\* stop, or for no reason.  It takes what was pushed even when it is being
\* stopped, and leaves the loop only when there is nothing.
WaitThreadWakes ==
  /\ wpc = "cond"
  /\ \/ /\ pushed # None
        /\ wframe' = pushed
        /\ pushed' = None
        /\ waiting' = TRUE
        /\ wpc' = "fence"
     \/ /\ pushed = None
        /\ wpc' = IF running THEN "cond" ELSE "exited"
        /\ UNCHANGED <<wframe, pushed, waiting>>
  /\ UNCHANGED <<pacerVars, clientVars, blocked, running, slotVars, renderVars, stateVars,
                 now, ghostVars>>

\* wait_fence, wait_semaphore: the GPU finished, the wait failed, or it timed
\* out and the thread is being stopped.
WaitFence ==
  /\ wpc = "fence"
  /\ wpc' = "gpu_done"
  /\ UNCHANGED <<pacerVars, clientVars, wframe, pushed, waiting, blocked, running, slotVars,
                 renderVars, stateVars, now, ghostVars>>

WaitThreadGpuDone ==
  /\ wpc = "gpu_done"
  /\ MarkGpuDone(wframe)
  /\ wpc' = "sched"
  /\ UNCHANGED <<frame_counter, clientVars, wframe, pushed, waiting, blocked, running,
                 slotVars, renderVars, stateVars, now, ghostVars>>

WaitThreadScheduledFree ==
  /\ wpc = "sched"
  /\ ScheduledFree
  /\ wpc' = "move"
  /\ UNCHANGED <<pacerVars, clientVars, wframe, pushed, waiting, blocked, running, slotVars,
                 renderVars, stateVars, now, ghostVars>>

WaitThreadMove ==
  /\ wpc = "move"
  /\ MoveToScheduled
  /\ wpc' = "release"
  /\ UNCHANGED <<pacerVars, clientVars, wframe, pushed, waiting, blocked, running, renderVars,
                 stateVars, now, submitted, shown>>

\* Mutant: forgets the client that is blocked.
WaitThreadReleaseNoSignal ==
  /\ wpc = "release"
  /\ waiting' = FALSE
  /\ wframe' = None
  /\ wpc' = IF running THEN "cond" ELSE "exited"
  /\ UNCHANGED <<pacerVars, clientVars, pushed, blocked, running, slotVars, renderVars,
                 stateVars, now, ghostVars>>

\* No longer waiting: release the client, then test the loop condition; nothing
\* can have been pushed meanwhile, so the thread goes to sleep again.
WaitThreadRelease ==
  /\ wpc = "release"
  /\ waiting' = FALSE
  /\ blocked' = FALSE
  /\ wframe' = None
  /\ wpc' = IF running THEN "cond" ELSE "exited"
  /\ UNCHANGED <<pacerVars, clientVars, pushed, running, slotVars, renderVars, stateVars,
                 now, ghostVars>>

-----------------------------------------------------------------------------
(* The render thread.                                                      *)

\* multi_main_loop predicts a display time; broadcast_timings_to_clients.
RenderPredict ==
  /\ rpc = "predict"
  /\ \E t \in now .. MaxTime :
       /\ rtime' = t
       /\ slot_next_frame_display' = IF listed THEN t ELSE slot_next_frame_display
  /\ rpc' = "pacers"
  /\ UNCHANGED <<pacerVars, clientVars, waitVars, slotVars, stateVars, now, ghostVars>>

\* broadcast_timings_to_pacers, after the frame's wait
RenderPacers ==
  /\ rpc = "pacers"
  /\ slot_next_frame_display' = IF listed THEN rtime ELSE slot_next_frame_display
  /\ rpc' = "transfer"
  /\ UNCHANGED <<pacerVars, clientVars, waitVars, slotVars, rtime, stateVars, now, ghostVars>>

\* Mutant: the slots are swapped, the old frame is scheduled again.
TransferLayersSwap ==
  LET deliver == scheduled # None /\ rtime >= dtime[scheduled]
      frame == IF deliver THEN scheduled ELSE delivered
      show == visible /\ session_active
  IN  /\ rpc = "transfer"
      /\ rpc' = "predict"
      /\ IF listed
         THEN /\ scheduled' = IF deliver THEN delivered ELSE scheduled
              /\ delivered' = IF show THEN frame ELSE None
              /\ Retire(IF show THEN {} ELSE {frame})
              /\ shown' = IF show /\ frame # None THEN frame ELSE shown
         ELSE UNCHANGED <<scheduled, delivered, retired, shown>>
      /\ UNCHANGED <<pacerVars, clientVars, waitVars, progress, rtime,
                     slot_next_frame_display, stateVars, now, submitted>>

\* transfer_layers_locked for this client: multi_compositor_deliver_any_frames,
\* then latch the delivered frame, or drop it when it should not be shown.
TransferLayers ==
  LET deliver == scheduled # None /\ rtime >= dtime[scheduled]
      frame == IF deliver THEN scheduled ELSE delivered
      show == visible /\ session_active
  IN  /\ rpc = "transfer"
      /\ rpc' = "predict"
      /\ IF listed
         THEN /\ scheduled' = IF deliver THEN None ELSE scheduled
              /\ delivered' = IF show THEN frame ELSE None
              /\ Retire((IF deliver THEN {delivered} ELSE {})
                        \cup (IF show THEN {} ELSE {frame}))
              /\ shown' = IF show /\ frame # None THEN frame ELSE shown
         ELSE UNCHANGED <<scheduled, delivered, retired, shown>>
      /\ UNCHANGED <<pacerVars, clientVars, waitVars, progress, rtime,
                     slot_next_frame_display, stateVars, now, submitted>>

\* system_compositor_set_state, from any thread of the server
SetVisible ==
  /\ listed
  /\ visible' = ~visible
  /\ UNCHANGED <<pacerVars, clientVars, waitVars, slotVars, renderVars, listed,
                 session_active, now, ghostVars>>

\* os_monotonic_get_ns advances.
Tick ==
  /\ now < MaxTime
  /\ now' = now + 1
  /\ UNCHANGED <<pacerVars, clientVars, waitVars, slotVars, renderVars, stateVars, ghostVars>>

-----------------------------------------------------------------------------

\* multi_compositor_create: listed, and the wait thread sleeps in its loop.
Init ==
  /\ frame_counter = 0
  /\ frames = [x \in 0 .. FrameCount - 1 |-> Ready]
  /\ cpc = "idle" /\ waited = None /\ begun = None
  /\ dtime = [f \in Frames |-> 0]
  /\ wpc = "cond" /\ wframe = None /\ pushed = None
  /\ waiting = FALSE /\ blocked = FALSE /\ running = TRUE
  /\ progress = None /\ scheduled = None /\ delivered = None
  /\ slot_next_frame_display = 0
  /\ rpc = "predict" /\ rtime = 0
  /\ listed = TRUE /\ visible = FALSE /\ session_active = FALSE
  /\ now = 0
  /\ submitted = {} /\ retired = {} /\ shown = None

\* What the app asks for.  The display time lies within the bound on time.
App ==
  \/ PredictFrame \/ MarkFrame \/ BeginFrame
  \/ \E f \in {waited, begun} : DiscardFrame(f)
  \/ \E d \in 1 .. MaxTime - 1 : LayerBegin(d)
  \/ LayerCommitPush \/ LayerCommit
  \/ BeginSession \/ EndSession \/ Destroy

\* What the client's thread does once it was asked.
ClientThread ==
  \/ WaitForWaitThread \/ Unblocked
  \/ CommitScheduledFree \/ CommitMove
  \/ DestroyUnlist \/ DestroyStop \/ DestroyClear

WaitThread ==
  \/ WaitThreadWakes \/ WaitFence \/ WaitThreadGpuDone
  \/ WaitThreadScheduledFree \/ WaitThreadMove \/ WaitThreadRelease

RenderThread == RenderPredict \/ RenderPacers \/ TransferLayers

Next == App \/ ClientThread \/ WaitThread \/ RenderThread \/ SetVisible \/ Tick

\* Threads that can take a step do, the GPU finishes its work, time passes.
\* Neither the app nor the render loop is assumed to go on.
Fairness == WF_vars(ClientThread) /\ WF_vars(WaitThread) /\ WF_vars(Tick)

Spec == Init /\ [][Next]_vars
FairSpec == Spec /\ Fairness

-----------------------------------------------------------------------------
(* Properties.                                                             *)

Slot == Frames \cup {None}

TypeOK ==
  /\ frame_counter \in 0 .. MaxFrames
  /\ frames \in [0 .. FrameCount - 1 ->
                   [id : Slot, state : {"READY", "PREDICTED", "WAIT_LEFT", "BEGUN", "DELIVERED"}]]
  /\ cpc \in {"idle", "wait_wt", "blocked", "layers", "sched", "move",
              "end_session", "unlist", "stop", "join", "gone"}
  /\ waited \in Slot /\ begun \in Slot
  /\ dtime \in [Frames -> Times]
  /\ wpc \in {"cond", "fence", "gpu_done", "sched", "move", "release", "exited"}
  /\ wframe \in Slot /\ pushed \in Slot
  /\ waiting \in BOOLEAN /\ blocked \in BOOLEAN /\ running \in BOOLEAN
  /\ progress \in Slot /\ scheduled \in Slot /\ delivered \in Slot
  /\ slot_next_frame_display \in Times
  /\ rpc \in {"predict", "pacers", "transfer"}
  /\ rtime \in Times
  /\ listed \in BOOLEAN /\ visible \in BOOLEAN /\ session_active \in BOOLEAN
  /\ now \in Times
  /\ submitted \in SUBSET Frames /\ retired \in SUBSET Frames
  /\ shown \in Slot

\* progress, which no lock protects, is never used by two threads: while the
\* wait thread owns a frame it is the one in progress, and while the client
\* fills or moves progress nothing is pushed or waited on.
ProgressHasOneOwner ==
  /\ wpc \in {"fence", "gpu_done", "sched", "move"} => progress = wframe
  /\ cpc \in {"layers", "sched", "move"} => pushed = None /\ wpc \in {"cond", "exited"}

\* The asserts of the submission: blocked is false when the client is about to
\* block, progress is empty when it is about to fill it, and nothing is pushed
\* or waited on when it is about to push.
SubmissionAsserts ==
  /\ cpc = "wait_wt" => ~blocked /\ (waiting \/ pushed # None \/ progress = None)
  /\ cpc = "blocked" /\ ~blocked => progress = None
  /\ cpc = "layers" => ~waiting /\ pushed = None

\* The asserts of the app pacer: each frame is in the state that the next mark
\* expects, though the marks come from two threads and entries are reused.
PacerAsserts ==
  /\ waited # None => PacerState(waited) \in {"PREDICTED", "WAIT_LEFT"}
  /\ begun # None /\ cpc \in {"idle", "end_session"} => PacerState(begun) = "BEGUN"
  /\ cpc = "layers" => PacerState(progress) = "DELIVERED"
  /\ wpc = "gpu_done" => PacerState(wframe) = "DELIVERED"

\* No assert of the submission and of the marks can fail, whichever of the threads gets
\* there first.  (That of pa_predict can, when too many frames are discarded while
\* one waits for its fence.)
AssertsHold == TypeOK /\ SubmissionAsserts /\ PacerAsserts

\* A frame is in one slot at a time, and once retired it is in none: its
\* swapchain images are given back once.
RetiredOnce ==
  LET held == {progress, scheduled, delivered} \ {None}
  IN  /\ progress # None => progress \notin {scheduled, delivered}
      /\ scheduled # None => scheduled # delivered
      /\ held \cap retired = {}
      /\ submitted = held \cup retired

\* Frames pass the slots in the order in which they were begun, whatever
\* display times the app gives them.
SlotsInOrder ==
  /\ scheduled # None => delivered < scheduled /\ shown < scheduled
  /\ progress # None => delivered < progress /\ scheduled < progress /\ shown < progress
  /\ delivered # None => shown <= delivered

\* A client never sees one of its older frames again after a newer one.
NeverBackwards == [][shown' >= shown]_vars

\* The wait thread does not end with work left, and a destroyed compositor
\* holds no frame: all that were submitted have been retired.
NothingLeftBehind ==
  /\ wpc = "exited" => pushed = None /\ ~waiting
  /\ cpc = "gone" => retired = submitted

\* The slots of a client: each submitted frame is in one slot, in order, until it is
\* retired, once; and none is left when the compositor is gone.
SlotsAreSound == RetiredOnce /\ SlotsInOrder /\ NothingLeftBehind

\* A client blocked in layer_begin is released, also when the render loop
\* stands still or the session has been stopped.
BlockedIsReleased == (cpc = "blocked") ~> (cpc = "layers")

\* Destroying a compositor ends, whatever its wait thread was doing.
DestroyEnds == (cpc = "unlist") ~> (cpc = "gone")
=============================================================================
