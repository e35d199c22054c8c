----------------------------- MODULE OxrSession -----------------------------
(***************************************************************************)
(* A session of the OpenXR state tracker that has a compositor: its state  *)
(* machine, the three frame calls, and the frame sync object that holds    *)
(* xrWaitFrame back until the frame before has been begun.                 *)
(*                                                                         *)
(* Two threads of the application: one calls xrWaitFrame, the other makes  *)
(* all other calls.  A call that is refused changes nothing and is not a   *)
(* step.  canWaitFrameReturn and running are guarded by the mutex of the   *)
(* frame sync; active_wait_frames and frame_id.waited by a lock where      *)
(* xrWaitFrame writes them, and read without it by the other thread.       *)
(***************************************************************************)
EXTENDS Integers, FiniteSets, Sequences

CONSTANTS
  MaxFrames,         \* bound: frames the compositor hands out
  MaxSessions,       \* bound: how often the session is begun
  Android,           \* XRT_OS_ANDROID: the activity may be paused and resumed
  Failures,          \* the compositor calls that may fail
  Recoverable        \* of these, the ones that may fail without losing the session

ASSUME ConstantsAssumption ==
  /\ MaxFrames \in Nat
  /\ MaxSessions \in Nat
  /\ Android \in BOOLEAN
  /\ Failures \subseteq {"wait", "begin", "discard", "commit", "end", "poll"}
  /\ Recoverable \subseteq Failures

VARIABLES
  state,               \* sess->state
  announced,           \* the states the last step went through, for the app
  has_ended_once,
  exiting,
  has_lost,
  compositor_visible,
  compositor_focused,
  activity,            \* inst->activity_state
  running,             \* frame_sync.running
  canWaitFrameReturn,  \* frame_sync.canWaitFrameReturn
  active_wait_frames,
  waited,              \* frame_id.waited; 0 or -1 when there is none
  begun,               \* frame_id.begun
  frame_started,
  wpc,                 \* the thread in xrWaitFrame
  frame,               \* its local frame_id
  mpc,                 \* the thread that makes the other calls
  seen,                \* its local active_wait_frames in xrBeginFrame
  open,                \* frames neither discarded nor committed (compositor)
  next_id,             \* the next frame id of the compositor
  sessions             \* how often the session was begun

stateVars == <<state, announced, has_ended_once, exiting>>
compVars == <<compositor_visible, compositor_focused, activity>>
syncVars == <<running, canWaitFrameReturn>>
frameVars == <<active_wait_frames, waited, begun, frame_started>>
vars == <<stateVars, has_lost, compVars, syncVars, frameVars, wpc, frame, mpc, seen,
          open, next_id, sessions>>

States == {"IDLE", "READY", "SYNCHRONIZED", "VISIBLE", "FOCUSED", "STOPPING",
           "LOSS_PENDING", "EXITING"}

-----------------------------------------------------------------------------
(* State changes.                                                          *)

\* oxr_session_change_state on the states gone through so far: a change to the
\* same state is not announced.
ChangeState(path, s) == IF path[Len(path)] = s THEN path ELSE Append(path, s)

\* The session goes through the states of path, which starts with its state.
Announce(path) ==
  /\ announced' = path
  /\ state' = path[Len(path)]

\* if (sess->state == from) change_state(to)
Step(path, cond, from, to) ==
  IF cond /\ path[Len(path)] = from THEN ChangeState(path, to) ELSE path

\* Mutant of ExitPath: the synchronization is not faked.
ExitPathNoFake ==
  LET p1 == Step(<<state>>, TRUE, "FOCUSED", "VISIBLE")
      p2 == Step(p1, TRUE, "VISIBLE", "SYNCHRONIZED")
  IN  ChangeState(p2, "STOPPING")

\* oxr_session_request_exit: down to SYNCHRONIZED, or a faked SYNCHRONIZED if no
\* frame was ended yet, then STOPPING.
ExitPath ==
  LET p1 == Step(<<state>>, TRUE, "FOCUSED", "VISIBLE")
      p2 == Step(p1, TRUE, "VISIBLE", "SYNCHRONIZED")
      p3 == IF has_ended_once THEN p2 ELSE ChangeState(p2, "SYNCHRONIZED")
  IN  ChangeState(p3, "STOPPING")

\* has_ended_once is set only where the synchronization is faked.
RequestExit ==
  /\ Announce(ExitPath)
  /\ has_ended_once' =
       (has_ended_once \/ state \notin {"FOCUSED", "VISIBLE", "SYNCHRONIZED"})
  /\ exiting' = TRUE

\* do_synchronize_state_change; the states before VISIBLE in the enum.
SynchronizeStateChange ==
  IF ~has_ended_once /\ state \in {"IDLE", "READY", "SYNCHRONIZED"}
  THEN /\ Announce(ChangeState(<<state>>, "SYNCHRONIZED"))
       /\ has_ended_once' = TRUE
       /\ UNCHANGED exiting
  ELSE /\ announced' = <<state>>
       /\ UNCHANGED <<state, has_ended_once, exiting>>

\* No state change in this step.
NoChange == announced' = <<state>> /\ UNCHANGED <<state, has_ended_once, exiting>>

\* A compositor call fails: OXR_CHECK_XRET, where XRT_ERROR_IPC_FAILURE, unlike
\* other errors, loses the session.
Fails(c) ==
  /\ c \in Failures
  /\ \/ has_lost' = TRUE
     \/ c \in Recoverable /\ UNCHANGED has_lost

-----------------------------------------------------------------------------
(* xrWaitFrame, by the waiting thread.                                     *)

\* The call, past its checks.
WaitFrame ==
  /\ wpc = "idle"
  /\ mpc # "destroyed"
  /\ ~has_lost /\ running
  /\ next_id <= MaxFrames
  /\ wpc' = "sync"
  /\ NoChange
  /\ UNCHANGED <<has_lost, compVars, syncVars, frameVars, frame, mpc, seen, open,
                 next_id, sessions>>

\* oxr_frame_sync_wait_frame: takes the turn, waits for it, or finds that the
\* session is not running.
SyncWaitFrame ==
  /\ wpc \in {"sync", "woken"}
  /\ IF ~running
     THEN wpc' = "idle" /\ UNCHANGED canWaitFrameReturn
     ELSE IF canWaitFrameReturn = 1
     THEN wpc' = "comp" /\ canWaitFrameReturn' = 0
     ELSE wpc' = "blocked" /\ UNCHANGED canWaitFrameReturn
  /\ NoChange
  /\ UNCHANGED <<has_lost, compVars, running, frameVars, frame, mpc, seen, open,
                 next_id, sessions>>

\* The condition wait ends without a signal.
SpuriousWakeUp ==
  /\ wpc = "blocked"
  /\ wpc' = "woken"
  /\ NoChange
  /\ UNCHANGED <<has_lost, compVars, syncVars, frameVars, frame, mpc, seen, open,
                 next_id, sessions>>

\* do_wait_frame_and_checks: the compositor hands out a frame, or fails.
CompositorWaitFrame ==
  /\ wpc = "comp"
  /\ \/ /\ wpc' = "got"
        /\ frame' = next_id
        /\ next_id' = next_id + 1
        /\ open' = open \union {next_id}
        /\ UNCHANGED has_lost
     \/ /\ Fails("wait")
        /\ wpc' = "failed"
        /\ UNCHANGED <<frame, next_id, open>>
  /\ NoChange
  /\ UNCHANGED <<compVars, syncVars, frameVars, mpc, seen, sessions>>

\* Under active_wait_frames_lock: the frame is counted and its id stored.
WaitFrameDone ==
  /\ wpc = "got"
  /\ active_wait_frames' = active_wait_frames + 1
  /\ waited' = frame
  /\ wpc' = "idle"
  /\ NoChange
  /\ UNCHANGED <<has_lost, compVars, syncVars, begun, frame_started, frame, mpc, seen,
                 open, next_id, sessions>>

\* Mutant of Release: the waiting thread is not signalled.
ReleaseNoSignal(w) ==
  /\ canWaitFrameReturn' = IF running THEN 1 ELSE canWaitFrameReturn
  /\ wpc' = w

\* oxr_frame_sync_release; w is where the waiting thread is.
Release(w) ==
  IF running /\ canWaitFrameReturn = 0
  THEN /\ canWaitFrameReturn' = 1
       /\ wpc' = IF w = "blocked" THEN "woken" ELSE w
  ELSE /\ wpc' = w
       /\ UNCHANGED canWaitFrameReturn

\* Mutant of WaitFrameFailed: the turn is not given back.
WaitFrameFailedKeepsTurn ==
  /\ wpc = "failed"
  /\ wpc' = "idle"
  /\ NoChange
  /\ UNCHANGED <<has_lost, compVars, syncVars, frameVars, frame, mpc, seen, open,
                 next_id, sessions>>

\* On error xrWaitFrame gives the turn back itself; the result is only asserted.
WaitFrameFailed ==
  /\ wpc = "failed"
  /\ Release("idle")
  /\ NoChange
  /\ UNCHANGED <<has_lost, compVars, running, frameVars, frame, mpc, seen, open,
                 next_id, sessions>>

-----------------------------------------------------------------------------
(* xrBeginFrame and xrEndFrame.                                            *)

\* A call of the other thread, past OXR_VERIFY_SESSION_NOT_LOST and _RUNNING.
Call == mpc = "idle" /\ ~has_lost /\ running

\* xrBeginFrame reads the count under its lock; at zero it is refused.
BeginFrame ==
  /\ Call
  /\ active_wait_frames # 0
  /\ seen' = active_wait_frames
  /\ mpc' = "begin"
  /\ NoChange
  /\ UNCHANGED <<has_lost, compVars, syncVars, frameVars, wpc, frame, open, next_id,
                 sessions>>

\* xrt_comp_begin_frame with the waited frame, after any discard.
BeginWaited(count, opened, last) ==
  \/ /\ begun' = waited
     /\ waited' = -1
     /\ active_wait_frames' = count
     /\ open' = opened
     /\ mpc' = "release"
     /\ UNCHANGED has_lost
  \/ /\ Fails("begin")
     /\ begun' = last
     /\ active_wait_frames' = count
     /\ open' = opened
     /\ mpc' = "idle"
     /\ UNCHANGED waited

\* The rest of xrBeginFrame up to the release.  With a frame already begun a
\* second xrWaitFrame must have returned, and the begun frame is discarded.
BeginFrameBody ==
  /\ mpc = "begin"
  /\ frame_started' = TRUE
  /\ \/ /\ ~frame_started
        /\ BeginWaited(active_wait_frames, open, begun)
     \/ /\ frame_started /\ seen # 2
        /\ mpc' = "idle"
        /\ UNCHANGED <<has_lost, active_wait_frames, waited, begun, open>>
     \/ /\ frame_started /\ seen = 2
        /\ BeginWaited(active_wait_frames - 1, open \ {begun}, -1)
     \/ /\ frame_started /\ seen = 2
        /\ Fails("discard")
        /\ mpc' = "idle"
        /\ UNCHANGED <<active_wait_frames, waited, begun, open>>
  /\ NoChange
  /\ UNCHANGED <<compVars, syncVars, wpc, frame, seen, next_id, sessions>>

\* xrBeginFrame gives the turn back.
BeginFrameRelease ==
  /\ mpc = "release"
  /\ Release(wpc)
  /\ mpc' = "idle"
  /\ NoChange
  /\ UNCHANGED <<has_lost, compVars, running, frameVars, frame, seen, open, next_id,
                 sessions>>

\* xrEndFrame without layers: the frame is discarded.  The count goes down
\* before the call that may fail.
EndFrameEmpty ==
  /\ Call /\ frame_started
  /\ active_wait_frames' = active_wait_frames - 1
  /\ \/ /\ open' = open \ {begun}
        /\ begun' = -1
        /\ frame_started' = FALSE
        /\ SynchronizeStateChange
        /\ UNCHANGED has_lost
     \/ /\ Fails("discard")
        /\ NoChange
        /\ UNCHANGED <<open, begun, frame_started>>
  /\ UNCHANGED <<compVars, syncVars, waited, wpc, frame, mpc, seen, next_id, sessions>>

\* Mutant of EndFrame: the begun frame is not forgotten.
EndFrameKeepsBegun ==
  /\ Call /\ frame_started
  /\ SynchronizeStateChange
  /\ open' = open \ {begun}
  /\ frame_started' = FALSE
  /\ active_wait_frames' = active_wait_frames - 1
  /\ UNCHANGED <<has_lost, begun, compVars, syncVars, waited, wpc, frame, mpc, seen,
                 next_id, sessions>>

\* xrEndFrame with layers, all of them verified: state change, then commit.
EndFrame ==
  /\ Call /\ frame_started
  /\ SynchronizeStateChange
  /\ \/ /\ open' = open \ {begun}
        /\ begun' = -1
        /\ frame_started' = FALSE
        /\ active_wait_frames' = active_wait_frames - 1
        /\ UNCHANGED has_lost
     \/ /\ Fails("commit")
        /\ UNCHANGED <<open, begun, frame_started, active_wait_frames>>
  /\ UNCHANGED <<compVars, syncVars, waited, wpc, frame, mpc, seen, next_id, sessions>>

-----------------------------------------------------------------------------
(* The session calls, xrPollEvent and the compositor's events.             *)

\* xrBeginSession, which starts the frame sync with the turn to be taken.
BeginSession ==
  /\ mpc = "idle" /\ ~has_lost /\ ~running
  /\ state = "READY"
  /\ sessions < MaxSessions
  /\ sessions' = sessions + 1
  /\ running' = TRUE
  /\ canWaitFrameReturn' = 1
  /\ wpc' = IF wpc = "blocked" THEN "woken" ELSE wpc
  /\ NoChange
  /\ UNCHANGED <<has_lost, compVars, frameVars, frame, mpc, seen, open, next_id>>

\* xrEndSession: the frames the session knows of are discarded, failures of that
\* ignored; frames that are still counted stay counted.
EndSession ==
  /\ Call
  /\ state = "STOPPING"
  /\ open' = open \ {waited, begun}
  /\ waited' = IF waited > 0 THEN -1 ELSE waited
  /\ begun' = IF begun > 0 THEN -1 ELSE begun
  /\ frame_started' = FALSE
  /\ mpc' = "ending"
  /\ NoChange
  /\ UNCHANGED <<has_lost, compVars, syncVars, active_wait_frames, wpc, frame, seen,
                 next_id, sessions>>

\* The rest of xrEndSession: xrt_comp_end_session, the state changes, and the end
\* of the frame sync, which wakes a blocked xrWaitFrame.
EndSessionDone ==
  /\ mpc = "ending"
  /\ mpc' = "idle"
  /\ \/ /\ Announce(ChangeState(ChangeState(<<state>>, "IDLE"),
                      IF exiting THEN "EXITING"
                      ELSE IF Android THEN "IDLE" ELSE "READY"))
        /\ running' = FALSE
        /\ wpc' = IF wpc = "blocked" THEN "woken" ELSE wpc
        /\ has_ended_once' = FALSE
        /\ UNCHANGED <<has_lost, exiting>>
     \/ /\ Fails("end")
        /\ NoChange
        /\ UNCHANGED <<running, wpc>>
  /\ UNCHANGED <<canWaitFrameReturn, compVars, frameVars, frame, seen, open, next_id,
                 sessions>>

\* xrRequestExitSession
RequestExitSession ==
  /\ Call
  /\ RequestExit
  /\ UNCHANGED <<has_lost, compVars, syncVars, frameVars, wpc, frame, mpc, seen, open,
                 next_id, sessions>>

\* oxr_session_poll begins: on Android a paused activity moves the session down
\* to STOPPING, a resumed one to READY.
Poll ==
  LET p1 == Step(<<state>>, TRUE, "FOCUSED", "VISIBLE")
      p2 == Step(p1, TRUE, "VISIBLE", "SYNCHRONIZED")
      p3 == Step(p2, TRUE, "SYNCHRONIZED", "STOPPING")
  IN  /\ mpc = "idle"
      /\ mpc' = "poll"
      /\ IF ~Android THEN announced' = <<state>> /\ UNCHANGED state
         ELSE IF activity = "ON_PAUSE" THEN Announce(p3)
         ELSE Announce(Step(<<state>>, TRUE, "IDLE", "READY"))
      /\ UNCHANGED <<has_ended_once, exiting, has_lost, compVars, syncVars, frameVars,
                     wpc, frame, seen, open, next_id, sessions>>

\* One event of the compositor, or none for an error.  A request to exit is made of
\* a running session.
PollEvent ==
  /\ mpc = "poll"
  /\ \/ /\ Fails("poll")
        /\ mpc' = "idle"
        /\ NoChange
        /\ UNCHANGED <<compositor_visible, compositor_focused>>
     \/ /\ mpc' = mpc
        /\ \E v, f \in BOOLEAN :
             /\ f => v
             /\ compositor_visible' = v
             /\ compositor_focused' = f
        /\ NoChange
        /\ UNCHANGED has_lost
     \/ /\ mpc' = mpc
        /\ Announce(ChangeState(<<state>>, "LOSS_PENDING"))
        /\ UNCHANGED <<has_ended_once, exiting, has_lost, compositor_visible,
                       compositor_focused>>
     \/ /\ mpc' = mpc
        /\ has_lost' = TRUE
        /\ NoChange
        /\ UNCHANGED <<compositor_visible, compositor_focused>>
     \/ /\ mpc' = mpc
        /\ running
        /\ RequestExit
        /\ UNCHANGED <<has_lost, compositor_visible, compositor_focused>>
  /\ UNCHANGED <<activity, syncVars, frameVars, wpc, frame, seen, open, next_id,
                 sessions>>

\* The state follows what the compositor last said.
PollPath ==
  LET p1 == Step(<<state>>, compositor_visible, "SYNCHRONIZED", "VISIBLE")
      p2 == Step(p1, compositor_focused, "VISIBLE", "FOCUSED")
      p3 == Step(p2, ~compositor_focused, "FOCUSED", "VISIBLE")
  IN  Step(p3, ~compositor_visible, "VISIBLE", "SYNCHRONIZED")

PollDone ==
  /\ mpc = "poll"
  /\ mpc' = "idle"
  /\ Announce(PollPath)
  /\ UNCHANGED <<has_ended_once, exiting, has_lost, compVars, syncVars, frameVars, wpc,
                 frame, seen, open, next_id, sessions>>

\* The activity is paused or resumed.
ActivityEvent ==
  /\ Android
  /\ mpc # "destroyed"
  /\ activity' = IF activity = "ON_PAUSE" THEN "ON_RESUME" ELSE "ON_PAUSE"
  /\ NoChange
  /\ UNCHANGED <<has_lost, compositor_visible, compositor_focused, syncVars, frameVars,
                 wpc, frame, mpc, seen, open, next_id, sessions>>

\* xrDestroySession: the application must not be in another call.
Destroy ==
  /\ mpc = "idle" /\ wpc = "idle"
  /\ mpc' = "destroyed"
  /\ running' = FALSE
  /\ canWaitFrameReturn' = 0
  /\ open' = {}
  /\ NoChange
  /\ UNCHANGED <<has_lost, compVars, frameVars, wpc, frame, seen, next_id, sessions>>

-----------------------------------------------------------------------------
\* oxr_session_create
Init ==
  /\ state = "READY"
  /\ announced = <<"IDLE", "READY">>
  /\ has_ended_once = FALSE
  /\ exiting = FALSE
  /\ has_lost = FALSE
  /\ compositor_visible = FALSE
  /\ compositor_focused = FALSE
  /\ activity = "ON_RESUME"
  /\ running = FALSE
  /\ canWaitFrameReturn = 0
  /\ active_wait_frames = 0
  /\ waited = 0
  /\ begun = 0
  /\ frame_started = FALSE
  /\ wpc = "idle"
  /\ frame = 0
  /\ mpc = "idle"
  /\ seen = 0
  /\ open = {}
  /\ next_id = 1
  /\ sessions = 0

\* The waiting thread inside xrWaitFrame.
WaiterStep ==
  SyncWaitFrame \/ CompositorWaitFrame \/ WaitFrameDone \/ WaitFrameFailed

\* The other thread inside a call.
CallStep == BeginFrameBody \/ BeginFrameRelease \/ EndSessionDone \/ PollDone

Next ==
  \/ WaitFrame \/ WaiterStep \/ SpuriousWakeUp
  \/ BeginFrame \/ EndFrameEmpty \/ EndFrame \/ CallStep
  \/ BeginSession \/ EndSession \/ RequestExitSession \/ Poll \/ PollEvent
  \/ ActivityEvent \/ Destroy

Spec == Init /\ [][Next]_vars

\* A thread inside a call goes on; the application need not make any call.
FairSpec == Spec /\ WF_vars(WaiterStep) /\ WF_vars(CallStep)

-----------------------------------------------------------------------------
(* Properties.                                                             *)

\* Types; the count of frames in flight is neither negative nor above two
\* ("max 2 xrWaitFrame can be in flight", in xrBeginFrame).
TypeOK ==
  /\ state \in States
  /\ announced \in Seq(States)
  /\ {has_ended_once, exiting, has_lost, compositor_visible, compositor_focused,
      running, frame_started} \subseteq BOOLEAN
  /\ activity \in {"ON_PAUSE", "ON_RESUME"}
  /\ canWaitFrameReturn \in {0, 1}
  /\ active_wait_frames \in 0..2
  /\ waited \in -1..MaxFrames
  /\ begun \in -1..MaxFrames
  /\ wpc \in {"idle", "sync", "blocked", "woken", "comp", "got", "failed"}
  /\ frame \in 0..MaxFrames
  /\ mpc \in {"idle", "begin", "release", "ending", "poll", "destroyed"}
  /\ seen \in 0..2
  /\ open \subseteq 1..MaxFrames
  /\ next_id \in 1..(MaxFrames + 1)
  /\ sessions \in 0..MaxSessions

\* The steps of the session's life that the application may be told of.
Lifecycle ==
  {<<"IDLE", "READY">>, <<"IDLE", "EXITING">>, <<"READY", "SYNCHRONIZED">>,
   <<"SYNCHRONIZED", "VISIBLE">>, <<"VISIBLE", "SYNCHRONIZED">>,
   <<"VISIBLE", "FOCUSED">>, <<"FOCUSED", "VISIBLE">>,
   <<"SYNCHRONIZED", "STOPPING">>, <<"STOPPING", "IDLE">>,
   <<"LOSS_PENDING", "SYNCHRONIZED">>, <<"LOSS_PENDING", "STOPPING">>}

\* Every change of state the application is told of is a step of the life of a
\* session, in order, none left out, and the states from SYNCHRONIZED to STOPPING
\* are those of a session that is running (frame_sync), whatever the order of its
\* calls, the compositor's events and the pausing of the activity.
LifecycleIsKept ==
  /\ \A i \in 1..(Len(announced) - 1) :
       \/ announced[i + 1] = "LOSS_PENDING"
       \/ <<announced[i], announced[i + 1]>> \in Lifecycle
  /\ state \in {"SYNCHRONIZED", "VISIBLE", "FOCUSED", "STOPPING"} =>
       running \/ mpc = "destroyed"

\* The session has frames in flight that it must account for: it is running, and
\* not in xrEndSession or lost.
InSession == running /\ ~has_lost /\ mpc # "ending"

\* active_wait_frames is "the number of xrWaitFrame calls that did not yet have a
\* corresponding xrEndFrame or xrBeginFrame (discarded frame) call".
ActiveIsExact ==
  InSession => active_wait_frames = Cardinality({f \in {waited, begun} : f > 0})

\* Every frame the compositor handed out and still expects is the one waited for,
\* the one begun, or in xrWaitFrame's hands: none is lost, none is given back
\* twice, and the next call of the compositor gets the frame it is meant for.
FramesAccounted ==
  InSession =>
    /\ open = {f \in {waited, begun} : f > 0}
                \union (IF wpc = "got" THEN {frame} ELSE {})
    /\ mpc = "begin" /\ (~frame_started \/ seen = 2) => waited > 0
    /\ frame_started => begun > 0

\* The session's frame ids, its count and the compositor agree on the frames.
FramesAreSound == TypeOK /\ ActiveIsExact /\ FramesAccounted

\* The turn of xrWaitFrame is in exactly one place: with the frame sync, with the
\* waiting thread, with the frame waited for, or with an xrBeginFrame about to
\* give it back.  So "xrBeginFrame will only allow xrWaitFrame to continue once it
\* has cleared the frame_id.waited".
Holders ==
  {h \in {"sync", "waiter", "waited", "begin"} :
     \/ h = "sync" /\ canWaitFrameReturn = 1
     \/ h = "waiter" /\ wpc \in {"comp", "got", "failed"}
     \/ h = "waited" /\ waited > 0
     \/ h = "begin" /\ mpc = "release"}

OneTurn == InSession => Cardinality(Holders) = 1

\* No wake-up is lost: a blocked xrWaitFrame goes on once its turn has come or the
\* session has ended.
WaiterIsReleased ==
  (wpc \in {"blocked", "woken"} /\ (canWaitFrameReturn = 1 \/ ~running))
    ~> (wpc \notin {"blocked", "woken"})

=============================================================================
