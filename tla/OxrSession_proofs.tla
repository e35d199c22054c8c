-------------------------- MODULE OxrSession_proofs --------------------------
(***************************************************************************)
(* Theorems about OxrSession.                                              *)
(*                                                                         *)
(* The states the application is told of are the life of a session for     *)
(* every choice of failures, on every platform.  The accounting of frames  *)
(* is proved for one session and for failures of begin, discard and end    *)
(* that lose the session, which is what the code gets right.               *)
(***************************************************************************)
EXTENDS OxrSession, FiniteSetTheorems, SequenceTheorems, TLAPS

USE DEF stateVars, compVars, syncVars, frameVars

-----------------------------------------------------------------------------
(* The life of a session.                                                  *)

\* The states a session is in while it is running, and those in which it has
\* ended a frame or faked it.
Synchronized == {"SYNCHRONIZED", "VISIBLE", "FOCUSED", "STOPPING"}

\* A path of states, each of which may follow the one before.
Legal(path) ==
  /\ path \in Seq(States)
  /\ path # <<>>
  /\ \A i \in 1..(Len(path) - 1) :
       \/ path[i + 1] = "LOSS_PENDING"
       \/ <<path[i], path[i + 1]>> \in Lifecycle

\* The state is one the frame sync and has_ended_once agree with: READY comes
\* before the first frame, the others after it; a running session is not IDLE.
StateInv ==
  /\ state \in States
  /\ has_ended_once \in BOOLEAN
  /\ {running, compositor_visible, compositor_focused} \subseteq BOOLEAN
  /\ Legal(announced)
  /\ state \in {"IDLE", "READY"} => ~has_ended_once
  /\ state \in Synchronized => has_ended_once /\ (running \/ mpc = "destroyed")
  /\ running => state \notin {"IDLE", "EXITING"} /\ mpc # "destroyed"
  /\ mpc \in {"ending", "release", "begin"} => running
  /\ mpc = "ending" => state = "STOPPING"

\* A path of one state is legal.
LEMMA OneState ==
  ASSUME NEW s \in States
  PROVE  Legal(<<s>>) /\ Len(<<s>>) = 1 /\ <<s>>[1] = s
BY DEF Legal

\* A legal path goes on with a state that may follow its last one.
LEMMA LegalAppend ==
  ASSUME NEW p, Legal(p), NEW s \in States,
         s = "LOSS_PENDING" \/ <<p[Len(p)], s>> \in Lifecycle
  PROVE  LET q == Append(p, s) IN Legal(q) /\ q[Len(q)] = s
<1> DEFINE q == Append(p, s)
<1>1. q \in Seq(States) /\ Len(q) = Len(p) + 1 /\ q[Len(q)] = s /\ Len(p) \in Nat
  BY DEF Legal
<1>2. \A i \in 1..Len(p) : q[i] = p[i]
  BY DEF Legal
<1>3. Len(p) \geq 1
  BY EmptySeq, <1>1 DEF Legal
<1>4. ASSUME NEW i \in 1..(Len(q) - 1)
      PROVE  q[i + 1] = "LOSS_PENDING" \/ <<q[i], q[i + 1]>> \in Lifecycle
  <2>1. CASE i = Len(p)
    BY <2>1, <1>1, <1>2, <1>3
  <2>2. CASE i # Len(p)
    <3>1. i \in 1..(Len(p) - 1) /\ i + 1 \in 1..Len(p) /\ i \in 1..Len(p)
      BY <2>2, <1>1
    <3> QED
      BY <3>1, <1>2 DEF Legal
  <2> QED
    BY <2>1, <2>2
<1>5. q # <<>>
  BY <1>1
<1> QED
  BY <1>1, <1>4, <1>5 DEF Legal

End(p) == p[Len(p)]

\* oxr_session_change_state keeps a path legal if the state may follow.
LEMMA LegalChange ==
  ASSUME NEW p, Legal(p), NEW s \in States,
         \/ End(p) = s
         \/ s = "LOSS_PENDING"
         \/ <<End(p), s>> \in Lifecycle
  PROVE  Legal(ChangeState(p, s)) /\ End(ChangeState(p, s)) = s
BY LegalAppend DEF ChangeState, End

\* The last state of a legal path is a state.
LEMMA EndType ==
  ASSUME NEW p, Legal(p)
  PROVE  End(p) \in States
BY EmptySeq DEF Legal, End

\* The changes of state that the code makes one by one.
LEMMA Changes ==
  /\ States = States \union {"IDLE", "READY", "SYNCHRONIZED", "VISIBLE", "FOCUSED",
                             "STOPPING", "LOSS_PENDING", "EXITING"}
  /\ <<"FOCUSED", "VISIBLE">> \in Lifecycle
  /\ <<"VISIBLE", "SYNCHRONIZED">> \in Lifecycle
  /\ <<"SYNCHRONIZED", "STOPPING">> \in Lifecycle
  /\ <<"SYNCHRONIZED", "VISIBLE">> \in Lifecycle
  /\ <<"VISIBLE", "FOCUSED">> \in Lifecycle
  /\ <<"READY", "SYNCHRONIZED">> \in Lifecycle
  /\ <<"LOSS_PENDING", "SYNCHRONIZED">> \in Lifecycle
  /\ <<"LOSS_PENDING", "STOPPING">> \in Lifecycle
  /\ <<"STOPPING", "IDLE">> \in Lifecycle
  /\ <<"IDLE", "READY">> \in Lifecycle
  /\ <<"IDLE", "EXITING">> \in Lifecycle
BY DEF Lifecycle, States

\* Down to SYNCHRONIZED.
LEMMA LegalDown ==
  ASSUME state \in States
  PROVE  LET p1 == Step(<<state>>, TRUE, "FOCUSED", "VISIBLE")
             p2 == Step(p1, TRUE, "VISIBLE", "SYNCHRONIZED")
         IN  /\ Legal(p2)
             /\ End(p2) = IF state \in {"FOCUSED", "VISIBLE"} THEN "SYNCHRONIZED" ELSE state
<1> DEFINE p1 == Step(<<state>>, TRUE, "FOCUSED", "VISIBLE")
           p2 == Step(p1, TRUE, "VISIBLE", "SYNCHRONIZED")
<1>1. Legal(<<state>>) /\ End(<<state>>) = state
  BY OneState DEF End
<1>2. Legal(p1) /\ End(p1) = IF End(<<state>>) = "FOCUSED" THEN "VISIBLE" ELSE End(<<state>>)
  BY <1>1, LegalChange, Changes DEF Step, End
<1>3. Legal(p2) /\ End(p2) = IF End(p1) = "VISIBLE" THEN "SYNCHRONIZED" ELSE End(p1)
  <2> HIDE DEF p1
  <2> QED
    BY <1>2, LegalChange, Changes DEF Step, End
<1> HIDE DEF p2
<1>4. End(p2) = IF state \in {"FOCUSED", "VISIBLE"} THEN "SYNCHRONIZED" ELSE state
  <2> HIDE DEF p1
  <2> QED
    BY <1>1, <1>2, <1>3
<1> QED
  BY <1>3, <1>4 DEF p2

\* oxr_session_request_exit on a running session ends in STOPPING and leaves no
\* state out.
LEMMA LegalExit ==
  ASSUME StateInv, running
  PROVE  Legal(ExitPath) /\ End(ExitPath) = "STOPPING"
<1> DEFINE p2 == Step(Step(<<state>>, TRUE, "FOCUSED", "VISIBLE"), TRUE, "VISIBLE",
                      "SYNCHRONIZED")
           p3 == IF has_ended_once THEN p2 ELSE ChangeState(p2, "SYNCHRONIZED")
<1>1. Legal(p2) /\ End(p2) = IF state \in {"FOCUSED", "VISIBLE"} THEN "SYNCHRONIZED"
                             ELSE state
  BY LegalDown DEF StateInv
<1>2. ExitPath = ChangeState(p3, "STOPPING")
  BY DEF ExitPath
<1> HIDE DEF p2
<1>3. /\ End(p2) \in {"READY", "SYNCHRONIZED", "STOPPING", "LOSS_PENDING"}
      /\ has_ended_once => End(p2) # "READY"
      /\ ~has_ended_once => End(p2) \in {"READY", "LOSS_PENDING"}
  BY <1>1 DEF StateInv, Synchronized, States
<1>4. Legal(p3) /\ End(p3) \in {"SYNCHRONIZED", "STOPPING", "LOSS_PENDING"}
  <2>1. CASE has_ended_once
    BY <2>1, <1>1, <1>3
  <2>2. CASE ~has_ended_once
    BY <2>2, <1>1, <1>3, LegalChange, Changes
  <2> QED
    BY <2>1, <2>2
<1> HIDE DEF p3
<1> QED
  BY <1>2, <1>4, LegalChange, Changes

\* A step that changes no state, and in which the session goes on running or not.
LEMMA NoChangeState ==
  ASSUME StateInv, NoChange, running' = running,
         UNCHANGED <<compositor_visible, compositor_focused>>,
         \/ mpc' = mpc
         \/ mpc' = "idle" /\ mpc # "destroyed"
         \/ mpc' \in {"begin", "release"} /\ running
         \/ mpc' = "ending" /\ running /\ state = "STOPPING"
  PROVE  StateInv'
BY OneState DEF StateInv, NoChange

\* do_synchronize_state_change on a running session.
LEMMA SynchronizeState ==
  ASSUME StateInv, running, SynchronizeStateChange, running' = running, mpc' = mpc,
         UNCHANGED <<compositor_visible, compositor_focused>>, mpc = "idle"
  PROVE  StateInv'
<1>1. Legal(<<state>>) /\ End(<<state>>) = state
  BY OneState DEF StateInv, End
<1>2. CASE ~has_ended_once /\ state \in {"IDLE", "READY", "SYNCHRONIZED"}
  <2>1. state = "READY"
    BY <1>2 DEF StateInv, Synchronized
  <2>2. Legal(announced') /\ state' = "SYNCHRONIZED"
    BY <1>1, <1>2, <2>1, LegalChange
       DEF SynchronizeStateChange, Announce, States, Lifecycle, End
  <2> QED
    BY <1>2, <2>2 DEF StateInv, SynchronizeStateChange, Synchronized, States
<1>3. CASE ~(~has_ended_once /\ state \in {"IDLE", "READY", "SYNCHRONIZED"})
  BY <1>3, <1>1 DEF StateInv, SynchronizeStateChange
<1> QED
  BY <1>2, <1>3

\* oxr_session_request_exit on a running session.
LEMMA RequestExitState ==
  ASSUME StateInv, running, RequestExit, running' = running, mpc' = mpc,
         UNCHANGED <<compositor_visible, compositor_focused>>, mpc \in {"idle", "poll"}
  PROVE  StateInv'
<1>1. Legal(announced') /\ state' = "STOPPING"
  BY LegalExit DEF RequestExit, Announce, End
<1>2. has_ended_once' = TRUE
  BY DEF RequestExit, StateInv, Synchronized
<1> QED
  BY <1>1, <1>2 DEF StateInv, Synchronized, States

\* The state follows the compositor: SYNCHRONIZED, VISIBLE, FOCUSED.
LEMMA LegalPoll ==
  ASSUME StateInv
  PROVE  /\ Legal(PollPath)
         /\ End(PollPath) = state \/ (End(PollPath) \in Synchronized /\ state \in Synchronized)
<1> DEFINE p1 == Step(<<state>>, compositor_visible, "SYNCHRONIZED", "VISIBLE")
           p2 == Step(p1, compositor_focused, "VISIBLE", "FOCUSED")
           p3 == Step(p2, ~compositor_focused, "FOCUSED", "VISIBLE")
           p4 == Step(p3, ~compositor_visible, "VISIBLE", "SYNCHRONIZED")
<1>1. PollPath = p4
  BY DEF PollPath
<1>2. /\ compositor_visible \in BOOLEAN /\ compositor_focused \in BOOLEAN
      /\ (~compositor_visible) \in BOOLEAN /\ (~compositor_focused) \in BOOLEAN
  BY DEF StateInv
<1>3. Legal(<<state>>) /\ End(<<state>>) = state
  BY OneState DEF StateInv, End
<1>4. /\ Legal(p1)
      /\ End(p1) = IF compositor_visible /\ End(<<state>>) = "SYNCHRONIZED" THEN "VISIBLE"
                   ELSE End(<<state>>)
  BY <1>2, <1>3, LegalChange, Changes DEF Step, End
<1> HIDE DEF p1
<1>5. /\ Legal(p2)
      /\ End(p2) = IF compositor_focused /\ End(p1) = "VISIBLE" THEN "FOCUSED" ELSE End(p1)
  BY <1>2, <1>4, LegalChange, Changes DEF Step, End
<1> HIDE DEF p2
<1>6. /\ Legal(p3)
      /\ End(p3) = IF ~compositor_focused /\ End(p2) = "FOCUSED" THEN "VISIBLE" ELSE End(p2)
  BY <1>2, <1>5, LegalChange, Changes DEF Step, End
<1> HIDE DEF p3
<1>7. /\ Legal(p4)
      /\ End(p4) = IF ~compositor_visible /\ End(p3) = "VISIBLE" THEN "SYNCHRONIZED"
                   ELSE End(p3)
  BY <1>2, <1>6, LegalChange, Changes DEF Step, End
<1> HIDE DEF p4
<1>8. \/ End(p4) = state
      \/ End(p4) \in {"SYNCHRONIZED", "VISIBLE", "FOCUSED"}
         /\ state \in {"SYNCHRONIZED", "VISIBLE", "FOCUSED"}
  BY <1>3, <1>4, <1>5, <1>6, <1>7
<1> QED
  BY <1>1, <1>7, <1>8 DEF Synchronized

\* Every step of the application, the compositor and the activity keeps StateInv.
LEMMA StateStep == StateInv /\ [Next]_vars => StateInv'
<1> SUFFICES ASSUME StateInv, [Next]_vars PROVE StateInv'
  OBVIOUS
<1>1. CASE WaitFrame
  BY <1>1, NoChangeState DEF WaitFrame
<1>2. CASE WaiterStep
  <2>1. CASE SyncWaitFrame
    BY <2>1, NoChangeState DEF SyncWaitFrame
  <2>2. CASE CompositorWaitFrame
    BY <2>2, NoChangeState DEF CompositorWaitFrame
  <2>3. CASE WaitFrameDone
    BY <2>3, NoChangeState DEF WaitFrameDone
  <2>4. CASE WaitFrameFailed
    BY <2>4, NoChangeState DEF WaitFrameFailed
  <2> QED
    BY <1>2, <2>1, <2>2, <2>3, <2>4 DEF WaiterStep
<1>3. CASE SpuriousWakeUp
  BY <1>3, NoChangeState DEF SpuriousWakeUp
<1>4. CASE BeginFrame
  BY <1>4, NoChangeState DEF BeginFrame, Call
<1>5. CASE EndFrameEmpty
  <2>1. running /\ mpc = "idle"
    BY <1>5 DEF EndFrameEmpty, Call
  <2>2. CASE SynchronizeStateChange
    BY <1>5, <2>1, <2>2, SynchronizeState DEF EndFrameEmpty
  <2>3. CASE NoChange
    BY <1>5, <2>3, NoChangeState DEF EndFrameEmpty
  <2> QED
    BY <1>5, <2>2, <2>3 DEF EndFrameEmpty
<1>6. CASE EndFrame
  BY <1>6, SynchronizeState DEF EndFrame, Call
<1>7. CASE BeginFrameBody
  <2>1. running /\ mpc = "begin" /\ mpc' \in {"idle", "release"}
    BY <1>7 DEF BeginFrameBody, BeginWaited, StateInv
  <2> QED
    BY <1>7, <2>1, NoChangeState DEF BeginFrameBody
<1>8. CASE BeginFrameRelease
  BY <1>8, NoChangeState DEF BeginFrameRelease
<1>9. CASE EndSessionDone
  <2>1. state = "STOPPING" /\ running /\ mpc = "ending" /\ mpc' = "idle"
    BY <1>9 DEF EndSessionDone, StateInv
  <2>2. CASE NoChange /\ UNCHANGED running
    BY <1>9, <2>1, <2>2, NoChangeState DEF EndSessionDone
  <2>3. ASSUME NEW s \in {"IDLE", "READY", "EXITING"},
               Announce(ChangeState(ChangeState(<<state>>, "IDLE"), s)),
               running' = FALSE, has_ended_once' = FALSE
        PROVE  StateInv'
    <3>1. Legal(<<state>>) /\ End(<<state>>) = state
      BY OneState DEF StateInv, End
    <3>2. /\ Legal(ChangeState(<<state>>, "IDLE"))
          /\ End(ChangeState(<<state>>, "IDLE")) = "IDLE"
      BY <2>1, <3>1, LegalChange, Changes
    <3>3. Legal(announced') /\ state' = s
      BY <2>3, <3>2, LegalChange, Changes DEF Announce, End
    <3> QED
      BY <1>9, <2>1, <2>3, <3>3 DEF EndSessionDone, StateInv, Synchronized, States
  <2> QED
    BY <1>9, <2>2, <2>3 DEF EndSessionDone
<1>10. CASE BeginSession
  BY <1>10, OneState DEF BeginSession, StateInv, NoChange, Synchronized
<1>11. CASE EndSession
  BY <1>11, NoChangeState DEF EndSession, Call
<1>12. CASE RequestExitSession
  BY <1>12, RequestExitState DEF RequestExitSession, Call
<1>13. CASE Poll
  <2> DEFINE p2 == Step(Step(<<state>>, TRUE, "FOCUSED", "VISIBLE"), TRUE, "VISIBLE",
                        "SYNCHRONIZED")
             p3 == Step(p2, TRUE, "SYNCHRONIZED", "STOPPING")
             p == Step(<<state>>, TRUE, "IDLE", "READY")
  <2>1. Legal(<<state>>) /\ End(<<state>>) = state
    BY OneState DEF StateInv, End
  <2>2. CASE announced' = <<state>> /\ UNCHANGED state
    BY <1>13, <2>1, <2>2 DEF Poll, StateInv
  <2>3. CASE Announce(p3)
    <3>1. Legal(p2) /\ End(p2) = IF state \in {"FOCUSED", "VISIBLE"} THEN "SYNCHRONIZED"
                                 ELSE state
      BY LegalDown DEF StateInv
    <3> HIDE DEF p2
    <3>2. /\ Legal(p3)
          /\ End(p3) = IF End(p2) = "SYNCHRONIZED" THEN "STOPPING" ELSE End(p2)
      BY <3>1, LegalChange, Changes DEF Step, End
    <3> HIDE DEF p3
    <3>3. Legal(announced') /\ state' = End(p3)
      BY <2>3, <3>2 DEF Announce, End
    <3>4. \/ state' = state
          \/ state' = "STOPPING" /\ state \in Synchronized
      BY <3>1, <3>2, <3>3 DEF Synchronized
    <3> QED
      BY <1>13, <3>3, <3>4 DEF Poll, StateInv, Synchronized, States
  <2>4. CASE Announce(p)
    <3>1. Legal(p) /\ End(p) = IF state = "IDLE" THEN "READY" ELSE state
      BY <2>1, LegalChange, Changes DEF Step, End
    <3> HIDE DEF p
    <3>2. Legal(announced') /\ state' = IF state = "IDLE" THEN "READY" ELSE state
      BY <2>4, <3>1 DEF Announce, End
    <3> QED
      BY <1>13, <3>2 DEF Poll, StateInv, Synchronized, States
  <2> QED
    BY <1>13, <2>2, <2>3, <2>4, Zenon DEF Poll
<1>14. CASE PollEvent
  <2>1. mpc = "poll" /\ mpc' \in {"idle", "poll"} /\ running' = running
    BY <1>14 DEF PollEvent
  <2>2. CASE NoChange /\ UNCHANGED <<compositor_visible, compositor_focused>>
    BY <2>1, <2>2, NoChangeState
  <2>3. ASSUME NoChange, NEW v \in BOOLEAN, NEW f \in BOOLEAN,
               compositor_visible' = v, compositor_focused' = f
        PROVE  StateInv'
    BY <2>1, <2>3, OneState DEF StateInv, NoChange
  <2>4. CASE /\ Announce(ChangeState(<<state>>, "LOSS_PENDING"))
             /\ UNCHANGED <<has_ended_once, compositor_visible, compositor_focused>>
    <3>1. Legal(<<state>>) /\ End(<<state>>) = state
      BY OneState DEF StateInv, End
    <3>2. Legal(announced') /\ state' = "LOSS_PENDING"
      BY <2>4, <3>1, LegalChange, Changes DEF Announce, End
    <3> QED
      BY <2>1, <2>4, <3>2 DEF StateInv, Synchronized, States
  <2>5. CASE /\ running /\ RequestExit /\ mpc' = mpc
             /\ UNCHANGED <<compositor_visible, compositor_focused>>
    BY <2>1, <2>5, RequestExitState
  <2> QED
    BY <1>14, <2>2, <2>3, <2>4, <2>5 DEF PollEvent
<1>15. CASE PollDone
  <2>1. Legal(announced') /\ state' = End(PollPath)
    BY <1>15, LegalPoll DEF PollDone, Announce, End
  <2> QED
    BY <1>15, <2>1, LegalPoll DEF PollDone, StateInv, Synchronized, States
<1>16. CASE ActivityEvent
  BY <1>16, NoChangeState DEF ActivityEvent
<1>17. CASE Destroy
  BY <1>17, OneState DEF Destroy, StateInv, NoChange, Synchronized
<1>18. CASE UNCHANGED vars
  BY <1>18 DEF vars, StateInv, Legal
<1> QED
  BY <1>1, <1>2, <1>3, <1>4, <1>5, <1>6, <1>7, <1>8, <1>9, <1>10, <1>11, <1>12, <1>13,
     <1>14, <1>15, <1>16, <1>17, <1>18 DEF Next, CallStep

\* The first states are legal.
LEMMA StateInit == Init => StateInv
<1> SUFFICES ASSUME Init PROVE StateInv
  OBVIOUS
<1> DEFINE p == <<"IDLE", "READY">>
<1>1. p \in Seq(States) /\ Len(p) = 2 /\ p[1] = "IDLE" /\ p[2] = "READY" /\ p # <<>>
  BY Changes
<1>2. \A i \in 1..(Len(p) - 1) : i = 1
  BY <1>1
<1>3. ASSUME NEW i \in 1..(Len(p) - 1) PROVE <<p[i], p[i + 1]>> \in Lifecycle
  <2>1. p[i] = "IDLE" /\ p[i + 1] = "READY"
    BY <1>1, <1>2
  <2> QED
    BY <2>1, Changes
<1>4. Legal(p)
  BY <1>1, <1>3 DEF Legal
<1> QED
  BY <1>4 DEF Init, StateInv, States, Synchronized

\* Every change of state the application is told of is a step of the life of a
\* session, and the states from SYNCHRONIZED to STOPPING are those of a running
\* one: oxr_session.c, for every platform and every call that fails.
THEOREM LifecycleHolds == Spec => []LifecycleIsKept
<1>1. StateInv => LifecycleIsKept
  BY DEF StateInv, Legal, LifecycleIsKept, Synchronized
<1> QED
  BY <1>1, StateInit, StateStep, PTL DEF Spec

-----------------------------------------------------------------------------
(* The frames of a session.                                                *)

\* The session is begun once, and begin, discard and end fail only by losing it.
OneSession ==
  /\ MaxSessions <= 1
  /\ Recoverable \subseteq {"wait", "commit", "poll"}

\* One if the condition holds.
One(P) == IF P THEN 1 ELSE 0

\* How often an xrWaitFrame can still return without another xrBeginFrame.
Turns ==
  One(canWaitFrameReturn = 1) + One(wpc \in {"comp", "got", "failed"}) + One(mpc = "release")

FrameTypes ==
  /\ {exiting, has_lost, running, frame_started} \subseteq BOOLEAN
  /\ activity \in {"ON_PAUSE", "ON_RESUME"}
  /\ canWaitFrameReturn \in {0, 1}
  /\ active_wait_frames \in Nat
  /\ waited \in -1..MaxFrames
  /\ begun \in -1..MaxFrames
  /\ wpc \in {"idle", "sync", "blocked", "woken", "comp", "got", "failed"}
  /\ frame \in 0..MaxFrames
  /\ mpc \in {"idle", "begin", "release", "ending", "poll", "destroyed"}
  /\ seen \in 0..2
  /\ open \subseteq 1..MaxFrames
  /\ next_id \in 1..(MaxFrames + 1)
  /\ sessions \in 0..MaxSessions

\* Frame ids are fresh; no frame is counted that cannot be in flight; a session not
\* yet begun has no frames; one that is running was begun.
FrameBounds ==
  /\ waited < next_id /\ begun < next_id /\ frame < next_id
  /\ wpc \in {"sync", "blocked", "woken", "comp"} => next_id <= MaxFrames
  /\ active_wait_frames + Turns <= 2
  /\ running => sessions # 0
  /\ sessions = 0 =>
       /\ active_wait_frames = 0 /\ waited = 0 /\ begun = 0 /\ ~frame_started
       /\ open = {} /\ wpc = "idle" /\ canWaitFrameReturn = 0
       /\ mpc \in {"idle", "poll", "destroyed"}
  /\ mpc \in {"begin", "release", "ending"} => running

\* In a session, and in an xrBeginFrame that began in one: the turn is in one place
\* or with the frame waited for, the count is that of the frames waited for and
\* begun, and these and the one in xrWaitFrame's hands are the compositor's.
FrameBook ==
  /\ Turns + One(waited > 0) = 1
  /\ active_wait_frames = One(waited > 0) + One(begun > 0)
  /\ \A f \in 1..MaxFrames :
       f \in open <=> f = waited \/ f = begun \/ (wpc = "got" /\ f = frame)
  /\ waited > 0 => begun < waited
  /\ wpc = "got" => begun < frame /\ frame > 0
  /\ frame_started <=> begun > 0
  /\ mpc = "begin" => seen \in 1..active_wait_frames

FrameInv ==
  /\ FrameTypes
  /\ FrameBounds
  /\ running /\ mpc # "ending" /\ (~has_lost \/ mpc = "begin") => FrameBook

\* The first state has no frames.
LEMMA FrameInit == Init => FrameInv
<1> SUFFICES ASSUME Init PROVE FrameInv
  OBVIOUS
<1>1. FrameTypes
  <2>1. /\ active_wait_frames = 0 /\ waited = 0 /\ begun = 0 /\ frame = 0 /\ seen = 0
        /\ open = {} /\ next_id = 1 /\ sessions = 0 /\ canWaitFrameReturn = 0
        /\ wpc = "idle" /\ mpc = "idle" /\ activity = "ON_RESUME"
    BY DEF Init
  <2>2. {exiting, has_lost, running, frame_started} \subseteq BOOLEAN
    BY DEF Init
  <2> QED
    BY <2>1, <2>2, ConstantsAssumption DEF FrameTypes
<1>2. FrameBounds
  BY ConstantsAssumption DEF Init, FrameBounds, Turns, One
<1> QED
  BY <1>1, <1>2 DEF Init, FrameInv

\* The waiting thread hands the turn on and keeps the book.
LEMMA FrameWaiter ==
  ASSUME FrameInv, WaitFrame \/ WaiterStep \/ SpuriousWakeUp
  PROVE  FrameInv'
<1> USE ConstantsAssumption
    DEF FrameInv, FrameTypes, FrameBounds, FrameBook, Turns, One, NoChange
<1>1. CASE WaitFrame
  BY <1>1 DEF WaitFrame
<1>2. CASE SyncWaitFrame
  BY <1>2 DEF SyncWaitFrame
<1>3. CASE CompositorWaitFrame
  <2>1. /\ wpc = "comp"
        /\ UNCHANGED <<exiting, running, activity, canWaitFrameReturn, active_wait_frames,
                       waited, begun, frame_started, mpc, seen, sessions>>
    BY <1>3 DEF CompositorWaitFrame
  <2>2. CASE /\ wpc' = "got" /\ frame' = next_id /\ next_id' = next_id + 1
             /\ open' = open \union {next_id} /\ UNCHANGED has_lost
    <3>1. FrameTypes'
      BY <2>1, <2>2
    <3>2. FrameBounds'
      BY <2>1, <2>2
    <3>3. FrameBook => FrameBook'
      BY <2>1, <2>2
    <3> QED
      BY <2>1, <2>2, <3>1, <3>2, <3>3
  <2>3. CASE /\ wpc' = "failed" /\ UNCHANGED <<frame, next_id, open>>
             /\ has_lost' \in {has_lost, TRUE}
    BY <2>1, <2>3
  <2> QED
    BY <1>3, <2>2, <2>3 DEF CompositorWaitFrame, Fails
<1>4. CASE WaitFrameDone
  BY <1>4 DEF WaitFrameDone
<1>5. CASE WaitFrameFailed
  BY <1>5 DEF WaitFrameFailed, Release
<1>6. CASE SpuriousWakeUp
  BY <1>6 DEF SpuriousWakeUp
<1> QED
  BY <1>1, <1>2, <1>3, <1>4, <1>5, <1>6 DEF WaiterStep

\* The frame calls of the other thread keep the book, or lose the session.
LEMMA FrameCalls ==
  ASSUME OneSession, FrameInv,
         BeginFrame \/ BeginFrameBody \/ BeginFrameRelease \/ EndFrameEmpty \/ EndFrame
  PROVE  FrameInv'
<1> USE ConstantsAssumption
    DEF FrameInv, FrameTypes, FrameBounds, FrameBook, Turns, One, NoChange, OneSession
<1>1. CASE BeginFrame
  BY <1>1 DEF BeginFrame, Call
<1>2. CASE BeginFrameBody
  <2>1. CASE ~frame_started /\ BeginWaited(active_wait_frames, open, begun)
    <3>0. /\ mpc = "begin" /\ running
          /\ UNCHANGED <<exiting, running, activity, canWaitFrameReturn, wpc, frame, seen,
                         next_id, sessions, active_wait_frames, open>>
          /\ frame_started' = TRUE
          /\ FrameBook
      BY <1>2, <2>1 DEF BeginFrameBody, BeginWaited
    <3>1. CASE begun' = waited /\ waited' = -1 /\ mpc' = "release" /\ UNCHANGED has_lost
      <4>0. waited > 0 /\ begun <= 0
        BY <2>1, <3>0
      <4>1. FrameTypes'
        BY <3>0, <3>1, <4>0
      <4>2. FrameBounds'
        BY <3>0, <3>1, <4>0
      <4>3. FrameBook'
        BY <3>0, <3>1, <4>0
      <4> QED
        BY <4>1, <4>2, <4>3
    <3>2. CASE has_lost' = TRUE /\ UNCHANGED <<begun, waited>> /\ mpc' = "idle"
      BY <3>0, <3>2
    <3> QED
      BY <2>1, <3>1, <3>2 DEF BeginWaited, Fails
  <2>2. CASE /\ frame_started /\ seen # 2
             /\ mpc' = "idle"
             /\ UNCHANGED <<has_lost, active_wait_frames, waited, begun, open>>
    BY <1>2, <2>2 DEF BeginFrameBody
  <2>3. CASE /\ frame_started /\ seen = 2
             /\ BeginWaited(active_wait_frames - 1, open \ {begun}, -1)
    <3>0. /\ mpc = "begin" /\ running
          /\ UNCHANGED <<exiting, running, activity, canWaitFrameReturn, wpc, frame, seen,
                         next_id, sessions>>
          /\ active_wait_frames' = active_wait_frames - 1
          /\ open' = open \ {begun}
          /\ frame_started' = TRUE
          /\ FrameBook
      BY <1>2, <2>3 DEF BeginFrameBody, BeginWaited
    <3>1. waited > 0 /\ begun > 0 /\ active_wait_frames = 2
      BY <2>3, <3>0
    <3>2. CASE begun' = waited /\ waited' = -1 /\ mpc' = "release" /\ UNCHANGED has_lost
      <4>1. FrameTypes'
        BY <3>0, <3>1, <3>2
      <4>2. FrameBounds'
        BY <3>0, <3>1, <3>2
      <4>3. FrameBook'
        BY <3>0, <3>1, <3>2
      <4> QED
        BY <4>1, <4>2, <4>3
    <3>3. CASE has_lost' = TRUE /\ begun' = -1 /\ UNCHANGED waited /\ mpc' = "idle"
      <4>1. FrameTypes'
        BY <3>0, <3>1, <3>3
      <4>2. FrameBounds'
        BY <3>0, <3>1, <3>3
      <4> QED
        BY <3>3, <4>1, <4>2
    <3> QED
      BY <2>3, <3>2, <3>3 DEF BeginWaited, Fails
  <2>4. CASE /\ frame_started /\ seen = 2
             /\ Fails("discard")
             /\ mpc' = "idle"
             /\ UNCHANGED <<active_wait_frames, waited, begun, open>>
    BY <1>2, <2>4 DEF BeginFrameBody, Fails
  <2> QED
    BY <1>2, <2>1, <2>2, <2>3, <2>4 DEF BeginFrameBody
<1>3. CASE BeginFrameRelease
  BY <1>3 DEF BeginFrameRelease, Release
<1>4. CASE EndFrameEmpty
  <2>0. /\ mpc = "idle" /\ running /\ ~has_lost /\ frame_started
        /\ UNCHANGED <<exiting, running, activity, canWaitFrameReturn, wpc, frame, seen,
                       next_id, sessions, waited, mpc>>
    <3> USE DEF SynchronizeStateChange
    <3> QED
      BY <1>4 DEF EndFrameEmpty, Call
  <2>1. FrameBook /\ begun > 0 /\ active_wait_frames > 0
    BY <2>0
  <2>2. CASE /\ open' = open \ {begun} /\ begun' = -1 /\ frame_started' = FALSE
             /\ active_wait_frames' = active_wait_frames - 1 /\ UNCHANGED has_lost
    <3>0. /\ open' \subseteq 1..MaxFrames
          /\ ({exiting, has_lost, running, frame_started} \subseteq BOOLEAN)'
      BY <2>0, <2>2
    <3>1. begun' \in -1..MaxFrames /\ active_wait_frames' \in Nat
      BY <2>1, <2>2
    <3>2. FrameTypes'
      BY <2>0, <3>0, <3>1
    <3>3. FrameBounds'
      BY <2>0, <2>1, <2>2
    <3>4. FrameBook'
      BY <2>0, <2>1, <2>2
    <3> QED
      BY <3>2, <3>3, <3>4
  <2>3. CASE /\ UNCHANGED <<open, begun, frame_started>>
             /\ active_wait_frames' = active_wait_frames - 1 /\ has_lost' = TRUE
    BY <2>0, <2>1, <2>3
  <2> QED
    BY <1>4, <2>2, <2>3 DEF EndFrameEmpty, Fails
<1>5. CASE EndFrame
  <2>0. /\ mpc = "idle" /\ running /\ ~has_lost /\ frame_started
        /\ UNCHANGED <<exiting, running, activity, canWaitFrameReturn, wpc, frame, seen,
                       next_id, sessions, waited, mpc>>
    <3> USE DEF SynchronizeStateChange
    <3> QED
      BY <1>5 DEF EndFrame, Call
  <2>1. FrameBook /\ begun > 0 /\ active_wait_frames > 0
    BY <2>0
  <2>2. CASE /\ open' = open \ {begun} /\ begun' = -1 /\ frame_started' = FALSE
             /\ active_wait_frames' = active_wait_frames - 1 /\ UNCHANGED has_lost
    <3>0. /\ open' \subseteq 1..MaxFrames
          /\ ({exiting, has_lost, running, frame_started} \subseteq BOOLEAN)'
      BY <2>0, <2>2
    <3>1. begun' \in -1..MaxFrames /\ active_wait_frames' \in Nat
      BY <2>1, <2>2
    <3>2. FrameTypes'
      BY <2>0, <3>0, <3>1
    <3>3. FrameBounds'
      BY <2>0, <2>1, <2>2
    <3>4. FrameBook'
      BY <2>0, <2>1, <2>2
    <3> QED
      BY <3>2, <3>3, <3>4
  <2>3. CASE /\ UNCHANGED <<open, begun, frame_started>>
             /\ UNCHANGED active_wait_frames /\ has_lost' \in {has_lost, TRUE}
    BY <2>0, <2>1, <2>3
  <2> QED
    BY <1>5, <2>2, <2>3 DEF EndFrame, Fails
<1> QED
  BY <1>1, <1>2, <1>3, <1>4, <1>5

\* So do the session calls, which begin a session without frames and discard the
\* frames of the one that ends.
LEMMA FrameSession ==
  ASSUME OneSession, FrameInv,
         \/ BeginSession \/ EndSession \/ EndSessionDone \/ RequestExitSession \/ Poll
         \/ PollEvent \/ PollDone \/ ActivityEvent \/ Destroy
  PROVE  FrameInv'
<1> USE ConstantsAssumption
    DEF FrameInv, FrameTypes, FrameBounds, FrameBook, Turns, One, NoChange, OneSession
<1>1. CASE BeginSession
  BY <1>1 DEF BeginSession
<1>2. CASE EndSession
  <2>1. /\ running /\ mpc = "idle" /\ mpc' = "ending"
        /\ UNCHANGED <<exiting, has_lost, running, activity, canWaitFrameReturn, wpc, frame,
                       seen, next_id, sessions, active_wait_frames>>
        /\ frame_started' = FALSE
        /\ open' \subseteq open
        /\ waited' \in {-1, waited} /\ begun' \in {-1, begun}
    BY <1>2 DEF EndSession, Call
  <2>2. open' \subseteq 1..MaxFrames /\ waited' \in -1..MaxFrames /\ begun' \in -1..MaxFrames
    BY <2>1
  <2>3. FrameTypes'
    BY <2>1, <2>2
  <2>4. FrameBounds'
    BY <2>1
  <2> QED
    BY <2>1, <2>3, <2>4
<1>3. CASE EndSessionDone
  BY <1>3 DEF EndSessionDone, Fails
<1>4. CASE RequestExitSession
  BY <1>4 DEF RequestExitSession, RequestExit, Call
<1>5. CASE Poll
  BY <1>5 DEF Poll
<1>6. CASE PollEvent
  BY ZenonT(60), <1>6 DEF PollEvent, RequestExit, Fails
<1>7. CASE PollDone
  BY <1>7 DEF PollDone
<1>8. CASE ActivityEvent
  BY <1>8 DEF ActivityEvent
<1>9. CASE Destroy
  <2>1. FrameTypes'
    BY <1>9 DEF Destroy
  <2>2. FrameBounds'
    BY <1>9 DEF Destroy
  <2> QED
    BY <1>9, <2>1, <2>2 DEF Destroy
<1> QED
  BY <1>1, <1>2, <1>3, <1>4, <1>5, <1>6, <1>7, <1>8, <1>9

\* Every step keeps the book of a session begun once.
LEMMA FrameStep ==
  ASSUME OneSession
  PROVE  FrameInv /\ [Next]_vars => FrameInv'
<1> SUFFICES ASSUME FrameInv, [Next]_vars PROVE FrameInv'
  OBVIOUS
<1>1. CASE UNCHANGED vars
  BY <1>1 DEF vars, FrameInv, FrameTypes, FrameBounds, FrameBook, Turns, One
<1> QED
  BY <1>1, FrameWaiter, FrameCalls, FrameSession DEF Next, CallStep

\* What the book says of the count: the frames waited for and begun, two ids.
LEMMA CountOfTwo ==
  ASSUME NEW a \in Int, NEW b \in Int, a > 0 => b < a
  PROVE  Cardinality({f \in {a, b} : f > 0}) = One(a > 0) + One(b > 0)
<1> DEFINE S == {f \in {a, b} : f > 0}
<1>1. CASE ~(a > 0) /\ ~(b > 0)
  <2>1. S = {}
    BY <1>1
  <2> QED
    BY <1>1, <2>1, FS_EmptySet DEF One
<1>2. CASE a > 0 /\ ~(b > 0)
  <2>1. S = {a}
    BY <1>2
  <2> QED
    BY <1>2, <2>1, FS_Singleton DEF One
<1>3. CASE ~(a > 0) /\ b > 0
  <2>1. S = {b}
    BY <1>3
  <2> QED
    BY <1>3, <2>1, FS_Singleton DEF One
<1>4. CASE a > 0 /\ b > 0
  <2>1. S = {b} \union {a} /\ a \notin {b}
    BY <1>4
  <2>2. IsFiniteSet({b}) /\ Cardinality({b}) = 1
    BY FS_Singleton
  <2>3. Cardinality({b} \union {a}) = 2
    BY <2>1, <2>2, FS_AddElement
  <2> QED
    BY <1>4, <2>1, <2>3 DEF One
<1> QED
  BY <1>1, <1>2, <1>3, <1>4

\* The session's frame ids, its count and the compositor agree on the frames, none
\* of which is lost or given back twice: for every number of frames, in a session
\* that is begun once, where begin, discard and end fail only by losing it.
THEOREM FramesHold ==
  ASSUME OneSession
  PROVE  Spec => []FramesAreSound
<1>1. StateInv /\ FrameInv => FramesAreSound
  <2> SUFFICES ASSUME StateInv, FrameInv PROVE FramesAreSound
    OBVIOUS
  <2>1. TypeOK
    <3>1. active_wait_frames \in 0..2
      BY DEF FrameInv, FrameTypes, FrameBounds, Turns, One
    <3> QED
      BY <3>1 DEF TypeOK, StateInv, Legal, FrameInv, FrameTypes
  <2>2. CASE ~InSession
    BY <2>1, <2>2 DEF FramesAreSound, ActiveIsExact, FramesAccounted
  <2>3. CASE InSession
    <3>1. FrameBook
      BY <2>3 DEF InSession, FrameInv
    <3>2. waited \in Int /\ begun \in Int /\ (waited > 0 => begun < waited)
      BY <3>1, ConstantsAssumption DEF FrameBook, FrameInv, FrameTypes
    <3>3. ActiveIsExact
      BY <3>1, <3>2, CountOfTwo DEF ActiveIsExact, FrameBook
    <3>4. open = {f \in {waited, begun} : f > 0} \union (IF wpc = "got" THEN {frame} ELSE {})
      <4> DEFINE S == {f \in {waited, begun} : f > 0} \union (IF wpc = "got" THEN {frame} ELSE {})
      <4>1. /\ open \subseteq 1..MaxFrames /\ MaxFrames \in Nat
            /\ waited \in -1..MaxFrames /\ begun \in -1..MaxFrames
            /\ frame \in 0..MaxFrames /\ (wpc = "got" => frame > 0)
        BY <3>1, ConstantsAssumption DEF FrameBook, FrameInv, FrameTypes
      <4>2. \A f \in 1..MaxFrames :
              f \in open <=> f = waited \/ f = begun \/ (wpc = "got" /\ f = frame)
        BY <3>1 DEF FrameBook
      <4>3. S \subseteq 1..MaxFrames
        BY <4>1
      <4>4. ASSUME NEW f \in 1..MaxFrames
            PROVE  f \in S <=> f = waited \/ f = begun \/ (wpc = "got" /\ f = frame)
        OBVIOUS
      <4> QED
        BY <4>1, <4>2, <4>3, <4>4
    <3>5. /\ mpc = "begin" /\ (~frame_started \/ seen = 2) => waited > 0
          /\ frame_started => begun > 0
      BY <3>1, ConstantsAssumption DEF FrameBook, FrameInv, FrameTypes, One
    <3> QED
      BY <2>1, <3>3, <3>4, <3>5 DEF FramesAreSound, FramesAccounted
  <2> QED
    BY <2>2, <2>3
<1>2. Init => FrameInv
  BY FrameInit
<1>3. FrameInv /\ [Next]_vars => FrameInv'
  BY FrameStep
<1> QED
  BY <1>1, <1>2, <1>3, StateInit, StateStep, PTL DEF Spec

\* The turn of xrWaitFrame is in exactly one place while the session is running:
\* none is lost and none made up, whoever fails, for every number of frames.
THEOREM OneTurnHolds ==
  ASSUME OneSession
  PROVE  Spec => []OneTurn
<1>1. FrameInv => OneTurn
  <2> SUFFICES ASSUME FrameInv, InSession PROVE Cardinality(Holders) = 1
    BY DEF OneTurn
  <2>1. FrameBook
    BY DEF InSession, FrameInv
  <2>2. PICK h \in {"sync", "waiter", "waited", "begin"} : Holders = {h}
    <3>1. CASE canWaitFrameReturn = 1
      <4>1. Holders = {"sync"}
        BY <2>1, <3>1 DEF FrameBook, Turns, One, Holders
      <4> QED
        BY <4>1
    <3>2. CASE wpc \in {"comp", "got", "failed"}
      <4>1. Holders = {"waiter"}
        BY <2>1, <3>2 DEF FrameBook, Turns, One, Holders
      <4> QED
        BY <4>1
    <3>3. CASE mpc = "release"
      <4>1. Holders = {"begin"}
        BY <2>1, <3>3 DEF FrameBook, Turns, One, Holders
      <4> QED
        BY <4>1
    <3>4. CASE waited > 0
      <4>1. Holders = {"waited"}
        BY <2>1, <3>4 DEF FrameBook, Turns, One, Holders
      <4> QED
        BY <4>1
    <3> QED
      BY <2>1, <3>1, <3>2, <3>3, <3>4 DEF FrameBook, Turns, One
  <2> QED
    BY <2>2, FS_Singleton
<1>2. Init => FrameInv
  BY FrameInit
<1>3. FrameInv /\ [Next]_vars => FrameInv'
  BY FrameStep
<1> QED
  BY <1>1, <1>2, <1>3, PTL DEF Spec

=============================================================================
