---------------------------- MODULE MultiSystem ----------------------------
(***************************************************************************)
(* The system compositor of the multi-client module: the list of client    *)
(* compositors, the count of active sessions, and the render thread, which *)
(* starts and stops the session of the native compositor and, on each      *)
(* frame, gathers the clients to show.                                     *)
(*                                                                         *)
(* A critical section under oth (the thread helper's mutex) is one step.   *)
(* list_and_timing_lock is held by the render thread from "transfer" until *)
(* it has picked the blend mode and copied the layers.  What a client's    *)
(* frames go through is in MultiCompositor.                                *)
(***************************************************************************)
EXTENDS Integers, FiniteSets

CONSTANTS
  Clients,            \* client compositors that may be created
  MULTI_MAX_CLIENTS,  \* length of multi_system_compositor.clients
  do_warm_start

ASSUME ConstantsAssumption ==
  /\ IsFiniteSet(Clients)
  /\ MULTI_MAX_CLIENTS \in Nat
  /\ do_warm_start \in BOOLEAN

VARIABLES
  state,          \* sessions.state
  active_count,   \* sessions.active_count
  native,         \* calls to begin_session less calls to end_session on xcn
  running,        \* oth is running
  woken,          \* oth's condition was signalled since the thread slept
  mpc,            \* the render thread
  array,          \* the clients it gathered in transfer_layers_locked
  cpc,            \* the thread of each client
  listed,         \* the clients in multi_system_compositor.clients
  session_active,
  visible,
  focused,
  setting         \* the value set_state has yet to write to focused, "none"
                  \* when no thread is in set_state

threadVars == <<state, native, running, mpc, array>>
countVars == <<active_count, woken>>
stateVars == <<visible, focused, setting>>
vars == <<threadVars, countVars, cpc, listed, session_active, stateVars>>

-----------------------------------------------------------------------------
(* The render thread, multi_main_loop.                                     *)

\* The session goes from one state to the next; calls is 1 when the native
\* session is begun on the way, -1 when it is ended.
Change(from, to, calls) ==
  /\ state = from
  /\ state' = to
  /\ native' = native + calls

\* Mutants of NextState: a session that is restarted while stopping is begun again;
\* the stop is decided without looking at the count again.
NextStateBeginsAgain ==
  \/ Change("INIT_WARM_START", "STOPPING", 1)
  \/ /\ active_count > 0
     /\ \/ Change("STOPPED", "RUNNING", 1)
        \/ Change("RUNNING", "RUNNING", 0)
        \/ Change("STOPPING", "RUNNING", 1)
  \/ /\ active_count = 0
     /\ \/ Change("STOPPED", "STOPPED", 0)
        \/ Change("RUNNING", "STOPPING", 0)
        \/ Change("STOPPING", "STOPPED", -1)

NextStateNoRestart ==
  \/ Change("INIT_WARM_START", "STOPPING", 1)
  \/ Change("STOPPING", "STOPPED", -1)
  \/ /\ active_count > 0
     /\ Change("STOPPED", "RUNNING", 1) \/ Change("RUNNING", "RUNNING", 0)
  \/ /\ active_count = 0
     /\ Change("STOPPED", "STOPPED", 0) \/ Change("RUNNING", "STOPPING", 0)

\* update_session_state_locked
NextState ==
  \/ Change("INIT_WARM_START", "STOPPING", 1)
  \/ /\ active_count > 0
     /\ \/ Change("STOPPED", "RUNNING", 1)
        \/ Change("RUNNING", "RUNNING", 0)
        \/ Change("STOPPING", "RUNNING", 0)
  \/ /\ active_count = 0
     /\ \/ Change("STOPPED", "STOPPED", 0)
        \/ Change("RUNNING", "STOPPING", 0)
        \/ Change("STOPPING", "STOPPED", -1)

\* The top of the loop: update the state, then sleep or draw a frame.
UpdateSessionState ==
  /\ mpc = "check" /\ running
  /\ NextState
  /\ mpc' = IF state' = "STOPPED" THEN "sleep" ELSE "render"
  /\ woken' = FALSE
  /\ UNCHANGED <<running, array, active_count, cpc, listed, session_active, stateVars>>

\* os_thread_helper_wait_locked returns: signalled, or for no reason.
WakeUp ==
  /\ mpc = "sleep"
  /\ mpc' = "check"
  /\ UNCHANGED <<state, native, running, array, countVars, cpc, listed, session_active, stateVars>>

\* Predict the frame, broadcast the timings, wait, begin the frame.
RenderFrame ==
  /\ mpc = "render"
  /\ mpc' = "transfer"
  /\ UNCHANGED <<state, native, running, array, countVars, cpc, listed, session_active, stateVars>>

\* transfer_layers_locked: take the listed clients that have a delivered frame
\* (any of them may), are visible and have an active session ...
TransferLayers ==
  /\ mpc = "transfer"
  /\ \E ready \in SUBSET listed :
       array' = {c \in ready : visible[c] /\ session_active[c]}
  /\ mpc' = "blend"
  /\ UNCHANGED <<state, native, running, countVars, cpc, listed, session_active, stateVars>>

\* ... find_active_blend_mode reads focused and visible again; then the layers
\* are copied from the clients in the array, the lock is released and the frame
\* committed.
FindBlendMode ==
  /\ mpc = "blend"
  /\ array' = {}
  /\ mpc' = "check"
  /\ UNCHANGED <<state, native, running, countVars, cpc, listed, session_active, stateVars>>

\* After the loop: clean up the native session.
CleanUp ==
  /\ mpc = "check" /\ ~running
  /\ native' = native - (IF state = "STOPPED" THEN 0 ELSE 1)
  /\ mpc' = "exited"
  /\ UNCHANGED <<state, running, array, countVars, cpc, listed, session_active, stateVars>>

\* Mutant of SystemDestroy: the sleeping thread is not signalled.
SystemDestroyNoSignal ==
  /\ running
  /\ running' = FALSE
  /\ UNCHANGED <<state, native, mpc, array, countVars, cpc, listed, session_active, stateVars>>

\* system_compositor_destroy: os_thread_helper_destroy stops, wakes and joins
\* the thread.  What remains is freed then, and the model stops.
SystemDestroy ==
  /\ running
  /\ running' = FALSE
  /\ woken' = TRUE
  /\ UNCHANGED <<state, native, mpc, array, active_count, cpc, listed, session_active, stateVars>>

-----------------------------------------------------------------------------
(* The threads of the clients.                                             *)

Alive == mpc # "exited"
ListLockFree == mpc # "blend"

Goto(c, from, to) ==
  /\ Alive
  /\ cpc[c] = from
  /\ cpc' = [cpc EXCEPT ![c] = to]

\* multi_compositor_create: joins the list while there is room in it.
Create(c) ==
  /\ Goto(c, "none", "idle")
  /\ ListLockFree
  /\ listed' = IF Cardinality(listed) < MULTI_MAX_CLIENTS THEN listed \cup {c} ELSE listed
  /\ visible' = [visible EXCEPT ![c] = FALSE]
  /\ focused' = [focused EXCEPT ![c] = FALSE]
  /\ session_active' = [session_active EXCEPT ![c] = FALSE]
  /\ UNCHANGED <<threadVars, countVars, setting>>

\* Mutant of UpdateSessionStatus: the sleeping thread is not signalled.
UpdateSessionStatusNoSignal(active) ==
  /\ active_count' = active_count + (IF active THEN 1 ELSE -1)
  /\ UNCHANGED woken

\* multi_system_compositor_update_session_status; that the count is not zero
\* when it is decremented is TypeOK.
UpdateSessionStatus(active) ==
  IF active
  THEN /\ active_count' = active_count + 1
       /\ woken' = TRUE
  ELSE /\ active_count' = active_count - 1
       /\ UNCHANGED woken

\* multi_compositor_begin_session: count the session, then set the flag.
BeginSession(c) ==
  /\ ~session_active[c]
  /\ Goto(c, "idle", "begin")
  /\ UpdateSessionStatus(TRUE)
  /\ UNCHANGED <<threadVars, listed, session_active, stateVars>>

BeginSessionFlag(c) ==
  /\ Goto(c, "begin", "idle")
  /\ session_active' = [session_active EXCEPT ![c] = TRUE]
  /\ UNCHANGED <<threadVars, countVars, listed, stateVars>>

\* multi_compositor_end_session
EndSession(c) ==
  /\ session_active[c]
  /\ Goto(c, "idle", "end")
  /\ UpdateSessionStatus(FALSE)
  /\ UNCHANGED <<threadVars, listed, session_active, stateVars>>

EndSessionFlag(c) ==
  /\ Goto(c, "end", "idle")
  /\ session_active' = [session_active EXCEPT ![c] = FALSE]
  /\ UNCHANGED <<threadVars, countVars, listed, stateVars>>

\* Mutant of Destroy: the count keeps a session that was active when its
\* compositor was destroyed.
DestroyNoEnd(c) ==
  /\ Goto(c, "idle", "destroy")
  /\ UNCHANGED <<threadVars, countVars, listed, session_active, stateVars>>

\* multi_compositor_destroy: ends a session that is still active, ...
Destroy(c) ==
  /\ \/ /\ session_active[c]
        /\ Goto(c, "idle", "destroy")
        /\ UpdateSessionStatus(FALSE)
     \/ /\ ~session_active[c]
        /\ Goto(c, "idle", "unlist")
        /\ UNCHANGED countVars
  /\ UNCHANGED <<threadVars, listed, session_active, stateVars>>

DestroyFlag(c) ==
  /\ Goto(c, "destroy", "unlist")
  /\ session_active' = [session_active EXCEPT ![c] = FALSE]
  /\ UNCHANGED <<threadVars, countVars, listed, stateVars>>

\* Mutant of DestroyUnlist: without list_and_timing_lock.
DestroyUnlistNoLock(c) ==
  /\ Goto(c, "unlist", "none")
  /\ listed' = listed \ {c}
  /\ UNCHANGED <<threadVars, countVars, session_active, stateVars>>

\* ... and leaves the list; then it is freed.  Nothing keeps a call of set_state
\* from being in progress; what it still writes goes to memory that the next
\* compositor may have been given.
DestroyUnlist(c) ==
  /\ Goto(c, "unlist", "none")
  /\ ListLockFree
  /\ listed' = listed \ {c}
  /\ UNCHANGED <<threadVars, countVars, session_active, stateVars>>

\* system_compositor_set_state, on any thread of the server and without a lock:
\* writes visible ...
SetState(c, v) ==
  /\ Alive
  /\ cpc[c] # "none"
  /\ setting[c] = "none"
  /\ visible[c] # v \/ focused[c] # v
  /\ visible' = [visible EXCEPT ![c] = v]
  /\ setting' = [setting EXCEPT ![c] = IF v THEN "true" ELSE "false"]
  /\ UNCHANGED <<threadVars, countVars, cpc, listed, session_active, focused>>

\* ... then focused.
SetStateFocused(c) ==
  /\ Alive
  /\ setting[c] # "none"
  /\ focused' = [focused EXCEPT ![c] = setting[c] = "true"]
  /\ setting' = [setting EXCEPT ![c] = "none"]
  /\ UNCHANGED <<threadVars, countVars, cpc, listed, session_active, visible>>

-----------------------------------------------------------------------------

\* comp_multi_create_system_compositor
Init ==
  /\ state = IF do_warm_start THEN "INIT_WARM_START" ELSE "STOPPED"
  /\ active_count = 0
  /\ native = 0
  /\ running = TRUE
  /\ woken = FALSE
  /\ mpc = "check"
  /\ array = {}
  /\ cpc = [c \in Clients |-> "none"]
  /\ listed = {}
  /\ session_active = [c \in Clients |-> FALSE]
  /\ visible = [c \in Clients |-> FALSE]
  /\ focused = [c \in Clients |-> FALSE]
  /\ setting = [c \in Clients |-> "none"]

RenderThread ==
  UpdateSessionState \/ RenderFrame \/ TransferLayers \/ FindBlendMode \/ CleanUp

ClientThread(c) ==
  \/ Create(c) \/ BeginSession(c) \/ EndSession(c) \/ Destroy(c)
  \/ BeginSessionFlag(c) \/ EndSessionFlag(c) \/ DestroyFlag(c) \/ DestroyUnlist(c)
  \/ (\E v \in BOOLEAN : SetState(c, v)) \/ SetStateFocused(c)

Next ==
  \/ RenderThread \/ WakeUp \/ SystemDestroy
  \/ \E c \in Clients : ClientThread(c)

\* The render thread runs when it can, and wakes up once it was signalled; it
\* may wake up unsignalled, but need not.
Fairness == WF_vars(RenderThread) /\ WF_vars(woken /\ WakeUp)

Spec == Init /\ [][Next]_vars
FairSpec == Spec /\ Fairness

-----------------------------------------------------------------------------
(* Properties.                                                             *)

TypeOK ==
  /\ state \in {"INIT_WARM_START", "STOPPED", "RUNNING", "STOPPING"}
  /\ active_count \in Nat
  /\ native \in Int
  /\ running \in BOOLEAN
  /\ woken \in BOOLEAN
  /\ mpc \in {"check", "sleep", "render", "transfer", "blend", "exited"}
  /\ array \in SUBSET Clients
  /\ cpc \in [Clients -> {"none", "idle", "begin", "end", "destroy", "unlist"}]
  /\ listed \in SUBSET Clients
  /\ session_active \in [Clients -> BOOLEAN]
  /\ visible \in [Clients -> BOOLEAN]
  /\ focused \in [Clients -> BOOLEAN]
  /\ setting \in [Clients -> {"none", "true", "false"}]

\* The clients whose session counts: those with the flag, those about to set
\* it, but not those about to clear it.
Counted ==
  {c \in Clients : \/ cpc[c] = "begin"
                   \/ session_active[c] /\ cpc[c] \notin {"end", "destroy"}}

\* active_count is the number of active sessions at all times, whichever way
\* sessions end, so it never underflows and the native session follows it.
CountIsExact == active_count = Cardinality(Counted)

\* begin_session and end_session on the native compositor alternate: its
\* session is begun in exactly the states in which frames are drawn.
NativeFollowsState ==
  mpc # "exited" => native = IF state \in {"RUNNING", "STOPPING"} THEN 1 ELSE 0

\* Frames are drawn only in a begun native session.
DrawsOnlyInSession == mpc \in {"render", "transfer", "blend"} => native = 1

\* A client whose layers are being transferred is not freed meanwhile.
TransferredClientsExist ==
  \A c \in array : c \in listed /\ cpc[c] # "none"

\* The native session is never stopped under an active session: end_session is
\* called only when no session counts, or when the system is destroyed.
EndsOnlyWhenIdle ==
  [][native' < native => Counted = {} \/ ~running]_vars

\* Once the thread has ended the native session is not left begun.  (It may have
\* been ended without having been begun: from INIT_WARM_START the clean-up calls
\* end_session all the same.)
EndedAtExit == mpc = "exited" => native <= 0

\* The native session and the state machine of the render thread agree: it is begun
\* once before frames are drawn, ended once, and not left begun at the end.
NativeIsPaired == TypeOK /\ NativeFollowsState /\ DrawsOnlyInSession /\ EndedAtExit

\* No wake-up is lost: when a session is active the native session is begun,
\* unless all sessions end first or the system is destroyed.
ActiveLeadsToNative == (active_count > 0) ~> (native = 1 \/ active_count = 0 \/ ~running)

\* When no session is active the native session is ended.
IdleLeadsToStopped == (active_count = 0) ~> (native = 0 \/ active_count > 0 \/ ~running)

\* The native session is begun and ended as the clients' sessions come and go.
NativeFollowsSessions == ActiveLeadsToNative /\ IdleLeadsToStopped

\* A destroyed system's thread ends.
DestroyedThreadEnds == ~running ~> (mpc = "exited")

\* comp_multi_system.c: assert(mc->state.visible), when a gathered client is
\* focused.
FocusedIsVisible ==
  mpc = "blend" => \A c \in array : focused[c] => visible[c]
=============================================================================
