----------------------------- MODULE IpcServer -----------------------------
(***************************************************************************)
(* The Monado service: its main thread, which accepts connections, and one *)
(* thread per connected client, which serves that client's commands.       *)
(* They share the slot array ipc_server.threads and global_state, guarded  *)
(* by global_state.lock.                                                   *)
(*                                                                         *)
(* A critical section is one step, taken when the lock is free.  The one   *)
(* exception is handle_client_connected, which joins an old thread while   *)
(* it holds the lock: there the lock is held across two steps.  What the   *)
(* code does outside the lock is a step of its own.                        *)
(*                                                                         *)
(* session_visible and session_focused are always written together with    *)
(* the same value, so one variable, shown, stands for both; compShown is   *)
(* the pair as the client's compositor was last told it.                   *)
(***************************************************************************)
EXTENDS Integers, FiniteSets

CONSTANTS
  NumSlots,          \* IPC_MAX_CLIENTS, the length of ipc_server.threads
  IdModulus,         \* client ids are counted modulo this (2^32 in the code)
  MaxConnects,       \* bound: connections accepted in one behaviour
  MaxSessions,       \* bound: sessions one connection creates
  Failures,          \* which of "shm" and "epoll" may fail
  exit_on_disconnect,
  exit_when_idle

ASSUME ConstantsAssumption ==
  /\ NumSlots \in Nat \ {0}
  /\ IdModulus \in Nat /\ IdModulus > NumSlots
  /\ MaxConnects \in Nat
  /\ MaxSessions \in Nat
  /\ Failures \subseteq {"shm", "epoll"}
  /\ exit_on_disconnect \in BOOLEAN
  /\ exit_when_idle \in BOOLEAN

VARIABLES
  running,      \* ipc_server.running
  mainPc,       \* "poll", "join", "freed"
  joining,      \* the slot whose thread main joins, None when it does not
  lock,         \* global_state.lock: "free" or "main" (held across the join)
  connects,     \* how many connections were accepted, for MaxConnects
  id_generator,
  activeIdx,    \* global_state.active_client_index
  lastIdx,      \* global_state.last_active_client_index
  count,        \* global_state.connected_client_count
  lastDisc,     \* last_client_disconnect_ns > 0
  sleepers,     \* delayed_exit_threads asleep: "fresh" (no client connected
                \* since it fell asleep) and "stale" (one did)
  exiting,      \* a delayed_exit_thread found should_exit and is about to stop
                \* the server
  earlyExit,    \* the one that did so was stale
  tstate,       \* threads[i].state
  used,         \* threads[i].ics.server_thread_index >= 0
  tpc,          \* where the thread of slot i is
  id,           \* client_state.id
  active,       \* client_state.session_active
  overlay,      \* client_state.session_overlay
  shown,        \* client_state.session_visible and session_focused
  xc,           \* ics.xc (and ics.xs): "null", "live", or "freed" when the
                \* pointer is still set to a destroyed compositor
  compShown,    \* what the compositor of slot i was last told of shown
  mainVis,      \* what it was last told of the main application
  arg,          \* session_create: the value of shown it read
  sessions,     \* sessions created on this connection, for MaxSessions
  staleUse      \* slots whose destroyed compositor was called

globalVars == <<running, mainPc, joining, lock, connects, id_generator>>
focusVars == <<activeIdx, lastIdx>>
idleVars == <<count, lastDisc, sleepers, exiting, earlyExit>>
threadVars == <<tstate, used, tpc>>
clientVars == <<id, active, overlay, shown, xc, compShown, mainVis, arg, sessions>>
vars == <<globalVars, focusVars, idleVars, threadVars, clientVars, staleUse>>

None == -1
Slots == 0 .. NumSlots - 1

-----------------------------------------------------------------------------
(* Focus: which client is the primary application.                         *)

LockFree == lock = "free" /\ mainPc # "freed"

\* The application the server falls back to: the last one in the array.
Fallbacks(act) == {i \in Slots : ~overlay[i] /\ used[i] /\ act[i]}

LastOf(S) == CHOOSE i \in S : \A j \in S : j <= i

\* Mutant: keeps the current application even when its session has ended.
ChooseActiveSticky(cur, act) ==
  LET apps == Fallbacks(act)
  IN  IF apps = {} \/ cur = None THEN None
      ELSE IF ~overlay[cur] THEN cur
      ELSE LastOf(apps)

\* What update_server_state_locked makes of the active client index cur.
ChooseActive(cur, act) ==
  LET apps == Fallbacks(act)
  IN  IF apps = {} \/ cur = None THEN None
      ELSE IF ~overlay[cur] /\ act[cur] THEN cur
      ELSE LastOf(apps)

\* Mutant: compositors are told when they become visible, not when hidden.
TellClientsOnlyShown(S, act, last) ==
  LET show(i) == i = act \/ overlay[i]
      told(i) == i \in S /\ xc[i] # "null"
  IN  /\ shown' = [i \in Slots |-> IF i \in S THEN show(i) ELSE shown[i]]
      /\ compShown' = [i \in Slots |-> compShown[i] \/ (told(i) /\ show(i))]
      /\ mainVis' = [i \in Slots |->
           IF told(i) /\ overlay[i] /\ (act # None \/ last # None)
           THEN act # None ELSE mainVis[i]]
      /\ staleUse' = staleUse \cup {i \in S : xc[i] = "freed"}

\* Mutant: overlays are told that a main application came, not that it left.
TellClientsNoMainGone(S, act, last) ==
  LET show(i) == i = act \/ overlay[i]
      told(i) == i \in S /\ xc[i] # "null"
  IN  /\ shown' = [i \in Slots |-> IF i \in S THEN show(i) ELSE shown[i]]
      /\ compShown' = [i \in Slots |-> IF told(i) THEN show(i) ELSE compShown[i]]
      /\ mainVis' = [i \in Slots |->
           mainVis[i] \/ (told(i) /\ overlay[i] /\ act # None)]
      /\ staleUse' = staleUse \cup {i \in S : xc[i] = "freed"}

\* handle_focused_client_events and handle_overlay_client_events on the
\* clients in S, with the given indices of the active and last active client.
TellClients(S, act, last) ==
  LET show(i) == i = act \/ overlay[i]
      told(i) == i \in S /\ xc[i] # "null"
  IN  /\ shown' = [i \in Slots |-> IF i \in S THEN show(i) ELSE shown[i]]
      /\ compShown' = [i \in Slots |-> IF told(i) THEN show(i) ELSE compShown[i]]
      /\ mainVis' = [i \in Slots |->
           IF told(i) /\ overlay[i] /\ (act # None \/ last # None)
           THEN act # None ELSE mainVis[i]]
      /\ staleUse' = staleUse \cup {i \in S : xc[i] = "freed"}

\* update_server_state_locked with active client index cur, and act the
\* session_active flags: the early-out, the choice, the flush to all clients.
UpdateServerState(cur, act) ==
  IF cur # None /\ act[cur] /\ cur = lastIdx
  THEN activeIdx' = cur /\ UNCHANGED <<lastIdx, shown, compShown, mainVis, staleUse>>
  ELSE LET chosen == ChooseActive(cur, act)
       IN  /\ activeIdx' = chosen
           /\ lastIdx' = chosen
           /\ TellClients({i \in Slots : used[i]}, chosen, lastIdx)

\* set_active_client_locked for the client in slot i.
SetActiveClient(i, act) ==
  IF i # activeIdx
  THEN UpdateServerState(i, act)
  ELSE UNCHANGED <<focusVars, shown, compShown, mainVis, staleUse>>

-----------------------------------------------------------------------------
(* The main thread.                                                        *)

\* Mutant: skips zero when the generator wraps, but not ids in use.
NextIdNoSearch ==
  IF (id_generator + 1) % IdModulus = 0 THEN 1 ELSE (id_generator + 1) % IdModulus

\* allocate_id_locked: the first id after the generator that is neither zero
\* nor in use.
NextId ==
  LET free(n) == LET v == (id_generator + n) % IdModulus
                 IN  v # 0 /\ \A i \in Slots : id[i] # v
      step == CHOOSE n \in 1 .. IdModulus :
                free(n) /\ \A m \in 1 .. IdModulus : free(m) => n <= m
  IN  (id_generator + step) % IdModulus

FirstOf(S) == CHOOSE i \in S : \A j \in S : i <= j
FreeSlots == {i \in Slots : ~used[i]}

\* The tail of ipc_server_handle_client_connected for slot i: reset the client
\* state and start its thread, unless the shared memory cannot be made.
StartClient(i) ==
  /\ tstate' = [tstate EXCEPT ![i] = "STARTING"]
  /\ id' = [id EXCEPT ![i] = NextId]
  /\ id_generator' = NextId
  /\ used' = [used EXCEPT ![i] = TRUE]
  /\ active' = [active EXCEPT ![i] = FALSE]
  /\ overlay' = [overlay EXCEPT ![i] = FALSE]
  /\ shown' = [shown EXCEPT ![i] = FALSE]
  /\ xc' = [xc EXCEPT ![i] = "null"]
  /\ sessions' = [sessions EXCEPT ![i] = 0]
  /\ \/ tpc' = [tpc EXCEPT ![i] = "setup"]
     \/ "shm" \in Failures /\ tpc' = [tpc EXCEPT ![i] = "none"]
  /\ UNCHANGED <<compShown, mainVis, arg>>

\* ipc_server_handle_client_connected, on the main thread, up to the join:
\* count the client and look for a slot whose server_thread_index is -1.
HandleClientConnected ==
  /\ mainPc = "poll" /\ LockFree
  /\ connects < MaxConnects
  /\ connects' = connects + 1
  /\ count' = count + 1
  /\ lastDisc' = FALSE
  /\ sleepers' = IF sleepers = {} THEN {} ELSE {"stale"}
  /\ \/ /\ FreeSlots = {}                       \* "Max client count reached!"
        /\ UNCHANGED <<mainPc, joining, lock, id_generator, threadVars, clientVars>>
     \/ /\ FreeSlots # {} /\ tstate[FirstOf(FreeSlots)] = "READY"
        /\ StartClient(FirstOf(FreeSlots))
        /\ UNCHANGED <<mainPc, joining, lock>>
     \/ /\ FreeSlots # {} /\ tstate[FirstOf(FreeSlots)] = "STOPPING"
        /\ mainPc' = "join"
        /\ joining' = FirstOf(FreeSlots)
        /\ lock' = "main"
        /\ UNCHANGED <<id_generator, threadVars, clientVars>>
  /\ UNCHANGED <<running, focusVars, exiting, earlyExit, staleUse>>

\* Mutant: the slot is handed over without a join.
JoinOldThreadNoWait ==
  /\ mainPc = "join"
  /\ StartClient(joining)
  /\ mainPc' = "poll"
  /\ joining' = None
  /\ lock' = "free"
  /\ UNCHANGED <<running, connects, focusVars, idleVars, staleUse>>

\* os_thread_join returns once the old thread of the slot has returned.
JoinOldThread ==
  /\ mainPc = "join"
  /\ tpc[joining] = "exited"
  /\ StartClient(joining)
  /\ mainPc' = "poll"
  /\ joining' = None
  /\ lock' = "free"
  /\ UNCHANGED <<running, connects, focusVars, idleVars, staleUse>>

\* ipc_server_handle_shutdown_signal (data on stdin) and, when accept() or
\* epoll_wait() fails, ipc_server_handle_failure.
HandleShutdownSignal ==
  /\ mainPc = "poll" /\ running
  /\ running' = FALSE
  /\ UNCHANGED <<mainPc, joining, lock, connects, id_generator, focusVars,
                 idleVars, threadVars, clientVars, staleUse>>

\* main_loop ends, teardown_all, free(s).  It waits for no client thread; the
\* process returns from main() right after and the model stops here.
Teardown ==
  /\ mainPc = "poll" /\ ~running
  /\ mainPc' = "freed"
  /\ UNCHANGED <<running, joining, lock, connects, id_generator, focusVars,
                 idleVars, threadVars, clientVars, staleUse>>

-----------------------------------------------------------------------------
(* The thread of the client in slot i.                                     *)

Alive == mainPc # "freed"

Goto(i, from, to) ==
  /\ Alive
  /\ tpc[i] = from
  /\ tpc' = [tpc EXCEPT ![i] = to]

\* client_loop: claim the socket.  On failure the thread returns at once.
SetupEpoll(i) ==
  /\ \/ Goto(i, "setup", "loop")
     \/ "epoll" \in Failures /\ Goto(i, "setup", "exited")
  /\ UNCHANGED <<globalVars, focusVars, idleVars, tstate, used, clientVars, staleUse>>

\* client_loop ends: the client hung up or sent something invalid, or the
\* server is stopping.
LeaveLoop(i) ==
  /\ Goto(i, "loop", "closing")
  /\ UNCHANGED <<globalVars, focusVars, idleVars, tstate, used, clientVars, staleUse>>

\* ipc_handle_session_create, without the lock: records the kind of session, ...
SessionCreate(i, is_overlay) ==
  /\ xc[i] = "null"
  /\ sessions[i] < MaxSessions
  /\ Goto(i, "loop", "create_store")
  /\ sessions' = [sessions EXCEPT ![i] = @ + 1]
  /\ overlay' = [overlay EXCEPT ![i] = is_overlay]
  /\ UNCHANGED <<globalVars, focusVars, idleVars, tstate, used, id, active,
                 shown, xc, compShown, mainVis, arg, staleUse>>

\* ... stores the new compositor, ...
SessionCreateStore(i) ==
  /\ Goto(i, "create_store", "create_read")
  /\ xc' = [xc EXCEPT ![i] = "live"]
  /\ compShown' = [compShown EXCEPT ![i] = FALSE]
  /\ mainVis' = [mainVis EXCEPT ![i] = FALSE]
  /\ UNCHANGED <<globalVars, focusVars, idleVars, tstate, used, id, active,
                 overlay, shown, arg, sessions, staleUse>>

\* ... reads session_visible and session_focused ...
SessionCreateRead(i) ==
  /\ Goto(i, "create_read", "create_set")
  /\ arg' = [arg EXCEPT ![i] = shown[i]]
  /\ UNCHANGED <<globalVars, focusVars, idleVars, tstate, used, id, active,
                 overlay, shown, xc, compShown, mainVis, sessions, staleUse>>

\* ... and passes what it read to xrt_syscomp_set_state.
SessionCreateSetState(i) ==
  /\ Goto(i, "create_set", "loop")
  /\ compShown' = [compShown EXCEPT ![i] = arg[i]]
  /\ arg' = [arg EXCEPT ![i] = FALSE]
  /\ UNCHANGED <<globalVars, focusVars, idleVars, tstate, used, id, active,
                 overlay, shown, xc, mainVis, sessions, staleUse>>

\* ipc_handle_compositor_predict_frame: ipc_server_activate_session returns
\* at once when the session is active, a check made without the lock.
PredictFrame(i) ==
  /\ xc[i] = "live"
  /\ Goto(i, "loop", IF active[i] THEN "predicted" ELSE "activate")
  /\ UNCHANGED <<globalVars, focusVars, idleVars, tstate, used, clientVars, staleUse>>

\* ipc_server_activate_session under the lock.
ActivateSession(i) ==
  LET act == [active EXCEPT ![i] = TRUE]
  IN  /\ LockFree
      /\ Goto(i, "activate", "predicted")
      /\ active' = act
      /\ IF overlay[i]
         THEN TellClients({i}, activeIdx, lastIdx) /\ UNCHANGED focusVars
         ELSE SetActiveClient(i, act)
      /\ UNCHANGED <<globalVars, idleVars, tstate, used, id, overlay, xc, arg, sessions>>

\* xrt_comp_predict_frame itself, and the reply.
PredictFrameReturn(i) ==
  /\ Goto(i, "predicted", "loop")
  /\ UNCHANGED <<globalVars, focusVars, idleVars, tstate, used, clientVars, staleUse>>

\* ipc_handle_system_set_primary_client, sent by client i for client j.
SetPrimaryClient(i, j) ==
  /\ LockFree
  /\ tpc[i] = "loop"
  /\ id[j] # 0
  /\ SetActiveClient(j, active)
  /\ UNCHANGED <<globalVars, idleVars, threadVars, id, active, overlay, xc, arg, sessions>>

\* ipc_handle_session_destroy: fails without a session, else calls
\* ipc_server_client_destroy_session_and_compositor.
SessionDestroy(i) ==
  /\ xc[i] = "live"
  /\ Goto(i, "loop", "destroy_refs")
  /\ UNCHANGED <<globalVars, focusVars, idleVars, tstate, used, clientVars, staleUse>>

\* ipc_server_client_destroy_session_and_compositor drops the swapchains,
\* semaphores and futures under the lock ...
DestroyRefs(i) ==
  /\ LockFree
  /\ Goto(i, "destroy_refs", "destroy_comp")
  /\ UNCHANGED <<globalVars, focusVars, idleVars, tstate, used, clientVars, staleUse>>

\* ... then destroys the compositor outside it ...
DestroyComp(i) ==
  /\ Goto(i, "destroy_comp", "destroy_null")
  /\ xc' = [xc EXCEPT ![i] = IF @ = "live" THEN "freed" ELSE @]
  /\ UNCHANGED <<globalVars, focusVars, idleVars, tstate, used, id, active,
                 overlay, shown, compShown, mainVis, arg, sessions, staleUse>>

\* ... and only then clears the pointer, and destroys the session.  The caller
\* is the command loop, or common_shutdown when the slot was given up.
DestroyNull(i) ==
  /\ Goto(i, "destroy_null", IF used[i] THEN "loop" ELSE "exit_check")
  /\ xc' = [xc EXCEPT ![i] = "null"]
  /\ compShown' = [compShown EXCEPT ![i] = FALSE]
  /\ mainVis' = [mainVis EXCEPT ![i] = FALSE]
  /\ UNCHANGED <<globalVars, focusVars, idleVars, tstate, used, id, active,
                 overlay, shown, arg, sessions, staleUse>>

\* common_shutdown under the lock: give up the slot, zero the client state.
CommonShutdown(i) ==
  /\ LockFree
  /\ Goto(i, "closing", "destroy_refs")
  /\ tstate' = [tstate EXCEPT ![i] = "STOPPING"]
  /\ used' = [used EXCEPT ![i] = FALSE]
  /\ id' = [id EXCEPT ![i] = 0]
  /\ active' = [active EXCEPT ![i] = FALSE]
  /\ overlay' = [overlay EXCEPT ![i] = FALSE]
  /\ shown' = [shown EXCEPT ![i] = FALSE]
  /\ count' = count - 1
  /\ sessions' = [sessions EXCEPT ![i] = 0]
  /\ UNCHANGED <<globalVars, focusVars, lastDisc, sleepers, exiting, earlyExit, xc,
                 compShown, mainVis, arg, staleUse>>

\* common_shutdown, no lock: exit_on_disconnect, then the idle check.
ExitCheck(i) ==
  /\ Goto(i, "exit_check",
          IF exit_when_idle /\ count = 0 THEN "idle_write" ELSE "deactivate")
  /\ running' = (running /\ ~exit_on_disconnect)
  /\ UNCHANGED <<mainPc, joining, lock, connects, id_generator, focusVars,
                 idleVars, tstate, used, clientVars, staleUse>>

\* Mutant: the time is stamped but no thread is started.
StartDelayedExitNoThread(i) ==
  /\ Goto(i, "idle_write", "deactivate")
  /\ lastDisc' = TRUE
  /\ UNCHANGED <<globalVars, focusVars, count, sleepers, exiting, earlyExit, tstate,
                 used,
                 clientVars, staleUse>>

\* It stamps last_client_disconnect_ns and starts a delayed_exit_thread.
StartDelayedExit(i) ==
  /\ Goto(i, "idle_write", "deactivate")
  /\ lastDisc' = TRUE
  /\ sleepers' = sleepers \cup {"fresh"}
  /\ UNCHANGED <<globalVars, focusVars, count, exiting, earlyExit, tstate, used,
                 clientVars, staleUse>>

\* Mutant: the server state is not updated.
DeactivateSessionNoUpdate(i) ==
  /\ LockFree
  /\ Goto(i, "deactivate", "exited")
  /\ active' = [active EXCEPT ![i] = FALSE]
  /\ UNCHANGED <<globalVars, focusVars, idleVars, tstate, used, id, overlay, shown,
                 xc, compShown, mainVis, arg, sessions, staleUse>>

\* ipc_server_deactivate_session, the last thing a client thread does.
DeactivateSession(i) ==
  LET act == [active EXCEPT ![i] = FALSE]
  IN  /\ LockFree
      /\ Goto(i, "deactivate", "exited")
      /\ active' = act
      /\ UpdateServerState(activeIdx, act)
      /\ UNCHANGED <<globalVars, idleVars, tstate, used, id, overlay, xc, arg, sessions>>

\* Mutant: does not look at the client count again after the sleep.
DelayedExitNoRecheck(kind) ==
  /\ LockFree
  /\ kind \in sleepers
  /\ \E rest \in {sleepers, sleepers \ {kind}} : sleepers' = rest
  /\ exiting' = (exiting \/ lastDisc)
  /\ earlyExit' = (earlyExit \/ (lastDisc /\ kind = "stale"))
  /\ UNCHANGED <<globalVars, focusVars, count, lastDisc, threadVars, clientVars, staleUse>>

\* delayed_exit_thread wakes and checks, under the lock, that there still are no
\* clients.  A kind in sleepers stands for one thread or more: others may sleep
\* on.
DelayedExit(kind) ==
  LET should_exit == count = 0 /\ lastDisc
  IN  /\ LockFree
      /\ kind \in sleepers
      /\ \E rest \in {sleepers, sleepers \ {kind}} : sleepers' = rest
      /\ exiting' = (exiting \/ should_exit)
      /\ earlyExit' = (earlyExit \/ (should_exit /\ kind = "stale"))
      /\ UNCHANGED <<globalVars, focusVars, count, lastDisc, threadVars, clientVars, staleUse>>

\* After it released the lock it clears running.
DelayedExitStop ==
  /\ Alive
  /\ exiting
  /\ exiting' = FALSE
  /\ running' = FALSE
  /\ UNCHANGED <<mainPc, joining, lock, connects, id_generator, focusVars, count,
                 lastDisc, sleepers, earlyExit, threadVars, clientVars, staleUse>>

-----------------------------------------------------------------------------

Init ==
  /\ running = TRUE /\ mainPc = "poll" /\ joining = None /\ lock = "free"
  /\ connects = 0 /\ id_generator = 0
  /\ activeIdx = None /\ lastIdx = None
  /\ count = 0 /\ lastDisc = FALSE /\ sleepers = {}
  /\ exiting = FALSE /\ earlyExit = FALSE
  /\ tstate = [i \in Slots |-> "READY"]
  /\ used = [i \in Slots |-> FALSE]
  /\ tpc = [i \in Slots |-> "none"]
  /\ id = [i \in Slots |-> 0]
  /\ active = [i \in Slots |-> FALSE]
  /\ overlay = [i \in Slots |-> FALSE]
  /\ shown = [i \in Slots |-> FALSE]
  /\ xc = [i \in Slots |-> "null"]
  /\ compShown = [i \in Slots |-> FALSE]
  /\ mainVis = [i \in Slots |-> FALSE]
  /\ arg = [i \in Slots |-> FALSE]
  /\ sessions = [i \in Slots |-> 0]
  /\ staleUse = {}

Main == HandleClientConnected \/ JoinOldThread \/ HandleShutdownSignal \/ Teardown

\* What the client asks for: these may never come.  client_loop checks running
\* before it waits for a command, so one is still served after running is
\* cleared; the model allows any number of them.
Command(i) ==
  \/ \E ov \in BOOLEAN : SessionCreate(i, ov)
  \/ PredictFrame(i)
  \/ \E j \in Slots : SetPrimaryClient(i, j)
  \/ SessionDestroy(i)

\* What the client's thread does by itself.
Progress(i) ==
  \/ SetupEpoll(i)
  \/ SessionCreateStore(i) \/ SessionCreateRead(i) \/ SessionCreateSetState(i)
  \/ ActivateSession(i) \/ PredictFrameReturn(i)
  \/ DestroyRefs(i) \/ DestroyComp(i) \/ DestroyNull(i)
  \/ CommonShutdown(i) \/ ExitCheck(i) \/ StartDelayedExit(i) \/ DeactivateSession(i)

Next ==
  \/ Main
  \/ \E i \in Slots : Command(i) \/ LeaveLoop(i) \/ Progress(i)
  \/ \E kind \in {"fresh", "stale"} : DelayedExit(kind)
  \/ DelayedExitStop

\* Threads that can take a step do: a client thread never stops inside a
\* command, and leaves its loop once the server stops (it checks running on
\* every turn, and epoll_wait times out twice a second); the main loop polls; sleepers wake.
Fairness ==
  /\ WF_vars(JoinOldThread) /\ WF_vars(Teardown)
  /\ \A i \in Slots : WF_vars(Progress(i)) /\ SF_vars(~running /\ LeaveLoop(i))
  /\ \A kind \in {"fresh", "stale"} : WF_vars(DelayedExit(kind))
  /\ WF_vars(DelayedExitStop)

Spec == Init /\ [][Next]_vars
FairSpec == Spec /\ Fairness

-----------------------------------------------------------------------------
(* Properties.                                                             *)

ThreadPcs == {"none", "setup", "loop", "create_store", "create_read", "create_set",
              "activate", "predicted",
              "destroy_refs", "destroy_comp", "destroy_null", "closing",
              "exit_check", "idle_write", "deactivate", "exited"}

TypeOK ==
  /\ running \in BOOLEAN
  /\ mainPc \in {"poll", "join", "freed"}
  /\ joining \in Slots \cup {None}
  /\ lock \in {"free", "main"}
  /\ connects \in 0 .. MaxConnects
  /\ id_generator \in 0 .. IdModulus - 1
  /\ activeIdx \in Slots \cup {None}
  /\ lastIdx \in Slots \cup {None}
  /\ count \in Int
  /\ lastDisc \in BOOLEAN
  /\ sleepers \in SUBSET {"fresh", "stale"}
  /\ exiting \in BOOLEAN
  /\ earlyExit \in BOOLEAN
  /\ tstate \in [Slots -> {"READY", "STARTING", "STOPPING"}]
  /\ used \in [Slots -> BOOLEAN]
  /\ tpc \in [Slots -> ThreadPcs]
  /\ id \in [Slots -> 0 .. IdModulus - 1]
  /\ active \in [Slots -> BOOLEAN]
  /\ overlay \in [Slots -> BOOLEAN]
  /\ shown \in [Slots -> BOOLEAN]
  /\ xc \in [Slots -> {"null", "live", "freed"}]
  /\ compShown \in [Slots -> BOOLEAN]
  /\ mainVis \in [Slots -> BOOLEAN]
  /\ arg \in [Slots -> BOOLEAN]
  /\ sessions \in [Slots -> 0 .. MaxSessions]
  /\ staleUse \in SUBSET Slots

\* The threads that gave up their slot and have not yet deactivated.
Departing(i) ==
  /\ ~used[i]
  /\ tpc[i] \in {"destroy_refs", "destroy_comp", "destroy_null", "exit_check",
                 "idle_write", "deactivate"}

\* active_client_index names a connected main application whose session is
\* active, or one that is leaving and whose thread will still choose another.
ActiveClientIsDisplayable ==
  activeIdx # None =>
    \/ used[activeIdx] /\ active[activeIdx] /\ ~overlay[activeIdx]
    \/ Departing(activeIdx)

\* While an application is displayable the server never idles.
NeverIdleWithAnApp == Fallbacks(active) # {} => activeIdx # None

\* A connected main application is visible and focused in its client_state
\* exactly when it is the active client, whatever clients come, go, and ask.
ShownIsPrimary ==
  \A i \in Slots : used[i] /\ ~overlay[i] => (shown[i] <=> i = activeIdx)

\* The focus is right at all times: there is an active client whenever there can be
\* one, it is displayable, and exactly it is recorded as visible and focused.
FocusIsSound == ActiveClientIsDisplayable /\ NeverIdleWithAnApp /\ ShownIsPrimary

\* The compositor of every client with an active session was last told what the
\* server recorded of that client, though session_create tells it unlocked.
CompositorAgrees ==
  \A i \in Slots : used[i] /\ active[i] /\ xc[i] = "live" => compShown[i] = shown[i]

\* Every active overlay knows whether there is a main application.
OverlayKnowsMainApp ==
  \A i \in Slots : used[i] /\ active[i] /\ overlay[i] /\ xc[i] = "live"
                     => (mainVis[i] <=> activeIdx # None)

\* Connected clients have distinct, non-zero ids, also once the generator wraps.
UniqueIds ==
  \A i, j \in Slots : used[i] => id[i] # 0 /\ (id[i] = id[j] => i = j)

\* handle_client_connected never reaches "Client state management error!":
\* a slot without a client is either unused or has a thread to join.
NoStateManagementError ==
  \A i \in Slots : ~used[i] => \/ tstate[i] = "READY" /\ tpc[i] = "none"
                               \/ tstate[i] = "STOPPING" /\ tpc[i] # "none"

\* The slots are sound: every connected client has an id of its own, though the
\* generator wraps, and a slot without a client can always be given to the next.
SlotsAreSound == TypeOK /\ UniqueIds /\ NoStateManagementError

\* A slot gets a new thread only once its previous thread has returned.
SlotHandover ==
  [][\A i \in Slots : tpc'[i] = "setup" /\ tpc[i] # "setup"
                         => tpc[i] \in {"none", "exited"}]_vars

\* A delayed_exit_thread decides to stop the server only when no client is
\* connected, however late the disconnect was stamped and whoever came since.
IdleExitOnlyWhenIdle ==
  [][~exiting /\ exiting' => \A i \in Slots : ~used[i]]_vars

\* Once the last client was seen to leave, the server stops, unless another
\* client connects.
IdleLeadsToExit == (count = 0 /\ lastDisc) ~> (~running \/ count > 0)

\* A client that left does not remain the active client, unless the main thread
\* holds the lock to join a thread (see ConnectionIsHandled) or tears down.
ActiveHasLeft == activeIdx # None /\ ~used[activeIdx]
DepartedLosesFocus == ActiveHasLeft ~> (~ActiveHasLeft \/ mainPc # "poll")

-----------------------------------------------------------------------------
(* What comments in the code say and the code does not do.                 *)

\* ipc_server_process.c: a connection is given to "the next free thread in our
\* array": the main thread gets past the join.
ConnectionIsHandled == (mainPc = "join") ~> (mainPc # "join")

\* ipc_server.h: exit_when_idle, "Should we exit when no clients are connected."
ExitWhenNoClients ==
  (connects > 0 /\ \A i \in Slots : ~used[i]) ~> (~running \/ \E i \in Slots : used[i])

\* ipc_server.h: exit_when_idle_delay_ns is "How long to wait after all clients
\* disconnect before exiting": only a sleeper during whose whole sleep there
\* was no client stops the server.
WholeDelayIsIdle == ~earlyExit

\* ipc_server_per_client_thread.c: "Multiple threads might be looking at these
\* fields": no thread calls a client's compositor after it was destroyed.
NoUseOfDestroyedCompositor == staleUse = {}

\* ipc_server_process.c: "Set all overlays to always active and focused.", and
\* ipc_server_handler.c on predict_frame: "needed to make this client/session
\* active/visible/focused": an overlay that predicts a frame is shown.
PredictingOverlayIsShown ==
  \A i \in Slots : overlay[i] /\ tpc[i] = "predicted" => shown[i]
=============================================================================
