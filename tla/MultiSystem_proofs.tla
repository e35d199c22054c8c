------------------------- MODULE MultiSystem_proofs -------------------------
(***************************************************************************)
(* Theorems about MultiSystem, for any finite set of clients, any length   *)
(* of the client list, and with or without the warm start.                 *)
(*                                                                         *)
(* The argument is split along what each part of the state depends on:     *)
(*   TypeInv      the types; active_count is an integer for now;           *)
(*   CountInv     the count is the number of sessions that count, which    *)
(*                needs the relation of each client's flag to its thread;  *)
(*   NativeInv    the native session follows the state of the loop;        *)
(*   ListInv      what the render thread gathered stays in the list.       *)
(***************************************************************************)
EXTENDS MultiSystem, FiniteSetTheorems, TLAPS

TypeInv ==
  /\ state \in {"INIT_WARM_START", "STOPPED", "RUNNING", "STOPPING"}
  /\ active_count \in Int
  /\ native \in Int
  /\ running \in BOOLEAN
  /\ woken \in BOOLEAN
  /\ mpc \in {"check", "sleep", "render", "transfer", "blend", "exited"}
  /\ array \in SUBSET Clients
  /\ cpc \in [Clients -> {"none", "idle", "begin", "end", "destroy", "unlist"}]
  /\ listed \in SUBSET Clients
  /\ session_active \in [Clients -> BOOLEAN]
  /\ visible \in [Clients -> BOOLEAN]
  /\ focused \in [Clients -> BOOLEAN]
  /\ setting \in [Clients -> {"none", "true", "false"}]

\* A client's flag is down before its session is counted and once it is cleared,
\* and still up when the session was taken off the count.
FlagFollowsThread ==
  \A c \in Clients :
    /\ cpc[c] \in {"none", "begin", "unlist"} => ~session_active[c]
    /\ cpc[c] \in {"end", "destroy"} => session_active[c]

CountInv == FlagFollowsThread /\ CountIsExact

\* Where the render thread is tells whether the native session is begun.
NativeInv ==
  /\ NativeFollowsState
  /\ EndedAtExit
  /\ mpc \in {"render", "transfer", "blend"} => state \in {"RUNNING", "STOPPING"}

ListInv ==
  /\ array \subseteq listed
  /\ array # {} => mpc = "blend"
  /\ \A c \in listed : cpc[c] # "none"

-----------------------------------------------------------------------------
(* Types.                                                                  *)

USE DEF threadVars, countVars, stateVars

\* Every step of a client's thread keeps the types.
LEMMA ClientTypes ==
  ASSUME TypeInv, NEW c \in Clients, ClientThread(c)
  PROVE  TypeInv'
<1> USE DEF TypeInv, Goto, UpdateSessionStatus
<1>1. CASE Create(c)
  BY <1>1 DEF Create
<1>2. CASE BeginSession(c)
  BY <1>2 DEF BeginSession
<1>3. CASE EndSession(c)
  BY <1>3 DEF EndSession
<1>4. CASE Destroy(c)
  BY <1>4 DEF Destroy
<1>5. CASE BeginSessionFlag(c)
  BY <1>5 DEF BeginSessionFlag
<1>6. CASE EndSessionFlag(c)
  BY <1>6 DEF EndSessionFlag
<1>7. CASE DestroyFlag(c)
  BY <1>7 DEF DestroyFlag
<1>8. CASE DestroyUnlist(c)
  BY <1>8 DEF DestroyUnlist
<1>9. ASSUME NEW v \in BOOLEAN, SetState(c, v) PROVE TypeInv'
  BY <1>9 DEF SetState
<1>10. CASE SetStateFocused(c)
  BY <1>10 DEF SetStateFocused
<1> QED
  BY <1>1, <1>2, <1>3, <1>4, <1>5, <1>6, <1>7, <1>8, <1>9, <1>10 DEF ClientThread

\* So does every step of the render thread, and the end of the system.
LEMMA RenderTypes ==
  ASSUME TypeInv, RenderThread \/ WakeUp \/ SystemDestroy
  PROVE  TypeInv'
<1> USE DEF TypeInv
<1>1. CASE UpdateSessionState
  <2>1. state' \in {"STOPPED", "RUNNING", "STOPPING"} /\ native' \in Int
    BY <1>1 DEF UpdateSessionState, NextState, Change
  <2>2. mpc' \in {"sleep", "render"}
    BY <1>1 DEF UpdateSessionState
  <2> QED
    BY <1>1, <2>1, <2>2 DEF UpdateSessionState
<1>2. CASE RenderFrame
  BY <1>2 DEF RenderFrame
<1>3. CASE TransferLayers
  <2>1. PICK ready \in SUBSET listed :
          array' = {c \in ready : visible[c] /\ session_active[c]}
    BY <1>3 DEF TransferLayers
  <2>2. array' \subseteq Clients
    BY <2>1
  <2> QED
    BY <1>3, <2>2 DEF TransferLayers
<1>4. CASE FindBlendMode
  BY <1>4 DEF FindBlendMode
<1>5. CASE CleanUp
  BY <1>5 DEF CleanUp
<1>6. CASE WakeUp
  BY <1>6 DEF WakeUp
<1>7. CASE SystemDestroy
  BY <1>7 DEF SystemDestroy
<1> QED
  BY <1>1, <1>2, <1>3, <1>4, <1>5, <1>6, <1>7 DEF RenderThread

\* TypeInv holds throughout.
LEMMA TypesHold == Spec => []TypeInv
<1>1. Init => TypeInv
  <2> SUFFICES ASSUME Init PROVE TypeInv
    OBVIOUS
  <2>1. state \in {"INIT_WARM_START", "STOPPED", "RUNNING", "STOPPING"}
    BY DEF Init
  <2>2. /\ cpc \in [Clients -> {"none", "idle", "begin", "end", "destroy", "unlist"}]
        /\ setting \in [Clients -> {"none", "true", "false"}]
    BY DEF Init
  <2>3. /\ session_active \in [Clients -> BOOLEAN]
        /\ visible \in [Clients -> BOOLEAN]
        /\ focused \in [Clients -> BOOLEAN]
    BY DEF Init
  <2>4. /\ running \in BOOLEAN /\ woken \in BOOLEAN
    BY Zenon DEF Init
  <2>5. /\ active_count \in Int /\ native \in Int
        /\ mpc \in {"check", "sleep", "render", "transfer", "blend", "exited"}
        /\ array \in SUBSET Clients /\ listed \in SUBSET Clients
    BY DEF Init
  <2> QED
    BY <2>1, <2>2, <2>3, <2>4, <2>5 DEF TypeInv
<1>2. TypeInv /\ [Next]_vars => TypeInv'
  <2> SUFFICES ASSUME TypeInv, [Next]_vars PROVE TypeInv'
    OBVIOUS
  <2>1. CASE Next
    BY <2>1, ClientTypes, RenderTypes DEF Next
  <2>2. CASE UNCHANGED vars
    BY <2>2 DEF vars, TypeInv
  <2> QED
    BY <2>1, <2>2
<1> QED
  BY <1>1, <1>2, PTL DEF Spec

-----------------------------------------------------------------------------
(* The count of active sessions.                                           *)

\* The clients whose session counts are finitely many.
LEMMA CountedFinite == IsFiniteSet(Counted) /\ Counted \subseteq Clients
BY ConstantsAssumption, FS_Subset DEF Counted

\* When one client's session starts to count, the number of them grows by one ...
LEMMA CountedAdds ==
  ASSUME CountIsExact, NEW c \in Clients, c \notin Counted,
         Counted' = Counted \cup {c}, active_count' = active_count + 1
  PROVE  CountIsExact'
<1>1. Cardinality(Counted \cup {c}) = Cardinality(Counted) + 1
  BY CountedFinite, FS_AddElement
<1> QED
  BY <1>1 DEF CountIsExact

\* ... and when one stops to count it shrinks by one.
LEMMA CountedRemoves ==
  ASSUME CountIsExact, NEW c \in Clients, c \in Counted,
         Counted' = Counted \ {c}, active_count' = active_count - 1
  PROVE  CountIsExact'
<1>1. Cardinality(Counted \ {c}) = Cardinality(Counted) - 1
  BY CountedFinite, FS_RemoveElement
<1> QED
  BY <1>1 DEF CountIsExact

\* A step that changes neither leaves the relation alone.
LEMMA CountedSame ==
  ASSUME CountIsExact, Counted' = Counted, active_count' = active_count
  PROVE  CountIsExact'
BY DEF CountIsExact

\* Every step of a client's thread keeps the count exact.
LEMMA ClientCounts ==
  ASSUME TypeInv, CountInv, NEW c \in Clients, ClientThread(c)
  PROVE  CountInv'
<1> USE DEF TypeInv, Goto, UpdateSessionStatus, FlagFollowsThread
<1>0. CountIsExact
  BY DEF CountInv
<1>1. CASE Create(c)
  <2>1. Counted' = Counted /\ active_count' = active_count
    BY <1>1 DEF Create, Counted, CountInv
  <2>2. FlagFollowsThread'
    BY <1>1 DEF Create, CountInv
  <2> QED
    BY <1>0, <2>1, <2>2, CountedSame DEF CountInv
<1>2. CASE BeginSession(c)
  <2>1. Counted' = Counted \cup {c} /\ c \notin Counted /\ active_count' = active_count + 1
    BY <1>2 DEF BeginSession, Counted, CountInv
  <2>2. FlagFollowsThread'
    BY <1>2 DEF BeginSession, CountInv
  <2> QED
    BY <1>0, <2>1, <2>2, CountedAdds DEF CountInv
<1>3. CASE EndSession(c)
  <2>1. Counted' = Counted \ {c} /\ c \in Counted /\ active_count' = active_count - 1
    BY <1>3 DEF EndSession, Counted, CountInv
  <2>2. FlagFollowsThread'
    BY <1>3 DEF EndSession, CountInv
  <2> QED
    BY <1>0, <2>1, <2>2, CountedRemoves DEF CountInv
<1>4. CASE Destroy(c)
  <2>1. FlagFollowsThread'
    BY <1>4 DEF Destroy, CountInv
  <2>2. CASE session_active[c]
    <3>1. Counted' = Counted \ {c} /\ c \in Counted /\ active_count' = active_count - 1
      BY <1>4, <2>2 DEF Destroy, Counted, CountInv
    <3> QED
      BY <1>0, <2>1, <3>1, CountedRemoves DEF CountInv
  <2>3. CASE ~session_active[c]
    <3>1. Counted' = Counted /\ active_count' = active_count
      BY <1>4, <2>3 DEF Destroy, Counted, CountInv
    <3> QED
      BY <1>0, <2>1, <3>1, CountedSame DEF CountInv
  <2> QED
    BY <2>2, <2>3
<1>5. CASE BeginSessionFlag(c)
  <2>1. Counted' = Counted /\ active_count' = active_count
    BY <1>5 DEF BeginSessionFlag, Counted, CountInv
  <2>2. FlagFollowsThread'
    BY <1>5 DEF BeginSessionFlag, CountInv
  <2> QED
    BY <1>0, <2>1, <2>2, CountedSame DEF CountInv
<1>6. CASE EndSessionFlag(c)
  <2>1. Counted' = Counted /\ active_count' = active_count
    BY <1>6 DEF EndSessionFlag, Counted, CountInv
  <2>2. FlagFollowsThread'
    BY <1>6 DEF EndSessionFlag, CountInv
  <2> QED
    BY <1>0, <2>1, <2>2, CountedSame DEF CountInv
<1>7. CASE DestroyFlag(c)
  <2>1. Counted' = Counted /\ active_count' = active_count
    BY <1>7 DEF DestroyFlag, Counted, CountInv
  <2>2. FlagFollowsThread'
    BY <1>7 DEF DestroyFlag, CountInv
  <2> QED
    BY <1>0, <2>1, <2>2, CountedSame DEF CountInv
<1>8. CASE DestroyUnlist(c)
  <2>1. Counted' = Counted /\ active_count' = active_count
    BY <1>8 DEF DestroyUnlist, Counted, CountInv
  <2>2. FlagFollowsThread'
    BY <1>8 DEF DestroyUnlist, CountInv
  <2> QED
    BY <1>0, <2>1, <2>2, CountedSame DEF CountInv
<1>9. CASE (\E v \in BOOLEAN : SetState(c, v)) \/ SetStateFocused(c)
  <2>1. UNCHANGED <<cpc, session_active, active_count>>
    BY <1>9 DEF SetState, SetStateFocused
  <2>2. Counted' = Counted
    BY <2>1 DEF Counted
  <2>3. FlagFollowsThread'
    BY <2>1 DEF CountInv
  <2> QED
    BY <1>0, <2>1, <2>2, <2>3, CountedSame DEF CountInv
<1> QED
  BY <1>1, <1>2, <1>3, <1>4, <1>5, <1>6, <1>7, <1>8, <1>9 DEF ClientThread

\* The count is exact throughout.
LEMMA CountsHold == Spec => []CountInv
<1>1. Init => CountInv
  <2> SUFFICES ASSUME Init PROVE CountInv
    OBVIOUS
  <2>1. FlagFollowsThread
    BY DEF Init, FlagFollowsThread
  <2>2. Counted = {}
    BY DEF Init, Counted
  <2>3. CountIsExact
    BY <2>2, FS_EmptySet DEF CountIsExact, Init
  <2> QED
    BY <2>1, <2>3 DEF CountInv
<1>2. TypeInv /\ CountInv /\ [Next]_vars => CountInv'
  <2> SUFFICES ASSUME TypeInv, CountInv, [Next]_vars PROVE CountInv'
    OBVIOUS
  <2>1. ASSUME NEW c \in Clients, ClientThread(c) PROVE CountInv'
    BY <2>1, ClientCounts
  <2>2. CASE RenderThread \/ WakeUp \/ SystemDestroy \/ UNCHANGED vars
    <3>1. UNCHANGED <<active_count, cpc, session_active>>
      BY <2>2 DEF RenderThread, UpdateSessionState, RenderFrame, TransferLayers,
                  FindBlendMode, CleanUp, WakeUp, SystemDestroy, vars
    <3>2. Counted' = Counted /\ FlagFollowsThread'
      BY <3>1 DEF Counted, FlagFollowsThread, CountInv
    <3> QED
      BY <3>1, <3>2, CountedSame DEF CountInv
  <2> QED
    BY <2>1, <2>2 DEF Next
<1> QED
  BY <1>1, <1>2, TypesHold, PTL DEF Spec

\* multi_system_compositor_update_session_status: at all times active_count is
\* the number of active sessions, for any number of clients whose threads begin,
\* end and destroy their sessions in any order.
THEOREM CountIsExactTheorem == Spec => []CountIsExact
<1>1. CountInv => CountIsExact
  BY DEF CountInv
<1> QED
  BY <1>1, CountsHold, PTL

\* The module's variables keep their types; in particular the unsigned
\* active_count is never decremented below zero, which the code asserts.
LEMMA TypeCorrect == Spec => []TypeOK
<1>1. TypeInv /\ CountInv => TypeOK
  <2> SUFFICES ASSUME TypeInv, CountInv PROVE TypeOK
    OBVIOUS
  <2>1. active_count \in Nat
    BY CountedFinite, FS_CardinalityType DEF CountInv, CountIsExact
  <2> QED
    BY <2>1 DEF TypeInv, TypeOK
<1> QED
  BY <1>1, TypesHold, CountsHold, PTL

-----------------------------------------------------------------------------
(* The native session.                                                     *)

\* The state of the native session follows the loop.
LEMMA NativeHolds == Spec => []NativeInv
<1> USE DEF NativeInv, NativeFollowsState, EndedAtExit
<1>1. Init => NativeInv
  BY DEF Init
<1>2. TypeInv /\ NativeInv /\ [Next]_vars => NativeInv'
  <2> SUFFICES ASSUME TypeInv, NativeInv, [Next]_vars PROVE NativeInv'
    OBVIOUS
  <2> USE DEF TypeInv
  <2>1. CASE UpdateSessionState
    <3>1. /\ state' \in {"STOPPED", "RUNNING", "STOPPING"}
          /\ native' = IF state' \in {"RUNNING", "STOPPING"} THEN 1 ELSE 0
      BY <2>1 DEF UpdateSessionState, NextState, Change
    <3>2. mpc' = IF state' = "STOPPED" THEN "sleep" ELSE "render"
      BY <2>1 DEF UpdateSessionState
    <3> QED
      BY <3>1, <3>2
  <2>2. CASE CleanUp
    BY <2>2 DEF CleanUp
  <2>3. CASE RenderFrame
    BY <2>3 DEF RenderFrame
  <2>4. CASE TransferLayers
    BY <2>4 DEF TransferLayers
  <2>5. CASE FindBlendMode
    BY <2>5 DEF FindBlendMode
  <2>6. CASE WakeUp
    BY <2>6 DEF WakeUp
  <2>7. CASE SystemDestroy \/ UNCHANGED vars
    BY <2>7 DEF SystemDestroy, vars
  <2>8. ASSUME NEW c \in Clients, ClientThread(c) PROVE NativeInv'
    <3>1. UNCHANGED <<state, native, mpc>>
      BY <2>8 DEF ClientThread, Create, BeginSession, EndSession, Destroy,
                  BeginSessionFlag, EndSessionFlag, DestroyFlag, DestroyUnlist,
                  SetState, SetStateFocused
    <3> QED
      BY <3>1
  <2> QED
    BY <2>1, <2>2, <2>3, <2>4, <2>5, <2>6, <2>7, <2>8 DEF Next, RenderThread
<1> QED
  BY <1>1, <1>2, TypesHold, PTL DEF Spec

\* update_session_state_locked: begin_session and end_session of the native
\* compositor alternate, and its session is begun in exactly the states RUNNING
\* and STOPPING; multi_main_loop draws frames only while it is begun, and once the
\* render thread has ended it is not left begun.
THEOREM NativeSessionPaired == Spec => []NativeIsPaired
<1>1. NativeInv => NativeFollowsState /\ EndedAtExit
  BY DEF NativeInv
<1>2. NativeInv => DrawsOnlyInSession
  BY DEF NativeInv, NativeFollowsState, DrawsOnlyInSession
<1>3. TypeOK /\ NativeInv => NativeIsPaired
  BY <1>1, <1>2 DEF NativeIsPaired
<1> QED
  BY <1>3, TypeCorrect, NativeHolds, PTL

\* The native session is ended only when no client's session is active, or when
\* the system compositor is destroyed.
THEOREM StopsOnlyWhenIdle == Spec => EndsOnlyWhenIdle
<1>1. TypeInv /\ CountInv /\ [Next]_vars
        => [native' < native => Counted = {} \/ ~running]_vars
  <2> SUFFICES ASSUME TypeInv, CountInv, Next, native' < native, running
               PROVE  Counted = {}
    OBVIOUS
  <2>0. native' # native
    BY DEF TypeInv
  <2>1. ASSUME NEW c \in Clients, ClientThread(c) PROVE FALSE
    <3>1. native' = native
      BY <2>1 DEF ClientThread, Create, BeginSession, EndSession, Destroy,
             BeginSessionFlag, EndSessionFlag, DestroyFlag, DestroyUnlist,
             SetState, SetStateFocused
    <3> QED
      BY <2>0, <3>1
  <2>2. UpdateSessionState
    BY <2>0, <2>1 DEF Next, RenderThread, RenderFrame, TransferLayers, FindBlendMode,
                      CleanUp, WakeUp, SystemDestroy
  <2>3. active_count = 0
    BY <2>2 DEF TypeInv, UpdateSessionState, NextState, Change
  <2> QED
    BY <2>3, CountedFinite, FS_EmptySet DEF CountInv, CountIsExact
<1> QED
  BY <1>1, TypesHold, CountsHold, PTL DEF Spec, EndsOnlyWhenIdle

-----------------------------------------------------------------------------
(* The client list.                                                        *)

\* What the render thread gathered stays in the list while it uses it.
LEMMA ListHolds == Spec => []ListInv
<1> USE DEF ListInv
<1>1. Init => ListInv
  BY DEF Init
<1>2. TypeInv /\ ListInv /\ [Next]_vars => ListInv'
  <2> SUFFICES ASSUME TypeInv, ListInv, [Next]_vars PROVE ListInv'
    OBVIOUS
  <2> USE DEF TypeInv
  <2>1. CASE TransferLayers
    <3>1. array' \subseteq listed
      BY <2>1 DEF TransferLayers
    <3> QED
      BY <2>1, <3>1 DEF TransferLayers
  <2>2. CASE FindBlendMode
    BY <2>2 DEF FindBlendMode
  <2>3. CASE UpdateSessionState \/ RenderFrame \/ CleanUp \/ WakeUp
    <3>1. array = {} /\ UNCHANGED <<array, listed, cpc>>
      BY <2>3 DEF UpdateSessionState, RenderFrame, CleanUp, WakeUp
    <3> QED
      BY <3>1
  <2>4. CASE SystemDestroy \/ UNCHANGED vars
    BY <2>4 DEF SystemDestroy, vars
  <2>5. ASSUME NEW c \in Clients, Create(c) PROVE ListInv'
    BY <2>5 DEF Create, Goto
  <2>6. ASSUME NEW c \in Clients, DestroyUnlist(c) PROVE ListInv'
    <3>1. array = {} /\ array' = {}
      BY <2>6 DEF DestroyUnlist, ListLockFree
    <3> QED
      BY <2>6, <3>1 DEF DestroyUnlist, Goto
  <2>7. ASSUME NEW c \in Clients,
               \/ BeginSession(c) \/ EndSession(c) \/ Destroy(c)
               \/ BeginSessionFlag(c) \/ EndSessionFlag(c) \/ DestroyFlag(c)
        PROVE  ListInv'
    <3>1. UNCHANGED <<array, listed, mpc>>
      BY <2>7 DEF BeginSession, EndSession, Destroy, BeginSessionFlag, EndSessionFlag,
                  DestroyFlag
    <3>2. cpc' = [cpc EXCEPT ![c] = cpc'[c]] /\ cpc'[c] # "none"
      BY <2>7 DEF BeginSession, EndSession, Destroy, BeginSessionFlag, EndSessionFlag,
                  DestroyFlag, Goto
    <3> QED
      BY <3>1, <3>2
  <2>8. ASSUME NEW c \in Clients, (\E v \in BOOLEAN : SetState(c, v)) \/ SetStateFocused(c)
        PROVE  ListInv'
    BY <2>8 DEF SetState, SetStateFocused
  <2> QED
    BY <2>1, <2>2, <2>3, <2>4, <2>5, <2>6, <2>7, <2>8 DEF Next, RenderThread, ClientThread
<1> QED
  BY <1>1, <1>2, TypesHold, PTL DEF Spec

\* multi_compositor_destroy takes list_and_timing_lock to leave the list: no
\* client is freed while the render thread uses the layers it gathered.
THEOREM TransferIsSafe == Spec => []TransferredClientsExist
<1>1. ListInv => TransferredClientsExist
  BY DEF ListInv, TransferredClientsExist
<1> QED
  BY <1>1, ListHolds, PTL
=============================================================================
