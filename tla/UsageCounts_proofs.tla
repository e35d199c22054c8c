------------------------- MODULE UsageCounts_proofs -------------------------
(***************************************************************************)
(* Theorems about UsageCounts, for any finite sets of clients and threads, *)
(* any number of handles and connections, and each kind of resource.       *)
(*                                                                         *)
(* The counts are exact and what nobody uses is stopped at rest because of *)
(* what is in flight between an application, the service and the device:   *)
(*   Types        the types; counts are integers for now;                  *)
(*   AppInv       one application: its count, and which of its threads     *)
(*                waits for which call;                                    *)
(*   ServiceInv   the service: its count, which of its threads is about to *)
(*                call the device, and a device that always fails.         *)
(***************************************************************************)
EXTENDS UsageCounts, FiniteSetTheorems, TLAPS

USE DEF appVars, serverVars, fixedVars

AppTypes ==
    /\ kind \in Kinds
    /\ implemented \in BOOLEAN
    /\ handles \in [Clients -> Nat]
    /\ clientUse \in [Clients -> Int]
    /\ pc \in [Clients -> [Threads -> ThreadPcs]]
    /\ connects \in 0..MaxConnects

ServiceTypes ==
    /\ request \in [Clients -> {"none", "mark", "unmark"}]
    /\ conn \in [Clients -> {"open", "closing", "closed"}]
    /\ used \in [Clients -> BOOLEAN]
    /\ spc \in [Clients -> ServerPcs]
    /\ use \in Int
    /\ device \in BOOLEAN

Types == AppTypes /\ ServiceTypes

\* The threads of an application whose handle is being created.
Creating(c) == At(c, "mark") \cup At(c, "marking")

\* The uses that the handles of an application stand for.
Held(c) == handles[c] + Cardinality(Creating(c))

\* An application without a connection has no uses; its count is that of its
\* handles, or more after a face tracker failed.
HeldInv(c) ==
    /\ conn[c] # "open" =>
         handles[c] = 0 /\ clientUse[c] = 0 /\ \A t \in Threads : pc[c][t] = "idle"
    /\ Held(c) <= MaxHandles
    /\ clientUse[c] >= Held(c)
    /\ kind # "face" => clientUse[c] = Held(c)

\* One thread has the connection's mutex, and what the service has of its call is
\* what the thread waits for.
CallInv(c) ==
    /\ request[c] # "none" => spc[c] = "idle"
    /\ \A t, u \in Threads :
         pc[c][t] \in {"marking", "unmarking"} /\ pc[c][u] \in {"marking", "unmarking"} => t = u
    /\ conn[c] = "open" =>
         /\ request[c] = "mark" \/ spc[c] = "begin" => At(c, "marking") # {}
         /\ request[c] = "unmark" \/ spc[c] = "end" => At(c, "unmarking") # {}

\* A mark that stands for no use is about to be taken back.
MarkInv(c) ==
    conn[c] = "open" /\ clientUse[c] = 0 /\ used[c] =>
        At(c, "unmark") \cup At(c, "unmarking") # {}

AppInv == \A c \in Clients : HeldInv(c) /\ CallInv(c) /\ MarkInv(c)

\* The service's thread of a client and the mark of that client.
ThreadInv ==
    \A c \in Clients :
        /\ spc[c] \in {"end", "endLast"} => used[c]
        /\ spc[c] = "begin" => ~used[c]
        /\ spc[c] = "endLast" => conn[c] = "closing" /\ request[c] = "none"
        /\ conn[c] = "closed" => spc[c] = "idle" /\ ~used[c] /\ request[c] = "none"

Marked == {c \in Clients : used[c] /\ spc[c] \notin {"end", "endLast"}}

\* A device that fails is never told of a use, nor of the end of one: the use it
\* failed at first stays in the count.
FailingInv ==
    DeviceFails =>
        /\ ~device
        /\ \A c \in Clients : spc[c] \notin {"end", "endLast"}
        /\ use > 0 => use >= Cardinality(Marked) + 1

\* A device left on without a use is about to be told.
DeviceInv == use = 0 /\ device => \E c \in Clients : spc[c] \in {"end", "endLast"}

ServiceInv == ThreadInv /\ CountIsExact /\ FailingInv /\ DeviceInv

-----------------------------------------------------------------------------
(* Types.                                                                  *)

\* What the reply to a call does in the application: the thread that waits for it
\* goes on, with its handle, or without it if that is a face tracker.
Answered(c) ==
    /\ pc' = [pc EXCEPT ![c] = [t \in Threads |->
                 IF pc[c][t] \in {"marking", "unmarking"} THEN "idle" ELSE pc[c][t]]]
    /\ \/ /\ handles' = handles
          /\ At(c, "marking") = {} \/ kind = "face"
       \/ /\ handles' = [handles EXCEPT ![c] = @ + 1]
          /\ At(c, "marking") # {}

\* The steps of the service's thread that reply, or are on the way to it, as its
\* application sees them.
LEMMA ServiceStep ==
    ASSUME NEW c \in Clients,
           MarkInUse(c) \/ UnmarkInUse(c) \/ BeginFeature(c) \/ EndFeature(c)
    PROVE  /\ UNCHANGED <<clientUse, kind, implemented, conn, connects>>
           /\ UNCHANGED <<handles, pc>> \/ Answered(c)
<1>1. CASE MarkInUse(c)
  BY <1>1 DEF MarkInUse, Read, Reply, Answered
<1>2. CASE UnmarkInUse(c)
  BY <1>2 DEF UnmarkInUse, Read, Reply, Answered
<1>3. CASE BeginFeature(c)
  BY <1>3 DEF BeginFeature, Reply, Answered
<1>4. CASE EndFeature(c)
  BY <1>4 DEF EndFeature, Reply, Answered
<1> QED
  BY <1>1, <1>2, <1>3, <1>4

\* Every step keeps the types of the application's state ...
LEMMA AppTypesStep == Types /\ [Next]_vars => AppTypes'
<1> SUFFICES ASSUME Types, [Next]_vars PROVE AppTypes'
  OBVIOUS
<1> USE DEF Types, AppTypes
<1>1. ASSUME NEW c \in Clients, Connect(c) PROVE AppTypes'
  BY <1>1, UsageAssumption DEF Connect
<1>2. ASSUME NEW c \in Clients, Disconnect(c) PROVE AppTypes'
  BY <1>2 DEF Disconnect, ThreadPcs
<1>3. ASSUME NEW c \in Clients, NEW t \in Threads, App(c, t) PROVE AppTypes'
  <2>1. pc' = pc \/ \E w \in ThreadPcs : pc' = [pc EXCEPT ![c] = [@ EXCEPT ![t] = w]]
    BY <1>3 DEF App, Inc, Dec, SendCall, ThreadPcs
  <2>2. pc' \in [Clients -> [Threads -> ThreadPcs]]
    <3>1. ASSUME NEW w \in ThreadPcs PROVE [pc[c] EXCEPT ![t] = w] \in [Threads -> ThreadPcs]
      OBVIOUS
    <3> QED
      BY <2>1, <3>1
  <2>3. handles' \in [Clients -> Nat] /\ clientUse' \in [Clients -> Int]
    BY <1>3 DEF App, Inc, Dec, SendCall
  <2> QED
    BY <1>3, <2>2, <2>3 DEF App, Inc, Dec, SendCall
<1>4. ASSUME NEW c \in Clients,
             MarkInUse(c) \/ UnmarkInUse(c) \/ BeginFeature(c) \/ EndFeature(c)
      PROVE  AppTypes'
  <2>1. [t \in Threads |-> IF pc[c][t] \in {"marking", "unmarking"} THEN "idle" ELSE pc[c][t]]
          \in [Threads -> ThreadPcs]
    BY DEF ThreadPcs
  <2>2. handles' \in [Clients -> Nat] /\ pc' \in [Clients -> [Threads -> ThreadPcs]]
    <3>1. CASE UNCHANGED <<handles, pc>>
      BY <3>1
    <3>2. CASE Answered(c)
      <4>0. handles' = handles \/ handles' = [handles EXCEPT ![c] = @ + 1]
        BY <3>2 DEF Answered
      <4>1. handles' \in [Clients -> Nat]
        BY <4>0
      <4> QED
        BY <3>2, <2>1, <4>1 DEF Answered
    <3> QED
      BY <1>4, <3>1, <3>2, ServiceStep
  <2> QED
    BY <1>4, <2>2, ServiceStep
<1>5. ASSUME NEW c \in Clients, CommonShutdown(c) \/ ShutdownEndFeature(c) PROVE AppTypes'
  BY <1>5 DEF CommonShutdown, ShutdownEndFeature
<1>6. CASE UNCHANGED vars
  BY <1>6 DEF vars
<1> QED
  BY <1>1, <1>2, <1>3, <1>4, <1>5, <1>6 DEF Next, ClientThread

\* ... and of the service's.
LEMMA ServiceTypesStep == Types /\ [Next]_vars => ServiceTypes'
<1> SUFFICES ASSUME Types, [Next]_vars PROVE ServiceTypes'
  OBVIOUS
<1> USE DEF Types, ServiceTypes
<1>1. ASSUME NEW c \in Clients, Connect(c) \/ Disconnect(c) PROVE ServiceTypes'
  BY <1>1 DEF Connect, Disconnect
<1>2. ASSUME NEW c \in Clients, NEW t \in Threads, App(c, t) PROVE ServiceTypes'
  BY <1>2 DEF App, Inc, Dec, SendCall
<1>3. ASSUME NEW c \in Clients, MarkInUse(c) PROVE ServiceTypes'
  <2>1. /\ request' = [request EXCEPT ![c] = "none"] /\ UNCHANGED <<conn, device>>
        /\ used' = used \/ used' = [used EXCEPT ![c] = TRUE]
        /\ spc' = spc \/ spc' = [spc EXCEPT ![c] = "begin"]
        /\ use' = use \/ use' = use + 1
    BY <1>3, Zenon DEF MarkInUse, Read, IncUse
  <2>2. used' \in [Clients -> BOOLEAN]
    BY <2>1
  <2>3. spc' \in [Clients -> ServerPcs]
    BY <2>1 DEF ServerPcs
  <2>4. conn' \in [Clients -> {"open", "closing", "closed"}]
    BY <2>1
  <2>5. request' \in [Clients -> {"none", "mark", "unmark"}] /\ use' \in Int
    BY <2>1
  <2>6. device' \in BOOLEAN
    BY <2>1
  <2> QED
    BY <2>2, <2>3, <2>4, <2>5, <2>6
<1>4. ASSUME NEW c \in Clients, UnmarkInUse(c) PROVE ServiceTypes'
  <2>1. /\ request' = [request EXCEPT ![c] = "none"] /\ UNCHANGED <<conn, device>>
        /\ used' = used \/ used' = [used EXCEPT ![c] = FALSE]
        /\ spc' = spc \/ spc' = [spc EXCEPT ![c] = "end"]
        /\ use' = use \/ use' = use - 1
    BY <1>4, Zenon DEF UnmarkInUse, Read, DecUse
  <2>2. used' \in [Clients -> BOOLEAN]
    BY <2>1
  <2>3. spc' \in [Clients -> ServerPcs]
    BY <2>1 DEF ServerPcs
  <2>4. conn' \in [Clients -> {"open", "closing", "closed"}]
    BY <2>1
  <2>5. request' \in [Clients -> {"none", "mark", "unmark"}] /\ use' \in Int
    BY <2>1
  <2>6. device' \in BOOLEAN
    BY <2>1
  <2> QED
    BY <2>2, <2>3, <2>4, <2>5, <2>6
<1>5. ASSUME NEW c \in Clients, BeginFeature(c) PROVE ServiceTypes'
  <2>1. device' \in BOOLEAN /\ DeviceFails \in BOOLEAN /\ (~DeviceFails) \in BOOLEAN
    BY <1>5, Zenon DEF BeginFeature, DeviceFails
  <2>2. used' \in [Clients -> BOOLEAN]
    BY <1>5, <2>1 DEF BeginFeature
  <2> QED
    BY <1>5, <2>1, <2>2 DEF BeginFeature, ServerPcs
<1>6. ASSUME NEW c \in Clients, EndFeature(c) PROVE ServiceTypes'
  <2>1. device' \in BOOLEAN /\ DeviceFails \in BOOLEAN /\ (~DeviceFails) \in BOOLEAN
    BY <1>6, Zenon DEF EndFeature, DeviceFails
  <2>2. used' \in [Clients -> BOOLEAN]
    BY <1>6, <2>1 DEF EndFeature
  <2> QED
    BY <1>6, <2>1, <2>2 DEF EndFeature, ServerPcs
<1>7. ASSUME NEW c \in Clients, CommonShutdown(c) PROVE ServiceTypes'
  <2>1. /\ request' = [request EXCEPT ![c] = "none"] /\ UNCHANGED device
        /\ used' = used \/ used' = [used EXCEPT ![c] = FALSE]
        /\ spc' = spc \/ spc' = [spc EXCEPT ![c] = "endLast"]
        /\ conn' = conn \/ conn' = [conn EXCEPT ![c] = "closed"]
        /\ use' = use \/ use' = use - 1
    BY <1>7, Zenon DEF CommonShutdown, DecUse
  <2>2. used' \in [Clients -> BOOLEAN]
    BY <2>1
  <2>3. spc' \in [Clients -> ServerPcs]
    BY <2>1 DEF ServerPcs
  <2>4. conn' \in [Clients -> {"open", "closing", "closed"}]
    BY <2>1
  <2>5. request' \in [Clients -> {"none", "mark", "unmark"}] /\ use' \in Int
    BY <2>1
  <2>6. device' \in BOOLEAN
    BY <2>1
  <2> QED
    BY <2>2, <2>3, <2>4, <2>5, <2>6
<1>8. ASSUME NEW c \in Clients, ShutdownEndFeature(c) PROVE ServiceTypes'
  BY <1>8 DEF ShutdownEndFeature, ServerPcs
<1>9. CASE UNCHANGED vars
  BY <1>9 DEF vars
<1> QED
  BY <1>1, <1>2, <1>3, <1>4, <1>5, <1>6, <1>7, <1>8, <1>9 DEF Next, ClientThread

-----------------------------------------------------------------------------
(* One application.                                                        *)

\* The threads that are creating a handle are finitely many.
LEMMA CreatingFinite ==
    ASSUME NEW c \in Clients
    PROVE  /\ IsFiniteSet(Creating(c)) /\ Cardinality(Creating(c)) \in Nat
           /\ Creating(c) = {} <=> Cardinality(Creating(c)) = 0
<1>1. Creating(c) \subseteq Threads
  BY DEF Creating, At
<1> QED
  BY <1>1, UsageAssumption, FS_Subset, FS_CardinalityType, FS_EmptySet

\* An application that a step does not touch.
LEMMA Elsewhere ==
    ASSUME NEW d \in Clients, kind' = kind,
           handles'[d] = handles[d], clientUse'[d] = clientUse[d], pc'[d] = pc[d],
           request'[d] = request[d], conn'[d] = conn[d], used'[d] = used[d],
           spc'[d] = spc[d],
           HeldInv(d), CallInv(d), MarkInv(d)
    PROVE  HeldInv(d)' /\ CallInv(d)' /\ MarkInv(d)'
<1>1. \A w : At(d, w)' = At(d, w)
  BY DEF At
<1>2. Held(d)' = Held(d)
  BY <1>1 DEF Held, Creating
<1> QED
  BY <1>1, <1>2 DEF HeldInv, CallInv, MarkInv

\* A handle whose first use must be announced: Inc.
LEMMA IncApp ==
    ASSUME Types, NEW c \in Clients, NEW t \in Threads, Inc(c, t),
           HeldInv(c), CallInv(c), MarkInv(c)
    PROVE  HeldInv(c)' /\ CallInv(c)' /\ MarkInv(c)'
<1> USE DEF Types, AppTypes, ServiceTypes
<1>1. Held(c) \in Nat /\ Held(c)' = Held(c) + 1
  <2>0. handles[c] \in Nat /\ Cardinality(Creating(c)) \in Nat
    BY CreatingFinite
  <2>1. CASE pc' = [pc EXCEPT ![c][t] = "mark"] /\ UNCHANGED handles
    <3>1. t \notin Creating(c) /\ Creating(c)' = Creating(c) \cup {t}
      BY <2>1 DEF Inc, Creating, At
    <3>2. Cardinality(Creating(c)') = Cardinality(Creating(c)) + 1
      BY <3>1, CreatingFinite, FS_AddElement
    <3>3. handles'[c] = handles[c]
      BY <2>1
    <3> HIDE DEF Types
    <3> QED
      BY <2>0, <3>2, <3>3 DEF Held
  <2>2. CASE UNCHANGED pc /\ handles' = [handles EXCEPT ![c] = @ + 1]
    <3>1. Creating(c)' = Creating(c)
      BY <2>2 DEF Creating, At
    <3>2. handles'[c] = handles[c] + 1
      BY <2>2
    <3> HIDE DEF Types
    <3> QED
      BY <2>0, <3>1, <3>2 DEF Held
  <2> QED
    BY <2>1, <2>2 DEF Inc
<1>2. clientUse'[c] = clientUse[c] + 1 /\ conn'[c] = "open" /\ kind' = kind
  BY DEF Inc
<1>3. HeldInv(c)'
  <2>1. Held(c) < MaxHandles
    BY DEF Inc, Held, Creating
  <2> QED
    BY <1>1, <1>2, <2>1, UsageAssumption DEF HeldInv
<1>4. MarkInv(c)'
  BY <1>1, <1>2 DEF HeldInv, MarkInv
<1>5. CallInv(c)'
  <2>1. \A u \in Threads : \A w \in {"marking", "unmarking"} : pc'[c][u] = w <=> pc[c][u] = w
    BY DEF Inc
  <2>2. At(c, "marking")' = At(c, "marking") /\ At(c, "unmarking")' = At(c, "unmarking")
    BY <2>1 DEF At
  <2>3. request'[c] = request[c] /\ spc'[c] = spc[c] /\ conn'[c] = conn[c]
    BY DEF Inc
  <2> QED
    BY <2>1, <2>2, <2>3 DEF CallInv
<1> QED
  BY <1>3, <1>4, <1>5

\* A handle that gives its use back: Dec.
LEMMA DecApp ==
    ASSUME Types, NEW c \in Clients, NEW t \in Threads, Dec(c, t),
           HeldInv(c), CallInv(c), MarkInv(c)
    PROVE  HeldInv(c)' /\ CallInv(c)' /\ MarkInv(c)'
<1> USE DEF Types, AppTypes, ServiceTypes
<1>1. Creating(c)' = Creating(c)
  BY DEF Dec, Creating, At
<1>2. Held(c) \in Nat /\ Held(c)' = Held(c) - 1 /\ Held(c) > 0
  BY <1>1, CreatingFinite DEF Held, Dec
<1>3. clientUse'[c] = clientUse[c] - 1 /\ conn'[c] = "open" /\ kind' = kind
  BY DEF Dec
<1>4. HeldInv(c)'
  BY <1>2, <1>3, UsageAssumption DEF HeldInv
<1>5. MarkInv(c)'
  <2>1. CASE clientUse'[c] = 0
    <3>1. pc'[c][t] = "unmark"
      BY <2>1 DEF Dec
    <3> QED
      BY <3>1 DEF MarkInv, At
  <2> QED
    BY <2>1 DEF MarkInv
<1>6. CallInv(c)'
  <2>1. \A u \in Threads : \A w \in {"marking", "unmarking"} : pc'[c][u] = w <=> pc[c][u] = w
    BY DEF Dec
  <2>2. At(c, "marking")' = At(c, "marking") /\ At(c, "unmarking")' = At(c, "unmarking")
    BY <2>1 DEF At
  <2>3. request'[c] = request[c] /\ spc'[c] = spc[c] /\ conn'[c] = conn[c]
    BY DEF Dec
  <2> QED
    BY <2>1, <2>2, <2>3 DEF CallInv
<1> QED
  BY <1>4, <1>5, <1>6

\* A thread that takes the connection's mutex and sends its call.
LEMMA SendApp ==
    ASSUME Types, ThreadInv, NEW c \in Clients, NEW t \in Threads, SendCall(c, t),
           HeldInv(c), CallInv(c), MarkInv(c)
    PROVE  HeldInv(c)' /\ CallInv(c)' /\ MarkInv(c)'
<1> USE DEF Types, AppTypes, ServiceTypes
<1>1. Creating(c)' = Creating(c)
  BY DEF SendCall, Creating, At
<1>2. (At(c, "unmark") \cup At(c, "unmarking"))' = At(c, "unmark") \cup At(c, "unmarking")
  BY DEF SendCall, At
<1>3. Held(c)' = Held(c)
  BY <1>1 DEF Held, SendCall
<1>4. HeldInv(c)' /\ MarkInv(c)'
  BY <1>2, <1>3 DEF HeldInv, MarkInv, SendCall
<1>5. CallInv(c)'
  <2>1. conn[c] = "open" /\ spc[c] = "idle" /\ spc' = spc /\ conn' = conn
    BY DEF CallInv, SendCall, ServerPcs, ThreadInv
  <2>2. \A u \in Threads : pc[c][u] \notin {"marking", "unmarking"}
    BY DEF SendCall, At
  <2>3. \A u \in Threads : pc'[c][u] \in {"marking", "unmarking"} => u = t
    BY <2>2 DEF SendCall
  <2>4. \/ request'[c] = "mark" /\ pc'[c][t] = "marking"
        \/ request'[c] = "unmark" /\ pc'[c][t] = "unmarking"
    BY DEF SendCall
  <2> QED
    BY <2>1, <2>3, <2>4 DEF CallInv, At
<1> QED
  BY <1>4, <1>5

\* The reply moves a use from the thread that is creating the handle to the handle,
\* or, for a face tracker, leaves it in the count alone.
LEMMA AnsweredApp ==
    ASSUME Types, NEW c \in Clients, Answered(c), UNCHANGED <<clientUse, kind, conn>>,
           HeldInv(c), CallInv(c)
    PROVE  /\ HeldInv(c)'
           /\ \A t \in Threads : pc'[c][t] \notin {"marking", "unmarking"}
<1> USE DEF Types, AppTypes
<1>0. /\ handles[c] \in Nat /\ Cardinality(Creating(c)) \in Nat /\ clientUse[c] \in Int
      /\ clientUse'[c] = clientUse[c]
  BY CreatingFinite
<1>1. \A t \in Threads :
        pc'[c][t] = IF pc[c][t] \in {"marking", "unmarking"} THEN "idle" ELSE pc[c][t]
  BY DEF Answered
<1>2. \/ Held(c)' = Held(c)
      \/ Held(c)' = Held(c) - 1 /\ kind = "face"
  <2>1. CASE At(c, "marking") = {}
    <3>1. Creating(c)' = Creating(c)
      BY <1>1, <2>1 DEF Creating, At
    <3>2. handles'[c] = handles[c]
      BY <2>1 DEF Answered
    <3> QED
      BY <3>1, <3>2 DEF Held
  <2>2. CASE At(c, "marking") # {}
    <3>1. PICK t \in Threads : pc[c][t] = "marking"
      BY <2>2 DEF At
    <3>2. \A u \in Threads : pc[c][u] \in {"marking", "unmarking"} => u = t
      BY <3>1 DEF CallInv
    <3>3. t \in Creating(c) /\ Creating(c)' = Creating(c) \ {t}
      BY <1>1, <3>1, <3>2 DEF Creating, At
    <3>4. Cardinality(Creating(c)') = Cardinality(Creating(c)) - 1
      BY <3>3, CreatingFinite, FS_RemoveElement
    <3>5. \/ handles'[c] = handles[c] /\ kind = "face"
          \/ handles'[c] = handles[c] + 1
      BY <2>2 DEF Answered
    <3> HIDE DEF Types, AppTypes
    <3> QED
      BY <1>0, <3>4, <3>5 DEF Held
  <2> QED
    BY <2>1, <2>2
<1>3. Held(c) \in Nat
  BY <1>0 DEF Held
<1>4. conn[c] # "open" => handles'[c] = 0 /\ \A t \in Threads : pc'[c][t] = "idle"
  <2> SUFFICES ASSUME conn[c] # "open"
               PROVE  handles'[c] = 0 /\ \A t \in Threads : pc'[c][t] = "idle"
    OBVIOUS
  <2>1. At(c, "marking") = {} /\ handles[c] = 0 /\ \A t \in Threads : pc[c][t] = "idle"
    BY DEF HeldInv, At
  <2> QED
    BY <1>1, <2>1 DEF Answered
<1>5. HeldInv(c)'
  <2> HIDE DEF Types, AppTypes
  <2> QED
    BY <1>0, <1>2, <1>3, <1>4, UsageAssumption DEF HeldInv
<1> QED
  BY <1>1, <1>5

\* The steps of the service's thread for an application, as they bear on it.
LEMMA ServiceApp ==
    ASSUME Types, ThreadInv, FailingInv, NEW c \in Clients,
           MarkInUse(c) \/ UnmarkInUse(c) \/ BeginFeature(c) \/ EndFeature(c),
           HeldInv(c), CallInv(c), MarkInv(c)
    PROVE  HeldInv(c)' /\ CallInv(c)' /\ MarkInv(c)'
<1> USE DEF Types, ServiceTypes
<1>1. /\ UNCHANGED <<clientUse, kind, implemented, conn, connects>>
      /\ UNCHANGED <<handles, pc>> \/ Answered(c)
  BY ServiceStep
<1>2. HeldInv(c)'
  <2>1. CASE UNCHANGED <<handles, pc>>
    BY <1>1, <2>1 DEF HeldInv, Held, Creating, At
  <2>2. CASE Answered(c)
    BY <1>1, <2>2, AnsweredApp
  <2> QED
    BY <1>1, <2>1, <2>2
<1>3. /\ request'[c] = "none"
      /\ \/ Answered(c) /\ spc'[c] = "idle"
         \/ /\ UNCHANGED <<handles, pc>> /\ conn'[c] = conn[c]
            /\ \/ spc'[c] = "begin" /\ request[c] = "mark"
               \/ spc'[c] = "end" /\ request[c] = "unmark"
  <2>1. CASE MarkInUse(c)
    BY <2>1 DEF MarkInUse, Read, Reply, Answered
  <2>2. CASE UnmarkInUse(c)
    BY <2>2 DEF UnmarkInUse, Read, Reply, Answered
  <2>3. CASE BeginFeature(c)
    <3>1. Answered(c)
      BY <2>3 DEF BeginFeature, Reply, Answered
    <3> QED
      BY <2>3, <3>1 DEF BeginFeature, CallInv
  <2>4. CASE EndFeature(c)
    <3>1. Answered(c)
      BY <2>4 DEF EndFeature, Reply, Answered
    <3> QED
      BY <2>4, <3>1 DEF EndFeature, CallInv
  <2> QED
    BY <2>1, <2>2, <2>3, <2>4
<1>4. CallInv(c)'
  <2>1. CASE Answered(c) /\ spc'[c] = "idle"
    <3>1. \A t \in Threads : pc'[c][t] \notin {"marking", "unmarking"}
      BY <1>1, <2>1, AnsweredApp
    <3> QED
      BY <1>3, <2>1, <3>1 DEF CallInv
  <2>2. CASE UNCHANGED <<handles, pc>> /\ conn'[c] = conn[c]
    BY <1>3, <2>1, <2>2 DEF CallInv, At
  <2> QED
    BY <1>3, <2>1, <2>2
<1>5. MarkInv(c)'
  <2> SUFFICES ASSUME conn[c] = "open", clientUse[c] = 0, used'[c]
               PROVE  (At(c, "unmark") \cup At(c, "unmarking"))' # {}
    BY <1>1 DEF MarkInv
  <2>1. At(c, "marking") = {}
    <3>1. Held(c) <= 0 /\ handles[c] \in Nat /\ Cardinality(Creating(c)) \in Nat
      BY CreatingFinite DEF HeldInv, AppTypes
    <3>2. Creating(c) = {}
      BY <3>1, CreatingFinite DEF Held
    <3> QED
      BY <3>2 DEF Creating
  <2>2. ~MarkInUse(c) /\ ~BeginFeature(c)
    BY <2>1 DEF CallInv, MarkInUse, Read, BeginFeature
  <2>3. ~EndFeature(c)
    <3> SUFFICES ASSUME EndFeature(c) PROVE FALSE
      OBVIOUS
    <3>1. ~DeviceFails
      BY DEF EndFeature, FailingInv
    <3> QED
      BY <3>1 DEF EndFeature
  <2>4. UnmarkInUse(c)
    BY <2>2, <2>3
  <2>5. request[c] = "unmark" /\ UNCHANGED pc
    BY <2>4 DEF UnmarkInUse, Read
  <2> QED
    BY <2>5 DEF CallInv, At
<1> QED
  BY <1>2, <1>4, <1>5

\* Every step keeps the invariant of every application.
LEMMA AppStep == Types /\ AppInv /\ ServiceInv /\ [Next]_vars => AppInv'
<1> SUFFICES ASSUME Types, AppInv, ServiceInv, [Next]_vars, NEW d \in Clients
             PROVE  HeldInv(d)' /\ CallInv(d)' /\ MarkInv(d)'
  BY DEF AppInv
<1>0. HeldInv(d) /\ CallInv(d) /\ MarkInv(d) /\ ThreadInv /\ FailingInv
  BY DEF AppInv, ServiceInv
<1> DEFINE Same == /\ kind' = kind
                   /\ handles'[d] = handles[d] /\ clientUse'[d] = clientUse[d]
                   /\ pc'[d] = pc[d] /\ request'[d] = request[d] /\ conn'[d] = conn[d]
                   /\ used'[d] = used[d] /\ spc'[d] = spc[d]
<1>1. Same => HeldInv(d)' /\ CallInv(d)' /\ MarkInv(d)'
  BY <1>0, Elsewhere
<1> USE DEF Types, AppTypes, ServiceTypes
<1>2. ASSUME NEW c \in Clients, Connect(c) PROVE HeldInv(d)' /\ CallInv(d)' /\ MarkInv(d)'
  <2>1. CASE d # c
    <3>1. Same
      BY <1>2, <2>1 DEF Connect
    <3> QED
      BY <1>1, <3>1
  <2>2. CASE d = c
    <3>1. UNCHANGED <<handles, clientUse, pc, kind>>
      BY <1>2 DEF Connect
    <3>2. Held(d)' = Held(d) /\ kind' = kind /\ clientUse' = clientUse
      BY <3>1 DEF Held, Creating, At
    <3>3. /\ conn'[d] = "open" /\ request'[d] = "none" /\ spc'[d] = "idle" /\ ~used'[d]
          /\ pc' = pc
      BY <1>0, <1>2, <2>2 DEF Connect, ThreadInv
    <3> QED
      BY <1>0, <3>2, <3>3 DEF HeldInv, CallInv, MarkInv
  <2> QED
    BY <2>1, <2>2
<1>3. ASSUME NEW c \in Clients, Disconnect(c) PROVE HeldInv(d)' /\ CallInv(d)' /\ MarkInv(d)'
  <2>1. CASE d # c
    <3>1. Same
      BY <1>3, <2>1 DEF Disconnect
    <3> QED
      BY <1>1, <3>1
  <2>2. CASE d = c
    <3>1. /\ conn'[d] = "closing" /\ handles'[d] = 0 /\ clientUse'[d] = 0
          /\ \A t \in Threads : pc'[d][t] = "idle"
          /\ request'[d] = request[d] /\ spc'[d] = spc[d]
      BY <1>3, <2>2 DEF Disconnect
    <3>2. Creating(d)' = {}
      BY <3>1 DEF Creating, At
    <3>3. Held(d)' = 0
      BY <3>1, <3>2, FS_EmptySet DEF Held
    <3> QED
      BY <1>0, <3>1, <3>3, UsageAssumption DEF HeldInv, CallInv, MarkInv
  <2> QED
    BY <2>1, <2>2
<1>4. ASSUME NEW c \in Clients, NEW t \in Threads, App(c, t)
      PROVE  HeldInv(d)' /\ CallInv(d)' /\ MarkInv(d)'
  <2>1. CASE d # c
    <3>1. Same
      BY <1>4, <2>1 DEF App, Inc, Dec, SendCall
    <3> QED
      BY <1>1, <3>1
  <2>2. CASE d = c
    <3> HIDE DEF Types
    <3> QED
      BY <1>0, <1>4, <2>2, IncApp, DecApp, SendApp DEF App
  <2> QED
    BY <2>1, <2>2
<1>5. ASSUME NEW c \in Clients,
             MarkInUse(c) \/ UnmarkInUse(c) \/ BeginFeature(c) \/ EndFeature(c)
      PROVE  HeldInv(d)' /\ CallInv(d)' /\ MarkInv(d)'
  <2>1. CASE d # c
    <3>1. /\ request'[d] = request[d] /\ used'[d] = used[d] /\ spc'[d] = spc[d]
          /\ conn' = conn
      BY <1>5, <2>1 DEF MarkInUse, UnmarkInUse, BeginFeature, EndFeature, Read
    <3>2. Same
      BY <1>5, <2>1, <3>1, ServiceStep DEF Answered
    <3> QED
      BY <1>1, <3>2
  <2>2. CASE d = c
    <3> HIDE DEF Types
    <3> QED
      BY <1>0, <1>5, <2>2, ServiceApp
  <2> QED
    BY <2>1, <2>2
<1>6. ASSUME NEW c \in Clients, CommonShutdown(c) \/ ShutdownEndFeature(c)
      PROVE  HeldInv(d)' /\ CallInv(d)' /\ MarkInv(d)'
  <2>1. CASE d # c
    <3>1. Same
      BY <1>6, <2>1 DEF CommonShutdown, ShutdownEndFeature
    <3> QED
      BY <1>1, <3>1
  <2>2. CASE d = c
    <3>1. /\ UNCHANGED <<handles, clientUse, pc, kind>>
          /\ request'[d] = "none" /\ conn[d] # "open" /\ conn'[d] # "open"
      BY <1>0, <1>6, <2>2 DEF CommonShutdown, ShutdownEndFeature, ThreadInv
    <3>2. Held(d)' = Held(d)
      BY <3>1 DEF Held, Creating, At
    <3> QED
      BY <1>0, <3>1, <3>2 DEF HeldInv, CallInv, MarkInv
  <2> QED
    BY <2>1, <2>2
<1>7. CASE UNCHANGED vars
  <2>1. Same
    BY <1>7 DEF vars
  <2> QED
    BY <1>1, <2>1
<1> QED
  BY <1>2, <1>3, <1>4, <1>5, <1>6, <1>7 DEF Next, ClientThread

-----------------------------------------------------------------------------
(* The service.                                                            *)

\* The marks of the clients follow the threads of the service.
LEMMA ThreadStep == Types /\ AppInv /\ ServiceInv /\ [Next]_vars => ThreadInv'
<1> SUFFICES ASSUME Types, AppInv, ServiceInv, [Next]_vars PROVE ThreadInv'
  OBVIOUS
<1> USE DEF ServiceInv, ThreadInv, Types, ServiceTypes
<1>1. ASSUME NEW c \in Clients, Connect(c) \/ Disconnect(c) PROVE ThreadInv'
  BY <1>1 DEF Connect, Disconnect
<1>2. ASSUME NEW c \in Clients, NEW t \in Threads, App(c, t) PROVE ThreadInv'
  BY <1>2 DEF App, Inc, Dec, SendCall
<1>3. ASSUME NEW c \in Clients, MarkInUse(c) PROVE ThreadInv'
  BY ZenonT(60), <1>3 DEF MarkInUse, Read
<1>4. ASSUME NEW c \in Clients, UnmarkInUse(c) PROVE ThreadInv'
  BY ZenonT(60), <1>4 DEF UnmarkInUse, Read
<1>5. ASSUME NEW c \in Clients, BeginFeature(c) PROVE ThreadInv'
  BY <1>5 DEF BeginFeature
<1>6. ASSUME NEW c \in Clients, EndFeature(c) PROVE ThreadInv'
  BY <1>6 DEF EndFeature
<1>7. ASSUME NEW c \in Clients, CommonShutdown(c) PROVE ThreadInv'
  BY <1>7 DEF CommonShutdown
<1>8. ASSUME NEW c \in Clients, ShutdownEndFeature(c) PROVE ThreadInv'
  BY <1>8 DEF ShutdownEndFeature
<1>9. CASE UNCHANGED vars
  BY <1>9 DEF vars
<1> QED
  BY <1>1, <1>2, <1>3, <1>4, <1>5, <1>6, <1>7, <1>8, <1>9 DEF Next, ClientThread

\* The clients whose use is counted are finitely many.
LEMMA CountedFinite ==
    /\ IsFiniteSet(Counted) /\ Cardinality(Counted) \in Nat
    /\ IsFiniteSet(Marked) /\ Cardinality(Marked) \in Nat
    /\ Marked \subseteq Counted
<1>1. Counted \subseteq Clients /\ Marked \subseteq Clients /\ Marked \subseteq Counted
  BY DEF Counted, Marked
<1> QED
  BY <1>1, UsageAssumption, FS_Subset, FS_CardinalityType

\* A step that changes neither the count nor what it counts, nor the device.
LEMMA SameCount ==
    ASSUME ServiceInv, UNCHANGED <<use, device, kind, implemented, used, spc>>
    PROVE  CountIsExact' /\ FailingInv' /\ DeviceInv'
<1>1. Counted' = Counted /\ Marked' = Marked /\ (DeviceFails' <=> DeviceFails)
  BY DEF Counted, Marked, DeviceFails
<1> QED
  BY <1>1 DEF ServiceInv, CountIsExact, FailingInv, DeviceInv

\* A use is counted: the first is on the way to the device, the others are marked.
LEMMA MarkCount ==
    ASSUME Types, ServiceInv, NEW c \in Clients, MarkInUse(c)
    PROVE  CountIsExact' /\ FailingInv' /\ DeviceInv'
<1>0. /\ spc[c] = "idle" /\ UNCHANGED <<kind, implemented, device>>
      /\ use \in Int /\ use >= 0
      /\ Cardinality(Counted) \in Nat /\ Cardinality(Marked) \in Nat
  BY CountedFinite DEF MarkInUse, Read, Types, ServiceTypes, ServiceInv, CountIsExact
<1>1. DeviceFails' <=> DeviceFails
  BY <1>0 DEF DeviceFails
<1>2. CASE used[c]
  BY <1>0, <1>2, SameCount DEF MarkInUse
<1>3. CASE ~used[c]
  <2>1. c \notin Counted /\ c \notin Marked /\ use' = use + 1
    BY <1>0, <1>3 DEF Counted, Marked, MarkInUse, IncUse
  <2>2. Cardinality(Counted \cup {c}) = Cardinality(Counted) + 1
    BY <2>1, CountedFinite, FS_AddElement
  <2>3. Cardinality(Marked \cup {c}) = Cardinality(Marked) + 1
    BY <2>1, CountedFinite, FS_AddElement
  <2>4. Counted' = Counted \cup {c}
    BY <1>0, <1>3 DEF Counted, MarkInUse, Types, ServiceTypes
  <2>5. CountIsExact'
    BY <1>0, <1>1, <2>1, <2>2, <2>4 DEF ServiceInv, CountIsExact
  <2>6. DeviceInv'
    BY <1>0, <2>1 DEF DeviceInv
  <2>7. FailingInv'
    <3> SUFFICES ASSUME DeviceFails
                 PROVE  /\ ~device'
                        /\ \A d \in Clients : spc'[d] \notin {"end", "endLast"}
                        /\ use' >= Cardinality(Marked') + 1
      BY <1>1 DEF FailingInv
    <3>1. ~device'
      BY <1>0 DEF ServiceInv, FailingInv
    <3>2. \A d \in Clients : spc'[d] \notin {"end", "endLast"}
      BY <1>0, <1>3 DEF ServiceInv, FailingInv, MarkInUse, Types, ServiceTypes
    <3>3. CASE use' = 1
      <4>1. Marked' = Marked
        BY <1>0, <1>3, <3>3 DEF Marked, MarkInUse, WasZero, Types, ServiceTypes
      <4>2. Cardinality(Marked) <= Cardinality(Counted)
        BY CountedFinite, FS_Subset
      <4>3. Cardinality(Counted) <= use /\ use = 0
        BY <1>0, <2>1, <3>3 DEF ServiceInv, CountIsExact
      <4> QED
        BY <1>0, <3>1, <3>2, <3>3, <4>1, <4>2, <4>3
    <3>4. CASE use' # 1
      <4>1. Marked' = Marked \cup {c}
        BY <1>0, <1>3, <3>4 DEF Marked, MarkInUse, WasZero, Types, ServiceTypes
      <4>2. use > 0 /\ use >= Cardinality(Marked) + 1
        BY <1>0, <2>1, <3>4 DEF ServiceInv, FailingInv
      <4> QED
        BY <1>0, <2>1, <2>3, <3>1, <3>2, <4>1, <4>2
    <3> QED
      BY <3>3, <3>4
  <2> QED
    BY <2>5, <2>6, <2>7
<1> QED
  BY <1>2, <1>3

\* A use is given back, by a call or by the end of the application: the last one is
\* on the way to the device.
LEMMA UnmarkCount ==
    ASSUME Types, ServiceInv, NEW c \in Clients, UnmarkInUse(c) \/ CommonShutdown(c)
    PROVE  CountIsExact' /\ FailingInv' /\ DeviceInv'
<1>0. /\ spc[c] = "idle" /\ UNCHANGED <<kind, implemented, device>>
      /\ use \in Int /\ use >= 0
      /\ Cardinality(Counted) \in Nat /\ Cardinality(Marked) \in Nat
  <2>1. spc[c] = "idle" /\ UNCHANGED <<kind, implemented, device>>
    BY DEF UnmarkInUse, CommonShutdown, Read
  <2> QED
    BY <2>1, CountedFinite DEF Types, ServiceTypes, ServiceInv, CountIsExact
<1>1. DeviceFails' <=> DeviceFails
  BY <1>0 DEF DeviceFails
<1>2. CASE ~used[c]
  BY <1>0, <1>2, SameCount DEF UnmarkInUse, CommonShutdown
<1>3. CASE used[c]
  <2>1. c \in Counted /\ c \in Marked /\ use' = use - 1
    BY <1>0, <1>3 DEF Counted, Marked, UnmarkInUse, CommonShutdown, DecUse
  <2>2. Cardinality(Counted \ {c}) = Cardinality(Counted) - 1
    BY <2>1, CountedFinite, FS_RemoveElement
  <2>3. Cardinality(Marked \ {c}) = Cardinality(Marked) - 1
    BY <2>1, CountedFinite, FS_RemoveElement
  <2>4. /\ \/ use' = 0 /\ spc'[c] \in {"end", "endLast"} /\ used' = used
           \/ use' # 0 /\ spc' = spc /\ used' = [used EXCEPT ![c] = FALSE]
        /\ \A d \in Clients \ {c} : spc'[d] = spc[d]
    BY <1>3 DEF UnmarkInUse, CommonShutdown, IsZero, Types, ServiceTypes
  <2>5. Counted' = Counted \ {c} /\ Marked' = Marked \ {c}
    BY <1>0, <2>4 DEF Counted, Marked, Types, ServiceTypes
  <2>6. CountIsExact'
    BY <1>0, <1>1, <2>1, <2>2, <2>5 DEF ServiceInv, CountIsExact
  <2>7. DeviceInv'
    BY <2>4 DEF DeviceInv
  <2>8. FailingInv'
    <3> SUFFICES ASSUME DeviceFails
                 PROVE  /\ ~device'
                        /\ \A d \in Clients : spc'[d] \notin {"end", "endLast"}
                        /\ use' >= Cardinality(Marked') + 1
      BY <1>1 DEF FailingInv
    <3>1. Cardinality(Marked) >= 1
      BY <1>0, <2>1, CountedFinite, FS_EmptySet
    <3>2. use >= Cardinality(Marked) + 1
      <4>1. Cardinality(Marked) <= Cardinality(Counted)
        BY CountedFinite, FS_Subset
      <4>2. use > 0
        BY <1>0, <3>1, <4>1 DEF ServiceInv, CountIsExact
      <4> QED
        BY <4>2 DEF ServiceInv, FailingInv
    <3>3. use' # 0 /\ use' >= Cardinality(Marked')  + 1
      BY <1>0, <2>1, <2>3, <2>5, <3>1, <3>2
    <3>4. \A d \in Clients : spc'[d] \notin {"end", "endLast"}
      BY <2>4, <3>3 DEF ServiceInv, FailingInv
    <3> QED
      BY <1>0, <3>3, <3>4 DEF ServiceInv, FailingInv
  <2> QED
    BY <2>6, <2>7, <2>8
<1> QED
  BY <1>2, <1>3

\* The device is told of the first use; one that fails loses the mark, not the count.
LEMMA BeginCount ==
    ASSUME Types, ServiceInv, NEW c \in Clients, BeginFeature(c)
    PROVE  CountIsExact' /\ FailingInv' /\ DeviceInv'
<1>0. /\ spc[c] = "begin" /\ UNCHANGED <<kind, implemented, use>>
      /\ spc' = [spc EXCEPT ![c] = "idle"]
      /\ use \in Int
      /\ Cardinality(Counted) \in Nat /\ Cardinality(Marked) \in Nat
  BY CountedFinite DEF BeginFeature, Types, ServiceTypes
<1>1. DeviceFails' <=> DeviceFails
  BY <1>0 DEF DeviceFails
<1>2. c \in Counted /\ c \notin Marked /\ ~used[c]
  BY <1>0 DEF Counted, Marked, ServiceInv, ThreadInv
<1>3. Cardinality(Counted) >= 1
  BY <1>0, <1>2, CountedFinite, FS_EmptySet
<1>4. DeviceInv'
  BY <1>0, <1>3 DEF DeviceInv, ServiceInv, CountIsExact
<1>5. CASE ~DeviceFails
  <2>1. used' = [used EXCEPT ![c] = TRUE]
    BY <1>5, Zenon DEF BeginFeature
  <2>2. Counted' = Counted
    BY <1>0, <2>1 DEF Counted, Types, ServiceTypes
  <2> QED
    BY <1>0, <1>1, <1>4, <1>5, <2>2 DEF ServiceInv, CountIsExact, FailingInv
<1>6. CASE DeviceFails
  <2>1. used' = [used EXCEPT ![c] = FALSE] /\ device' = device
    <3>1. (~DeviceFails) = FALSE
      BY <1>6
    <3>2. ~device /\ device \in BOOLEAN
      BY <1>6 DEF ServiceInv, FailingInv, Types, ServiceTypes
    <3> QED
      BY <3>1, <3>2, Zenon DEF BeginFeature
  <2>2. Counted' = Counted \ {c} /\ Marked' = Marked
    BY <1>0, <1>2, <2>1 DEF Counted, Marked, Types, ServiceTypes
  <2>3. Cardinality(Counted \ {c}) = Cardinality(Counted) - 1
    BY <1>2, CountedFinite, FS_RemoveElement
  <2>4. CountIsExact'
    BY <1>0, <1>1, <1>6, <2>2, <2>3 DEF ServiceInv, CountIsExact
  <2>5. FailingInv'
    BY <1>0, <1>1, <1>6, <2>1, <2>2 DEF ServiceInv, FailingInv, Types, ServiceTypes
  <2> QED
    BY <1>4, <2>4, <2>5
<1> QED
  BY <1>5, <1>6

\* The device is told of the end of the last use; this is not one that fails.
LEMMA EndCount ==
    ASSUME Types, ServiceInv, NEW c \in Clients, EndFeature(c) \/ ShutdownEndFeature(c)
    PROVE  CountIsExact' /\ FailingInv' /\ DeviceInv'
<1>0. /\ spc[c] \in {"end", "endLast"} /\ UNCHANGED <<kind, implemented, use>>
      /\ spc' = [spc EXCEPT ![c] = "idle"]
  BY DEF EndFeature, ShutdownEndFeature
<1>1. ~DeviceFails /\ ~DeviceFails'
  BY <1>0 DEF DeviceFails, ServiceInv, FailingInv
<1>2. used' = [used EXCEPT ![c] = FALSE] /\ ~device'
  <2>1. DeviceFails = FALSE
    BY <1>1 DEF DeviceFails
  <2>2. used' = [used EXCEPT ![c] = FALSE]
    BY <2>1, Zenon DEF EndFeature, ShutdownEndFeature
  <2>3. ~device'
    BY <1>1 DEF EndFeature, ShutdownEndFeature
  <2> QED
    BY <2>2, <2>3
<1>3. Counted' = Counted
  BY <1>0, <1>2 DEF Counted, Types, ServiceTypes
<1> QED
  BY <1>0, <1>1, <1>2, <1>3 DEF ServiceInv, CountIsExact, FailingInv, DeviceInv

\* Every step keeps the invariant of the service.
LEMMA ServiceInvStep == Types /\ AppInv /\ ServiceInv /\ [Next]_vars => ServiceInv'
<1> SUFFICES ASSUME Types, AppInv, ServiceInv, [Next]_vars PROVE ServiceInv'
  OBVIOUS
<1>1. ASSUME NEW c \in Clients, Connect(c) \/ Disconnect(c)
      PROVE  UNCHANGED <<use, device, kind, implemented, used, spc>>
  BY <1>1 DEF Connect, Disconnect
<1>2. ASSUME NEW c \in Clients, NEW t \in Threads, App(c, t)
      PROVE  UNCHANGED <<use, device, kind, implemented, used, spc>>
  BY <1>2 DEF App, Inc, Dec, SendCall
<1>3. UNCHANGED vars => UNCHANGED <<use, device, kind, implemented, used, spc>>
  BY DEF vars
<1>4. CountIsExact' /\ FailingInv' /\ DeviceInv'
  BY <1>1, <1>2, <1>3, SameCount, MarkCount, UnmarkCount, BeginCount, EndCount
     DEF Next, ClientThread
<1> QED
  BY <1>4, ThreadStep DEF ServiceInv

-----------------------------------------------------------------------------
(* The theorems.                                                           *)

Inv == Types /\ AppInv /\ ServiceInv

\* At first there are no connections, no handles and no uses.
LEMMA InvInit == Init => Inv
<1> SUFFICES ASSUME Init PROVE Inv
  OBVIOUS
<1>1. Types
  <2>1. kind \in Kinds /\ implemented \in BOOLEAN /\ device \in BOOLEAN
    BY Zenon DEF Init
  <2>2. /\ handles \in [Clients -> Nat] /\ clientUse \in [Clients -> Int]
        /\ pc \in [Clients -> [Threads -> ThreadPcs]]
        /\ connects \in 0..MaxConnects
    BY UsageAssumption DEF Init, ThreadPcs
  <2>3. /\ request \in [Clients -> {"none", "mark", "unmark"}]
        /\ conn \in [Clients -> {"open", "closing", "closed"}]
        /\ spc \in [Clients -> ServerPcs]
        /\ use \in Int
    BY DEF Init, ServerPcs
  <2>4. used \in [Clients -> BOOLEAN]
    BY DEF Init
  <2> QED
    BY <2>1, <2>2, <2>3, <2>4 DEF Types, AppTypes, ServiceTypes
<1>2. AppInv
  <2> SUFFICES ASSUME NEW c \in Clients PROVE HeldInv(c) /\ CallInv(c) /\ MarkInv(c)
    BY DEF AppInv
  <2>1. /\ handles[c] = 0 /\ clientUse[c] = 0 /\ conn[c] = "closed" /\ request[c] = "none"
        /\ \A t \in Threads : pc[c][t] = "idle"
    BY DEF Init
  <2>2. Creating(c) = {}
    BY <2>1 DEF Creating, At
  <2>3. Held(c) = 0
    BY <2>1, <2>2, FS_EmptySet DEF Held
  <2> QED
    BY <2>1, <2>3, UsageAssumption DEF HeldInv, CallInv, MarkInv
<1>3. ServiceInv
  <2>1. Counted = {} /\ use = 0 /\ ~device /\ \A c \in Clients : spc[c] = "idle" /\ ~used[c]
    BY DEF Init, Counted
  <2>2. CountIsExact /\ FailingInv /\ DeviceInv
    BY <2>1, FS_EmptySet DEF CountIsExact, FailingInv, DeviceInv
  <2>3. ThreadInv
    BY <2>1 DEF ThreadInv, Init
  <2> QED
    BY <2>2, <2>3 DEF ServiceInv
<1> QED
  BY <1>1, <1>2, <1>3 DEF Inv

\* All of it holds throughout.
LEMMA InvHolds == Spec => []Inv
<1>1. Inv /\ [Next]_vars => Inv'
  BY AppTypesStep, ServiceTypesStep, AppStep, ServiceInvStep DEF Inv, Types
<1> QED
  BY <1>1, InvInit, PTL DEF Spec

\* The applications and the service count every use once, whatever calls overtake
\* each other, are refused, fail or are cut off: ref_space_inc/dec and
\* feature_inc/dec, for any number of clients, threads and handles.
THEOREM UsageHolds == Spec => []UsageIsSound
<1>1. Inv => UsageIsSound
  <2> SUFFICES ASSUME Inv PROVE UsageIsSound
    OBVIOUS
  <2>1. ASSUME NEW c \in Clients
        PROVE  /\ handles[c] \in 0..MaxHandles /\ clientUse[c] \in Nat
               /\ clientUse[c] >= Held(c)
               /\ kind # "face" => clientUse[c] = Held(c)
    <3>1. /\ handles[c] \in Nat /\ Cardinality(Creating(c)) \in Nat /\ clientUse[c] \in Int
          /\ HeldInv(c)
      BY CreatingFinite DEF Inv, Types, AppTypes, AppInv
    <3> QED
      BY <3>1, UsageAssumption DEF HeldInv, Held
  <2>2. use \in Nat
    BY CountedFinite DEF Inv, ServiceInv, CountIsExact, Types, ServiceTypes
  <2>3. handles \in [Clients -> 0..MaxHandles] /\ clientUse \in [Clients -> Nat]
    BY <2>1 DEF Inv, Types, AppTypes
  <2>4. TypeOK
    BY <2>2, <2>3 DEF TypeOK, Inv, Types, AppTypes, ServiceTypes
  <2>5. ClientCountIsExact
    BY <2>1 DEF ClientCountIsExact, Held, Creating
  <2> QED
    BY <2>4, <2>5 DEF UsageIsSound, Inv, ServiceInv
<1> QED
  BY <1>1, InvHolds, PTL

\* What nobody uses is stopped once everything is at rest, though the calls that say
\* so may arrive out of order.
THEOREM ReleasedHolds == Spec => []ReleasedAtRest
<1>1. Inv => ReleasedAtRest
  <2> SUFFICES ASSUME Inv PROVE ReleasedAtRest
    OBVIOUS
  <2>1. ASSUME NEW c \in Clients, AppAtRest(c), clientUse[c] = 0 PROVE ~used[c]
    <3>1. At(c, "unmark") \cup At(c, "unmarking") = {}
      BY <2>1 DEF AppAtRest, At
    <3> QED
      BY <2>1, <3>1 DEF Inv, AppInv, MarkInv, AppAtRest
  <2>2. ServiceAtRest /\ use = 0 => ~device
    BY DEF ServiceAtRest, Inv, ServiceInv, DeviceInv
  <2> QED
    BY <2>1, <2>2 DEF ReleasedAtRest
<1> QED
  BY <1>1, InvHolds, PTL

=============================================================================
