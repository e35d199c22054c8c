------------------------------ MODULE UsageCounts ------------------------------
(***************************************************************************)
(* The counts that tell a device that a reference space or one of its      *)
(* features is in use.  They are kept in three places: every OpenXR handle *)
(* holds one use, the IPC client of the application counts the handles and *)
(* calls the service only when its count leaves or reaches zero, and the   *)
(* service, which marks each client that uses it, counts the marks and     *)
(* calls the device only when that count leaves or reaches zero.  The two  *)
(* counts are atomic, but neither is changed together with the call that   *)
(* announces the change: threads of one application overtake each other on *)
(* the way to the service, client threads of the service on the way to the *)
(* device.  Applications end at any time, with uses and calls outstanding. *)
(*                                                                         *)
(* One resource is modelled, as the counts of different ones never meet.   *)
(* It is one of three, by what the callers do with errors:                 *)
(*   "space"  a reference space (oxr_space.c): the device call has no      *)
(*            result and the result of the whole is ignored;               *)
(*   "eye"    eye tracking of an action space: the result is ignored;      *)
(*   "face"   a face tracker: creation fails with the result.              *)
(***************************************************************************)
EXTENDS Integers, FiniteSets

CONSTANTS
    Clients,      \* places for clients in the service
    Threads,      \* threads of an application that create and destroy handles
    MaxHandles,   \* bound: handles an application has or is creating
    MaxConnects   \* bound: connections made in a behaviour

ASSUME UsageAssumption ==
    /\ IsFiniteSet(Clients)
    /\ IsFiniteSet(Threads)
    /\ MaxHandles \in Nat
    /\ MaxConnects \in Nat

VARIABLES
    kind,         \* which resource it is
    implemented,  \* whether the device has begin_feature and end_feature
    handles,      \* number of handles of each application that hold a use
    clientUse,    \* icspo->ref_space_use or usysd->feature_use
    pc,           \* what each thread of each application is doing
    request,      \* the call on the connection the service has not read
    conn,         \* the connection: "open", "closing" or "closed"
    used,         \* ics->ref_space_used or ics->device_feature_used
    spc,          \* what the service's thread for each client is doing
    use,          \* uso->ref_space_use or usysds->feature_use
    device,       \* what the device was told last
    connects      \* connections made so far

appVars == <<handles, clientUse, pc>>
serverVars == <<used, spc, use, device>>
fixedVars == <<kind, implemented>>
vars == <<appVars, serverVars, fixedVars, request, conn, connects>>

Kinds == {"space", "eye", "face"}

\* Between the change of the count and the call; then with the call sent and
\* the connection's mutex held until the reply.
ThreadPcs == {"idle", "mark", "unmark", "marking", "unmarking"}

\* "begin" and "end": the count was changed and the device not yet told.
\* "endLast": the same in common_shutdown.
ServerPcs == {"idle", "begin", "end", "endLast"}

TypeOK ==
    /\ kind \in Kinds
    /\ implemented \in BOOLEAN
    /\ handles \in [Clients -> 0..MaxHandles]
    /\ clientUse \in [Clients -> Nat]
    /\ pc \in [Clients -> [Threads -> ThreadPcs]]
    /\ request \in [Clients -> {"none", "mark", "unmark"}]
    /\ conn \in [Clients -> {"open", "closing", "closed"}]
    /\ used \in [Clients -> BOOLEAN]
    /\ spc \in [Clients -> ServerPcs]
    /\ use \in Nat
    /\ device \in BOOLEAN
    /\ connects \in 0..MaxConnects

Init ==
    /\ kind \in Kinds
    /\ implemented \in (IF kind = "space" THEN {TRUE} ELSE BOOLEAN)
    /\ handles = [c \in Clients |-> 0]
    /\ clientUse = [c \in Clients |-> 0]
    /\ pc = [c \in Clients |-> [t \in Threads |-> "idle"]]
    /\ request = [c \in Clients |-> "none"]
    /\ conn = [c \in Clients |-> "closed"]
    /\ used = [c \in Clients |-> FALSE]
    /\ spc = [c \in Clients |-> "idle"]
    /\ use = 0
    /\ device = FALSE
    /\ connects = 0

--------------------------------------------------------------------------------
(* The application. *)

At(c, where) == {t \in Threads : pc[c][t] = where}

Connect(c) ==
    /\ conn[c] = "closed"
    /\ connects < MaxConnects
    /\ connects' = connects + 1
    /\ conn' = [conn EXCEPT ![c] = "open"]
    /\ UNCHANGED <<appVars, serverVars, fixedVars, request>>

\* A handle is created and takes a use.  Only the first use is announced.
Inc(c, t) ==
    /\ conn[c] = "open"
    /\ pc[c][t] = "idle"
    /\ handles[c] + Cardinality(At(c, "mark") \cup At(c, "marking")) < MaxHandles
    /\ clientUse' = [clientUse EXCEPT ![c] = @ + 1]
    /\ \/ /\ clientUse'[c] = 1
          /\ pc' = [pc EXCEPT ![c][t] = "mark"]
          /\ UNCHANGED handles
       \/ /\ clientUse'[c] # 1
          /\ handles' = [handles EXCEPT ![c] = @ + 1]
          /\ UNCHANGED pc
    /\ UNCHANGED <<serverVars, fixedVars, request, conn, connects>>

\* Mutant: the count is compared before it is decremented.
DecTestsFirst(c, t) ==
    /\ conn[c] = "open"
    /\ pc[c][t] = "idle"
    /\ handles[c] > 0
    /\ handles' = [handles EXCEPT ![c] = @ - 1]
    /\ clientUse' = [clientUse EXCEPT ![c] = @ - 1]
    /\ pc' = IF clientUse[c] = 0 THEN [pc EXCEPT ![c][t] = "unmark"] ELSE pc
    /\ UNCHANGED <<serverVars, fixedVars, request, conn, connects>>

\* A handle is destroyed and gives its use back.  Only the last is announced.
Dec(c, t) ==
    /\ conn[c] = "open"
    /\ pc[c][t] = "idle"
    /\ handles[c] > 0
    /\ handles' = [handles EXCEPT ![c] = @ - 1]
    /\ clientUse' = [clientUse EXCEPT ![c] = @ - 1]
    /\ pc' = IF clientUse'[c] = 0 THEN [pc EXCEPT ![c][t] = "unmark"] ELSE pc
    /\ UNCHANGED <<serverVars, fixedVars, request, conn, connects>>

\* Take the connection's mutex and send the call.
SendCall(c, t) ==
    /\ conn[c] = "open"
    /\ At(c, "marking") \cup At(c, "unmarking") = {}
    /\ \/ /\ pc[c][t] = "mark"
          /\ pc' = [pc EXCEPT ![c][t] = "marking"]
          /\ request' = [request EXCEPT ![c] = "mark"]
       \/ /\ pc[c][t] = "unmark"
          /\ pc' = [pc EXCEPT ![c][t] = "unmarking"]
          /\ request' = [request EXCEPT ![c] = "unmark"]
    /\ UNCHANGED <<handles, clientUse, serverVars, fixedVars, conn, connects>>

\* The reply releases the thread.  A create that failed keeps its handle
\* unless it is a face tracker, which is destroyed without giving back a use.
Reply(c, ok) ==
    /\ pc' = [pc EXCEPT ![c] = [t \in Threads |->
                 IF @[t] \in {"marking", "unmarking"} THEN "idle" ELSE @[t]]]
    /\ handles' = IF At(c, "marking") # {} /\ (ok \/ kind # "face")
                  THEN [handles EXCEPT ![c] = @ + 1] ELSE handles

\* The application ends, or closes its connection, whatever its threads do.
Disconnect(c) ==
    /\ conn[c] = "open"
    /\ conn' = [conn EXCEPT ![c] = "closing"]
    /\ handles' = [handles EXCEPT ![c] = 0]
    /\ clientUse' = [clientUse EXCEPT ![c] = 0]
    /\ pc' = [pc EXCEPT ![c] = [t \in Threads |-> "idle"]]
    /\ UNCHANGED <<serverVars, fixedVars, request, connects>>

--------------------------------------------------------------------------------
(* The client thread of the service. *)

DeviceFails == kind # "space" /\ ~implemented

\* ref_space_inc and feature_inc: count, and whether to call the device.
IncUse == use' = use + 1
WasZero == use' = 1

\* ref_space_dec and feature_dec.
DecUse == use' = use - 1
IsZero == use' = 0

Read(c, call) ==
    /\ spc[c] = "idle"
    /\ conn[c] # "closed"
    /\ request[c] = call
    /\ request' = [request EXCEPT ![c] = "none"]
    /\ UNCHANGED <<clientUse, fixedVars, conn, connects, device>>

MarkInUse(c) ==
    /\ Read(c, "mark")
    /\ \/ /\ used[c]                       \* "already used!"
          /\ Reply(c, FALSE)
          /\ UNCHANGED <<used, spc, use>>
       \/ /\ ~used[c]
          /\ IncUse
          /\ IF WasZero
             THEN /\ spc' = [spc EXCEPT ![c] = "begin"]
                  /\ UNCHANGED <<handles, pc, used>>
             ELSE /\ used' = [used EXCEPT ![c] = TRUE]
                  /\ Reply(c, TRUE)
                  /\ UNCHANGED spc

\* Mutant: the mark is kept when other clients go on using the resource.
UnmarkKeepsMark(c) ==
    /\ Read(c, "unmark")
    /\ \/ /\ ~used[c]
          /\ Reply(c, FALSE)
          /\ UNCHANGED <<used, spc, use>>
       \/ /\ used[c]
          /\ DecUse
          /\ UNCHANGED used
          /\ IF IsZero
             THEN /\ spc' = [spc EXCEPT ![c] = "end"]
                  /\ UNCHANGED <<handles, pc>>
             ELSE Reply(c, TRUE) /\ UNCHANGED spc

UnmarkInUse(c) ==
    /\ Read(c, "unmark")
    /\ \/ /\ ~used[c]                      \* "not used!"
          /\ Reply(c, FALSE)
          /\ UNCHANGED <<used, spc, use>>
       \/ /\ used[c]
          /\ DecUse
          /\ IF IsZero
             THEN /\ spc' = [spc EXCEPT ![c] = "end"]
                  /\ UNCHANGED <<handles, pc, used>>
             ELSE /\ used' = [used EXCEPT ![c] = FALSE]
                  /\ Reply(c, TRUE)
                  /\ UNCHANGED spc

\* The device is told that the resource is in use.  When it fails the client
\* is not marked, and the count is not taken back.
BeginFeature(c) ==
    /\ spc[c] = "begin"
    /\ spc' = [spc EXCEPT ![c] = "idle"]
    /\ device' = (device \/ ~DeviceFails)
    /\ used' = [used EXCEPT ![c] = ~DeviceFails]
    /\ Reply(c, ~DeviceFails)
    /\ UNCHANGED <<clientUse, fixedVars, request, conn, connects, use>>

\* The device is told that it is not; when it fails the mark stays.
EndFeature(c) ==
    /\ spc[c] = "end"
    /\ spc' = [spc EXCEPT ![c] = "idle"]
    /\ device' = (device /\ DeviceFails)
    /\ used' = [used EXCEPT ![c] = DeviceFails]
    /\ Reply(c, ~DeviceFails)
    /\ UNCHANGED <<clientUse, fixedVars, request, conn, connects, use>>

\* Mutant: the uses of a client that has gone are not given back.
ShutdownForgetsUse(c) ==
    /\ conn[c] = "closing"
    /\ spc[c] = "idle"
    /\ request' = [request EXCEPT ![c] = "none"]
    /\ used' = [used EXCEPT ![c] = FALSE]
    /\ conn' = [conn EXCEPT ![c] = "closed"]
    /\ UNCHANGED <<appVars, fixedVars, connects, device, use, spc>>

\* The service noticed the end of the connection: it gives back the use of a
\* client that is still marked.  A call it had not read is lost.
CommonShutdown(c) ==
    /\ conn[c] = "closing"
    /\ spc[c] = "idle"
    /\ request' = [request EXCEPT ![c] = "none"]
    /\ \/ /\ used[c]
          /\ DecUse
          /\ IF IsZero
             THEN /\ spc' = [spc EXCEPT ![c] = "endLast"]
                  /\ UNCHANGED <<used, conn>>
             ELSE /\ used' = [used EXCEPT ![c] = FALSE]
                  /\ conn' = [conn EXCEPT ![c] = "closed"]
                  /\ UNCHANGED spc
       \/ /\ ~used[c]
          /\ conn' = [conn EXCEPT ![c] = "closed"]
          /\ UNCHANGED <<used, spc, use>>
    /\ UNCHANGED <<appVars, fixedVars, connects, device>>

ShutdownEndFeature(c) ==
    /\ spc[c] = "endLast"
    /\ spc' = [spc EXCEPT ![c] = "idle"]
    /\ device' = (device /\ DeviceFails)
    /\ used' = [used EXCEPT ![c] = FALSE]
    /\ conn' = [conn EXCEPT ![c] = "closed"]
    /\ UNCHANGED <<appVars, fixedVars, request, connects, use>>

--------------------------------------------------------------------------------
App(c, t) == Inc(c, t) \/ Dec(c, t) \/ SendCall(c, t)

ClientThread(c) ==
    \/ MarkInUse(c)
    \/ UnmarkInUse(c)
    \/ BeginFeature(c)
    \/ EndFeature(c)
    \/ CommonShutdown(c)
    \/ ShutdownEndFeature(c)

Next ==
    \E c \in Clients :
        \/ Connect(c)
        \/ Disconnect(c)
        \/ ClientThread(c)
        \/ \E t \in Threads : App(c, t)

Spec == Init /\ [][Next]_vars

\* The threads of the service run; applications may do nothing for ever.
FairSpec == Spec /\ \A c \in Clients : WF_vars(ClientThread(c))

--------------------------------------------------------------------------------
(* Properties. *)

\* Clients whose use is in the service's count.
Counted ==
    {c \in Clients : \/ spc[c] = "begin"
                     \/ used[c] /\ spc[c] \notin {"end", "endLast"}}

\* The service's count is never less than the uses it stands for, so that
\* the device is not stopped under a client, and is exactly their number
\* when the device cannot fail.
CountIsExact ==
    /\ use >= Cardinality(Counted)
    /\ ~DeviceFails => use = Cardinality(Counted)

\* The same of the count in each application: a use per handle, and per
\* handle that is being created.  A face tracker that could not be created,
\* as the device failed or its call overtook another, leaves its use behind.
ClientCountIsExact ==
    \A c \in Clients :
        LET held == handles[c] + Cardinality(At(c, "mark") \cup At(c, "marking"))
        IN  /\ clientUse[c] >= held
            /\ kind # "face" => clientUse[c] = held

\* ref_space_inc/dec and feature_inc/dec in the application and in the
\* service count every use once, through calls that overtake each other, are
\* refused, fail, or are cut off by the end of an application.
UsageIsSound == TypeOK /\ CountIsExact /\ ClientCountIsExact

AppAtRest(c) == conn[c] = "open" /\ At(c, "idle") = Threads

ServiceAtRest == \A c \in Clients : spc[c] = "idle"

\* What nobody uses is stopped, though calls may arrive out of order: an
\* application without uses and without a call under way is not marked in
\* the service, and when the service counts no use and none of its threads
\* is about to call the device, the device was told last that it is unused.
\* ref_space_dec, feature_dec and the handlers that unmark.
ReleasedAtRest ==
    /\ \A c \in Clients : AppAtRest(c) /\ clientUse[c] = 0 => ~used[c]
    /\ ServiceAtRest /\ use = 0 => ~device

\* When every application has gone, however it went, the device is told that
\* its resource is unused, unless a new application connects first: the
\* clean-up in common_shutdown.
DepartedUsesEnd ==
    (\A c \in Clients : conn[c] # "open")
        ~> (~device \/ \E c \in Clients : conn[c] = "open")

\* Not kept by the code, see the README: a resource in use is one the device
\* was told of.
UsedIsBegun ==
    ServiceAtRest => ((\E c \in Clients : used[c]) => device)

================================================================================
