-------------------------- MODULE IpcServer_proofs --------------------------
(***************************************************************************)
(* Theorems about IpcServer, for any number of slots and connections, any  *)
(* failures, and either setting of the exit options.  Those about slots    *)
(* and the idle exit hold for any number of sessions, those about focus    *)
(* for connections that make one.                                          *)
(***************************************************************************)
EXTENDS IpcServer, FiniteSetTheorems, WellFoundedInduction, TLAPS

-----------------------------------------------------------------------------
(* The slots of a set: the first, the last, and an id for a new client.    *)

\* Slots are natural numbers, and finitely many.
LEMMA SlotsFinite ==
  /\ Slots \subseteq Nat
  /\ None \notin Slots
  /\ IsFiniteSet(Slots)
  /\ Cardinality(Slots) = NumSlots
BY ConstantsAssumption, FS_Interval DEF Slots, None

\* A set of natural numbers that is not empty has a least element.
LEMMA LeastExists ==
  ASSUME NEW T \in SUBSET Nat, T # {}
  PROVE  \E x \in T : \A y \in T : x <= y
<1> DEFINE R == {p \in Nat \X Nat : p[1] < p[2]}
<1>1. IsWellFoundedOn(R, Nat)
  BY NatLessThanWellFounded DEF OpToRel
<1>2. PICK x \in T : \A y \in T : <<y, x>> \notin R
  BY <1>1, WFMin, Zenon
<1>3. ASSUME NEW y \in T PROVE x <= y
  <2>1. <<y, x>> \notin R /\ x \in Nat /\ y \in Nat
    BY <1>2
  <2> QED
    BY <2>1
<1> QED
  BY <1>3

\* FirstOf picks an element of its set.
LEMMA FirstOfIn ==
  ASSUME NEW S \in SUBSET Slots, S # {}
  PROVE  FirstOf(S) \in S
<1>1. \E i \in S : \A j \in S : i <= j
  BY SlotsFinite, LeastExists
<1> QED
  BY <1>1, Zenon DEF FirstOf

\* LastOf picks an element of its set.
LEMMA LastOfIn ==
  ASSUME NEW S \in SUBSET Slots, S # {}
  PROVE  LastOf(S) \in S
<1> DEFINE T == {n \in Nat : \E i \in S : n = NumSlots - i}
<1>1. \A i \in S : NumSlots - i \in T
  BY ConstantsAssumption DEF Slots
<1>2. PICK n \in T : \A m \in T : n <= m
  <2>1. T \in SUBSET Nat /\ T # {}
    BY <1>1
  <2> HIDE DEF T
  <2> QED
    BY <2>1, LeastExists
<1>3. PICK i \in S : n = NumSlots - i
  BY <1>2
<1>4. ASSUME NEW j \in S PROVE j <= i
  <2>1. NumSlots - i <= NumSlots - j
    BY <1>1, <1>2, <1>3
  <2>2. i \in Int /\ j \in Int /\ NumSlots \in Int
    BY ConstantsAssumption DEF Slots
  <2> QED
    BY <2>1, <2>2
<1> QED
  BY <1>4, Zenon DEF LastOf

\* ChooseActive yields a slot or None.
LEMMA ChooseActiveType ==
  ASSUME NEW cur \in Slots \cup {None}, NEW act
  PROVE  ChooseActive(cur, act) \in Slots \cup {None}
<1>1. Fallbacks(act) \subseteq Slots
  BY DEF Fallbacks
<1>2. Fallbacks(act) # {} => LastOf(Fallbacks(act)) \in Slots
  BY <1>1, LastOfIn
<1> QED
  BY <1>2, Zenon DEF ChooseActive

\* There is an id for the client of slot i: the ids of the other slots are fewer
\* than the ids other than zero.
LEMMA FreeIdExists ==
  ASSUME NEW i \in Slots, id[i] = 0, id \in [Slots -> 0 .. IdModulus - 1]
  PROVE  \E v \in 1 .. IdModulus - 1 : \A j \in Slots : id[j] # v
<1> SUFFICES ASSUME \A v \in 1 .. IdModulus - 1 : \E j \in Slots : id[j] = v
             PROVE  FALSE
  OBVIOUS
<1> DEFINE V == 1 .. IdModulus - 1
           T == Slots \ {i}
           f == [v \in V |-> CHOOSE j \in Slots : id[j] = v]
<1>1. ASSUME NEW v \in V PROVE f[v] \in T /\ id[f[v]] = v
  <2>1. PICK j \in Slots : id[j] = v
    OBVIOUS
  <2>2. f[v] \in Slots /\ id[f[v]] = v
    BY <2>1
  <2>3. v # 0
    BY ConstantsAssumption
  <2> QED
    BY <2>2, <2>3
<1>2. f \in [V -> T]
  BY <1>1
<1>3. IsFiniteSet(V) /\ Cardinality(V) = IdModulus - 1
  BY ConstantsAssumption, FS_Interval
<1>4. IsFiniteSet(T) /\ Cardinality(T) = NumSlots - 1
  BY SlotsFinite, FS_RemoveElement
<1>5. Cardinality(T) < Cardinality(V)
  BY <1>3, <1>4, ConstantsAssumption
<1>6. \E v, w \in V : v # w /\ f[v] = f[w]
  <2> HIDE DEF f, V, T
  <2> QED
    BY <1>2, <1>3, <1>4, <1>5, FS_PigeonHole
<1> QED
  BY <1>1, <1>6

\* Counting on from g modulo M reaches every v below M within M steps.
LEMMA CountReaches ==
  ASSUME NEW M \in Nat, NEW g \in 0 .. M - 1, NEW v \in 0 .. M - 1
  PROVE  \E n \in 1 .. M : (g + n) % M = v
<1>1. CASE v > g
  <2>1. v - g \in 1 .. M /\ (g + (v - g)) % M = v
    BY <1>1
  <2> QED
    BY <2>1
<1>2. CASE v <= g
  <2>1. v + M - g \in 1 .. M /\ g + (v + M - g) = v + M
    BY <1>2
  <2>2. (v + M) % M = v
    OBVIOUS
  <2> QED
    BY <2>1, <2>2
<1> QED
  BY <1>1, <1>2

\* allocate_id_locked finds an id that is not zero and that no slot has.
LEMMA NextIdFree ==
  ASSUME NEW i \in Slots, id[i] = 0, id \in [Slots -> 0 .. IdModulus - 1],
         id_generator \in 0 .. IdModulus - 1
  PROVE  NextId \in 1 .. IdModulus - 1 /\ \A j \in Slots : id[j] # NextId
<1> DEFINE val(n) == (id_generator + n) % IdModulus
           free(n) == val(n) # 0 /\ \A j \in Slots : id[j] # val(n)
           step == CHOOSE n \in 1 .. IdModulus :
                     free(n) /\ \A m \in 1 .. IdModulus : free(m) => n <= m
           F == {n \in 1 .. IdModulus : free(n)}
<1>1. PICK v \in 1 .. IdModulus - 1 : \A j \in Slots : id[j] # v
  BY FreeIdExists
<1>0. IdModulus \in Nat /\ IdModulus > 0 /\ id_generator \in Int
  BY ConstantsAssumption
<1>2. PICK k \in 1 .. IdModulus : val(k) = v
  <2>1. v \in 0 .. IdModulus - 1
    BY <1>0, <1>1
  <2> HIDE DEF free, step, F
  <2>2. \A g, w \in 0 .. IdModulus - 1 : \E k \in 1 .. IdModulus : (g + k) % IdModulus = w
    BY <1>0, CountReaches
  <2> QED
    BY <2>1, <2>2
<1>3. k \in F
  BY <1>1, <1>2
<1>4. PICK n \in F : \A m \in F : n <= m
  <2> HIDE DEF free
  <2>1. F \in SUBSET Nat /\ F # {}
    BY <1>0, <1>3
  <2> HIDE DEF F
  <2> QED
    BY <2>1, LeastExists
<1>5. free(step) /\ step \in 1 .. IdModulus
  <2> HIDE DEF free
  <2>1. \E s \in 1 .. IdModulus : free(s) /\ \A m \in 1 .. IdModulus : free(m) => s <= m
    BY <1>4
  <2> QED
    BY <2>1, Zenon
<1>6. NextId = val(step)
  BY Zenon DEF NextId
<1>7. val(step) \in 0 .. IdModulus - 1
  <2> HIDE DEF step
  <2>1. step \in Int
    BY <1>0, <1>5
  <2> QED
    BY <1>0, <2>1
<1> QED
  BY <1>5, <1>6, <1>7

-----------------------------------------------------------------------------
(* The inductive invariant.                                                *)

\* Where the thread of a slot that was given up can be.
LeavingPcs == {"destroy_refs", "destroy_comp", "destroy_null", "exit_check",
               "idle_write", "deactivate", "exited"}

\* A slot without a client was never used, or its thread is ending; its id is
\* zero.  The slot the main thread joins stays without a client.
SlotsInv ==
  /\ \A i \in Slots : ~used[i] =>
       /\ id[i] = 0
       /\ \/ tstate[i] = "READY" /\ tpc[i] = "none"
          \/ tstate[i] = "STOPPING" /\ tpc[i] \in LeavingPcs
  /\ mainPc = "join" => joining \in Slots /\ ~used[joining]

IInv == TypeOK /\ SlotsInv /\ UniqueIds

\* The initial state has it.
LEMMA InitIInv == Init => IInv
<1> SUFFICES ASSUME Init PROVE IInv
  OBVIOUS
<1>1. TypeOK
  <2>1. /\ active \in [Slots -> BOOLEAN] /\ overlay \in [Slots -> BOOLEAN]
        /\ shown \in [Slots -> BOOLEAN] /\ compShown \in [Slots -> BOOLEAN]
        /\ mainVis \in [Slots -> BOOLEAN] /\ arg \in [Slots -> BOOLEAN]
        /\ used \in [Slots -> BOOLEAN]
        /\ running \in BOOLEAN /\ lastDisc \in BOOLEAN
        /\ exiting \in BOOLEAN /\ earlyExit \in BOOLEAN
    BY Zenon DEF Init
  <2>2. /\ mainPc \in {"poll", "join", "freed"} /\ joining \in Slots \cup {None}
        /\ lock \in {"free", "main"} /\ connects \in 0 .. MaxConnects
        /\ id_generator \in 0 .. IdModulus - 1
        /\ activeIdx \in Slots \cup {None} /\ lastIdx \in Slots \cup {None}
        /\ count \in Int /\ sleepers \in SUBSET {"fresh", "stale"}
        /\ staleUse \in SUBSET Slots
    BY ConstantsAssumption DEF Init
  <2>3. /\ tstate \in [Slots -> {"READY", "STARTING", "STOPPING"}]
        /\ tpc \in [Slots -> ThreadPcs]
        /\ id \in [Slots -> 0 .. IdModulus - 1]
        /\ xc \in [Slots -> {"null", "live", "freed"}]
        /\ sessions \in [Slots -> 0 .. MaxSessions]
    BY ConstantsAssumption DEF Init, ThreadPcs
  <2> QED
    BY <2>1, <2>2, <2>3 DEF TypeOK
<1>2. SlotsInv
  BY DEF Init, SlotsInv
<1>3. UniqueIds
  BY DEF Init, UniqueIds
<1> QED
  BY <1>1, <1>2, <1>3 DEF IInv

\* Telling clients leaves what is recorded of them Boolean.
LEMMA TellClientsType ==
  ASSUME TypeOK, NEW S \in SUBSET Slots, NEW act, NEW last,
         TellClients(S, act, last)
  PROVE  /\ shown' \in [Slots -> BOOLEAN]
         /\ compShown' \in [Slots -> BOOLEAN]
         /\ mainVis' \in [Slots -> BOOLEAN]
         /\ staleUse' \in SUBSET Slots
<1>1. /\ overlay \in [Slots -> BOOLEAN] /\ shown \in [Slots -> BOOLEAN]
      /\ compShown \in [Slots -> BOOLEAN] /\ mainVis \in [Slots -> BOOLEAN]
      /\ staleUse \in SUBSET Slots
  BY DEF TypeOK
<1> QED
  BY <1>1 DEF TellClients

\* What update_server_state_locked writes keeps its type.
LEMMA UpdateServerStateType ==
  ASSUME TypeOK, NEW cur \in Slots \cup {None}, NEW act,
         UpdateServerState(cur, act)
  PROVE  /\ activeIdx' \in Slots \cup {None} /\ lastIdx' \in Slots \cup {None}
         /\ shown' \in [Slots -> BOOLEAN] /\ compShown' \in [Slots -> BOOLEAN]
         /\ mainVis' \in [Slots -> BOOLEAN] /\ staleUse' \in SUBSET Slots
<1>1. CASE cur # None /\ act[cur] /\ cur = lastIdx
  BY <1>1 DEF UpdateServerState, TypeOK
<1>2. CASE ~(cur # None /\ act[cur] /\ cur = lastIdx)
  <2> DEFINE chosen == ChooseActive(cur, act)
  <2>1. chosen \in Slots \cup {None}
    BY ChooseActiveType
  <2>2. /\ activeIdx' = chosen /\ lastIdx' = chosen
        /\ TellClients({i \in Slots : used[i]}, chosen, lastIdx)
    BY <1>2 DEF UpdateServerState
  <2>3. {i \in Slots : used[i]} \in SUBSET Slots
    OBVIOUS
  <2> HIDE DEF chosen
  <2>4. /\ shown' \in [Slots -> BOOLEAN] /\ compShown' \in [Slots -> BOOLEAN]
        /\ mainVis' \in [Slots -> BOOLEAN] /\ staleUse' \in SUBSET Slots
    BY <2>2, <2>3, TellClientsType
  <2> QED
    BY <2>1, <2>2, <2>4
<1> QED
  BY <1>1, <1>2

\* So does what set_active_client_locked writes.
LEMMA SetActiveClientType ==
  ASSUME TypeOK, NEW i \in Slots, NEW act, SetActiveClient(i, act)
  PROVE  /\ activeIdx' \in Slots \cup {None} /\ lastIdx' \in Slots \cup {None}
         /\ shown' \in [Slots -> BOOLEAN] /\ compShown' \in [Slots -> BOOLEAN]
         /\ mainVis' \in [Slots -> BOOLEAN] /\ staleUse' \in SUBSET Slots
<1>1. CASE i # activeIdx
  BY <1>1, UpdateServerStateType DEF SetActiveClient
<1>2. CASE i = activeIdx
  BY <1>2 DEF SetActiveClient, TypeOK, focusVars
<1> QED
  BY <1>1, <1>2


-----------------------------------------------------------------------------
(* Every step keeps the invariant.                                         *)

\* A slot without a client that gets one: the id is new.
LEMMA StartClientStep ==
  ASSUME TypeOK, SlotsInv, UniqueIds, NEW i \in Slots, ~used[i], StartClient(i)
  PROVE  /\ id_generator' \in 0 .. IdModulus - 1
         /\ tstate' \in [Slots -> {"READY", "STARTING", "STOPPING"}]
         /\ used' \in [Slots -> BOOLEAN]
         /\ tpc' \in [Slots -> ThreadPcs]
         /\ id' \in [Slots -> 0 .. IdModulus - 1]
         /\ active' \in [Slots -> BOOLEAN]
         /\ overlay' \in [Slots -> BOOLEAN]
         /\ shown' \in [Slots -> BOOLEAN]
         /\ xc' \in [Slots -> {"null", "live", "freed"}]
         /\ compShown' \in [Slots -> BOOLEAN]
         /\ mainVis' \in [Slots -> BOOLEAN]
         /\ arg' \in [Slots -> BOOLEAN]
         /\ sessions' \in [Slots -> 0 .. MaxSessions]
         /\ \A j \in Slots : ~used'[j] => /\ j # i /\ ~used[j]
                                          /\ id'[j] = id[j]
                                          /\ tstate'[j] = tstate[j]
                                          /\ tpc'[j] = tpc[j]
         /\ UniqueIds'
<1>1. /\ id[i] = 0 /\ id \in [Slots -> 0 .. IdModulus - 1]
      /\ id_generator \in 0 .. IdModulus - 1
  BY DEF SlotsInv, TypeOK
<1>2. NextId \in 1 .. IdModulus - 1 /\ \A j \in Slots : id[j] # NextId
  BY <1>1, NextIdFree
<1>3. NextId \in 0 .. IdModulus - 1 /\ NextId # 0
  BY <1>2, ConstantsAssumption
<1>4. /\ id_generator' \in 0 .. IdModulus - 1
      /\ id' \in [Slots -> 0 .. IdModulus - 1]
      /\ tstate' \in [Slots -> {"READY", "STARTING", "STOPPING"}]
      /\ xc' \in [Slots -> {"null", "live", "freed"}]
      /\ sessions' \in [Slots -> 0 .. MaxSessions]
  BY <1>3, ConstantsAssumption DEF StartClient, TypeOK
<1>5. tpc' \in [Slots -> ThreadPcs]
  BY DEF StartClient, TypeOK, ThreadPcs
<1>6. /\ used' \in [Slots -> BOOLEAN] /\ active' \in [Slots -> BOOLEAN]
      /\ overlay' \in [Slots -> BOOLEAN] /\ shown' \in [Slots -> BOOLEAN]
      /\ compShown' \in [Slots -> BOOLEAN] /\ mainVis' \in [Slots -> BOOLEAN]
      /\ arg' \in [Slots -> BOOLEAN]
  BY DEF StartClient, TypeOK
<1>7. \A j \in Slots : ~used'[j] => /\ j # i /\ ~used[j]
                                    /\ id'[j] = id[j]
                                    /\ tstate'[j] = tstate[j]
                                    /\ tpc'[j] = tpc[j]
  BY DEF StartClient, TypeOK
<1>8. UniqueIds'
  <2>1. id' = [id EXCEPT ![i] = NextId] /\ used' = [used EXCEPT ![i] = TRUE]
    BY DEF StartClient
  <2>2. used \in [Slots -> BOOLEAN]
    BY DEF TypeOK
  <2> QED
    BY <1>1, <1>2, <1>3, <2>1, <2>2 DEF UniqueIds
<1> QED
  BY <1>4, <1>5, <1>6, <1>7, <1>8

\* The main thread's accept.
LEMMA ConnectedStep == IInv /\ HandleClientConnected => IInv'
<1> SUFFICES ASSUME TypeOK, SlotsInv, UniqueIds, HandleClientConnected PROVE IInv'
  BY DEF IInv
<1>1. /\ connects' \in 0 .. MaxConnects /\ count' \in Int
      /\ lastDisc' \in BOOLEAN /\ sleepers' \in SUBSET {"fresh", "stale"}
      /\ running' \in BOOLEAN /\ exiting' \in BOOLEAN /\ earlyExit' \in BOOLEAN
      /\ activeIdx' \in Slots \cup {None} /\ lastIdx' \in Slots \cup {None}
      /\ staleUse' \in SUBSET Slots
  <2>1. /\ connects < MaxConnects /\ connects' = connects + 1
        /\ count' = count + 1 /\ lastDisc' = FALSE
        /\ sleepers' = IF sleepers = {} THEN {} ELSE {"stale"}
        /\ UNCHANGED <<running, focusVars, exiting, earlyExit, staleUse>>
    BY DEF HandleClientConnected
  <2>2. connects' \in 0 .. MaxConnects /\ count' \in Int
    BY <2>1, ConstantsAssumption DEF TypeOK
  <2>3. lastDisc' \in BOOLEAN
    BY <2>1, Zenon
  <2> QED
    BY <2>1, <2>2, <2>3 DEF TypeOK, focusVars
<1>2. CASE FreeSlots = {} /\ UNCHANGED <<mainPc, joining, lock, id_generator, threadVars, clientVars>>
  <2>1. TypeOK'
    BY <1>1, <1>2 DEF TypeOK, threadVars, clientVars
  <2> QED
    BY <2>1, <1>2 DEF IInv, SlotsInv, UniqueIds, threadVars, clientVars
<1>3. ASSUME FreeSlots # {}
      PROVE  FirstOf(FreeSlots) \in Slots /\ ~used[FirstOf(FreeSlots)]
  <2>1. FreeSlots \in SUBSET Slots
    BY DEF FreeSlots
  <2>2. FirstOf(FreeSlots) \in FreeSlots
    BY <1>3, <2>1, FirstOfIn
  <2> QED
    BY <2>2 DEF FreeSlots
<1>4. CASE /\ FreeSlots # {} /\ StartClient(FirstOf(FreeSlots))
           /\ UNCHANGED <<mainPc, joining, lock>>
  <2> DEFINE i == FirstOf(FreeSlots)
  <2>0. i \in Slots /\ ~used[i] /\ StartClient(i)
    BY <1>3, <1>4
  <2> HIDE DEF i
  <2>1. TypeOK'
    BY <1>1, <1>4, <2>0, StartClientStep DEF TypeOK
  <2>2. /\ \A j \in Slots : ~used'[j] => /\ j # i /\ ~used[j]
                                         /\ id'[j] = id[j]
                                         /\ tstate'[j] = tstate[j]
                                         /\ tpc'[j] = tpc[j]
        /\ UniqueIds'
    BY <2>0, StartClientStep
  <2>3. mainPc' # "join"
    BY <1>4 DEF HandleClientConnected
  <2>4. SlotsInv'
    BY <2>2, <2>3 DEF SlotsInv
  <2> QED
    BY <2>1, <2>2, <2>4 DEF IInv
<1>5. CASE /\ FreeSlots # {} /\ mainPc' = "join" /\ joining' = FirstOf(FreeSlots)
           /\ lock' = "main" /\ UNCHANGED <<id_generator, threadVars, clientVars>>
  <2>0. joining' \in Slots /\ ~used[joining']
    BY <1>3, <1>5
  <2>1. TypeOK'
    BY <1>1, <1>5, <2>0 DEF TypeOK, threadVars, clientVars
  <2>2. SlotsInv'
    BY <1>5, <2>0 DEF SlotsInv, threadVars, clientVars
  <2>3. UniqueIds'
    BY <1>5 DEF UniqueIds, threadVars, clientVars
  <2> QED
    BY <2>1, <2>2, <2>3 DEF IInv
<1> QED
  BY <1>2, <1>4, <1>5 DEF HandleClientConnected

\* The main thread's join.
LEMMA JoinStep == IInv /\ JoinOldThread => IInv'
<1> SUFFICES ASSUME TypeOK, SlotsInv, UniqueIds, JoinOldThread PROVE IInv'
  BY DEF IInv
<1>1. /\ joining \in Slots /\ ~used[joining] /\ StartClient(joining)
      /\ mainPc' = "poll" /\ joining' = None /\ lock' = "free"
      /\ UNCHANGED <<running, connects, focusVars, idleVars, staleUse>>
  BY DEF JoinOldThread, SlotsInv
<1>2. TypeOK'
  BY <1>1, StartClientStep DEF TypeOK, focusVars, idleVars
<1>3. /\ \A j \in Slots : ~used'[j] => /\ ~used[j]
                                       /\ id'[j] = id[j]
                                       /\ tstate'[j] = tstate[j]
                                       /\ tpc'[j] = tpc[j]
      /\ UniqueIds'
  BY <1>1, StartClientStep
<1>4. SlotsInv'
  BY <1>1, <1>3 DEF SlotsInv
<1> QED
  BY <1>2, <1>3, <1>4 DEF IInv

\* A thread that moves on within its commands, or within its shutdown.
LEMMA GotoStep ==
  ASSUME TypeOK, SlotsInv, UniqueIds, NEW i \in Slots, NEW from, NEW to \in ThreadPcs,
         Goto(i, from, to), from # "none",
         ~used[i] /\ from \in LeavingPcs => to \in LeavingPcs,
         UNCHANGED <<mainPc, joining, tstate, used, id>>
  PROVE  tpc' \in [Slots -> ThreadPcs] /\ SlotsInv' /\ UniqueIds'
<1>1. tpc[i] = from /\ tpc' = [tpc EXCEPT ![i] = to] /\ tpc \in [Slots -> ThreadPcs]
  BY DEF Goto, TypeOK
<1>2. SlotsInv'
  BY <1>1 DEF SlotsInv
<1> QED
  BY <1>1, <1>2 DEF UniqueIds


\* The steps of the main thread that end the service, and the delayed exit.
LEMMA StopStep ==
  IInv /\ (HandleShutdownSignal \/ Teardown \/ DelayedExitStop) => IInv'
<1> SUFFICES ASSUME TypeOK, SlotsInv, UniqueIds,
                    HandleShutdownSignal \/ Teardown \/ DelayedExitStop
             PROVE  IInv'
  BY DEF IInv
<1>1. /\ running' \in BOOLEAN /\ exiting' \in BOOLEAN
      /\ mainPc' \in {mainPc, "freed"}
      /\ UNCHANGED <<joining, lock, connects, id_generator, focusVars, count, lastDisc,
                     sleepers, earlyExit, threadVars, clientVars, staleUse>>
  <2>1. CASE HandleShutdownSignal
    BY <2>1 DEF HandleShutdownSignal, TypeOK, idleVars
  <2>2. CASE Teardown
    BY <2>2 DEF Teardown, TypeOK, idleVars
  <2>3. CASE DelayedExitStop
    BY <2>3 DEF DelayedExitStop, TypeOK, idleVars
  <2> QED
    BY <2>1, <2>2, <2>3
<1>2. TypeOK'
  BY <1>1 DEF TypeOK, focusVars, threadVars, clientVars
<1>3. SlotsInv' /\ UniqueIds'
  BY <1>1 DEF SlotsInv, UniqueIds, threadVars, clientVars
<1> QED
  BY <1>2, <1>3 DEF IInv

\* The delayed_exit_thread's check writes only the idle state.
LEMMA DelayedExitStep ==
  ASSUME IInv, NEW kind \in {"fresh", "stale"}, DelayedExit(kind)
  PROVE  IInv'
<1>1. /\ sleepers' \in {sleepers, sleepers \ {kind}}
      /\ exiting' = (exiting \/ (count = 0 /\ lastDisc))
      /\ earlyExit' = (earlyExit \/ ((count = 0 /\ lastDisc) /\ kind = "stale"))
      /\ UNCHANGED <<globalVars, focusVars, count, lastDisc, threadVars, clientVars, staleUse>>
  BY DEF DelayedExit
<1>2. TypeOK'
  BY <1>1 DEF IInv, TypeOK, globalVars, focusVars, threadVars, clientVars
<1>3. SlotsInv' /\ UniqueIds'
  BY <1>1 DEF IInv, SlotsInv, UniqueIds, globalVars, threadVars, clientVars
<1> QED
  BY <1>2, <1>3 DEF IInv


\* A command begins, or the loop ends: the thread of a connected client moves.
LEMMA CommandStep ==
  ASSUME IInv, NEW i \in Slots, Command(i) \/ LeaveLoop(i)
  PROVE  IInv'
<1> USE DEF IInv
<1>1. ASSUME NEW ov \in BOOLEAN, SessionCreate(i, ov) PROVE IInv'
  <2>1. /\ Goto(i, "loop", "create_store")
        /\ sessions[i] < MaxSessions
        /\ sessions' = [sessions EXCEPT ![i] = @ + 1]
        /\ overlay' = [overlay EXCEPT ![i] = ov]
        /\ UNCHANGED <<globalVars, focusVars, idleVars, tstate, used, id, active,
                       shown, xc, compShown, mainVis, arg, staleUse>>
    BY <1>1 DEF SessionCreate
  <2>2. tpc' \in [Slots -> ThreadPcs] /\ SlotsInv' /\ UniqueIds'
    BY <2>1, GotoStep DEF globalVars, ThreadPcs, LeavingPcs
  <2>3. sessions' \in [Slots -> 0 .. MaxSessions]
    BY <2>1, ConstantsAssumption DEF TypeOK
  <2>4. TypeOK'
    BY <2>1, <2>2, <2>3 DEF TypeOK, globalVars, focusVars, idleVars
  <2> QED
    BY <2>2, <2>4
<1>2. CASE PredictFrame(i) \/ SessionDestroy(i) \/ LeaveLoop(i)
  <2>1. /\ \E to \in {"predicted", "activate", "destroy_refs", "closing"} : Goto(i, "loop", to)
        /\ UNCHANGED <<globalVars, focusVars, idleVars, tstate, used, clientVars, staleUse>>
    BY <1>2 DEF PredictFrame, SessionDestroy, LeaveLoop
  <2>2. tpc' \in [Slots -> ThreadPcs] /\ SlotsInv' /\ UniqueIds'
    BY <2>1, GotoStep DEF globalVars, clientVars, ThreadPcs, LeavingPcs
  <2>3. TypeOK'
    BY <2>1, <2>2 DEF TypeOK, globalVars, focusVars, idleVars, clientVars
  <2> QED
    BY <2>2, <2>3
<1>3. ASSUME NEW j \in Slots, SetPrimaryClient(i, j) PROVE IInv'
  <2>1. /\ SetActiveClient(j, active)
        /\ UNCHANGED <<globalVars, idleVars, threadVars, id, active, overlay, xc, arg, sessions>>
    BY <1>3 DEF SetPrimaryClient
  <2>2. TypeOK'
    <3> HIDE DEF IInv
    <3>1. TypeOK
      BY DEF IInv
    <3>2. /\ activeIdx' \in Slots \cup {None} /\ lastIdx' \in Slots \cup {None}
          /\ shown' \in [Slots -> BOOLEAN] /\ compShown' \in [Slots -> BOOLEAN]
          /\ mainVis' \in [Slots -> BOOLEAN] /\ staleUse' \in SUBSET Slots
      BY <2>1, <3>1, SetActiveClientType
    <3> QED
      BY <2>1, <3>1, <3>2 DEF TypeOK, globalVars, idleVars, threadVars
  <2>3. SlotsInv' /\ UniqueIds'
    BY <2>1 DEF SlotsInv, UniqueIds, globalVars, threadVars
  <2> QED
    BY <2>2, <2>3
<1> QED
  BY <1>1, <1>2, <1>3 DEF Command

\* What a client thread does between commands, without the lock on the slots.
LEMMA SessionStep ==
  ASSUME IInv, NEW i \in Slots,
         \/ SetupEpoll(i) \/ SessionCreateStore(i) \/ SessionCreateRead(i)
         \/ SessionCreateSetState(i) \/ PredictFrameReturn(i)
         \/ DestroyRefs(i) \/ DestroyComp(i) \/ DestroyNull(i)
  PROVE  IInv'
<1>1. /\ UNCHANGED <<globalVars, focusVars, idleVars, tstate, used, id, active, overlay,
                     shown, sessions, staleUse>>
      /\ \/ \E from \in {"setup", "create_store", "create_read", "create_set", "predicted"},
               to \in {"loop", "exited", "create_read", "create_set"} : Goto(i, from, to)
         \/ Goto(i, "destroy_refs", "destroy_comp")
         \/ Goto(i, "destroy_comp", "destroy_null")
         \/ Goto(i, "destroy_null", IF used[i] THEN "loop" ELSE "exit_check")
  BY DEF SetupEpoll, SessionCreateStore, SessionCreateRead, SessionCreateSetState,
         PredictFrameReturn, DestroyRefs, DestroyComp, DestroyNull, clientVars
<1>2. /\ xc' \in [Slots -> {"null", "live", "freed"}] /\ compShown' \in [Slots -> BOOLEAN]
      /\ mainVis' \in [Slots -> BOOLEAN] /\ arg' \in [Slots -> BOOLEAN]
  <2>1. /\ xc \in [Slots -> {"null", "live", "freed"}] /\ compShown \in [Slots -> BOOLEAN]
        /\ mainVis \in [Slots -> BOOLEAN] /\ arg \in [Slots -> BOOLEAN]
        /\ shown \in [Slots -> BOOLEAN]
    BY DEF IInv, TypeOK
  <2>2. CASE SetupEpoll(i) \/ PredictFrameReturn(i) \/ DestroyRefs(i)
    BY <2>1, <2>2 DEF SetupEpoll, PredictFrameReturn, DestroyRefs, clientVars
  <2>3. CASE SessionCreateStore(i) \/ SessionCreateRead(i) \/ SessionCreateSetState(i)
    BY <2>1, <2>3 DEF SessionCreateStore, SessionCreateRead, SessionCreateSetState
  <2>4. CASE DestroyComp(i) \/ DestroyNull(i)
    BY <2>1, <2>4 DEF DestroyComp, DestroyNull
  <2> QED
    BY <2>2, <2>3, <2>4
<1>3. tpc' \in [Slots -> ThreadPcs] /\ SlotsInv' /\ UniqueIds'
  <2>1. CASE \E from \in {"setup", "create_store", "create_read", "create_set", "predicted"},
               to \in {"loop", "exited", "create_read", "create_set"} : Goto(i, from, to)
    BY <1>1, <2>1, GotoStep DEF IInv, globalVars, ThreadPcs, LeavingPcs
  <2>2. CASE Goto(i, "destroy_refs", "destroy_comp") \/ Goto(i, "destroy_comp", "destroy_null")
    BY <1>1, <2>2, GotoStep DEF IInv, globalVars, ThreadPcs, LeavingPcs
  <2>3. CASE Goto(i, "destroy_null", IF used[i] THEN "loop" ELSE "exit_check")
    BY <1>1, <2>3, GotoStep DEF IInv, globalVars, ThreadPcs, LeavingPcs
  <2> QED
    BY <1>1, <2>1, <2>2, <2>3
<1>4. TypeOK'
  BY <1>1, <1>2, <1>3 DEF IInv, TypeOK, globalVars, focusVars, idleVars
<1> QED
  BY <1>3, <1>4 DEF IInv

\* ipc_server_activate_session changes the focus, and no slot.
LEMMA ActivateStep ==
  ASSUME IInv, NEW i \in Slots, ActivateSession(i)
  PROVE  IInv'
<1> DEFINE act == [active EXCEPT ![i] = TRUE]
<1>0. TypeOK /\ SlotsInv /\ UniqueIds
  BY DEF IInv
<1>1. /\ Goto(i, "activate", "predicted") /\ active' = act
      /\ IF overlay[i]
         THEN TellClients({i}, activeIdx, lastIdx) /\ UNCHANGED focusVars
         ELSE SetActiveClient(i, act)
      /\ UNCHANGED <<globalVars, idleVars, tstate, used, id, overlay, xc, arg, sessions>>
  BY DEF ActivateSession
<1>2. active' \in [Slots -> BOOLEAN]
  BY <1>0, <1>1 DEF TypeOK
<1> HIDE DEF act
<1>3. /\ activeIdx' \in Slots \cup {None} /\ lastIdx' \in Slots \cup {None}
      /\ shown' \in [Slots -> BOOLEAN] /\ compShown' \in [Slots -> BOOLEAN]
      /\ mainVis' \in [Slots -> BOOLEAN] /\ staleUse' \in SUBSET Slots
  <2>1. CASE overlay[i]
    <3>1. {i} \in SUBSET Slots
      OBVIOUS
    <3>2. TellClients({i}, activeIdx, lastIdx) /\ UNCHANGED focusVars
      BY <1>1, <2>1
    <3>3. /\ shown' \in [Slots -> BOOLEAN] /\ compShown' \in [Slots -> BOOLEAN]
          /\ mainVis' \in [Slots -> BOOLEAN] /\ staleUse' \in SUBSET Slots
      BY <1>0, <3>1, <3>2, TellClientsType
    <3> QED
      BY <1>0, <3>2, <3>3 DEF TypeOK, focusVars
  <2>2. CASE ~overlay[i]
    BY <1>0, <1>1, <2>2, SetActiveClientType
  <2> QED
    BY <2>1, <2>2
<1>4. tpc' \in [Slots -> ThreadPcs] /\ SlotsInv' /\ UniqueIds'
  BY <1>0, <1>1, GotoStep DEF globalVars, ThreadPcs, LeavingPcs
<1>5. TypeOK'
  BY <1>0, <1>1, <1>2, <1>3, <1>4 DEF TypeOK, globalVars, idleVars
<1> QED
  BY <1>4, <1>5 DEF IInv

\* ipc_server_deactivate_session, the last step of a leaving thread.
LEMMA DeactivateStep ==
  ASSUME IInv, NEW i \in Slots, DeactivateSession(i)
  PROVE  IInv'
<1> DEFINE act == [active EXCEPT ![i] = FALSE]
<1>0. TypeOK /\ SlotsInv /\ UniqueIds
  BY DEF IInv
<1>1. /\ Goto(i, "deactivate", "exited") /\ active' = act
      /\ UpdateServerState(activeIdx, act)
      /\ UNCHANGED <<globalVars, idleVars, tstate, used, id, overlay, xc, arg, sessions>>
  BY DEF DeactivateSession
<1>2. active' \in [Slots -> BOOLEAN]
  BY <1>0, <1>1 DEF TypeOK
<1> HIDE DEF act
<1>3. /\ activeIdx' \in Slots \cup {None} /\ lastIdx' \in Slots \cup {None}
      /\ shown' \in [Slots -> BOOLEAN] /\ compShown' \in [Slots -> BOOLEAN]
      /\ mainVis' \in [Slots -> BOOLEAN] /\ staleUse' \in SUBSET Slots
  <2>1. activeIdx \in Slots \cup {None}
    BY <1>0 DEF TypeOK
  <2> QED
    BY <1>0, <1>1, <2>1, UpdateServerStateType
<1>4. tpc' \in [Slots -> ThreadPcs] /\ SlotsInv' /\ UniqueIds'
  BY <1>0, <1>1, GotoStep DEF globalVars, ThreadPcs, LeavingPcs
<1>5. TypeOK'
  BY <1>0, <1>1, <1>2, <1>3, <1>4 DEF TypeOK, globalVars, idleVars
<1> QED
  BY <1>4, <1>5 DEF IInv

\* common_shutdown gives up a slot; what follows keeps it given up.
LEMMA ShutdownStep ==
  ASSUME IInv, NEW i \in Slots,
         CommonShutdown(i) \/ ExitCheck(i) \/ StartDelayedExit(i)
  PROVE  IInv'
<1>0. TypeOK /\ SlotsInv /\ UniqueIds
  BY DEF IInv
<1>1. CASE CommonShutdown(i)
  <2>1. /\ tpc[i] = "closing" /\ tpc' = [tpc EXCEPT ![i] = "destroy_refs"]
        /\ tstate' = [tstate EXCEPT ![i] = "STOPPING"]
        /\ used' = [used EXCEPT ![i] = FALSE]
        /\ id' = [id EXCEPT ![i] = 0]
        /\ count' = count - 1
        /\ sessions' = [sessions EXCEPT ![i] = 0]
        /\ UNCHANGED <<globalVars, focusVars, lastDisc, sleepers, exiting, earlyExit, xc,
                       compShown, mainVis, arg, staleUse>>
    BY <1>1 DEF CommonShutdown, Goto
  <2>2. /\ active' \in [Slots -> BOOLEAN] /\ overlay' \in [Slots -> BOOLEAN]
        /\ shown' \in [Slots -> BOOLEAN] /\ used' \in [Slots -> BOOLEAN]
    BY <1>0, <1>1 DEF CommonShutdown, TypeOK
  <2>3. /\ tpc' \in [Slots -> ThreadPcs] /\ count' \in Int
        /\ tstate' \in [Slots -> {"READY", "STARTING", "STOPPING"}]
        /\ id' \in [Slots -> 0 .. IdModulus - 1]
        /\ sessions' \in [Slots -> 0 .. MaxSessions]
    BY <1>0, <2>1, ConstantsAssumption DEF TypeOK, ThreadPcs
  <2>4. TypeOK'
    BY <1>0, <2>1, <2>2, <2>3 DEF TypeOK, globalVars, focusVars
  <2>5. SlotsInv'
    BY <1>0, <2>1, <2>2 DEF SlotsInv, TypeOK, LeavingPcs, globalVars
  <2>6. UniqueIds'
    BY <1>0, <2>1 DEF UniqueIds, TypeOK
  <2> QED
    BY <2>4, <2>5, <2>6 DEF IInv
<1>2. CASE ExitCheck(i)
  <2>1. /\ \E to \in {"idle_write", "deactivate"} : Goto(i, "exit_check", to)
        /\ running' = (running /\ ~exit_on_disconnect)
        /\ UNCHANGED <<mainPc, joining, lock, connects, id_generator, focusVars,
                       idleVars, tstate, used, clientVars, staleUse>>
    BY <1>2 DEF ExitCheck
  <2>2. tpc' \in [Slots -> ThreadPcs] /\ SlotsInv' /\ UniqueIds'
    BY <1>0, <2>1, GotoStep DEF clientVars, ThreadPcs, LeavingPcs
  <2>3. TypeOK'
    BY <1>0, <2>1, <2>2 DEF TypeOK, focusVars, idleVars, clientVars
  <2> QED
    BY <2>2, <2>3 DEF IInv
<1>3. CASE StartDelayedExit(i)
  <2>1. /\ Goto(i, "idle_write", "deactivate")
        /\ lastDisc' = TRUE
        /\ sleepers' = sleepers \cup {"fresh"}
        /\ UNCHANGED <<globalVars, focusVars, count, exiting, earlyExit, tstate, used,
                       clientVars, staleUse>>
    BY <1>3 DEF StartDelayedExit
  <2>2. tpc' \in [Slots -> ThreadPcs] /\ SlotsInv' /\ UniqueIds'
    BY <1>0, <2>1, GotoStep DEF globalVars, clientVars, ThreadPcs, LeavingPcs
  <2>3. TypeOK'
    BY <1>0, <2>1, <2>2 DEF TypeOK, globalVars, focusVars, clientVars
  <2> QED
    BY <2>2, <2>3 DEF IInv
<1> QED
  BY <1>1, <1>2, <1>3

\* Every step keeps the invariant: one case per action.
LEMMA NextIInv == IInv /\ [Next]_vars => IInv'
<1> SUFFICES ASSUME IInv, [Next]_vars PROVE IInv'
  OBVIOUS
<1>1. CASE Main
  BY <1>1, ConnectedStep, JoinStep, StopStep DEF Main
<1>2. ASSUME NEW i \in Slots, Command(i) \/ LeaveLoop(i) \/ Progress(i) PROVE IInv'
  BY <1>2, CommandStep, SessionStep, ActivateStep, DeactivateStep, ShutdownStep DEF Progress
<1>3. CASE DelayedExitStop
  BY <1>3, StopStep
<1>4. CASE UNCHANGED vars
  <2>1. TypeOK'
    BY <1>4 DEF IInv, TypeOK, vars, globalVars, focusVars, idleVars, threadVars, clientVars
  <2>2. SlotsInv' /\ UniqueIds'
    BY <1>4 DEF IInv, SlotsInv, UniqueIds, vars, globalVars, threadVars, clientVars
  <2> QED
    BY <2>1, <2>2 DEF IInv
<1> QED
  BY <1>1, <1>2, <1>3, <1>4, DelayedExitStep DEF Next

-----------------------------------------------------------------------------
(* The theorems.                                                           *)

\* IInv is an invariant of the specification.
LEMMA IInvariant == Spec => []IInv
BY InitIInv, NextIInv, PTL DEF Spec

\* Every variable keeps its type (in particular allocate_id_locked always finds an
\* id, and the active client index is never outside the array); connected clients
\* have distinct ids other than zero, also when the id generator wraps, provided
\* there are more ids than slots; and ipc_server_handle_client_connected never finds
\* a slot that has no client and is neither unused nor stopping.
THEOREM SlotsAreSoundAlways == Spec => []SlotsAreSound
<1>1. IInv => TypeOK /\ UniqueIds
  BY DEF IInv
<1>2. IInv => NoStateManagementError
  BY DEF IInv, SlotsInv, NoStateManagementError, LeavingPcs
<1>3. IInv => SlotsAreSound
  BY <1>1, <1>2 DEF SlotsAreSound
<1> QED
  BY <1>3, IInvariant, PTL

\* A slot gets a new thread only once its previous thread has returned.
THEOREM HandoverIsSafe == Spec => SlotHandover
<1>1. IInv /\ [Next]_vars
        => [\A i \in Slots : tpc'[i] = "setup" /\ tpc[i] # "setup"
                               => tpc[i] \in {"none", "exited"}]_vars
  <2> SUFFICES ASSUME IInv, Next, NEW i \in Slots, tpc'[i] = "setup", tpc[i] # "setup"
               PROVE  tpc[i] \in {"none", "exited"}
    OBVIOUS
  <2>0. tpc \in [Slots -> ThreadPcs]
    BY DEF IInv, TypeOK
  <2>1. CASE HandleClientConnected
    <3>1. /\ FreeSlots # {} /\ tstate[FirstOf(FreeSlots)] = "READY"
          /\ StartClient(FirstOf(FreeSlots))
      BY <2>1 DEF HandleClientConnected, threadVars
    <3>2. FreeSlots \in SUBSET Slots
      BY DEF FreeSlots
    <3>3. FirstOf(FreeSlots) \in Slots /\ ~used[FirstOf(FreeSlots)]
      <4>1. FirstOf(FreeSlots) \in FreeSlots
        BY <3>1, <3>2, FirstOfIn
      <4> QED
        BY <4>1 DEF FreeSlots
    <3>4. tpc[FirstOf(FreeSlots)] = "none"
      BY <3>1, <3>3 DEF IInv, SlotsInv
    <3>5. i = FirstOf(FreeSlots)
      BY <2>0, <3>1, <3>3 DEF StartClient
    <3> QED
      BY <3>4, <3>5
  <2>2. CASE JoinOldThread
    <3>1. i = joining
      BY <2>0, <2>2 DEF JoinOldThread, StartClient
    <3> QED
      BY <2>2, <3>1 DEF JoinOldThread
  <2>3. CASE HandleShutdownSignal \/ Teardown \/ DelayedExitStop
    BY <2>3 DEF HandleShutdownSignal, Teardown, DelayedExitStop, threadVars
  <2>4. ASSUME NEW j \in Slots, Command(j) \/ LeaveLoop(j) PROVE FALSE
    BY <2>0, <2>4 DEF Command, LeaveLoop, SessionCreate, PredictFrame, SetPrimaryClient,
                      SessionDestroy, Goto, threadVars
  <2>5. ASSUME NEW j \in Slots, Progress(j) PROVE FALSE
    <3>1. \/ UNCHANGED tpc
          \/ \E to \in ThreadPcs \ {"setup"} : tpc' = [tpc EXCEPT ![j] = to]
      BY <2>5 DEF Progress, SetupEpoll, SessionCreateStore, SessionCreateRead,
                  SessionCreateSetState, ActivateSession, PredictFrameReturn, DestroyRefs,
                  DestroyComp, DestroyNull, CommonShutdown, ExitCheck, StartDelayedExit,
                  DeactivateSession, Goto, ThreadPcs
    <3> QED
      BY <2>0, <3>1
  <2>6. ASSUME NEW kind \in {"fresh", "stale"}, DelayedExit(kind) PROVE FALSE
    BY <2>6 DEF DelayedExit, threadVars
  <2> QED
    BY <2>1, <2>2, <2>3, <2>4, <2>5, <2>6 DEF Next, Main
<1> QED
  BY <1>1, IInvariant, PTL DEF Spec, SlotHandover

-----------------------------------------------------------------------------
(* The idle exit: the count is never less than the clients there are.      *)

Connected == {i \in Slots : used[i]}

\* Refused connections stay in the count, so it may be more; the connection for
\* which the main thread joins is counted before it has its slot.
CountInv == count >= Cardinality(Connected) + (IF mainPc = "join" THEN 1 ELSE 0)

\* There are finitely many connected clients.
LEMMA ConnectedFinite ==
  IsFiniteSet(Connected) /\ Cardinality(Connected) \in Nat
<1>1. Connected \subseteq Slots
  BY DEF Connected
<1> QED
  BY <1>1, SlotsFinite, FS_Subset, FS_CardinalityType

\* A client that starts makes them one more.
LEMMA StartClientCount ==
  ASSUME TypeOK, NEW i \in Slots, ~used[i], StartClient(i)
  PROVE  Cardinality(Connected') = Cardinality(Connected) + 1
<1>1. Connected' = Connected \cup {i} /\ i \notin Connected
  BY DEF Connected, StartClient, TypeOK
<1> QED
  BY <1>1, ConnectedFinite, FS_AddElement

\* Most steps change neither who is connected nor the count.
LEMMA SameCount ==
  ASSUME CountInv, count \in Int, UNCHANGED <<used, count>>,
         mainPc' # "join" \/ mainPc' = mainPc
  PROVE  CountInv'
<1>1. Connected' = Connected
  BY DEF Connected
<1> QED
  BY <1>1, ConnectedFinite DEF CountInv

\* Every step keeps the count at least the number of connected clients.
LEMMA NextCount == IInv /\ CountInv /\ [Next]_vars => CountInv'
<1> SUFFICES ASSUME IInv, CountInv, [Next]_vars PROVE CountInv'
  OBVIOUS
<1>0. TypeOK /\ SlotsInv /\ count \in Int /\ Cardinality(Connected) \in Nat
  BY ConnectedFinite DEF IInv, TypeOK
<1>1. CASE HandleClientConnected
  <2>1. mainPc = "poll" /\ count' = count + 1
    BY <1>1 DEF HandleClientConnected
  <2>2. CASE UNCHANGED threadVars
    <3>1. Connected' = Connected
      BY <2>2 DEF Connected, threadVars
    <3> QED
      BY <1>0, <2>1, <3>1 DEF CountInv
  <2>3. CASE /\ FreeSlots # {} /\ StartClient(FirstOf(FreeSlots))
             /\ UNCHANGED mainPc
    <3>1. FreeSlots \in SUBSET Slots
      BY DEF FreeSlots
    <3>2. FirstOf(FreeSlots) \in FreeSlots
      BY <2>3, <3>1, FirstOfIn
    <3>3. FirstOf(FreeSlots) \in Slots /\ ~used[FirstOf(FreeSlots)]
      BY <3>2 DEF FreeSlots
    <3>4. Cardinality(Connected') = Cardinality(Connected) + 1
      BY <1>0, <2>3, <3>3, StartClientCount
    <3> QED
      BY <1>0, <2>1, <2>3, <3>4 DEF CountInv
  <2> QED
    BY <1>1, <2>2, <2>3 DEF HandleClientConnected
<1>2. CASE JoinOldThread
  <2>1. /\ mainPc = "join" /\ mainPc' = "poll" /\ count' = count
        /\ joining \in Slots /\ ~used[joining] /\ StartClient(joining)
    BY <1>0, <1>2 DEF JoinOldThread, SlotsInv, idleVars
  <2>2. Cardinality(Connected') = Cardinality(Connected) + 1
    BY <1>0, <2>1, StartClientCount
  <2> QED
    BY <1>0, <2>1, <2>2 DEF CountInv
<1>3. CASE HandleShutdownSignal \/ Teardown \/ DelayedExitStop
  <2>1. UNCHANGED <<used, count>> /\ (mainPc' # "join" \/ mainPc' = mainPc)
    BY <1>3 DEF HandleShutdownSignal, Teardown, DelayedExitStop, idleVars, threadVars
  <2> QED
    BY <1>0, <2>1, SameCount
<1>4. ASSUME NEW i \in Slots, CommonShutdown(i) PROVE CountInv'
  <2>1. /\ tpc[i] = "closing" /\ used' = [used EXCEPT ![i] = FALSE]
        /\ count' = count - 1 /\ mainPc' = mainPc
    BY <1>4 DEF CommonShutdown, Goto, globalVars
  <2>2. used[i]
    BY <1>0, <2>1 DEF SlotsInv, LeavingPcs
  <2>3. Connected' = Connected \ {i} /\ i \in Connected
    BY <1>0, <2>1, <2>2 DEF Connected, TypeOK
  <2>4. Cardinality(Connected') = Cardinality(Connected) - 1
    BY <2>3, ConnectedFinite, FS_RemoveElement
  <2> QED
    BY <1>0, <2>1, <2>4 DEF CountInv
<1>5. ASSUME NEW i \in Slots, Command(i) \/ LeaveLoop(i) PROVE CountInv'
  <2>1. UNCHANGED <<used, count, mainPc>>
    BY <1>5 DEF Command, LeaveLoop, SessionCreate, PredictFrame, SetPrimaryClient,
                SessionDestroy, globalVars, idleVars, threadVars
  <2> QED
    BY <1>0, <2>1, SameCount
<1>6. ASSUME NEW i \in Slots, Progress(i), ~CommonShutdown(i) PROVE CountInv'
  <2>1. UNCHANGED <<used, count, mainPc>>
    BY <1>6 DEF Progress, SetupEpoll, SessionCreateStore, SessionCreateRead,
                SessionCreateSetState, ActivateSession, PredictFrameReturn, DestroyRefs,
                DestroyComp, DestroyNull, ExitCheck, StartDelayedExit, DeactivateSession,
                globalVars, idleVars
  <2> QED
    BY <1>0, <2>1, SameCount
<1>7. ASSUME NEW kind \in {"fresh", "stale"}, DelayedExit(kind) PROVE CountInv'
  <2>1. UNCHANGED <<used, count, mainPc>>
    BY <1>7 DEF DelayedExit, globalVars, threadVars
  <2> QED
    BY <1>0, <2>1, SameCount
<1>8. CASE UNCHANGED vars
  <2>1. UNCHANGED <<used, count, mainPc>>
    BY <1>8 DEF vars, globalVars, idleVars, threadVars
  <2> QED
    BY <1>0, <2>1, SameCount
<1> QED
  BY <1>1, <1>2, <1>3, <1>4, <1>5, <1>6, <1>7, <1>8 DEF Next, Main

\* The initial state has no client and a count of zero.
LEMMA InitCount == Init => CountInv
<1> SUFFICES ASSUME Init PROVE CountInv
  OBVIOUS
<1>1. Connected = {}
  BY DEF Init, Connected
<1>2. Cardinality(Connected) = 0
  BY <1>1, FS_EmptySet
<1> QED
  BY <1>2 DEF Init, CountInv

\* A delayed_exit_thread decides to stop the service only when no slot has a
\* client: neither a refused connection nor a slot being handed over makes the
\* count it reads too small.
THEOREM IdleExitIsIdle == Spec => IdleExitOnlyWhenIdle
<1>1. IInv /\ CountInv /\ [Next]_vars
        => [~exiting /\ exiting' => \A i \in Slots : ~used[i]]_vars
  <2> SUFFICES ASSUME IInv, CountInv, Next, ~exiting, exiting', NEW i \in Slots
               PROVE  ~used[i]
    OBVIOUS
  <2>1. count = 0
    <3>1. CASE Main \/ DelayedExitStop
      BY <3>1 DEF Main, HandleClientConnected, JoinOldThread, HandleShutdownSignal,
                  Teardown, DelayedExitStop, idleVars
    <3>2. ASSUME NEW j \in Slots, Command(j) \/ LeaveLoop(j) PROVE FALSE
      BY <3>2 DEF Command, LeaveLoop, SessionCreate, PredictFrame, SetPrimaryClient,
                  SessionDestroy, idleVars
    <3>3. ASSUME NEW j \in Slots, Progress(j) PROVE FALSE
      BY <3>3 DEF Progress, SetupEpoll, SessionCreateStore, SessionCreateRead,
                  SessionCreateSetState, ActivateSession, PredictFrameReturn, DestroyRefs,
                  DestroyComp, DestroyNull, CommonShutdown, ExitCheck, StartDelayedExit,
                  DeactivateSession, idleVars
    <3>4. ASSUME NEW kind \in {"fresh", "stale"}, DelayedExit(kind) PROVE count = 0
      BY <3>4 DEF DelayedExit
    <3> QED
      BY <3>1, <3>2, <3>3, <3>4 DEF Next
  <2>2. Cardinality(Connected) = 0
    BY <2>1, ConnectedFinite DEF CountInv
  <2>3. Connected = {}
    BY <2>2, ConnectedFinite, FS_EmptySet
  <2> QED
    BY <2>3 DEF Connected
<1> QED
  BY <1>1, IInvariant, InitCount, NextCount, PTL DEF Spec, IdleExitOnlyWhenIdle

-----------------------------------------------------------------------------
(* Focus, when a connection has one session.                               *)

\* A slot without a client has no flags left over; a client that made no
\* session has none set, and no compositor that would activate it; and only a
\* thread that gave up its slot gets to the end of common_shutdown.
FlagsInv ==
  /\ lastIdx = activeIdx
  /\ \A i \in Slots : ~used[i] => ~active[i] /\ ~overlay[i] /\ ~shown[i]
  /\ \A i \in Slots : used[i] /\ sessions[i] = 0 =>
       /\ ~active[i] /\ ~overlay[i] /\ xc[i] = "null"
       /\ tpc[i] \notin {"create_store", "activate"}
  /\ \A i \in Slots : used[i] => tpc[i] \notin {"exit_check", "idle_write", "deactivate"}

FocusInv == FlagsInv /\ ActiveClientIsDisplayable /\ NeverIdleWithAnApp /\ ShownIsPrimary

\* The initial state has it: no client, no focus.
LEMMA InitFocus == Init => FocusInv
<1> SUFFICES ASSUME Init PROVE FocusInv
  OBVIOUS
<1>1. FlagsInv
  BY DEF Init, FlagsInv
<1>2. ActiveClientIsDisplayable
  BY DEF Init, ActiveClientIsDisplayable
<1>3. NeverIdleWithAnApp
  BY DEF Init, NeverIdleWithAnApp, Fallbacks
<1>4. ShownIsPrimary
  BY SlotsFinite DEF Init, ShownIsPrimary
<1> QED
  BY <1>1, <1>2, <1>3, <1>4 DEF FocusInv

\* What update_server_state_locked leaves: the index names an application that
\* is connected and active, if there is one, and every client record agrees.
LEMMA UpdateServerStateFocus ==
  ASSUME TypeOK, lastIdx = activeIdx, ShownIsPrimary,
         NEW cur \in Slots \cup {None}, NEW act \in [Slots -> BOOLEAN],
         \A i \in Slots : ~used[i] => ~act[i],
         cur = lastIdx /\ cur # None /\ act[cur] => ~overlay[cur],
         Fallbacks(act) # {} => cur # None,
         UpdateServerState(cur, act), UNCHANGED <<used, overlay>>
  PROVE  /\ lastIdx' = activeIdx'
         /\ activeIdx' # None => /\ activeIdx' \in Slots /\ used[activeIdx']
                                 /\ act[activeIdx'] /\ ~overlay[activeIdx']
         /\ Fallbacks(act) # {} => activeIdx' # None
         /\ ShownIsPrimary'
         /\ \A i \in Slots : ~used[i] => shown'[i] = shown[i]
<1>1. CASE cur # None /\ act[cur] /\ cur = lastIdx
  <2>1. activeIdx' = cur /\ UNCHANGED <<lastIdx, shown>>
    BY <1>1 DEF UpdateServerState
  <2> QED
    BY <1>1, <2>1 DEF ShownIsPrimary
<1>2. CASE ~(cur # None /\ act[cur] /\ cur = lastIdx)
  <2> DEFINE chosen == ChooseActive(cur, act)
  <2>1. /\ activeIdx' = chosen /\ lastIdx' = chosen
        /\ shown' = [i \in Slots |-> IF i \in {k \in Slots : used[k]}
                                     THEN i = chosen \/ overlay[i] ELSE shown[i]]
    BY <1>2 DEF UpdateServerState, TellClients
  <2>2. Fallbacks(act) \in SUBSET Slots
    BY DEF Fallbacks
  <2>3. Fallbacks(act) # {} => LastOf(Fallbacks(act)) \in Fallbacks(act)
    BY <2>2, LastOfIn
  <2>4. chosen # None => chosen \in Slots /\ used[chosen] /\ act[chosen] /\ ~overlay[chosen]
    BY <2>3 DEF ChooseActive, Fallbacks
  <2>5. Fallbacks(act) # {} => chosen # None
    BY <2>2, <2>3, SlotsFinite DEF ChooseActive
  <2> HIDE DEF chosen
  <2>6. ShownIsPrimary'
    BY <2>1 DEF ShownIsPrimary
  <2> QED
    BY <2>1, <2>4, <2>5, <2>6
<1> QED
  BY <1>1, <1>2

\* A thread that moves on without touching the flags.
LEMMA QuietFocus ==
  ASSUME TypeOK, FocusInv, NEW i \in Slots, NEW from, NEW to, Goto(i, from, to),
         UNCHANGED <<focusVars, used, active, overlay, shown, sessions>>,
         ~used[i] /\ from \in LeavingPcs \ {"exited"} => to \in LeavingPcs \ {"exited"},
         used[i] => to \notin {"exit_check", "idle_write", "deactivate"},
         used[i] /\ sessions[i] = 0 => xc'[i] = "null" /\ to \notin {"create_store", "activate"},
         \A j \in Slots : j # i => xc'[j] = xc[j]
  PROVE  FocusInv'
<1>1. tpc[i] = from /\ tpc' = [tpc EXCEPT ![i] = to] /\ tpc \in [Slots -> ThreadPcs]
  BY DEF Goto, TypeOK
<1>2. FlagsInv'
  BY <1>1 DEF FocusInv, FlagsInv, focusVars
<1>3. ActiveClientIsDisplayable'
  <2>1. activeIdx' = activeIdx /\ activeIdx \in Slots \cup {None}
    BY DEF focusVars, TypeOK
  <2> QED
    BY <1>1, <2>1 DEF FocusInv, ActiveClientIsDisplayable, Departing, LeavingPcs
<1>4. NeverIdleWithAnApp' /\ ShownIsPrimary'
  BY DEF FocusInv, NeverIdleWithAnApp, ShownIsPrimary, Fallbacks, focusVars
<1> QED
  BY <1>2, <1>3, <1>4 DEF FocusInv

\* A new client in a slot whose thread has returned: the slot is not active.
LEMMA StartClientFocus ==
  ASSUME TypeOK, FocusInv, NEW i \in Slots, ~used[i], tpc[i] \in {"none", "exited"},
         StartClient(i), UNCHANGED focusVars
  PROVE  FocusInv'
<1>1. activeIdx # i
  BY SlotsFinite DEF FocusInv, ActiveClientIsDisplayable, Departing
<1>2. /\ used' = [used EXCEPT ![i] = TRUE] /\ active' = [active EXCEPT ![i] = FALSE]
      /\ overlay' = [overlay EXCEPT ![i] = FALSE] /\ shown' = [shown EXCEPT ![i] = FALSE]
      /\ xc' = [xc EXCEPT ![i] = "null"] /\ sessions' = [sessions EXCEPT ![i] = 0]
      /\ \E pc \in {"setup", "none"} : tpc' = [tpc EXCEPT ![i] = pc]
      /\ activeIdx' = activeIdx /\ lastIdx' = lastIdx
  BY DEF StartClient, focusVars
<1>3. /\ used \in [Slots -> BOOLEAN] /\ active \in [Slots -> BOOLEAN]
      /\ overlay \in [Slots -> BOOLEAN] /\ shown \in [Slots -> BOOLEAN]
      /\ xc \in [Slots -> {"null", "live", "freed"}] /\ sessions \in [Slots -> 0 .. MaxSessions]
      /\ tpc \in [Slots -> ThreadPcs] /\ activeIdx \in Slots \cup {None}
  BY DEF TypeOK
<1>4. FlagsInv'
  BY <1>2, <1>3 DEF FocusInv, FlagsInv
<1>5. ActiveClientIsDisplayable'
  BY <1>1, <1>2, <1>3 DEF FocusInv, ActiveClientIsDisplayable, Departing
<1>6. NeverIdleWithAnApp'
  <2>1. Fallbacks(active)' \subseteq Fallbacks(active)
    BY <1>2, <1>3 DEF Fallbacks
  <2> QED
    BY <1>2, <2>1 DEF FocusInv, NeverIdleWithAnApp
<1>7. ShownIsPrimary'
  BY <1>1, <1>2, <1>3 DEF FocusInv, ShownIsPrimary
<1> QED
  BY <1>4, <1>5, <1>6, <1>7 DEF FocusInv

\* The steps of the main thread.
LEMMA MainFocus ==
  ASSUME IInv, FocusInv, Main
  PROVE  FocusInv'
<1>0. TypeOK /\ SlotsInv
  BY DEF IInv
<1>1. CASE HandleClientConnected
  <2>1. UNCHANGED <<focusVars, staleUse>>
    BY <1>1 DEF HandleClientConnected
  <2>2. CASE UNCHANGED <<threadVars, clientVars>>
    BY <2>1, <2>2 DEF FocusInv, FlagsInv, ActiveClientIsDisplayable, Departing,
                      NeverIdleWithAnApp, Fallbacks, ShownIsPrimary, focusVars, threadVars,
                      clientVars
  <2>3. CASE /\ FreeSlots # {} /\ tstate[FirstOf(FreeSlots)] = "READY"
             /\ StartClient(FirstOf(FreeSlots))
    <3>1. FreeSlots \in SUBSET Slots
      BY DEF FreeSlots
    <3>2. FirstOf(FreeSlots) \in FreeSlots
      BY <2>3, <3>1, FirstOfIn
    <3>3. FirstOf(FreeSlots) \in Slots /\ ~used[FirstOf(FreeSlots)]
      BY <3>2 DEF FreeSlots
    <3>4. tpc[FirstOf(FreeSlots)] \in {"none", "exited"}
      BY <1>0, <2>3, <3>3 DEF SlotsInv
    <3> QED
      BY <1>0, <2>1, <2>3, <3>3, <3>4, StartClientFocus
  <2> QED
    BY <1>1, <2>2, <2>3 DEF HandleClientConnected
<1>2. CASE JoinOldThread
  <2>1. /\ joining \in Slots /\ ~used[joining] /\ StartClient(joining)
        /\ tpc[joining] \in {"none", "exited"} /\ UNCHANGED focusVars
    BY <1>0, <1>2 DEF JoinOldThread, SlotsInv
  <2> QED
    BY <1>0, <2>1, StartClientFocus
<1>3. CASE HandleShutdownSignal \/ Teardown
  <2>1. UNCHANGED <<focusVars, threadVars, clientVars>>
    BY <1>3 DEF HandleShutdownSignal, Teardown
  <2> QED
    BY <2>1 DEF FocusInv, FlagsInv, ActiveClientIsDisplayable, Departing,
                NeverIdleWithAnApp, Fallbacks, ShownIsPrimary, focusVars, threadVars,
                clientVars
<1> QED
  BY <1>1, <1>2, <1>3 DEF Main

\* Where it matters that a connection makes one session: the kind of the
\* session is recorded while the client is neither active nor shown.
LEMMA SessionCreateFocus ==
  ASSUME MaxSessions <= 1, IInv, FocusInv, NEW i \in Slots, NEW ov \in BOOLEAN,
         SessionCreate(i, ov)
  PROVE  FocusInv'
<1>0. TypeOK /\ SlotsInv
  BY DEF IInv
<1>1. /\ tpc[i] = "loop" /\ tpc' = [tpc EXCEPT ![i] = "create_store"]
      /\ sessions[i] < MaxSessions /\ sessions' = [sessions EXCEPT ![i] = @ + 1]
      /\ overlay' = [overlay EXCEPT ![i] = ov]
      /\ UNCHANGED <<focusVars, used, active, shown, xc>>
  BY DEF SessionCreate, Goto
<1>2. sessions[i] = 0 /\ sessions'[i] = 1
  BY <1>0, <1>1, ConstantsAssumption DEF TypeOK
<1>3. used[i] /\ ~active[i] /\ ~overlay[i]
  BY <1>0, <1>1, <1>2 DEF SlotsInv, LeavingPcs, FocusInv, FlagsInv
<1>4. activeIdx # i /\ ~shown[i]
  BY <1>3, SlotsFinite DEF FocusInv, ActiveClientIsDisplayable, Departing, ShownIsPrimary
<1>5. /\ overlay \in [Slots -> BOOLEAN] /\ tpc \in [Slots -> ThreadPcs]
      /\ sessions \in [Slots -> 0 .. MaxSessions] /\ activeIdx \in Slots \cup {None}
  BY <1>0 DEF TypeOK
<1>6. \A j \in Slots : j # i => /\ overlay'[j] = overlay[j] /\ tpc'[j] = tpc[j]
                                /\ sessions'[j] = sessions[j]
  BY <1>1, <1>5
<1>7. FlagsInv'
  BY <1>1, <1>2, <1>3, <1>5, <1>6 DEF FocusInv, FlagsInv, focusVars
<1>8. ActiveClientIsDisplayable'
  BY <1>1, <1>4, <1>5, <1>6 DEF FocusInv, ActiveClientIsDisplayable, Departing, focusVars
<1>9. NeverIdleWithAnApp'
  <2>1. Fallbacks(active)' \subseteq Fallbacks(active)
    BY <1>1, <1>3, <1>6 DEF Fallbacks
  <2> QED
    BY <1>1, <2>1 DEF FocusInv, NeverIdleWithAnApp, focusVars
<1>10. ShownIsPrimary'
  BY <1>1, <1>4, <1>6 DEF FocusInv, ShownIsPrimary, focusVars
<1> QED
  BY <1>7, <1>8, <1>9, <1>10 DEF FocusInv

\* set_primary_client, for any client that is connected.
LEMMA SetPrimaryFocus ==
  ASSUME IInv, FocusInv, NEW i \in Slots, NEW j \in Slots, SetPrimaryClient(i, j)
  PROVE  FocusInv'
<1>0. TypeOK /\ SlotsInv
  BY DEF IInv
<1>1. /\ id[j] # 0 /\ SetActiveClient(j, active)
      /\ UNCHANGED <<tpc, used, active, overlay, xc, sessions>>
  BY DEF SetPrimaryClient, threadVars
<1>2. CASE j = activeIdx
  BY <1>1, <1>2 DEF SetActiveClient, FocusInv, FlagsInv, ActiveClientIsDisplayable, Departing,
                    NeverIdleWithAnApp, Fallbacks, ShownIsPrimary, focusVars
<1>3. CASE j # activeIdx
  <2>1. UpdateServerState(j, active)
    BY <1>1, <1>3 DEF SetActiveClient
  <2>2. /\ lastIdx = activeIdx /\ ShownIsPrimary /\ active \in [Slots -> BOOLEAN]
        /\ \A k \in Slots : ~used[k] => ~active[k]
        /\ j # None /\ j # lastIdx
    BY <1>0, <1>3, SlotsFinite DEF FocusInv, FlagsInv, TypeOK
  <2>3. /\ lastIdx' = activeIdx'
        /\ activeIdx' # None => /\ activeIdx' \in Slots /\ used[activeIdx']
                                /\ active[activeIdx'] /\ ~overlay[activeIdx']
        /\ Fallbacks(active) # {} => activeIdx' # None
        /\ ShownIsPrimary'
        /\ \A k \in Slots : ~used[k] => shown'[k] = shown[k]
    BY <1>0, <1>1, <2>1, <2>2, UpdateServerStateFocus
  <2>4. FlagsInv'
    BY <1>1, <2>3 DEF FocusInv, FlagsInv
  <2>5. ActiveClientIsDisplayable'
    BY <1>1, <2>3 DEF ActiveClientIsDisplayable
  <2>6. NeverIdleWithAnApp'
    BY <1>1, <2>3 DEF NeverIdleWithAnApp, Fallbacks
  <2> QED
    BY <2>3, <2>4, <2>5, <2>6 DEF FocusInv
<1> QED
  BY <1>2, <1>3

\* ipc_server_activate_session: an application takes over, an overlay is shown
\* besides.
LEMMA ActivateFocus ==
  ASSUME IInv, FocusInv, NEW i \in Slots, ActivateSession(i)
  PROVE  FocusInv'
<1> DEFINE act == [active EXCEPT ![i] = TRUE]
<1>0. TypeOK /\ SlotsInv
  BY DEF IInv
<1>1. /\ tpc[i] = "activate" /\ tpc' = [tpc EXCEPT ![i] = "predicted"] /\ active' = act
      /\ IF overlay[i]
         THEN TellClients({i}, activeIdx, lastIdx) /\ UNCHANGED focusVars
         ELSE SetActiveClient(i, act)
      /\ UNCHANGED <<used, overlay, xc, sessions>>
  BY DEF ActivateSession, Goto
<1>2. /\ used[i] /\ sessions[i] # 0
      /\ tpc \in [Slots -> ThreadPcs] /\ active \in [Slots -> BOOLEAN]
      /\ activeIdx \in Slots \cup {None}
  BY <1>0, <1>1 DEF SlotsInv, LeavingPcs, FocusInv, FlagsInv, TypeOK
<1>3. /\ \A k \in Slots : ~used[k] => ~act[k]
      /\ \A k \in Slots : k # i => act[k] = active[k] /\ tpc'[k] = tpc[k]
      /\ act[i] /\ act \in [Slots -> BOOLEAN] /\ tpc'[i] = "predicted"
  BY <1>1, <1>2 DEF FocusInv, FlagsInv
<1> HIDE DEF act
<1>4. ASSUME lastIdx' = activeIdx', \A k \in Slots : ~used[k] => shown'[k] = shown[k]
      PROVE  FlagsInv'
  BY <1>1, <1>2, <1>3, <1>4 DEF FocusInv, FlagsInv
<1>5. CASE overlay[i]
  <2>1. UNCHANGED focusVars /\ \A k \in Slots : k # i => shown'[k] = shown[k]
    BY <1>1, <1>5, <1>0 DEF TellClients, TypeOK
  <2>2. FlagsInv'
    BY <1>2, <1>4, <2>1 DEF FocusInv, FlagsInv, focusVars
  <2>3. ActiveClientIsDisplayable'
    BY <1>1, <1>2, <1>3, <2>1 DEF FocusInv, ActiveClientIsDisplayable, Departing, focusVars
  <2>4. NeverIdleWithAnApp'
    BY <1>1, <1>3, <1>5, <2>1 DEF FocusInv, NeverIdleWithAnApp, Fallbacks, focusVars
  <2>5. ShownIsPrimary'
    BY <1>1, <1>5, <2>1 DEF FocusInv, ShownIsPrimary, focusVars
  <2> QED
    BY <2>2, <2>3, <2>4, <2>5 DEF FocusInv
<1>6. CASE ~overlay[i] /\ i = activeIdx
  <2>1. UNCHANGED <<focusVars, shown>>
    BY <1>1, <1>6 DEF SetActiveClient
  <2>2. FlagsInv'
    BY <1>4, <2>1 DEF FocusInv, FlagsInv, focusVars
  <2>3. ActiveClientIsDisplayable'
    BY <1>1, <1>2, <1>3, <1>6, <2>1 DEF ActiveClientIsDisplayable, focusVars
  <2>4. NeverIdleWithAnApp' /\ ShownIsPrimary'
    BY <1>1, <1>6, <2>1, SlotsFinite DEF FocusInv, NeverIdleWithAnApp, ShownIsPrimary, focusVars
  <2> QED
    BY <2>2, <2>3, <2>4 DEF FocusInv
<1>7. CASE ~overlay[i] /\ i # activeIdx
  <2>1. UpdateServerState(i, act)
    BY <1>1, <1>7 DEF SetActiveClient
  <2>2. lastIdx = activeIdx /\ ShownIsPrimary /\ i # None /\ i # lastIdx
    BY <1>7, SlotsFinite DEF FocusInv, FlagsInv
  <2>3. /\ lastIdx' = activeIdx'
        /\ activeIdx' # None => /\ activeIdx' \in Slots /\ used[activeIdx']
                                /\ act[activeIdx'] /\ ~overlay[activeIdx']
        /\ Fallbacks(act) # {} => activeIdx' # None
        /\ ShownIsPrimary'
        /\ \A k \in Slots : ~used[k] => shown'[k] = shown[k]
    BY <1>0, <1>1, <1>3, <2>1, <2>2, UpdateServerStateFocus
  <2>4. FlagsInv'
    BY <1>4, <2>3
  <2>5. ActiveClientIsDisplayable'
    BY <1>1, <2>3 DEF ActiveClientIsDisplayable
  <2>6. NeverIdleWithAnApp'
    BY <1>1, <2>3 DEF NeverIdleWithAnApp, Fallbacks
  <2> QED
    BY <2>3, <2>4, <2>5, <2>6 DEF FocusInv
<1> QED
  BY <1>5, <1>6, <1>7

\* ipc_server_deactivate_session: the client that left is not active any more.
LEMMA DeactivateFocus ==
  ASSUME IInv, FocusInv, NEW i \in Slots, DeactivateSession(i)
  PROVE  FocusInv'
<1> DEFINE act == [active EXCEPT ![i] = FALSE]
<1>0. TypeOK /\ SlotsInv
  BY DEF IInv
<1>1. /\ tpc[i] = "deactivate" /\ tpc' = [tpc EXCEPT ![i] = "exited"] /\ active' = act
      /\ UpdateServerState(activeIdx, act)
      /\ UNCHANGED <<used, overlay, xc, sessions>>
  BY DEF DeactivateSession, Goto
<1>2. /\ ~used[i] /\ tpc \in [Slots -> ThreadPcs] /\ active \in [Slots -> BOOLEAN]
      /\ activeIdx \in Slots \cup {None}
  BY <1>0, <1>1 DEF FocusInv, FlagsInv, TypeOK
<1>3. /\ \A k \in Slots : ~used[k] => ~act[k]
      /\ \A k \in Slots : act[k] => active[k]
      /\ \A k \in Slots : k # i => tpc'[k] = tpc[k]
      /\ act \in [Slots -> BOOLEAN] /\ tpc'[i] = "exited"
  BY <1>1, <1>2 DEF FocusInv, FlagsInv
<1> HIDE DEF act
<1>4. /\ lastIdx = activeIdx /\ ShownIsPrimary
      /\ activeIdx # None /\ act[activeIdx] => ~overlay[activeIdx]
  BY <1>2, <1>3 DEF FocusInv, FlagsInv, ActiveClientIsDisplayable, Departing
<1>5. Fallbacks(act) # {} => activeIdx # None
  <2>1. Fallbacks(act) \subseteq Fallbacks(active)
    BY <1>3 DEF Fallbacks
  <2> QED
    BY <2>1 DEF FocusInv, NeverIdleWithAnApp
<1>6. /\ lastIdx' = activeIdx'
      /\ activeIdx' # None => /\ activeIdx' \in Slots /\ used[activeIdx']
                              /\ act[activeIdx'] /\ ~overlay[activeIdx']
      /\ Fallbacks(act) # {} => activeIdx' # None
      /\ ShownIsPrimary'
      /\ \A k \in Slots : ~used[k] => shown'[k] = shown[k]
  BY <1>0, <1>1, <1>2, <1>3, <1>4, <1>5, UpdateServerStateFocus
<1>7. FlagsInv'
  BY <1>1, <1>2, <1>3, <1>6 DEF FocusInv, FlagsInv
<1>8. ActiveClientIsDisplayable'
  BY <1>1, <1>6 DEF ActiveClientIsDisplayable
<1>9. NeverIdleWithAnApp'
  BY <1>1, <1>6 DEF NeverIdleWithAnApp, Fallbacks
<1> QED
  BY <1>6, <1>7, <1>8, <1>9 DEF FocusInv

\* common_shutdown: the flags go with the slot; the active client may remain
\* the one that leaves.
LEMMA CommonShutdownFocus ==
  ASSUME IInv, FocusInv, NEW i \in Slots, CommonShutdown(i)
  PROVE  FocusInv'
<1>0. TypeOK /\ SlotsInv
  BY DEF IInv
<1>1. /\ tpc[i] = "closing" /\ tpc' = [tpc EXCEPT ![i] = "destroy_refs"]
      /\ used' = [used EXCEPT ![i] = FALSE] /\ active' = [active EXCEPT ![i] = FALSE]
      /\ overlay' = [overlay EXCEPT ![i] = FALSE] /\ shown' = [shown EXCEPT ![i] = FALSE]
      /\ sessions' = [sessions EXCEPT ![i] = 0]
      /\ xc' = xc /\ activeIdx' = activeIdx /\ lastIdx' = lastIdx
  BY DEF CommonShutdown, Goto, focusVars
<1>2. /\ used \in [Slots -> BOOLEAN] /\ active \in [Slots -> BOOLEAN]
      /\ overlay \in [Slots -> BOOLEAN] /\ shown \in [Slots -> BOOLEAN]
      /\ sessions \in [Slots -> 0 .. MaxSessions]
      /\ tpc \in [Slots -> ThreadPcs] /\ activeIdx \in Slots \cup {None}
  BY <1>0 DEF TypeOK
<1>3. FlagsInv'
  BY <1>1, <1>2 DEF FocusInv, FlagsInv
<1>4. ActiveClientIsDisplayable'
  BY <1>1, <1>2 DEF FocusInv, ActiveClientIsDisplayable, Departing
<1>5. NeverIdleWithAnApp'
  <2>1. Fallbacks(active)' \subseteq Fallbacks(active)
    BY <1>1, <1>2 DEF Fallbacks
  <2> QED
    BY <1>1, <2>1 DEF FocusInv, NeverIdleWithAnApp
<1>6. ShownIsPrimary'
  BY <1>1, <1>2 DEF FocusInv, ShownIsPrimary
<1> QED
  BY <1>3, <1>4, <1>5, <1>6 DEF FocusInv

\* The other steps of a client thread leave the flags alone.
LEMMA OtherFocus ==
  ASSUME IInv, FocusInv, NEW i \in Slots,
         \/ PredictFrame(i) \/ SessionDestroy(i) \/ LeaveLoop(i)
         \/ SetupEpoll(i) \/ SessionCreateStore(i) \/ SessionCreateRead(i)
         \/ SessionCreateSetState(i) \/ PredictFrameReturn(i)
         \/ DestroyRefs(i) \/ DestroyComp(i) \/ DestroyNull(i)
         \/ ExitCheck(i) \/ StartDelayedExit(i)
  PROVE  FocusInv'
<1>0. /\ TypeOK /\ SlotsInv /\ xc \in [Slots -> {"null", "live", "freed"}]
      /\ used[i] /\ sessions[i] = 0 => xc[i] = "null" /\ tpc[i] # "create_store"
      /\ used[i] => tpc[i] \notin {"exit_check", "idle_write", "deactivate"}
  BY DEF IInv, TypeOK, FocusInv, FlagsInv
<1>1. UNCHANGED <<focusVars, used, active, overlay, shown, sessions>>
  BY DEF PredictFrame, SessionDestroy, LeaveLoop, SetupEpoll, SessionCreateStore,
         SessionCreateRead, SessionCreateSetState, PredictFrameReturn, DestroyRefs,
         DestroyComp, DestroyNull, ExitCheck, StartDelayedExit, clientVars
<1>2. CASE PredictFrame(i)
  <2>1. /\ xc[i] = "live" /\ xc' = xc
        /\ \E to \in {"predicted", "activate"} : Goto(i, "loop", to)
    BY <1>2 DEF PredictFrame, clientVars
  <2> QED
    BY <1>0, <1>1, <2>1, QuietFocus DEF LeavingPcs
<1>3. CASE SessionDestroy(i) \/ LeaveLoop(i) \/ PredictFrameReturn(i) \/ SetupEpoll(i)
  <2>1. /\ xc' = xc
        /\ \E from \in {"loop", "predicted", "setup"},
              to \in {"destroy_refs", "closing", "loop", "exited"} : Goto(i, from, to)
    BY <1>3 DEF SessionDestroy, LeaveLoop, PredictFrameReturn, SetupEpoll, clientVars
  <2> QED
    BY <1>0, <1>1, <2>1, QuietFocus DEF LeavingPcs
<1>4. CASE SessionCreateStore(i)
  <2>1. /\ Goto(i, "create_store", "create_read") /\ tpc[i] = "create_store"
        /\ \A j \in Slots : j # i => xc'[j] = xc[j]
    BY <1>0, <1>4 DEF SessionCreateStore, Goto
  <2> QED
    BY <1>0, <1>1, <2>1, QuietFocus DEF LeavingPcs
<1>5. CASE SessionCreateRead(i) \/ SessionCreateSetState(i)
  <2>1. /\ xc' = xc
        /\ Goto(i, "create_read", "create_set") \/ Goto(i, "create_set", "loop")
    BY <1>5 DEF SessionCreateRead, SessionCreateSetState
  <2> QED
    BY <1>0, <1>1, <2>1, QuietFocus DEF LeavingPcs
<1>6. CASE DestroyRefs(i) \/ DestroyComp(i)
  <2>1. /\ xc[i] = "null" => xc'[i] = "null"
        /\ \A j \in Slots : j # i => xc'[j] = xc[j]
        /\ Goto(i, "destroy_refs", "destroy_comp") \/ Goto(i, "destroy_comp", "destroy_null")
    BY <1>0, <1>6 DEF DestroyRefs, DestroyComp, clientVars
  <2> QED
    BY <1>0, <1>1, <2>1, QuietFocus DEF LeavingPcs
<1>7. CASE DestroyNull(i)
  <2>1. /\ xc'[i] = "null" /\ \A j \in Slots : j # i => xc'[j] = xc[j]
        /\ Goto(i, "destroy_null", IF used[i] THEN "loop" ELSE "exit_check")
    BY <1>0, <1>7 DEF DestroyNull
  <2> QED
    BY <1>0, <1>1, <2>1, QuietFocus DEF LeavingPcs
<1>8. CASE ExitCheck(i) \/ StartDelayedExit(i)
  <2>1. /\ xc' = xc /\ tpc[i] \in {"exit_check", "idle_write"}
        /\ \E from \in {"exit_check", "idle_write"}, to \in {"idle_write", "deactivate"} :
             Goto(i, from, to)
    BY <1>8 DEF ExitCheck, StartDelayedExit, clientVars, Goto
  <2> QED
    BY <1>0, <1>1, <2>1, QuietFocus DEF LeavingPcs
<1> QED
  BY <1>2, <1>3, <1>4, <1>5, <1>6, <1>7, <1>8

\* Every step keeps the focus right, if connections make one session.
LEMMA NextFocus ==
  ASSUME MaxSessions <= 1
  PROVE  IInv /\ FocusInv /\ [Next]_vars => FocusInv'
<1> SUFFICES ASSUME IInv, FocusInv, [Next]_vars PROVE FocusInv'
  OBVIOUS
<1>1. CASE Main
  BY <1>1, MainFocus
<1>2. ASSUME NEW i \in Slots, Command(i) \/ LeaveLoop(i) PROVE FocusInv'
  BY <1>2, SessionCreateFocus, SetPrimaryFocus, OtherFocus DEF Command
<1>3. ASSUME NEW i \in Slots, Progress(i) PROVE FocusInv'
  BY <1>3, ActivateFocus, DeactivateFocus, CommonShutdownFocus, OtherFocus DEF Progress
<1>4. ASSUME \/ \E kind \in {"fresh", "stale"} : DelayedExit(kind)
             \/ DelayedExitStop
             \/ UNCHANGED vars
      PROVE  FocusInv'
  <2>1. UNCHANGED <<focusVars, threadVars, clientVars>>
    BY <1>4 DEF DelayedExit, DelayedExitStop, vars
  <2> QED
    BY <2>1 DEF FocusInv, FlagsInv, ActiveClientIsDisplayable, Departing,
                NeverIdleWithAnApp, Fallbacks, ShownIsPrimary, focusVars, threadVars,
                clientVars
<1> QED
  BY <1>1, <1>2, <1>3, <1>4 DEF Next

\* With one session per connection, for any number of clients that come, leave
\* and ask for the focus: the active client is a displayable application, or is
\* leaving; there is one whenever an application is displayable; and exactly it,
\* among the applications, is recorded as visible and focused.
THEOREM FocusIsRight ==
  ASSUME MaxSessions <= 1
  PROVE  Spec => []FocusIsSound
<1>1. IInv /\ FocusInv /\ [Next]_vars => FocusInv'
  BY NextFocus
<1>2. FocusInv => FocusIsSound
  BY DEF FocusInv, FocusIsSound
<1> QED
  BY <1>1, <1>2, IInvariant, InitFocus, PTL DEF Spec

-----------------------------------------------------------------------------
(* What the compositors are told, when a connection has one session.       *)

\* A session that is being made, or that waits to be activated, is not active, and one
\* that waits has its compositor; so no compositor was told of an active session before
\* session_create was done with it.  An overlay, active or not, knows of a main
\* application only while there is one.
Told(i) ==
  /\ tpc[i] \in {"create_store", "create_read", "create_set"} => ~active[i]
  /\ tpc[i] = "activate" => xc[i] = "live" /\ ~active[i]
  /\ used[i] /\ overlay[i] /\ xc[i] = "live" /\ mainVis[i] => activeIdx # None
  /\ used[i] /\ active[i] /\ xc[i] = "live" => compShown[i] = shown[i]
  /\ used[i] /\ active[i] /\ overlay[i] /\ xc[i] = "live" => (mainVis[i] <=> activeIdx # None)

TellInv == \A i \in Slots : Told(i)

\* A slot that a step leaves alone.
LEMMA ToldKept ==
  ASSUME NEW i \in Slots, Told(i), activeIdx' = activeIdx,
         tpc'[i] = tpc[i], active'[i] = active[i], used'[i] = used[i], overlay'[i] = overlay[i],
         xc'[i] = xc[i], mainVis'[i] = mainVis[i], compShown'[i] = compShown[i],
         shown'[i] = shown[i]
  PROVE  Told(i)'
BY DEF Told

\* A step of the thread of slot i that writes no variable of another slot.
LEMMA ToldAlone ==
  ASSUME TypeOK, TellInv, NEW i \in Slots, Told(i)', activeIdx' = activeIdx,
         \A j \in Slots \ {i} :
           /\ tpc'[j] = tpc[j] /\ active'[j] = active[j] /\ used'[j] = used[j]
           /\ overlay'[j] = overlay[j] /\ xc'[j] = xc[j] /\ mainVis'[j] = mainVis[j]
           /\ compShown'[j] = compShown[j] /\ shown'[j] = shown[j]
  PROVE  TellInv'
BY ToldKept DEF TellInv

\* update_server_state_locked tells all clients, or changes nothing that they should know.
LEMMA UpdateTells ==
  ASSUME TypeOK, lastIdx = activeIdx, NEW cur \in Slots \cup {None}, NEW act,
         UpdateServerState(cur, act)
  PROVE  \/ cur = activeIdx /\ UNCHANGED <<activeIdx, shown, compShown, mainVis>>
         \/ \A i \in Slots : used[i] /\ xc[i] = "live" =>
              /\ compShown'[i] = shown'[i]
              /\ overlay[i] => \/ mainVis'[i] <=> activeIdx' # None
                               \/ /\ mainVis'[i] = mainVis[i]
                                  /\ activeIdx = None /\ activeIdx' = None
<1>1. CASE cur # None /\ act[cur] /\ cur = lastIdx
  BY <1>1 DEF UpdateServerState
<1>2. CASE ~(cur # None /\ act[cur] /\ cur = lastIdx)
  <2>1. PICK chosen : /\ activeIdx' = chosen
                      /\ TellClients({i \in Slots : used[i]}, chosen, lastIdx)
    BY <1>2 DEF UpdateServerState
  <2>2. ASSUME NEW i \in Slots, used[i], xc[i] = "live"
        PROVE  /\ compShown'[i] = shown'[i]
               /\ overlay[i] => \/ mainVis'[i] <=> activeIdx' # None
                                \/ /\ mainVis'[i] = mainVis[i]
                                   /\ activeIdx = None /\ activeIdx' = None
    <3>1. shown'[i] = (i = chosen \/ overlay[i]) /\ compShown'[i] = (i = chosen \/ overlay[i])
      BY <2>1, <2>2 DEF TellClients
    <3>2. mainVis'[i] = IF overlay[i] /\ (chosen # None \/ lastIdx # None)
                        THEN chosen # None ELSE mainVis[i]
      BY <2>1, <2>2 DEF TellClients
    <3>3. compShown'[i] = shown'[i]
      BY <3>1
    <3>4. CASE chosen # None \/ lastIdx # None
      BY <2>1, <3>2, <3>3, <3>4
    <3>5. CASE ~(chosen # None \/ lastIdx # None)
      BY <2>1, <3>2, <3>3, <3>5
    <3> QED
      BY <3>4, <3>5
  <2> QED
    BY <2>2
<1> QED
  BY <1>1, <1>2

\* So after it every client that is not newly active knows what it should.
LEMMA UpdateTold ==
  ASSUME TypeOK, FlagsInv, TellInv, NEW cur \in Slots \cup {None}, NEW act,
         UpdateServerState(cur, act), NEW i \in Slots,
         UNCHANGED <<used, overlay, xc>>,
         tpc'[i] \in {"create_store", "create_read", "create_set", "activate"}
           => tpc'[i] = tpc[i] /\ ~active'[i],
         cur # activeIdx \/ active[i] \/ ~active'[i] \/ ~used[i]
  PROVE  Told(i)'
<1>1. lastIdx = activeIdx /\ Told(i)
  BY DEF FlagsInv, TellInv
<1>2. CASE cur = activeIdx /\ UNCHANGED <<activeIdx, shown, compShown, mainVis>>
  BY <1>1, <1>2 DEF Told
<1>3. CASE \A k \in Slots : used[k] /\ xc[k] = "live" =>
              /\ compShown'[k] = shown'[k]
              /\ overlay[k] => \/ mainVis'[k] <=> activeIdx' # None
                               \/ /\ mainVis'[k] = mainVis[k]
                                  /\ activeIdx = None /\ activeIdx' = None
  <2>1. used[i] /\ xc[i] = "live" =>
              /\ compShown'[i] = shown'[i]
              /\ overlay[i] => \/ mainVis'[i] <=> activeIdx' # None
                               \/ /\ mainVis'[i] = mainVis[i]
                                  /\ activeIdx = None /\ activeIdx' = None
    BY <1>3
  <2> QED
    BY <1>1, <2>1 DEF Told
<1> QED
  BY <1>1, <1>2, <1>3, UpdateTells

\* The steps of the main thread.
LEMMA MainTold ==
  ASSUME IInv, TellInv, Main
  PROVE  TellInv'
<1>0. TypeOK /\ SlotsInv /\ activeIdx' = activeIdx
  BY DEF IInv, Main, HandleClientConnected, JoinOldThread, HandleShutdownSignal, Teardown, focusVars
<1>1. ASSUME NEW i \in Slots, StartClient(i)
      PROVE  TellInv'
  <2>1. /\ used' = [used EXCEPT ![i] = TRUE] /\ active' = [active EXCEPT ![i] = FALSE]
        /\ overlay' = [overlay EXCEPT ![i] = FALSE] /\ shown' = [shown EXCEPT ![i] = FALSE]
        /\ xc' = [xc EXCEPT ![i] = "null"] /\ UNCHANGED <<compShown, mainVis>>
        /\ \E pc \in {"setup", "none"} : tpc' = [tpc EXCEPT ![i] = pc]
    BY <1>1 DEF StartClient
  <2>2. Told(i)'
    BY <1>0, <2>1 DEF Told, TypeOK
  <2> QED
    BY <1>0, <2>1, <2>2, ToldAlone DEF TypeOK
<1>2. CASE UNCHANGED <<threadVars, clientVars>>
  BY <1>0, <1>2 DEF TellInv, Told, threadVars, clientVars
<1>3. CASE HandleClientConnected
  <2>1. FreeSlots # {} => FirstOf(FreeSlots) \in Slots
    <3>1. FreeSlots \in SUBSET Slots
      BY DEF FreeSlots
    <3> QED
      BY <3>1, FirstOfIn
  <2> QED
    BY <1>1, <1>2, <1>3, <2>1 DEF HandleClientConnected
<1>4. CASE JoinOldThread
  BY <1>0, <1>1, <1>4 DEF JoinOldThread, SlotsInv
<1>5. CASE HandleShutdownSignal \/ Teardown
  BY <1>2, <1>5 DEF HandleShutdownSignal, Teardown
<1> QED
  BY <1>3, <1>4, <1>5 DEF Main

\* ipc_handle_session_create comes when no session is active.
LEMMA SessionCreateTold ==
  ASSUME MaxSessions <= 1, IInv, FocusInv, TellInv, NEW i \in Slots, NEW ov \in BOOLEAN,
         SessionCreate(i, ov)
  PROVE  TellInv'
<1>1. /\ xc[i] = "null" /\ tpc[i] = "loop" /\ tpc' = [tpc EXCEPT ![i] = "create_store"]
      /\ sessions[i] < MaxSessions /\ overlay' = [overlay EXCEPT ![i] = ov]
      /\ UNCHANGED <<activeIdx, used, active, shown, xc, compShown, mainVis>>
  BY DEF SessionCreate, Goto, focusVars
<1>2. TypeOK /\ SlotsInv
  BY DEF IInv
<1>3. ~active[i]
  <2>1. sessions[i] = 0
    BY <1>1, <1>2, ConstantsAssumption DEF TypeOK
  <2> QED
    BY <2>1 DEF FocusInv, FlagsInv
<1>4. Told(i)'
  BY <1>1, <1>2, <1>3 DEF Told, TypeOK
<1> QED
  BY <1>1, <1>2, <1>4, ToldAlone DEF TypeOK

\* set_primary_client.
LEMMA SetPrimaryTold ==
  ASSUME IInv, FocusInv, TellInv, NEW i \in Slots, NEW j \in Slots, SetPrimaryClient(i, j)
  PROVE  TellInv'
<1>1. SetActiveClient(j, active) /\ UNCHANGED <<tpc, used, active, overlay, xc>>
  BY DEF SetPrimaryClient, threadVars
<1>2. CASE j = activeIdx
  BY <1>1, <1>2 DEF SetActiveClient, TellInv, Told, focusVars
<1>3. CASE j # activeIdx
  <2>1. UpdateServerState(j, active) /\ TypeOK /\ FlagsInv
    BY <1>1, <1>3 DEF SetActiveClient, IInv, FocusInv
  <2>2. ASSUME NEW k \in Slots
        PROVE  Told(k)'
    <3>1. /\ tpc'[k] = tpc[k]
          /\ tpc[k] \in {"create_store", "create_read", "create_set", "activate"} => ~active'[k]
      BY <1>1 DEF TellInv, Told
    <3> QED
      BY <1>1, <1>3, <2>1, <3>1, UpdateTold
  <2> QED
    BY <2>2 DEF TellInv
<1> QED
  BY <1>2, <1>3

\* ipc_server_activate_session tells the compositor of the session it activates.
LEMMA ActivateTold ==
  ASSUME IInv, FocusInv, TellInv, NEW i \in Slots, ActivateSession(i)
  PROVE  TellInv'
<1> DEFINE act == [active EXCEPT ![i] = TRUE]
<1>0. TypeOK /\ SlotsInv /\ FlagsInv
  BY DEF IInv, FocusInv
<1>1. /\ tpc[i] = "activate" /\ tpc' = [tpc EXCEPT ![i] = "predicted"] /\ active' = act
      /\ IF overlay[i]
         THEN TellClients({i}, activeIdx, lastIdx) /\ UNCHANGED focusVars
         ELSE SetActiveClient(i, act)
      /\ UNCHANGED <<used, overlay, xc>>
  BY DEF ActivateSession, Goto
<1>2. /\ used[i] /\ xc[i] = "live" /\ ~active[i] /\ Told(i)
  BY <1>0, <1>1 DEF SlotsInv, LeavingPcs, TellInv, Told
<1>3. /\ tpc'[i] = "predicted"
      /\ \A k \in Slots : k # i => tpc'[k] = tpc[k] /\ active'[k] = active[k]
  BY <1>0, <1>1 DEF TypeOK
<1>4. lastIdx = activeIdx
  BY <1>0 DEF FlagsInv
<1>5. CASE overlay[i]
  <2>1. /\ activeIdx' = activeIdx /\ TellClients({i}, activeIdx, lastIdx)
    BY <1>1, <1>5 DEF focusVars
  <2>2. /\ shown' = [k \in Slots |-> IF k \in {i} THEN k = activeIdx \/ overlay[k] ELSE shown[k]]
        /\ compShown' = [k \in Slots |-> IF k \in {i} /\ xc[k] # "null"
                                         THEN k = activeIdx \/ overlay[k] ELSE compShown[k]]
        /\ mainVis' = [k \in Slots |->
             IF (k \in {i} /\ xc[k] # "null") /\ overlay[k] /\ (activeIdx # None \/ lastIdx # None)
             THEN activeIdx # None ELSE mainVis[k]]
    BY <2>1 DEF TellClients
  <2>3. \A k \in Slots \ {i} :
           /\ tpc'[k] = tpc[k] /\ active'[k] = active[k] /\ used'[k] = used[k]
           /\ overlay'[k] = overlay[k] /\ xc'[k] = xc[k] /\ mainVis'[k] = mainVis[k]
           /\ compShown'[k] = compShown[k] /\ shown'[k] = shown[k]
    BY <1>1, <1>3, <2>2
  <2>4. compShown'[i] = shown'[i]
    BY <1>2, <1>5, <2>2
  <2>5. mainVis'[i] <=> activeIdx # None
    <3>1. CASE activeIdx # None
      BY <1>2, <1>5, <2>2, <3>1
    <3>2. CASE activeIdx = None
      <4>1. mainVis'[i] = mainVis[i]
        BY <1>4, <2>2, <3>2
      <4> QED
        BY <1>2, <1>5, <3>2, <4>1 DEF Told
    <3> QED
      BY <3>1, <3>2
  <2>6. Told(i)'
    BY <1>1, <1>3, <2>1, <2>4, <2>5 DEF Told
  <2> QED
    BY <1>0, <2>1, <2>3, <2>6, ToldAlone
<1>6. CASE ~overlay[i]
  <2>1. i # activeIdx
    BY <1>0, <1>1, <1>2, SlotsFinite DEF FocusInv, ActiveClientIsDisplayable, Departing
  <2>2. UpdateServerState(i, act)
    BY <1>1, <1>6, <2>1 DEF SetActiveClient
  <2>3. ASSUME NEW k \in Slots
        PROVE  Told(k)'
    <3>1. tpc'[k] \in {"create_store", "create_read", "create_set", "activate"}
             => tpc'[k] = tpc[k] /\ ~active'[k]
      BY <1>3 DEF TellInv, Told
    <3> HIDE DEF act
    <3> QED
      BY <1>0, <1>1, <2>1, <2>2, <3>1, UpdateTold
  <2> QED
    BY <2>3 DEF TellInv
<1> QED
  BY <1>5, <1>6

\* ipc_server_deactivate_session, of a client that has left.
LEMMA DeactivateTold ==
  ASSUME IInv, FocusInv, TellInv, NEW i \in Slots, DeactivateSession(i)
  PROVE  TellInv'
<1> DEFINE act == [active EXCEPT ![i] = FALSE]
<1>0. TypeOK /\ SlotsInv /\ FlagsInv /\ activeIdx \in Slots \cup {None}
  BY DEF IInv, FocusInv, TypeOK
<1>1. /\ tpc[i] = "deactivate" /\ tpc' = [tpc EXCEPT ![i] = "exited"] /\ active' = act
      /\ UpdateServerState(activeIdx, act)
      /\ UNCHANGED <<used, overlay, xc>>
  BY DEF DeactivateSession, Goto
<1>2. /\ tpc'[i] = "exited" /\ ~active'[i]
      /\ \A k \in Slots : k # i => tpc'[k] = tpc[k] /\ active'[k] = active[k]
  BY <1>0, <1>1 DEF TypeOK
<1> HIDE DEF act
<1>3. ASSUME NEW k \in Slots
      PROVE  Told(k)'
  <2>1. tpc'[k] \in {"create_store", "create_read", "create_set", "activate"}
          => tpc'[k] = tpc[k] /\ ~active'[k]
    BY <1>2 DEF TellInv, Told
  <2>2. active[k] \/ ~active'[k]
    BY <1>2
  <2> QED
    BY <1>0, <1>1, <2>1, <2>2, UpdateTold
<1> QED
  BY <1>3 DEF TellInv

\* common_shutdown: the slot is given up.
LEMMA CommonShutdownTold ==
  ASSUME IInv, TellInv, NEW i \in Slots, CommonShutdown(i)
  PROVE  TellInv'
<1>1. /\ tpc' = [tpc EXCEPT ![i] = "destroy_refs"]
      /\ used' = [used EXCEPT ![i] = FALSE] /\ active' = [active EXCEPT ![i] = FALSE]
      /\ overlay' = [overlay EXCEPT ![i] = FALSE] /\ shown' = [shown EXCEPT ![i] = FALSE]
      /\ UNCHANGED <<xc, compShown, mainVis, activeIdx>>
  BY DEF CommonShutdown, Goto, focusVars
<1>2. TypeOK
  BY DEF IInv
<1>3. Told(i)'
  BY <1>1, <1>2 DEF Told, TypeOK
<1> QED
  BY <1>1, <1>2, <1>3, ToldAlone DEF TypeOK

\* The other steps of a client thread: only session_create tells its compositor
\* anything, and does so before the session is active.
LEMMA OtherTold ==
  ASSUME IInv, TellInv, NEW i \in Slots,
         \/ PredictFrame(i) \/ SessionDestroy(i) \/ LeaveLoop(i)
         \/ SetupEpoll(i) \/ SessionCreateStore(i) \/ SessionCreateRead(i)
         \/ SessionCreateSetState(i) \/ PredictFrameReturn(i)
         \/ DestroyRefs(i) \/ DestroyComp(i) \/ DestroyNull(i)
         \/ ExitCheck(i) \/ StartDelayedExit(i)
  PROVE  TellInv'
<1>0. TypeOK /\ Told(i)
  BY DEF IInv, TellInv
<1>1. UNCHANGED <<activeIdx, used, active, overlay, shown>>
  BY DEF PredictFrame, SessionDestroy, LeaveLoop, SetupEpoll, SessionCreateStore,
         SessionCreateRead, SessionCreateSetState, PredictFrameReturn, DestroyRefs,
         DestroyComp, DestroyNull, ExitCheck, StartDelayedExit, clientVars, focusVars
<1>2. ASSUME NEW to, tpc' = [tpc EXCEPT ![i] = to], Told(i)',
             \A j \in Slots \ {i} : /\ xc'[j] = xc[j] /\ mainVis'[j] = mainVis[j]
                                    /\ compShown'[j] = compShown[j]
      PROVE  TellInv'
  BY <1>0, <1>1, <1>2, ToldAlone DEF TypeOK
<1>3. CASE \/ PredictFrame(i) \/ SessionDestroy(i) \/ LeaveLoop(i) \/ SetupEpoll(i)
           \/ SessionCreateRead(i) \/ PredictFrameReturn(i)
           \/ DestroyRefs(i) \/ ExitCheck(i) \/ StartDelayedExit(i)
  <2>1. UNCHANGED <<xc, mainVis, compShown>>
    BY <1>3 DEF PredictFrame, SessionDestroy, LeaveLoop, SetupEpoll, SessionCreateRead,
                PredictFrameReturn, DestroyRefs, ExitCheck, StartDelayedExit, clientVars
  <2>2. PICK to : /\ tpc' = [tpc EXCEPT ![i] = to]
                  /\ to \in {"create_store", "create_read", "create_set"} => tpc[i] = "create_read"
                  /\ to = "activate" => xc[i] = "live" /\ ~active[i]
    BY <1>3 DEF PredictFrame, SessionDestroy, LeaveLoop, SetupEpoll, SessionCreateRead,
                PredictFrameReturn, DestroyRefs, ExitCheck, StartDelayedExit, Goto
  <2>3. tpc'[i] = to
    BY <1>0, <2>2 DEF TypeOK
  <2>4. Told(i)'
    BY <1>0, <1>1, <2>1, <2>2, <2>3 DEF Told
  <2> QED
    BY <1>2, <2>1, <2>2, <2>4
<1>4. CASE SessionCreateStore(i)
  <2>1. /\ tpc[i] = "create_store" /\ tpc' = [tpc EXCEPT ![i] = "create_read"]
        /\ xc' = [xc EXCEPT ![i] = "live"] /\ compShown' = [compShown EXCEPT ![i] = FALSE]
        /\ mainVis' = [mainVis EXCEPT ![i] = FALSE]
    BY <1>4 DEF SessionCreateStore, Goto
  <2>2. Told(i)'
    BY <1>0, <1>1, <2>1 DEF Told, TypeOK
  <2> QED
    BY <1>0, <1>2, <2>1, <2>2 DEF TypeOK
<1>5. CASE SessionCreateSetState(i)
  <2>1. /\ tpc[i] = "create_set" /\ tpc' = [tpc EXCEPT ![i] = "loop"]
        /\ compShown' = [compShown EXCEPT ![i] = arg[i]] /\ UNCHANGED <<xc, mainVis>>
    BY <1>5 DEF SessionCreateSetState, Goto
  <2>2. Told(i)'
    BY <1>0, <1>1, <2>1 DEF Told, TypeOK
  <2> QED
    BY <1>0, <1>2, <2>1, <2>2 DEF TypeOK
<1>6. CASE DestroyComp(i) \/ DestroyNull(i)
  <2>1. PICK to \in {"destroy_null", "loop", "exit_check"} : tpc' = [tpc EXCEPT ![i] = to]
    BY <1>6 DEF DestroyComp, DestroyNull, Goto
  <2>2. /\ xc'[i] # "live"
        /\ \A j \in Slots \ {i} : /\ xc'[j] = xc[j] /\ mainVis'[j] = mainVis[j]
                                  /\ compShown'[j] = compShown[j]
    BY <1>0, <1>6 DEF DestroyComp, DestroyNull, TypeOK
  <2>3. Told(i)'
    BY <1>0, <2>1, <2>2 DEF Told, TypeOK
  <2> QED
    BY <1>2, <2>1, <2>2, <2>3
<1> QED
  BY <1>3, <1>4, <1>5, <1>6

\* Every step keeps what the compositors were told right.
LEMMA NextTold ==
  ASSUME MaxSessions <= 1
  PROVE  IInv /\ FocusInv /\ TellInv /\ [Next]_vars => TellInv'
<1> SUFFICES ASSUME IInv, FocusInv, TellInv, [Next]_vars PROVE TellInv'
  OBVIOUS
<1>1. CASE Main
  BY <1>1, MainTold
<1>2. ASSUME NEW i \in Slots, Command(i) \/ LeaveLoop(i) PROVE TellInv'
  BY <1>2, SessionCreateTold, SetPrimaryTold, OtherTold DEF Command
<1>3. ASSUME NEW i \in Slots, Progress(i) PROVE TellInv'
  BY <1>3, ActivateTold, DeactivateTold, CommonShutdownTold, OtherTold DEF Progress
<1>4. ASSUME \/ \E kind \in {"fresh", "stale"} : DelayedExit(kind)
             \/ DelayedExitStop
             \/ UNCHANGED vars
      PROVE  TellInv'
  <2>1. UNCHANGED <<focusVars, threadVars, clientVars>>
    BY <1>4 DEF DelayedExit, DelayedExitStop, vars
  <2> QED
    BY <2>1 DEF TellInv, Told, focusVars, threadVars, clientVars
<1> QED
  BY <1>1, <1>2, <1>3, <1>4 DEF Next

\* It holds at first, and with the rest of the invariant at all times.
LEMMA TellInvariant ==
  ASSUME MaxSessions <= 1
  PROVE  Spec => []TellInv
<1>1. Init => TellInv
  BY DEF Init, TellInv, Told
<1>2. IInv /\ FocusInv /\ TellInv /\ [Next]_vars => TellInv'
  BY NextTold
<1>3. IInv /\ FocusInv /\ [Next]_vars => FocusInv'
  BY NextFocus
<1> QED
  BY <1>1, <1>2, <1>3, IInvariant, InitFocus, PTL DEF Spec

\* With one session per connection the compositor of every active client was last told
\* what the server has recorded of it: whatever ipc_handle_session_create, which passes
\* on without the lock what it read, overwrites is told again on activation.
THEOREM CompositorIsTold ==
  ASSUME MaxSessions <= 1
  PROVE  Spec => []CompositorAgrees
<1>1. TellInv => CompositorAgrees
  BY DEF TellInv, Told, CompositorAgrees
<1> QED
  BY <1>1, TellInvariant, PTL

\* And every active overlay was told whether there is a main application, though an
\* update is passed on only when there is, or was, an active client.
THEOREM OverlayIsTold ==
  ASSUME MaxSessions <= 1
  PROVE  Spec => []OverlayKnowsMainApp
<1>1. TellInv => OverlayKnowsMainApp
  BY DEF TellInv, Told, OverlayKnowsMainApp
<1> QED
  BY <1>1, TellInvariant, PTL

=============================================================================
