---------------------------- MODULE Worker_proofs ----------------------------
(***************************************************************************)
(* Theorems about Worker, for any number of threads, callers, groups and   *)
(* tasks, any size of the array and any starting worker count.             *)
(*                                                                         *)
(*   IdleInv    available.count counts the threads in the wait for work,   *)
(*              and none of them sleeps through a task it may do;          *)
(*   TaskInv    each task is in the array or with one thread, and is       *)
(*              counted there;                                             *)
(*   CallInv    which groups callers hold, and the calls they are in;      *)
(*   WaitInv    waiters, releases and the worker limit.                    *)
(*                                                                         *)
(* The last one is for groups that have one caller each.                   *)
(***************************************************************************)
EXTENDS Worker, FiniteSetTheorems, TLAPS

USE DEF counts, refs

-----------------------------------------------------------------------------
(* The invariants.                                                         *)

ThreadStates == {"loop", "blocked", "woken", "working", "exited"}
CallerStates == {"idle", "push", "wait", "blocked", "woken", "destroy_pool",
                 "joining", "done"}
Calls == [op : {"push", "wait", "destroy"}, g : Groups]

\* The threads in the wait for work.
Idle == {t \in Threads : tpc[t] \in {"blocked", "woken"}}

IdleInv ==
  /\ tpc \in [Threads -> ThreadStates]
  /\ available = Cardinality(Idle)
  /\ NoStrandedTask

\* The places with a task, those with a task of group g, and the threads with one.
Taken == {i \in 1..MAX_TASK_COUNT : tasks[i] # None}
Of(g) == {i \in 1..MAX_TASK_COUNT : tasks[i] = g}
Working == {t \in Threads : tpc[t] = "working"}
On(g) == {t \in Threads : job[t] = g}

TaskInv ==
  /\ tasks \in [1..MAX_TASK_COUNT -> Groups \union {None}]
  /\ job \in [Threads -> Groups \union {None}]
  /\ \A t \in Threads : job[t] # None <=> tpc[t] = "working"
  /\ tasks_in_array_count = Cardinality(Taken)
  /\ working_count = Cardinality(Working)
  /\ current_tasks_in_array \in [Groups -> Nat]
  /\ current_working_tasks \in [Groups -> Nat]
  /\ \A g \in Groups : current_tasks_in_array[g] = Cardinality(Of(g))
  /\ \A g \in Groups : current_working_tasks[g] = Cardinality(On(g))

\* A caller in a call on a group has, or had until it dropped the last reference, a
\* reference to it; and such a group is alive.
InCall(c) == cpc[c] \in {"push", "wait", "blocked", "woken"}

CallIsValid(c) ==
  /\ call[c] \in Calls
  /\ call[c].g \in Uses[c] \intersect alive
  /\ call[c].op = "destroy" => call[c].g \notin held[c]

CallInv ==
  /\ cpc \in [Callers -> CallerStates]
  /\ call \in [Callers -> Calls \union {None}]
  /\ held \in [Callers -> SUBSET Groups] /\ alive \in SUBSET Groups
  /\ pool_held \in BOOLEAN
  /\ \A c \in Callers :
       /\ held[c] \subseteq Uses[c] \intersect alive
       /\ InCall(c) => CallIsValid(c)

\* No two callers use the same group.
OneCallerEach == \A c, d \in Callers : c # d => Uses[c] \intersect Uses[d] = {}

\* The callers inside the loop of wait_all.
AllWaiters == {c \in Callers : cpc[c] \in {"blocked", "woken"}}

\* A group that has been released has no task and one waiter; and a destroyed one has
\* no task.
WaitInv ==
  /\ waiting \in [Groups -> Nat]
  /\ released_count \in [Groups -> 0..1]
  /\ \A g \in Groups :
       /\ waiting[g] = Cardinality(Waiters(g))
       /\ released_count[g] = 1 => ~HasTasks(g) /\ Waiters(g) # {}
       /\ g \notin alive => ~HasTasks(g)
  /\ worker_limit \in Int
  /\ worker_limit + Cardinality(Releases) = starting_worker_count + Cardinality(AllWaiters)

\* The rest of the types.
RestTypes ==
  /\ mutex \in Threads \union {None}
  /\ running \in BOOLEAN
  /\ pushed \in 0..MaxTasks

-----------------------------------------------------------------------------
(* Signals and counts.                                                     *)

\* A signal wakes one thread that is blocked, if there is one.
LEMMA SignalledThreads ==
  ASSUME NEW pc \in [Threads -> ThreadStates], NEW B \in SUBSET Threads,
         \A x \in B : pc[x] = "blocked", NEW q \in Signalled(pc, B)
  PROVE  /\ q \in [Threads -> ThreadStates]
         /\ \A t \in Threads : q[t] = pc[t] \/ (pc[t] = "blocked" /\ q[t] = "woken")
         /\ B # {} => \E t \in Threads : q[t] = "woken"
<1>1. CASE B = {}
  BY <1>1 DEF Signalled
<1>2. CASE B # {}
  <2>1. PICK x \in B : q = [pc EXCEPT ![x] = "woken"]
    BY <1>2 DEF Signalled
  <2> QED
    BY <2>1 DEF ThreadStates
<1> QED
  BY <1>1, <1>2

\* The same for the callers in wait_all.
LEMMA SignalledCallers ==
  ASSUME NEW pc \in [Callers -> CallerStates], NEW B \in SUBSET Callers,
         \A x \in B : pc[x] = "blocked", NEW q \in Signalled(pc, B)
  PROVE  /\ q \in [Callers -> CallerStates]
         /\ \A c \in Callers : q[c] = pc[c] \/ (pc[c] = "blocked" /\ q[c] = "woken")
<1>1. CASE B = {}
  BY <1>1 DEF Signalled
<1>2. CASE B # {}
  <2>1. PICK x \in B : q = [pc EXCEPT ![x] = "woken"]
    BY <1>2 DEF Signalled
  <2> QED
    BY <2>1 DEF CallerStates
<1> QED
  BY <1>1, <1>2

\* One more and one less in a finite set.
LEMMA CountOne ==
  ASSUME NEW S, IsFiniteSet(S), NEW x
  PROVE  /\ x \notin S => Cardinality(S \union {x}) = Cardinality(S) + 1
         /\ x \in S => Cardinality(S \ {x}) = Cardinality(S) - 1 /\ Cardinality(S) > 0
         /\ Cardinality(S) \in Nat
<1>1. Cardinality(S) \in Nat
  BY FS_CardinalityType
<1>2. x \notin S => Cardinality(S \union {x}) = Cardinality(S) + 1
  BY FS_AddElement
<1>3. x \in S => Cardinality(S \ {x}) = Cardinality(S) - 1 /\ IsFiniteSet(S \ {x})
  BY FS_RemoveElement
<1>4. x \in S => Cardinality(S) # 0
  BY FS_EmptySet
<1> QED
  BY <1>1, <1>2, <1>3, <1>4

\* A part of the threads, or of the callers.
LEMMA PartsFinite ==
  /\ \A S \in SUBSET Threads : IsFiniteSet(S) /\ Cardinality(S) \in 0..Cardinality(Threads)
  /\ \A S \in SUBSET Callers : IsFiniteSet(S) /\ Cardinality(S) \in 0..Cardinality(Callers)
  /\ Cardinality(Threads) \in Nat /\ Cardinality(Callers) \in Nat
<1>1. IsFiniteSet(Threads) /\ IsFiniteSet(Callers)
  BY ConstantsAssumption
<1>2. Cardinality(Threads) \in Nat /\ Cardinality(Callers) \in Nat
  BY <1>1, FS_CardinalityType
<1>3. ASSUME NEW S \in SUBSET Threads
      PROVE  IsFiniteSet(S) /\ Cardinality(S) \in 0..Cardinality(Threads)
  <2>1. IsFiniteSet(S) /\ Cardinality(S) <= Cardinality(Threads)
    BY <1>1, FS_Subset
  <2>2. Cardinality(S) \in Nat
    BY <2>1, FS_CardinalityType
  <2> QED
    BY <1>2, <2>1, <2>2
<1>4. ASSUME NEW S \in SUBSET Callers
      PROVE  IsFiniteSet(S) /\ Cardinality(S) \in 0..Cardinality(Callers)
  <2>1. IsFiniteSet(S) /\ Cardinality(S) <= Cardinality(Callers)
    BY <1>1, FS_Subset
  <2>2. Cardinality(S) \in Nat
    BY <2>1, FS_CardinalityType
  <2> QED
    BY <1>2, <2>1, <2>2
<1> QED
  BY <1>2, <1>3, <1>4

-----------------------------------------------------------------------------
(* The wait for work.                                                      *)

\* As long as a thread is blocked available.count is not zero.
LEMMA BlockedIsAvailable ==
  ASSUME IdleInv
  PROVE  /\ available \in Nat /\ BlockedWorkers \subseteq Idle /\ BlockedWorkers \subseteq Threads
         /\ BlockedWorkers # {} => available > 0
         /\ \A x \in BlockedWorkers : tpc[x] = "blocked"
<1>1. BlockedWorkers \subseteq Idle /\ Idle \subseteq Threads
  BY DEF BlockedWorkers, Idle
<1>2. available \in Nat /\ IsFiniteSet(Idle)
  BY <1>1, PartsFinite DEF IdleInv
<1>3. Idle # {} => available # 0
  BY <1>2, FS_EmptySet DEF IdleInv
<1> QED
  BY <1>1, <1>2, <1>3 DEF BlockedWorkers

\* Threads that are not in the wait do not enter or leave it; blocked ones may be woken.
LEMMA IdleKept ==
  ASSUME IdleInv, available' = available, tpc' \in [Threads -> ThreadStates],
         \A t \in Threads : tpc'[t] = tpc[t] \/ (tpc[t] = "blocked" /\ tpc'[t] = "woken"),
         NoStrandedTask'
  PROVE  IdleInv'
<1>1. Idle' = Idle
  BY DEF Idle
<1> QED
  BY <1>1 DEF IdleInv

\* A thread that goes to work, or returns, wakes another one.
LEMMA LeaveLoop ==
  ASSUME IdleInv, NEW t \in Threads, AtLoop(t), available' = Left(t),
         NEW s \in {"working", "exited"},
         NEW B \in SUBSET BlockedWorkers,
         tpc' \in Signalled([tpc EXCEPT ![t] = s], B),
         NoStrandedTask'
  PROVE  IdleInv'
<1>1. tpc \in [Threads -> ThreadStates] /\ available = Cardinality(Idle)
  BY DEF IdleInv
<1>2. tpc[t] \in {"loop", "woken"}
  BY DEF AtLoop
<1> DEFINE pc == [tpc EXCEPT ![t] = s]
<1>3. /\ pc \in [Threads -> ThreadStates] /\ pc[t] = s
      /\ \A x \in Threads : x # t => pc[x] = tpc[x]
      /\ B \in SUBSET Threads /\ \A x \in B : pc[x] = "blocked"
  BY <1>1, <1>2 DEF ThreadStates, BlockedWorkers
<1> HIDE DEF pc
<1>4. tpc' \in Signalled(pc, B)
  BY DEF pc
<1>5. /\ tpc' \in [Threads -> ThreadStates]
      /\ \A x \in Threads : tpc'[x] = pc[x] \/ (pc[x] = "blocked" /\ tpc'[x] = "woken")
  BY <1>3, <1>4, SignalledThreads
<1>6. IsFiniteSet(Idle)
  BY PartsFinite DEF Idle
<1>7. CASE tpc[t] = "woken"
  <2>1. Idle' = Idle \ {t} /\ t \in Idle
    BY <1>3, <1>5, <1>7 DEF Idle
  <2>2. Cardinality(Idle') = available - 1
    BY <1>1, <1>6, <2>1, CountOne
  <2> QED
    BY <1>5, <1>7, <2>2 DEF Left, IdleInv
<1>8. CASE tpc[t] = "loop"
  <2>1. Idle' = Idle
    BY <1>3, <1>5, <1>8 DEF Idle
  <2> QED
    BY <1>1, <1>5, <1>8, <2>1 DEF Left, IdleInv
<1> QED
  BY <1>2, <1>7, <1>8

\* What such a thread leaves in available.count, if others are blocked.
LEMMA LeftBehind ==
  ASSUME IdleInv, NEW t \in Threads, AtLoop(t), BlockedWorkers # {}
  PROVE  Left(t) > 0
<1>1. available \in Nat /\ available > 0
  BY BlockedIsAvailable
<1>2. CASE tpc[t] = "woken"
  <2>1. IsFiniteSet(Idle) /\ IsFiniteSet(Idle \ {t}) /\ t \in Idle
    BY <1>2, PartsFinite DEF Idle
  <2>2. Idle \ {t} # {}
    BY <1>2 DEF Idle, BlockedWorkers
  <2>3. Cardinality(Idle \ {t}) = available - 1
    BY <2>1, CountOne DEF IdleInv
  <2>4. Cardinality(Idle \ {t}) # 0
    BY <2>1, <2>2, FS_EmptySet
  <2> QED
    BY <1>1, <1>2, <2>3, <2>4 DEF Left
<1>3. CASE tpc[t] # "woken"
  BY <1>1, <1>3 DEF Left
<1> QED
  BY <1>2, <1>3

\* A step that signals whenever, after it, one more worker may work.
LEMMA SignalStep ==
  ASSUME IdleInv, available' = available, NEW B \in SUBSET BlockedWorkers,
         tpc' \in Signalled(tpc, B),
         running' /\ AllowedToWork' => B = BlockedWorkers
  PROVE  IdleInv'
<1>1. tpc \in [Threads -> ThreadStates] /\ B \in SUBSET Threads /\ \A x \in B : tpc[x] = "blocked"
  BY BlockedIsAvailable DEF IdleInv
<1>2. /\ tpc' \in [Threads -> ThreadStates]
      /\ \A x \in Threads : tpc'[x] = tpc[x] \/ (tpc[x] = "blocked" /\ tpc'[x] = "woken")
      /\ B # {} => \E x \in Threads : tpc'[x] = "woken"
  BY <1>1, SignalledThreads
<1>3. BlockedWorkers = {} => BlockedWorkers' = {}
  BY <1>2 DEF BlockedWorkers
<1>4. NoStrandedTask'
  BY <1>2, <1>3 DEF NoStrandedTask
<1> QED
  BY <1>2, <1>4, IdleKept

\* A step that leaves the workers and what they may do alone.
LEMMA IdleUnchanged ==
  ASSUME IdleInv, UNCHANGED <<available, tpc, running, tasks_in_array_count, working_count,
                              worker_limit>>
  PROVE  IdleInv'
BY DEF IdleInv, NoStrandedTask, AllowedToWork, BlockedWorkers, Idle

\* A donated place wakes a worker for it.
LEMMA DonateWakes ==
  ASSUME IdleInv, NEW g, NEW r, Donate(g, r),
         UNCHANGED <<available, running, tasks_in_array_count, working_count>>
  PROVE  IdleInv'
<1> DEFINE B == IF tasks_in_array_count > 0 /\ working_count < worker_limit + 1
                     /\ available > 0
                THEN BlockedWorkers ELSE {}
<1>1. tpc' \in Signalled(tpc, B) /\ worker_limit' = worker_limit + 1
  BY DEF Donate, WakeWorkerIfAllowed
<1>2. B \in SUBSET BlockedWorkers
  OBVIOUS
<1>3. AllowedToWork' => B = BlockedWorkers
  BY <1>1, BlockedIsAvailable DEF AllowedToWork
<1> HIDE DEF B
<1> QED
  BY <1>1, <1>2, <1>3, SignalStep

\* Every step keeps the invariant of the wait for work.
LEMMA IdleStep ==
  ASSUME IdleInv, [Next]_vars
  PROVE  IdleInv'
<1>1. ASSUME NEW t \in Threads, WaitForWork(t)
      PROVE  IdleInv'
  <2>1. /\ tpc \in [Threads -> ThreadStates] /\ available = Cardinality(Idle)
        /\ tpc[t] \in {"loop", "woken"} /\ tpc' = [tpc EXCEPT ![t] = "blocked"]
        /\ available' = Left(t) + 1
    BY <1>1 DEF WaitForWork, AtLoop, IdleInv
  <2>2. NoStrandedTask'
    BY <1>1 DEF WaitForWork, NoStrandedTask, AllowedToWork
  <2>3. IsFiniteSet(Idle) /\ Cardinality(Idle) \in Nat
    BY PartsFinite DEF Idle
  <2>4. tpc' \in [Threads -> ThreadStates]
    BY <2>1 DEF ThreadStates
  <2>5. CASE tpc[t] = "woken"
    <3>1. Idle' = Idle
      BY <2>1, <2>5 DEF Idle
    <3> QED
      BY <2>1, <2>2, <2>3, <2>4, <2>5, <3>1 DEF IdleInv, Left
  <2>6. CASE tpc[t] = "loop"
    <3>1. Idle' = Idle \union {t} /\ t \notin Idle
      BY <2>1, <2>6 DEF Idle
    <3>2. Cardinality(Idle') = Cardinality(Idle) + 1
      BY <2>3, <3>1, CountOne
    <3> QED
      BY <2>1, <2>2, <2>3, <2>4, <2>6, <3>2 DEF IdleInv, Left
  <2> QED
    BY <2>1, <2>5, <2>6
<1>2. ASSUME NEW t \in Threads, StartWork(t)
      PROVE  IdleInv'
  <2> DEFINE B == IF tasks_in_array_count - 1 > 0 /\ working_count + 1 < worker_limit
                       /\ Left(t) > 0
                  THEN BlockedWorkers ELSE {}
             pc == [tpc EXCEPT ![t] = "working"]
  <2>1. /\ AtLoop(t) /\ available' = Left(t) /\ tpc' \in Signalled(pc, B)
        /\ tasks_in_array_count' = tasks_in_array_count - 1
        /\ working_count' = working_count + 1 /\ worker_limit' = worker_limit
    BY <1>2 DEF StartWork, PopTask, WakeWorkerIfAllowed
  <2>2. B \in SUBSET BlockedWorkers
    OBVIOUS
  <2>3. AllowedToWork' /\ BlockedWorkers # {} => B # {}
    BY <2>1, LeftBehind DEF AllowedToWork
  <2> HIDE DEF B
  <2>4. tpc \in [Threads -> ThreadStates] /\ tpc[t] \in {"loop", "woken"}
    BY <2>1 DEF IdleInv, AtLoop
  <2>5. /\ pc \in [Threads -> ThreadStates] /\ pc[t] = "working"
        /\ B \in SUBSET Threads /\ \A x \in B : pc[x] = "blocked"
        /\ \A x \in Threads : pc[x] = "blocked" => tpc[x] = "blocked"
    BY <2>2, <2>4 DEF ThreadStates, BlockedWorkers
  <2> HIDE DEF pc
  <2>6. /\ \A x \in Threads : tpc'[x] = pc[x] \/ (pc[x] = "blocked" /\ tpc'[x] = "woken")
        /\ B # {} => \E x \in Threads : tpc'[x] = "woken"
    BY <2>1, <2>5, SignalledThreads
  <2>7. BlockedWorkers = {} => BlockedWorkers' = {}
    BY <2>5, <2>6 DEF BlockedWorkers
  <2>8. NoStrandedTask'
    BY <2>3, <2>6, <2>7 DEF NoStrandedTask
  <2> QED
    BY <2>1, <2>2, <2>8, LeaveLoop DEF pc
<1>3. ASSUME NEW t \in Threads, FinishWork(t)
      PROVE  IdleInv'
  <2>1. /\ tpc \in [Threads -> ThreadStates] /\ tpc[t] = "working"
        /\ tpc' = [tpc EXCEPT ![t] = "loop"] /\ available' = available
    BY <1>3 DEF FinishWork, IdleInv
  <2>2. Idle' = Idle /\ tpc' \in [Threads -> ThreadStates] /\ tpc'[t] = "loop"
    BY <2>1 DEF Idle, ThreadStates
  <2> QED
    BY <2>1, <2>2 DEF IdleInv, NoStrandedTask
<1>4. ASSUME NEW t \in Threads, ThreadExit(t)
      PROVE  IdleInv'
  <2>1. NoStrandedTask'
    BY <1>4 DEF ThreadExit, NoStrandedTask
  <2>2. BlockedWorkers \in SUBSET BlockedWorkers
    OBVIOUS
  <2> QED
    BY <1>4, <2>1, <2>2, LeaveLoop DEF ThreadExit
<1>5. ASSUME NEW c \in Callers, Push(c)
      PROVE  IdleInv'
  <2>1. UNCHANGED <<available, worker_limit, working_count, running>>
    BY <1>5 DEF Push
  <2>2. CASE tasks_in_array_count >= MAX_TASK_COUNT
    BY <1>5, <2>1, <2>2, IdleUnchanged DEF Push
  <2>3. CASE ~(tasks_in_array_count >= MAX_TASK_COUNT)
    <3> DEFINE B == IF available > 0 THEN BlockedWorkers ELSE {}
    <3>1. tpc' \in Signalled(tpc, B)
      BY <1>5, <2>3 DEF Push
    <3>2. B \in SUBSET BlockedWorkers /\ B = BlockedWorkers
      BY BlockedIsAvailable
    <3> HIDE DEF B
    <3> QED
      BY <2>1, <3>1, <3>2, SignalStep
  <2> QED
    BY <2>2, <2>3
<1>6. ASSUME NEW c \in Callers, WaitAll(c)
      PROVE  IdleInv'
  <2>1. UNCHANGED <<available, running, tasks_in_array_count, working_count>>
    BY <1>6 DEF WaitAll
  <2>2. CASE ~HasTasks(call[c].g)
    BY <1>6, <2>1, <2>2, IdleUnchanged DEF WaitAll
  <2>3. CASE HasTasks(call[c].g)
    BY <1>6, <2>1, <2>3, DonateWakes DEF WaitAll
  <2> QED
    BY <2>2, <2>3
<1>7. ASSUME NEW c \in Callers, WokenInWait(c)
      PROVE  IdleInv'
  <2>1. UNCHANGED <<available, running, tasks_in_array_count, working_count>>
    BY <1>7 DEF WokenInWait
  <2>2. CASE Donate(call[c].g, released_count[call[c].g])
    BY <2>1, <2>2, DonateWakes
  <2>3. CASE UNCHANGED <<worker_limit, tpc>>
    BY <2>1, <2>3, IdleUnchanged
  <2> QED
    BY <1>7, <2>2, <2>3 DEF WokenInWait
<1>8. ASSUME NEW c \in Callers, DestroyPool(c)
      PROVE  IdleInv'
  <2>1. BlockedWorkers \in SUBSET BlockedWorkers
    OBVIOUS
  <2>2. available' = available /\ running' = FALSE /\ tpc' \in Signalled(tpc, BlockedWorkers)
    BY <1>8 DEF DestroyPool
  <2> QED
    BY <2>1, <2>2, SignalStep
<1>9. ASSUME NEW c \in Callers,
             JoinThreads(c) \/ StartPush(c) \/ StartWait(c) \/ DropGroup(c) \/ DropPool(c)
      PROVE  IdleInv'
  BY <1>9, IdleUnchanged DEF JoinThreads, StartPush, StartWait, DropGroup, DropPool
<1>10. ASSUME SpuriousWakeUp
       PROVE  IdleInv'
  <2>1. UNCHANGED <<available, running, tasks_in_array_count, working_count, worker_limit>>
    BY <1>10 DEF SpuriousWakeUp
  <2>2. CASE UNCHANGED tpc
    BY <2>1, <2>2, IdleUnchanged
  <2>3. CASE \E t \in BlockedWorkers : tpc' = [tpc EXCEPT ![t] = "woken"]
    <3>1. tpc' \in Signalled(tpc, BlockedWorkers) /\ BlockedWorkers \in SUBSET BlockedWorkers
      BY <2>3 DEF Signalled
    <3> QED
      BY <2>1, <3>1, SignalStep
  <2> QED
    BY <1>10, <2>2, <2>3 DEF SpuriousWakeUp
<1>11. ASSUME UNCHANGED vars
       PROVE  IdleInv'
  BY <1>11, IdleUnchanged DEF vars
<1> QED
  BY <1>1, <1>2, <1>3, <1>4, <1>5, <1>6, <1>7, <1>8, <1>9, <1>10, <1>11
  DEF Next, ThreadStep, CallStep

\* No wake-up for a worker is lost: when a task is in the array and one more worker may
\* work, some worker that is not in a task is awake (locked_pool_wake_worker_if_allowed,
\* for any number of threads, callers and groups, however groups are shared).
THEOREM NoStrandedTaskHolds == Spec => []NoStrandedTask
<1>1. Init => IdleInv
  <2>1. SUFFICES ASSUME Init
                 PROVE  IdleInv
    OBVIOUS
  <2>2. Idle = {} /\ tpc \in [Threads -> ThreadStates]
    BY <2>1 DEF Init, Idle, ThreadStates
  <2>3. available = Cardinality(Idle)
    BY <2>1, <2>2, FS_EmptySet DEF Init
  <2>4. NoStrandedTask
    BY <2>1 DEF Init, NoStrandedTask, AllowedToWork
  <2> QED
    BY <2>2, <2>3, <2>4 DEF IdleInv
<1>2. IdleInv => NoStrandedTask
  BY DEF IdleInv
<1> QED
  BY <1>1, <1>2, IdleStep, PTL DEF Spec

-----------------------------------------------------------------------------
(* Tasks.                                                                  *)

\* The sets that the counters count are finite.
LEMMA TasksFinite ==
  /\ IsFiniteSet(Taken) /\ IsFiniteSet(Working)
  /\ \A g \in Groups : IsFiniteSet(Of(g)) /\ IsFiniteSet(On(g))
  /\ Cardinality(Taken) \in 0..MAX_TASK_COUNT
<1>1. MAX_TASK_COUNT \in Nat /\ 1 \in Int /\ MAX_TASK_COUNT \in Int
  BY ConstantsAssumption
<1>2. IsFiniteSet(1..MAX_TASK_COUNT) /\ Cardinality(1..MAX_TASK_COUNT) = MAX_TASK_COUNT
  BY <1>1, FS_Interval
<1>3. /\ IsFiniteSet(Taken) /\ Cardinality(Taken) <= MAX_TASK_COUNT
      /\ \A g \in Groups : IsFiniteSet(Of(g))
  <2>1. Taken \subseteq 1..MAX_TASK_COUNT /\ \A g \in Groups : Of(g) \subseteq 1..MAX_TASK_COUNT
    BY DEF Taken, Of
  <2> QED
    BY ZenonT(60), <1>2, <2>1, FS_Subset
<1>4. IsFiniteSet(Working) /\ \A g \in Groups : IsFiniteSet(On(g))
  <2>1. Working \in SUBSET Threads /\ \A g \in Groups : On(g) \in SUBSET Threads
    BY DEF Working, On
  <2> QED
    BY <2>1, PartsFinite
<1>5. Cardinality(Taken) \in Nat
  BY <1>3, FS_CardinalityType
<1> QED
  BY <1>1, <1>3, <1>4, <1>5

\* A step in which no task moves.
LEMMA TaskUnchanged ==
  ASSUME TaskInv, UNCHANGED <<tasks, job, counts, working_count>>,
         \A t \in Threads : tpc'[t] = "working" <=> tpc[t] = "working"
  PROVE  TaskInv'
<1>1. Taken' = Taken /\ Working' = Working
  BY DEF Taken, Working
<1>2. \A g : Of(g)' = Of(g) /\ On(g)' = On(g)
  BY DEF Of, On
<1> QED
  BY <1>1, <1>2 DEF TaskInv

\* A signal starts and ends no work.
LEMMA SignalKeepsWorking ==
  ASSUME IdleInv, NEW B \in SUBSET BlockedWorkers, tpc' \in Signalled(tpc, B)
  PROVE  \A t \in Threads : tpc'[t] = "working" <=> tpc[t] = "working"
<1>1. tpc \in [Threads -> ThreadStates] /\ B \in SUBSET Threads /\ \A x \in B : tpc[x] = "blocked"
  BY BlockedIsAvailable DEF IdleInv
<1>2. \A x \in Threads : tpc'[x] = tpc[x] \/ (tpc[x] = "blocked" /\ tpc'[x] = "woken")
  BY <1>1, SignalledThreads
<1> QED
  BY <1>2

\* A thread takes the first task: from the array to the thread.
LEMMA TaskStarts ==
  ASSUME IdleInv, TaskInv, NEW t \in Threads, StartWork(t)
  PROVE  TaskInv'
<1>1. PICK i \in DOMAIN tasks :
        /\ tasks[i] # None
        /\ tasks' = [tasks EXCEPT ![i] = None]
        /\ tasks_in_array_count' = tasks_in_array_count - 1
        /\ current_tasks_in_array' = [current_tasks_in_array EXCEPT ![tasks[i]] = @ - 1]
        /\ current_working_tasks' = [current_working_tasks EXCEPT ![tasks[i]] = @ + 1]
        /\ job' = [job EXCEPT ![t] = tasks[i]]
  BY DEF StartWork, PopTask
<1>2. PICK g \in Groups : g = tasks[i]
  BY <1>1 DEF TaskInv
<1>3. /\ tasks \in [1..MAX_TASK_COUNT -> Groups \union {None}]
      /\ job \in [Threads -> Groups \union {None}]
      /\ i \in 1..MAX_TASK_COUNT /\ None \notin Groups
      /\ job[t] = None /\ tpc \in [Threads -> ThreadStates] /\ tpc[t] \in {"loop", "woken"}
      /\ working_count' = working_count + 1
  BY <1>1, ConstantsAssumption DEF StartWork, AtLoop, TaskInv, IdleInv
<1>4. \A x \in Threads : tpc'[x] = "working" <=> (x = t \/ tpc[x] = "working")
  <2> DEFINE pc == [tpc EXCEPT ![t] = "working"]
             B == IF tasks_in_array_count - 1 > 0 /\ working_count + 1 < worker_limit
                       /\ Left(t) > 0
                  THEN BlockedWorkers ELSE {}
  <2>1. tpc' \in Signalled(pc, B)
    BY DEF StartWork, WakeWorkerIfAllowed
  <2>2. /\ pc \in [Threads -> ThreadStates] /\ B \in SUBSET Threads
        /\ \A x \in B : pc[x] = "blocked"
        /\ \A x \in Threads : pc[x] = "working" <=> (x = t \/ tpc[x] = "working")
    BY <1>3 DEF BlockedWorkers, ThreadStates
  <2> HIDE DEF pc, B
  <2>3. \A x \in Threads : tpc'[x] = pc[x] \/ (pc[x] = "blocked" /\ tpc'[x] = "woken")
    BY <2>1, <2>2, SignalledThreads
  <2> QED
    BY <2>2, <2>3
<1>5. /\ tasks' \in [1..MAX_TASK_COUNT -> Groups \union {None}]
      /\ job' \in [Threads -> Groups \union {None}]
      /\ \A x \in Threads : job'[x] # None <=> tpc'[x] = "working"
  BY <1>1, <1>2, <1>3, <1>4 DEF TaskInv
<1>6. /\ Taken' = Taken \ {i} /\ i \in Taken /\ Working' = Working \union {t} /\ t \notin Working
      /\ Of(g)' = Of(g) \ {i} /\ i \in Of(g) /\ On(g)' = On(g) \union {t} /\ t \notin On(g)
      /\ \A h \in Groups : h # g => Of(h)' = Of(h) /\ On(h)' = On(h)
  <2>1. Taken' = Taken \ {i} /\ i \in Taken
    BY <1>1, <1>3 DEF Taken
  <2>2. Working' = Working \union {t} /\ t \notin Working
    BY <1>3, <1>4 DEF Working
  <2>3. /\ Of(g)' = Of(g) \ {i} /\ i \in Of(g)
        /\ \A h \in Groups : h # g => Of(h)' = Of(h)
    BY <1>1, <1>2, <1>3 DEF Of
  <2>4. /\ On(g)' = On(g) \union {t} /\ t \notin On(g)
        /\ \A h \in Groups : h # g => On(h)' = On(h)
    BY <1>1, <1>2, <1>3 DEF On
  <2> QED
    BY <2>1, <2>2, <2>3, <2>4
<1>7. /\ Cardinality(Taken') = Cardinality(Taken) - 1
      /\ Cardinality(Working') = Cardinality(Working) + 1
      /\ Cardinality(Of(g)') = Cardinality(Of(g)) - 1 /\ Cardinality(Of(g)) \in Nat
      /\ Cardinality(Of(g)) > 0
      /\ Cardinality(On(g)') = Cardinality(On(g)) + 1
  BY <1>6, TasksFinite, CountOne
<1>8. /\ tasks_in_array_count' = Cardinality(Taken') /\ working_count' = Cardinality(Working')
  BY <1>1, <1>3, <1>7 DEF TaskInv
<1>9. /\ current_tasks_in_array' \in [Groups -> Nat] /\ current_working_tasks' \in [Groups -> Nat]
      /\ \A h \in Groups : current_tasks_in_array'[h] = Cardinality(Of(h)')
      /\ \A h \in Groups : current_working_tasks'[h] = Cardinality(On(h)')
  <2>1. /\ current_tasks_in_array \in [Groups -> Nat]
        /\ current_tasks_in_array[g] = Cardinality(Of(g))
        /\ \A h \in Groups : current_tasks_in_array[h] = Cardinality(Of(h))
        /\ current_tasks_in_array' = [current_tasks_in_array EXCEPT ![g] = @ - 1]
    BY <1>1, <1>2 DEF TaskInv
  <2>2. /\ current_working_tasks \in [Groups -> Nat]
        /\ current_working_tasks[g] = Cardinality(On(g))
        /\ \A h \in Groups : current_working_tasks[h] = Cardinality(On(h))
        /\ current_working_tasks' = [current_working_tasks EXCEPT ![g] = @ + 1]
    BY <1>1, <1>2 DEF TaskInv
  <2>3. /\ current_tasks_in_array' \in [Groups -> Nat]
        /\ \A h \in Groups : current_tasks_in_array'[h] = Cardinality(Of(h)')
    BY <1>6, <1>7, <2>1
  <2>4. /\ current_working_tasks' \in [Groups -> Nat]
        /\ \A h \in Groups : current_working_tasks'[h] = Cardinality(On(h)')
    <3>1. current_working_tasks' \in [Groups -> Nat]
      BY <2>2
    <3>2. current_working_tasks'[g] = Cardinality(On(g)')
      BY <1>7, <2>2
    <3>3. ASSUME NEW h \in Groups, h # g
          PROVE  current_working_tasks'[h] = Cardinality(On(h)')
      BY <1>6, <2>2, <3>3
    <3> QED
      BY <3>1, <3>2, <3>3
  <2> QED
    BY <2>3, <2>4
<1> QED
  BY <1>5, <1>8, <1>9 DEF TaskInv

\* A thread is done with its task.
LEMMA TaskEnds ==
  ASSUME IdleInv, TaskInv, NEW t \in Threads, FinishWork(t)
  PROVE  TaskInv' /\ job[t] \in Groups /\ current_working_tasks[job[t]] > 0
<1>1. PICK g \in Groups : g = job[t]
  BY DEF FinishWork, TaskInv
<1>2. /\ tpc[t] = "working" /\ tpc' = [tpc EXCEPT ![t] = "loop"]
      /\ job' = [job EXCEPT ![t] = None] /\ working_count' = working_count - 1
      /\ current_working_tasks' = [current_working_tasks EXCEPT ![g] = @ - 1]
      /\ UNCHANGED <<tasks, tasks_in_array_count, current_tasks_in_array>>
  BY <1>1 DEF FinishWork
<1>3. /\ job \in [Threads -> Groups \union {None}] /\ tpc \in [Threads -> ThreadStates]
      /\ None \notin Groups
  BY ConstantsAssumption DEF TaskInv, IdleInv
<1>4. /\ job' \in [Threads -> Groups \union {None}]
      /\ \A x \in Threads : job'[x] # None <=> tpc'[x] = "working"
  BY <1>2, <1>3 DEF TaskInv
<1>5. /\ Taken' = Taken /\ Working' = Working \ {t} /\ t \in Working
      /\ \A h \in Groups : Of(h)' = Of(h)
      /\ On(g)' = On(g) \ {t} /\ t \in On(g)
      /\ \A h \in Groups : h # g => On(h)' = On(h)
  <2>1. Taken' = Taken /\ \A h \in Groups : Of(h)' = Of(h)
    BY <1>2 DEF Taken, Of
  <2>2. Working' = Working \ {t} /\ t \in Working
    BY <1>2, <1>3 DEF Working
  <2>3. /\ On(g)' = On(g) \ {t} /\ t \in On(g)
        /\ \A h \in Groups : h # g => On(h)' = On(h)
    BY <1>1, <1>2, <1>3 DEF On
  <2> QED
    BY <2>1, <2>2, <2>3
<1>6. /\ Cardinality(Working') = Cardinality(Working) - 1
      /\ Cardinality(On(g)') = Cardinality(On(g)) - 1 /\ Cardinality(On(g)) \in Nat
      /\ Cardinality(On(g)) > 0
  BY <1>5, TasksFinite, CountOne
<1>7. /\ current_working_tasks \in [Groups -> Nat]
      /\ current_working_tasks[g] = Cardinality(On(g))
      /\ \A h \in Groups : current_working_tasks[h] = Cardinality(On(h))
  BY DEF TaskInv
<1>8. /\ current_working_tasks' \in [Groups -> Nat]
      /\ \A h \in Groups : current_working_tasks'[h] = Cardinality(On(h)')
  BY <1>2, <1>5, <1>6, <1>7
<1>9. /\ working_count' = Cardinality(Working') /\ tasks_in_array_count' = Cardinality(Taken')
      /\ \A h \in Groups : current_tasks_in_array'[h] = Cardinality(Of(h)')
  BY <1>2, <1>5, <1>6 DEF TaskInv
<1>10. /\ tasks' \in [1..MAX_TASK_COUNT -> Groups \union {None}]
       /\ current_tasks_in_array' \in [Groups -> Nat]
  BY <1>2 DEF TaskInv
<1> QED
  BY <1>1, <1>4, <1>6, <1>7, <1>8, <1>9, <1>10 DEF TaskInv

\* A task of group g is put in the array.
LEMMA TaskPushed ==
  ASSUME TaskInv, NEW g \in Groups, PushTask(g), UNCHANGED <<job, working_count>>,
         \A t \in Threads : tpc'[t] = "working" <=> tpc[t] = "working"
  PROVE  TaskInv'
<1>1. PICK i \in DOMAIN tasks :
        /\ tasks[i] = None
        /\ tasks' = [tasks EXCEPT ![i] = g]
        /\ tasks_in_array_count' = tasks_in_array_count + 1
        /\ current_tasks_in_array' = [current_tasks_in_array EXCEPT ![g] = @ + 1]
        /\ UNCHANGED current_working_tasks
  BY DEF PushTask
<1>2. /\ tasks \in [1..MAX_TASK_COUNT -> Groups \union {None}]
      /\ i \in 1..MAX_TASK_COUNT /\ None \notin Groups
  BY <1>1, ConstantsAssumption DEF TaskInv
<1>3. /\ tasks' \in [1..MAX_TASK_COUNT -> Groups \union {None}]
      /\ job' \in [Threads -> Groups \union {None}]
      /\ \A x \in Threads : job'[x] # None <=> tpc'[x] = "working"
  BY <1>1, <1>2 DEF TaskInv
<1>4. Working' = Working /\ \A h \in Groups : On(h)' = On(h)
  BY DEF Working, On
<1>5. /\ Taken' = Taken \union {i} /\ i \notin Taken
      /\ Of(g)' = Of(g) \union {i} /\ i \notin Of(g)
      /\ \A h \in Groups : h # g => Of(h)' = Of(h)
  <2>1. Taken' = Taken \union {i} /\ i \notin Taken
    BY <1>1, <1>2 DEF Taken
  <2>2. /\ Of(g)' = Of(g) \union {i} /\ i \notin Of(g)
        /\ \A h \in Groups : h # g => Of(h)' = Of(h)
    BY <1>1, <1>2 DEF Of
  <2> QED
    BY <2>1, <2>2
<1>6. /\ Cardinality(Taken') = Cardinality(Taken) + 1
      /\ Cardinality(Of(g)') = Cardinality(Of(g)) + 1 /\ Cardinality(Of(g)) \in Nat
  BY <1>5, TasksFinite, CountOne
<1>7. /\ current_tasks_in_array \in [Groups -> Nat]
      /\ current_tasks_in_array[g] = Cardinality(Of(g))
      /\ \A h \in Groups : current_tasks_in_array[h] = Cardinality(Of(h))
  BY DEF TaskInv
<1>8. /\ current_tasks_in_array' \in [Groups -> Nat]
      /\ \A h \in Groups : current_tasks_in_array'[h] = Cardinality(Of(h)')
  <2>1. current_tasks_in_array' \in [Groups -> Nat]
    BY <1>1, <1>7
  <2>2. current_tasks_in_array'[g] = Cardinality(Of(g)')
    BY <1>1, <1>6, <1>7
  <2>3. ASSUME NEW h \in Groups, h # g
        PROVE  current_tasks_in_array'[h] = Cardinality(Of(h)')
    BY <1>1, <1>5, <1>7, <2>3
  <2> QED
    BY <2>1, <2>2, <2>3
<1>9. /\ tasks_in_array_count' = Cardinality(Taken') /\ working_count' = Cardinality(Working')
      /\ current_working_tasks' \in [Groups -> Nat]
      /\ \A h \in Groups : current_working_tasks'[h] = Cardinality(On(h)')
  BY <1>1, <1>4, <1>6 DEF TaskInv
<1> QED
  BY <1>3, <1>8, <1>9 DEF TaskInv

\* Every step keeps the books of the tasks.
LEMMA TaskStep ==
  ASSUME IdleInv, TaskInv, CallInv, [Next]_vars
  PROVE  TaskInv'
<1>1. ASSUME NEW t \in Threads, WaitForWork(t)
      PROVE  TaskInv'
  <2>1. \A x \in Threads : tpc'[x] = "working" <=> tpc[x] = "working"
    BY <1>1 DEF WaitForWork, AtLoop, IdleInv
  <2> QED
    BY <1>1, <2>1, TaskUnchanged DEF WaitForWork
<1>2. ASSUME NEW t \in Threads, ThreadExit(t)
      PROVE  TaskInv'
  <2> DEFINE pc == [tpc EXCEPT ![t] = "exited"]
  <2>1. /\ pc \in [Threads -> ThreadStates] /\ BlockedWorkers \in SUBSET Threads
        /\ \A x \in BlockedWorkers : pc[x] = "blocked"
        /\ \A x \in Threads : pc[x] = "working" <=> tpc[x] = "working"
    BY <1>2 DEF ThreadExit, AtLoop, IdleInv, BlockedWorkers, ThreadStates
  <2>2. tpc' \in Signalled(pc, BlockedWorkers)
    BY <1>2 DEF ThreadExit
  <2> HIDE DEF pc
  <2>3. \A x \in Threads : tpc'[x] = pc[x] \/ (pc[x] = "blocked" /\ tpc'[x] = "woken")
    BY <2>1, <2>2, SignalledThreads
  <2>4. \A x \in Threads : tpc'[x] = "working" <=> tpc[x] = "working"
    BY <2>1, <2>3
  <2> QED
    BY <1>2, <2>4, TaskUnchanged DEF ThreadExit
<1>3. ASSUME NEW c \in Callers, Push(c)
      PROVE  TaskInv'
  <2>1. CASE tasks_in_array_count >= MAX_TASK_COUNT
    BY <1>3, <2>1, TaskUnchanged DEF Push
  <2>2. CASE ~(tasks_in_array_count >= MAX_TASK_COUNT)
    <3> DEFINE B == IF available > 0 THEN BlockedWorkers ELSE {}
    <3>1. /\ tpc' \in Signalled(tpc, B) /\ B \in SUBSET BlockedWorkers
          /\ UNCHANGED <<job, working_count>>
      BY <1>3, <2>2 DEF Push
    <3> HIDE DEF B
    <3>2. \A x \in Threads : tpc'[x] = "working" <=> tpc[x] = "working"
      BY <3>1, SignalKeepsWorking
    <3>3. call[c].g \in Groups
      BY <1>3 DEF Push, CallInv, InCall, CallIsValid, Calls
    <3> QED
      BY <1>3, <2>2, <3>1, <3>2, <3>3, TaskPushed DEF Push
  <2> QED
    BY <2>1, <2>2
<1>4. ASSUME NEW g, NEW r, Donate(g, r), UNCHANGED <<tasks, job, counts, working_count>>
      PROVE  TaskInv'
  <2> DEFINE B == IF tasks_in_array_count > 0 /\ working_count < worker_limit + 1
                       /\ available > 0
                  THEN BlockedWorkers ELSE {}
  <2>1. tpc' \in Signalled(tpc, B) /\ B \in SUBSET BlockedWorkers
    BY <1>4 DEF Donate, WakeWorkerIfAllowed
  <2> HIDE DEF B
  <2> QED
    BY <1>4, <2>1, SignalKeepsWorking, TaskUnchanged
<1>5. ASSUME NEW c \in Callers, WaitAll(c) \/ WokenInWait(c)
      PROVE  TaskInv'
  <2>1. UNCHANGED <<tasks, job, counts, working_count>>
    BY <1>5 DEF WaitAll, WokenInWait
  <2>2. UNCHANGED tpc \/ \E g, r : Donate(g, r)
    BY <1>5 DEF WaitAll, WokenInWait
  <2> QED
    BY <1>4, <2>1, <2>2, TaskUnchanged
<1>6. ASSUME NEW c \in Callers, DestroyPool(c)
      PROVE  TaskInv'
  <2>1. tpc' \in Signalled(tpc, BlockedWorkers) /\ BlockedWorkers \in SUBSET BlockedWorkers
    BY <1>6 DEF DestroyPool
  <2> QED
    BY <1>6, <2>1, SignalKeepsWorking, TaskUnchanged DEF DestroyPool
<1>7. ASSUME NEW c \in Callers,
             JoinThreads(c) \/ StartPush(c) \/ StartWait(c) \/ DropGroup(c) \/ DropPool(c)
      PROVE  TaskInv'
  BY <1>7, TaskUnchanged DEF JoinThreads, StartPush, StartWait, DropGroup, DropPool
<1>8. ASSUME SpuriousWakeUp
      PROVE  TaskInv'
  <2>1. UNCHANGED <<tasks, job, counts, working_count>>
    BY <1>8 DEF SpuriousWakeUp
  <2>2. \A x \in Threads : tpc'[x] = "working" <=> tpc[x] = "working"
    BY <1>8 DEF SpuriousWakeUp, BlockedWorkers, IdleInv
  <2> QED
    BY <2>1, <2>2, TaskUnchanged
<1>9. ASSUME UNCHANGED vars
      PROVE  TaskInv'
  BY <1>9, TaskUnchanged DEF vars
<1> QED
  BY <1>1, <1>2, <1>3, <1>5, <1>6, <1>7, <1>8, <1>9, TaskStarts, TaskEnds
  DEF Next, ThreadStep, CallStep

-----------------------------------------------------------------------------
(* Calls.                                                                  *)

\* A step in which a caller goes on in its call, or is in none.
LEMMA CallKept ==
  ASSUME CallInv, UNCHANGED <<call, held, alive>>, pool_held' \in BOOLEAN,
         cpc' \in [Callers -> CallerStates], \A c \in Callers : InCall(c)' => InCall(c)
  PROVE  CallInv'
BY DEF CallInv, CallIsValid

\* A caller starts a call on a group.
LEMMA CallStarts ==
  ASSUME CallInv, NEW c \in Callers, NEW g \in held[c], cpc[c] = "idle",
         NEW s \in {"push", "wait"}, cpc' = [cpc EXCEPT ![c] = s],
         NEW op \in {"push", "wait", "destroy"},
         call' = [call EXCEPT ![c] = [op |-> op, g |-> g]],
         held' = [held EXCEPT ![c] = IF op = "destroy" THEN @ \ {g} ELSE @],
         UNCHANGED <<alive, pool_held>>
  PROVE  CallInv'
<1>1. g \in Groups /\ g \in Uses[c] \intersect alive
  BY DEF CallInv
<1>2. /\ cpc' \in [Callers -> CallerStates] /\ call' \in [Callers -> Calls \union {None}]
      /\ held' \in [Callers -> SUBSET Groups] /\ alive' \in SUBSET Groups
      /\ pool_held' \in BOOLEAN
  BY <1>1 DEF CallInv, CallerStates, Calls
<1>3. held'[c] \subseteq Uses[c] \intersect alive' /\ CallIsValid(c)'
  BY <1>1 DEF CallInv, CallIsValid, Calls
<1>4. ASSUME NEW d \in Callers, d # c
      PROVE  held'[d] \subseteq Uses[d] \intersect alive' /\ (InCall(d)' => CallIsValid(d)')
  BY <1>4 DEF CallInv, CallIsValid, InCall
<1> QED
  BY <1>2, <1>3, <1>4 DEF CallInv

\* A caller returns from wait_all: the group it destroys is nobody else's.
LEMMA CallReturns ==
  ASSUME OneCallerEach, CallInv, NEW c \in Callers, InCall(c), ReturnFromWait(c)
  PROVE  /\ CallInv'
         /\ \A d \in Callers : d # c => cpc'[d] = cpc[d] /\ call'[d] = call[d]
         /\ cpc'[c] \notin {"blocked", "woken"}
         /\ alive' = alive \/ alive' = alive \ {call[c].g}
<1>1. call[c] \in Calls /\ call[c].g \in Uses[c] \intersect alive
  BY DEF CallInv, CallIsValid
<1>2. CASE /\ call[c].op = "push"
           /\ cpc' = [cpc EXCEPT ![c] = "push"]
           /\ UNCHANGED <<call, refs>>
  <2>1. cpc' \in [Callers -> CallerStates] /\ \A d \in Callers : InCall(d)' => InCall(d)
    BY <1>2 DEF CallInv, CallerStates, InCall
  <2>2. pool_held' \in BOOLEAN
    BY <1>2 DEF CallInv
  <2> QED
    BY <1>2, <2>1, <2>2, CallKept DEF CallInv
<1>3. ASSUME NEW s \in {"idle", "destroy_pool"}, cpc' = [cpc EXCEPT ![c] = s],
             call' = [call EXCEPT ![c] = None], UNCHANGED <<held, pool_held>>,
             \/ alive' = alive
             \/ alive' = alive \ {call[c].g} /\ call[c].op = "destroy"
      PROVE  CallInv'
  <2>1. /\ cpc' \in [Callers -> CallerStates] /\ call' \in [Callers -> Calls \union {None}]
        /\ held' \in [Callers -> SUBSET Groups] /\ alive' \in SUBSET Groups
        /\ pool_held' \in BOOLEAN
    BY <1>3 DEF CallInv, CallerStates
  <2>2. held'[c] \subseteq Uses[c] \intersect alive' /\ ~InCall(c)'
    BY <1>3 DEF CallInv, CallIsValid, InCall
  <2>3. ASSUME NEW d \in Callers, d # c
        PROVE  held'[d] \subseteq Uses[d] \intersect alive' /\ (InCall(d)' => CallIsValid(d)')
    <3>1. \A g \in Uses[d] \intersect alive : g \in alive'
      BY <1>1, <1>3, <2>3 DEF OneCallerEach
    <3>2. cpc'[d] = cpc[d] /\ call'[d] = call[d] /\ held'[d] = held[d]
      BY <1>3, <2>3 DEF CallInv
    <3> QED
      BY <3>1, <3>2 DEF CallInv, CallIsValid, InCall
  <2> QED
    BY <2>1, <2>2, <2>3 DEF CallInv
<1>4. CASE /\ call[c].op = "wait"
           /\ cpc' = [cpc EXCEPT ![c] = "idle"]
           /\ call' = [call EXCEPT ![c] = None]
           /\ UNCHANGED refs
  BY <1>3, <1>4 DEF CallInv
<1>5. CASE /\ call[c].op = "destroy"
           /\ alive' = alive \ {call[c].g}
           /\ cpc' = [cpc EXCEPT ![c] =
                        IF alive' = {} /\ ~pool_held THEN "destroy_pool" ELSE "idle"]
           /\ call' = [call EXCEPT ![c] = None]
           /\ UNCHANGED <<held, pool_held>>
  <2>1. PICK s \in {"idle", "destroy_pool"} : cpc' = [cpc EXCEPT ![c] = s]
    BY <1>5
  <2> QED
    BY <1>3, <1>5, <2>1 DEF CallInv
<1> QED
  BY <1>2, <1>4, <1>5 DEF ReturnFromWait

\* Callers that wait may be woken, and stay in the wait until they have the mutex.
LEMMA WakeWaiter ==
  ASSUME CallInv, NEW g, WakeWaiterIfAllowed(g)
  PROVE  /\ cpc' \in [Callers -> CallerStates]
         /\ \A c \in Callers : cpc'[c] = cpc[c] \/ (cpc[c] = "blocked" /\ cpc'[c] = "woken")
<1> DEFINE B == IF current_tasks_in_array[g] = 0 /\ current_working_tasks'[g] = 0
                     /\ waiting[g] > 0
                THEN BlockedIn(g) ELSE {}
<1>1. /\ cpc' \in Signalled(cpc, B) /\ B \in SUBSET Callers
      /\ \A x \in B : cpc[x] = "blocked"
  BY DEF WakeWaiterIfAllowed, BlockedIn
<1> HIDE DEF B
<1> QED
  BY <1>1, SignalledCallers DEF CallInv

\* Every step keeps calls valid, if no two callers use one group.
LEMMA CallerStep ==
  ASSUME OneCallerEach, CallInv, [Next]_vars
  PROVE  CallInv'
<1>1. ASSUME NEW t \in Threads, ThreadStep(t)
      PROVE  CallInv'
  <2>1. UNCHANGED <<call, held, alive, pool_held>>
    BY <1>1 DEF ThreadStep, WaitForWork, StartWork, FinishWork, ThreadExit
  <2>2. CASE FinishWork(t)
    <3>1. /\ cpc' \in [Callers -> CallerStates]
          /\ \A c \in Callers : cpc'[c] = cpc[c] \/ (cpc[c] = "blocked" /\ cpc'[c] = "woken")
      BY <2>2, WakeWaiter DEF FinishWork
    <3>2. \A c \in Callers : InCall(c)' => InCall(c)
      BY <3>1 DEF InCall
    <3>3. pool_held' \in BOOLEAN
      BY <2>1 DEF CallInv
    <3> QED
      BY <2>1, <3>1, <3>2, <3>3, CallKept
  <2>3. CASE WaitForWork(t) \/ StartWork(t) \/ ThreadExit(t)
    <3>1. cpc' = cpc
      BY <2>3 DEF WaitForWork, StartWork, ThreadExit
    <3> QED
      BY <2>1, <3>1 DEF CallInv, CallIsValid, InCall
  <2> QED
    BY <1>1, <2>2, <2>3 DEF ThreadStep
<1>2. ASSUME NEW c \in Callers, StartPush(c) \/ StartWait(c)
      PROVE  CallInv'
  <2>1. PICK g \in held[c], op \in {"push", "wait"} :
          /\ call' = [call EXCEPT ![c] = [op |-> op, g |-> g]]
          /\ cpc' = [cpc EXCEPT ![c] = op]
    BY <1>2 DEF StartPush, StartWait
  <2>2. cpc[c] = "idle" /\ UNCHANGED refs
    BY <1>2 DEF StartPush, StartWait
  <2>3. held' = [held EXCEPT ![c] = IF op = "destroy" THEN @ \ {g} ELSE @]
    BY <2>2 DEF CallInv
  <2> QED
    BY <2>1, <2>2, <2>3, CallStarts
<1>3. ASSUME NEW c \in Callers, DropGroup(c)
      PROVE  CallInv'
  <2>1. cpc[c] = "idle" /\ UNCHANGED <<alive, pool_held>>
    BY <1>3 DEF DropGroup
  <2>2. PICK g \in held[c] :
          /\ held' = [held EXCEPT ![c] = @ \ {g}]
          /\ \/ UNCHANGED <<cpc, call>>
             \/ /\ cpc' = [cpc EXCEPT ![c] = "wait"]
                /\ call' = [call EXCEPT ![c] = [op |-> "destroy", g |-> g]]
    BY <1>3 DEF DropGroup
  <2>3. CASE UNCHANGED <<cpc, call>>
    <3>1. /\ held' \in [Callers -> SUBSET Groups]
          /\ \A d \in Callers : held'[d] \subseteq held[d]
      BY <2>2 DEF CallInv
    <3>2. \A d \in Callers : InCall(d)' => InCall(d)
      BY <2>3 DEF InCall
    <3> QED
      BY <2>1, <2>3, <3>1, <3>2 DEF CallInv, CallIsValid
  <2>4. CASE /\ cpc' = [cpc EXCEPT ![c] = "wait"]
             /\ call' = [call EXCEPT ![c] = [op |-> "destroy", g |-> g]]
    BY <2>1, <2>2, <2>4, CallStarts
  <2> QED
    BY <2>2, <2>3, <2>4
<1>4. ASSUME NEW c \in Callers, UNCHANGED <<call, refs>>, NEW s \in CallerStates,
             cpc' = [cpc EXCEPT ![c] = s],
             InCall(c) \/ s \notin {"push", "wait", "blocked", "woken"}
      PROVE  CallInv'
  <2>1. cpc' \in [Callers -> CallerStates] /\ \A d \in Callers : InCall(d)' => InCall(d)
    BY <1>4 DEF CallInv, InCall
  <2>2. pool_held' \in BOOLEAN
    BY <1>4 DEF CallInv
  <2> QED
    BY <1>4, <2>1, <2>2, CallKept
<1>5. ASSUME NEW c \in Callers, Push(c)
      PROVE  CallInv'
  <2>1. InCall(c) /\ UNCHANGED refs
    BY <1>5 DEF Push, InCall
  <2>2. CASE tasks_in_array_count >= MAX_TASK_COUNT
    <3>1. cpc' = [cpc EXCEPT ![c] = "wait"] /\ UNCHANGED call
      BY <1>5, <2>2 DEF Push
    <3> QED
      BY <1>4, <2>1, <3>1 DEF CallerStates
  <2>3. CASE ~(tasks_in_array_count >= MAX_TASK_COUNT)
    <3>1. cpc' = [cpc EXCEPT ![c] = "idle"] /\ call' = [call EXCEPT ![c] = None]
      BY <1>5, <2>3 DEF Push
    <3>2. /\ cpc' \in [Callers -> CallerStates] /\ call' \in [Callers -> Calls \union {None}]
      BY <3>1 DEF CallInv, CallerStates
    <3>3. \A d \in Callers : InCall(d)' => InCall(d) /\ call'[d] = call[d]
      BY <3>1 DEF CallInv, InCall
    <3> QED
      BY <2>1, <3>2, <3>3 DEF CallInv, CallIsValid
  <2> QED
    BY <2>2, <2>3
<1>6. ASSUME NEW c \in Callers, WaitAll(c) \/ WokenInWait(c)
      PROVE  CallInv'
  <2>1. InCall(c)
    BY <1>6 DEF WaitAll, WokenInWait, InCall
  <2>2. ReturnFromWait(c) \/ (cpc' = [cpc EXCEPT ![c] = "blocked"] /\ UNCHANGED <<call, refs>>)
    BY <1>6 DEF WaitAll, WokenInWait, Block
  <2> QED
    BY <1>4, <2>1, <2>2, CallReturns DEF CallerStates
<1>7. ASSUME NEW c \in Callers, DestroyPool(c) \/ JoinThreads(c)
      PROVE  CallInv'
  <2>1. PICK s \in {"joining", "done"} : cpc' = [cpc EXCEPT ![c] = s]
    BY <1>7 DEF DestroyPool, JoinThreads
  <2>2. UNCHANGED <<call, refs>>
    BY <1>7 DEF DestroyPool, JoinThreads
  <2> QED
    BY <1>4, <2>1, <2>2 DEF CallerStates
<1>8. ASSUME NEW c \in Callers, DropPool(c)
      PROVE  CallInv'
  <2>1. PICK s \in {"destroy_pool", "idle"} : cpc' = [cpc EXCEPT ![c] = s]
    BY <1>8 DEF DropPool
  <2>2. UNCHANGED <<call, held, alive>> /\ pool_held' = FALSE
    BY <1>8 DEF DropPool
  <2>3. cpc' \in [Callers -> CallerStates] /\ \A d \in Callers : InCall(d)' => InCall(d)
    BY <2>1 DEF CallInv, InCall, CallerStates
  <2> QED
    BY <2>2, <2>3, CallKept
<1>9. ASSUME SpuriousWakeUp
      PROVE  CallInv'
  <2>1. UNCHANGED <<call, refs>>
    BY <1>9 DEF SpuriousWakeUp
  <2>2. CASE UNCHANGED cpc
    BY <2>1, <2>2 DEF CallInv, CallIsValid, InCall
  <2>3. ASSUME NEW c \in Callers, cpc[c] = "blocked", cpc' = [cpc EXCEPT ![c] = "woken"]
        PROVE  CallInv'
    BY <1>4, <2>1, <2>3 DEF InCall, CallerStates
  <2> QED
    BY <1>9, <2>2, <2>3 DEF SpuriousWakeUp
<1>10. ASSUME UNCHANGED vars
       PROVE  CallInv'
  BY <1>10 DEF vars, CallInv, CallIsValid, InCall
<1> QED
  BY <1>1, <1>2, <1>3, <1>5, <1>6, <1>7, <1>8, <1>9, <1>10 DEF Next, CallStep

-----------------------------------------------------------------------------
(* Waiters and the worker limit.                                           *)

\* The sets of waiters and of releases are finite, and a group has one waiter at most.
LEMMA WaitersFinite ==
  ASSUME OneCallerEach, CallInv
  PROVE  /\ IsFiniteSet(AllWaiters) /\ Cardinality(AllWaiters) \in Nat
         /\ IsFiniteSet(Releases) /\ Cardinality(Releases) \in Nat
         /\ \A g \in Groups : IsFiniteSet(Waiters(g)) /\ Cardinality(Waiters(g)) \in Nat
         /\ \A c \in AllWaiters : call[c] \in Calls /\ call[c].g \in Uses[c]
         /\ \A g \in Groups : \A c, d \in Waiters(g) : c = d
<1>1. AllWaiters \in SUBSET Callers /\ \A g \in Groups : Waiters(g) \in SUBSET Callers
  BY DEF AllWaiters, Waiters
<1>2. IsFiniteSet(Groups \X (1..Cardinality(Callers)))
  <2>1. IsFiniteSet(1..Cardinality(Callers))
    BY PartsFinite, FS_Interval
  <2> QED
    BY <2>1, FS_Product, ConstantsAssumption
<1>3. IsFiniteSet(Releases)
  <2>1. Releases \subseteq Groups \X (1..Cardinality(Callers))
    BY DEF Releases
  <2> QED
    BY <1>2, <2>1, FS_Subset
<1>4. \A c \in AllWaiters : call[c] \in Calls /\ call[c].g \in Uses[c]
  BY DEF AllWaiters, CallInv, InCall, CallIsValid
<1>5. \A g \in Groups : \A c, d \in Waiters(g) : c = d
  BY <1>4 DEF AllWaiters, Waiters, OneCallerEach
<1> QED
  BY <1>1, <1>3, <1>4, <1>5, PartsFinite, FS_CardinalityType

\* A step that no caller waits or returns in, and that releases nobody.
LEMMA WaitUnchanged ==
  ASSUME WaitInv, UNCHANGED <<waiting, released_count, worker_limit>>,
         \A c \in Callers : /\ cpc'[c] \in {"blocked", "woken"} <=> cpc[c] \in {"blocked", "woken"}
                            /\ cpc[c] \in {"blocked", "woken"} => call'[c] = call[c],
         \A g \in Groups : HasTasks(g)' => HasTasks(g) \/ (released_count[g] = 0 /\ g \in alive'),
         \A g \in Groups : g \in alive => g \in alive' \/ ~HasTasks(g)'
  PROVE  WaitInv'
<1>1. AllWaiters' = AllWaiters /\ \A g \in Groups : Waiters(g)' = Waiters(g)
  BY DEF AllWaiters, Waiters
<1>2. Releases' = Releases
  BY DEF Releases
<1>3. ASSUME NEW g \in Groups
      PROVE  /\ waiting'[g] = Cardinality(Waiters(g)')
             /\ released_count'[g] = 1 => ~HasTasks(g)' /\ Waiters(g)' # {}
             /\ g \notin alive' => ~HasTasks(g)'
  BY <1>1 DEF WaitInv
<1> QED
  BY <1>1, <1>2, <1>3 DEF WaitInv

\* Without a change of tasks and callers.
LEMMA WaitStays ==
  ASSUME WaitInv, UNCHANGED <<waiting, released_count, worker_limit, alive, cpc, call,
                              current_tasks_in_array, current_working_tasks>>
  PROVE  WaitInv'
<1>1. \A g \in Groups : HasTasks(g)' => HasTasks(g)
  BY DEF HasTasks
<1> QED
  BY <1>1, WaitUnchanged

\* A worker is done with the last task of a group: its waiter is released.
LEMMA WaitReleases ==
  ASSUME OneCallerEach, IdleInv, TaskInv, CallInv, WaitInv, NEW t \in Threads, FinishWork(t)
  PROVE  WaitInv'
<1>1. PICK g \in Groups : g = job[t]
  BY TaskEnds
<1>2. /\ current_working_tasks[g] > 0 /\ current_tasks_in_array' = current_tasks_in_array
      /\ current_working_tasks' = [current_working_tasks EXCEPT ![g] = @ - 1]
      /\ WakeWaiterIfAllowed(g) /\ UNCHANGED <<waiting, call, alive>>
  BY <1>1, TaskEnds DEF FinishWork
<1>3. /\ current_working_tasks \in [Groups -> Nat] /\ current_tasks_in_array \in [Groups -> Nat]
      /\ HasTasks(g) /\ released_count[g] = 0 /\ g \in alive
      /\ released_count \in [Groups -> 0..1]
  BY <1>2 DEF TaskInv, WaitInv, HasTasks
<1>4. \A h \in Groups : HasTasks(h)' => HasTasks(h)
  BY <1>2, <1>3 DEF HasTasks
<1>5. \A c \in Callers : cpc'[c] = cpc[c] \/ (cpc[c] = "blocked" /\ cpc'[c] = "woken")
  BY <1>2, WakeWaiter
<1>6. AllWaiters' = AllWaiters /\ \A h \in Groups : Waiters(h)' = Waiters(h)
  BY <1>2, <1>5 DEF AllWaiters, Waiters
<1> DEFINE wake == current_tasks_in_array[g] = 0 /\ current_working_tasks'[g] = 0 /\ waiting[g] > 0
<1>7. CASE ~wake
  <2>1. worker_limit' = worker_limit
    BY <1>2, <1>7 DEF WakeWaiterIfAllowed
  <2>2. released_count' = released_count
    <3>1. released_count' = [released_count EXCEPT ![g] = @]
      BY <1>2, <1>7 DEF WakeWaiterIfAllowed
    <3> QED
      BY <1>3, <3>1
  <2> QED
    BY <1>2, <1>4, <1>5, <2>1, <2>2, WaitUnchanged
<1>8. CASE wake
  <2>1. /\ worker_limit' = worker_limit - 1
        /\ released_count' = [released_count EXCEPT ![g] = @ + 1]
    BY <1>2, <1>8 DEF WakeWaiterIfAllowed
  <2>2. ~HasTasks(g)'
    BY <1>2, <1>8 DEF HasTasks
  <2>3. PICK w \in Callers : w \in Waiters(g)
    <3>1. waiting[g] = Cardinality(Waiters(g))
      BY DEF WaitInv
    <3>2. Cardinality({}) = 0
      BY FS_EmptySet
    <3>3. Waiters(g) # {}
      BY <1>8, <3>1, <3>2
    <3> QED
      BY <3>3 DEF Waiters
  <2>4. released_count' \in [Groups -> 0..1] /\ released_count'[g] = 1
    BY <1>3, <2>1
  <2>5. ASSUME NEW h \in Groups
        PROVE  /\ waiting'[h] = Cardinality(Waiters(h)')
               /\ released_count'[h] = 1 => ~HasTasks(h)' /\ Waiters(h)' # {}
               /\ h \notin alive' => ~HasTasks(h)'
    <3>1. CASE h = g
      BY <1>2, <1>6, <2>2, <2>3, <3>1 DEF WaitInv
    <3>2. CASE h # g
      BY <1>2, <1>3, <1>4, <1>6, <2>1, <3>2 DEF WaitInv
    <3> QED
      BY <3>1, <3>2
  <2>6. Releases' = Releases \union {<<g, 1>>} /\ <<g, 1>> \notin Releases
    <3>1. Cardinality(Callers) \in Nat /\ Cardinality(Callers) # 0
      BY PartsFinite, FS_EmptySet, ConstantsAssumption
    <3>2. 1 \in 1..Cardinality(Callers)
      BY <3>1
    <3>3. <<g, 1>> \notin Releases
      BY <1>3 DEF Releases
    <3>4. ASSUME NEW h \in Groups, NEW k \in 1..Cardinality(Callers)
          PROVE  k <= released_count'[h] <=> (k <= released_count[h] \/ (h = g /\ k = 1))
      BY <1>3, <2>1, <3>1, <3>4
    <3> QED
      BY <3>2, <3>3, <3>4 DEF Releases
  <2>7. worker_limit' + Cardinality(Releases') = starting_worker_count + Cardinality(AllWaiters')
    <3>1. Cardinality(Releases') = Cardinality(Releases) + 1 /\ Cardinality(Releases) \in Nat
      BY <2>6, WaitersFinite, CountOne
    <3> QED
      BY <1>6, <2>1, <3>1 DEF WaitInv
  <2> QED
    BY <1>2, <2>1, <2>4, <2>5, <2>7 DEF WaitInv
<1> QED
  BY <1>7, <1>8

\* A caller enters the wait and donates its place.
LEMMA WaitBegins ==
  ASSUME OneCallerEach, CallInv, WaitInv, NEW c \in Callers, WaitAll(c),
         HasTasks(call[c].g)
  PROVE  WaitInv'
<1>1. PICK g \in Groups : g = call[c].g
  BY DEF WaitAll, CallInv, InCall, CallIsValid, Calls
<1>2. /\ cpc[c] = "wait" /\ Donate(g, released_count[g] + 1) /\ Block(c, g, waiting[g])
      /\ UNCHANGED <<current_tasks_in_array, current_working_tasks>>
  BY <1>1 DEF WaitAll
<1>3. /\ released_count' = [released_count EXCEPT ![g] = (released_count[g] + 1) - 1]
      /\ worker_limit' = worker_limit + 1
      /\ waiting' = [waiting EXCEPT ![g] = waiting[g] + 1]
      /\ cpc' = [cpc EXCEPT ![c] = "blocked"]
      /\ UNCHANGED <<call, alive>>
  <2>1. /\ released_count' = [released_count EXCEPT ![g] = (released_count[g] + 1) - 1]
        /\ worker_limit' = worker_limit + 1
    BY <1>2 DEF Donate
  <2>2. /\ waiting' = [waiting EXCEPT ![g] = waiting[g] + 1]
        /\ cpc' = [cpc EXCEPT ![c] = "blocked"]
        /\ UNCHANGED <<call, alive>>
    BY <1>2 DEF Block
  <2> QED
    BY <2>1, <2>2
<1>4. /\ waiting \in [Groups -> Nat] /\ released_count \in [Groups -> 0..1]
      /\ cpc \in [Callers -> CallerStates] /\ worker_limit \in Int
  BY DEF WaitInv, CallInv
<1>5. released_count' = released_count
  <2>1. (released_count[g] + 1) - 1 = released_count[g]
    BY <1>4
  <2> QED
    BY <1>3, <1>4, <2>1
<1>6. \A h \in Groups : HasTasks(h)' <=> HasTasks(h)
  BY <1>2 DEF HasTasks
<1>7. /\ AllWaiters' = AllWaiters \union {c} /\ c \notin AllWaiters
      /\ Waiters(g)' = Waiters(g) \union {c} /\ c \notin Waiters(g)
      /\ \A h \in Groups : h # g => Waiters(h)' = Waiters(h)
  <2>1. AllWaiters' = AllWaiters \union {c} /\ c \notin AllWaiters
    BY <1>2, <1>3, <1>4 DEF AllWaiters
  <2>2. /\ Waiters(g)' = Waiters(g) \union {c} /\ c \notin Waiters(g)
        /\ \A h \in Groups : h # g => Waiters(h)' = Waiters(h)
    BY <1>1, <1>2, <1>3, <1>4 DEF Waiters
  <2> QED
    BY <2>1, <2>2
<1>8. /\ Cardinality(AllWaiters') = Cardinality(AllWaiters) + 1
      /\ Cardinality(Waiters(g)') = Cardinality(Waiters(g)) + 1
      /\ Cardinality(AllWaiters) \in Nat /\ Cardinality(Releases) \in Nat
  BY <1>7, WaitersFinite, CountOne
<1>9. ASSUME NEW h \in Groups
      PROVE  /\ waiting'[h] = Cardinality(Waiters(h)')
             /\ released_count'[h] = 1 => ~HasTasks(h)' /\ Waiters(h)' # {}
             /\ h \notin alive' => ~HasTasks(h)'
  <2>1. waiting'[h] = Cardinality(Waiters(h)')
    <3>1. waiting[h] = Cardinality(Waiters(h))
      BY DEF WaitInv
    <3>2. CASE h = g
      BY <1>3, <1>4, <1>8, <3>1, <3>2
    <3>3. CASE h # g
      BY <1>3, <1>4, <1>7, <3>1, <3>3
    <3> QED
      BY <3>2, <3>3
  <2>2. released_count'[h] = 1 => ~HasTasks(h)' /\ Waiters(h)' # {}
    BY <1>5, <1>6, <1>7 DEF WaitInv
  <2>3. h \notin alive' => ~HasTasks(h)'
    BY <1>3, <1>6 DEF WaitInv
  <2> QED
    BY <2>1, <2>2, <2>3
<1>10. waiting' \in [Groups -> Nat] /\ released_count' \in [Groups -> 0..1] /\ worker_limit' \in Int
  BY <1>3, <1>4, <1>5
<1>11. worker_limit' + Cardinality(Releases') = starting_worker_count + Cardinality(AllWaiters')
  <2>1. Releases' = Releases
    BY <1>5 DEF Releases
  <2>2. starting_worker_count \in Int
    BY ConstantsAssumption, PartsFinite
  <2> QED
    BY <1>3, <1>4, <1>8, <2>1, <2>2 DEF WaitInv
<1> QED
  BY <1>9, <1>10, <1>11 DEF WaitInv

\* A released caller leaves the wait.
LEMMA WaitEnds ==
  ASSUME OneCallerEach, CallInv, WaitInv, NEW c \in Callers, NEW g \in Groups, g = call[c].g,
         cpc[c] = "woken", ~HasTasks(g), released_count[g] > 0,
         released_count' = [released_count EXCEPT ![g] = @ - 1],
         waiting' = [waiting EXCEPT ![g] = waiting[g] - 1],
         ReturnFromWait(c),
         UNCHANGED <<worker_limit, current_tasks_in_array, current_working_tasks>>
  PROVE  WaitInv'
<1>1. /\ waiting \in [Groups -> Nat] /\ released_count \in [Groups -> 0..1]
      /\ worker_limit \in Int /\ released_count[g] = 1
  BY DEF WaitInv
<1>2. \A h \in Groups : HasTasks(h)' <=> HasTasks(h)
  BY DEF HasTasks
<1>3. /\ \A d \in Callers : d # c => cpc'[d] = cpc[d] /\ call'[d] = call[d]
      /\ cpc'[c] \notin {"blocked", "woken"}
      /\ alive' = alive \/ alive' = alive \ {g}
  BY CallReturns DEF InCall
<1>4. /\ AllWaiters' = AllWaiters \ {c} /\ c \in AllWaiters
      /\ Waiters(g)' = Waiters(g) \ {c} /\ c \in Waiters(g)
      /\ \A h \in Groups : h # g => Waiters(h)' = Waiters(h)
  <2>1. AllWaiters' = AllWaiters \ {c} /\ c \in AllWaiters
    BY <1>3 DEF AllWaiters
  <2>2. /\ Waiters(g)' = Waiters(g) \ {c} /\ c \in Waiters(g)
        /\ \A h \in Groups : h # g => Waiters(h)' = Waiters(h)
    BY <1>3 DEF Waiters
  <2> QED
    BY <2>1, <2>2
<1>5. Releases' = Releases \ {<<g, 1>>} /\ <<g, 1>> \in Releases
  <2>1. Cardinality(Callers) \in Nat /\ Cardinality(Callers) # 0
    BY PartsFinite, FS_EmptySet, ConstantsAssumption
  <2>2. 1 \in 1..Cardinality(Callers)
    BY <2>1
  <2>3. ASSUME NEW h \in Groups, NEW k \in 1..Cardinality(Callers)
        PROVE  k <= released_count'[h] <=> (k <= released_count[h] /\ ~(h = g /\ k = 1))
    BY <1>1, <2>1, <2>3
  <2> QED
    BY <1>1, <2>2, <2>3 DEF Releases
<1>6. /\ Cardinality(AllWaiters') = Cardinality(AllWaiters) - 1
      /\ Cardinality(Waiters(g)') = Cardinality(Waiters(g)) - 1 /\ Cardinality(Waiters(g)) > 0
      /\ Cardinality(Releases') = Cardinality(Releases) - 1
      /\ Cardinality(AllWaiters) \in Nat /\ Cardinality(Releases) \in Nat
  BY ZenonT(60), <1>4, <1>5, WaitersFinite, CountOne
<1>7. ASSUME NEW h \in Groups
      PROVE  /\ waiting'[h] = Cardinality(Waiters(h)')
             /\ released_count'[h] = 1 => ~HasTasks(h)' /\ Waiters(h)' # {}
             /\ h \notin alive' => ~HasTasks(h)'
  <2>1. /\ waiting[h] = Cardinality(Waiters(h))
        /\ released_count[h] = 1 => ~HasTasks(h) /\ Waiters(h) # {}
        /\ h \notin alive => ~HasTasks(h)
    BY DEF WaitInv
  <2>2. CASE h = g
    BY <1>1, <1>2, <1>6, <2>1, <2>2
  <2>3. CASE h # g
    BY <1>1, <1>2, <1>3, <1>4, <2>1, <2>3
  <2> QED
    BY <2>2, <2>3
<1>8. waiting' \in [Groups -> Nat] /\ released_count' \in [Groups -> 0..1] /\ worker_limit' \in Int
  <2>1. waiting[g] = Cardinality(Waiters(g))
    BY DEF WaitInv
  <2> QED
    BY <1>1, <1>6, <2>1
<1>9. worker_limit' + Cardinality(Releases') = starting_worker_count + Cardinality(AllWaiters')
  <2>1. starting_worker_count \in Int
    BY ConstantsAssumption, PartsFinite
  <2> QED
    BY <1>1, <1>6, <2>1 DEF WaitInv
<1> QED
  BY <1>7, <1>8, <1>9 DEF WaitInv

\* Every step keeps the books of the waiters, if no two callers use one group.
LEMMA WaitStep ==
  ASSUME OneCallerEach, IdleInv, TaskInv, CallInv, WaitInv, [Next]_vars
  PROVE  WaitInv'
<1>1. ASSUME NEW t \in Threads, WaitForWork(t) \/ ThreadExit(t)
      PROVE  WaitInv'
  BY <1>1, WaitStays DEF WaitForWork, ThreadExit
<1>2. ASSUME NEW t \in Threads, StartWork(t)
      PROVE  WaitInv'
  <2>1. UNCHANGED <<waiting, released_count, worker_limit, cpc, call, alive>>
    BY <1>2 DEF StartWork
  <2>2. PICK i \in DOMAIN tasks :
          /\ tasks[i] # None
          /\ current_tasks_in_array' = [current_tasks_in_array EXCEPT ![tasks[i]] = @ - 1]
          /\ current_working_tasks' = [current_working_tasks EXCEPT ![tasks[i]] = @ + 1]
    BY <1>2 DEF StartWork, PopTask
  <2>3. PICK g \in Groups : g = tasks[i]
    BY <2>2 DEF TaskInv
  <2>4. HasTasks(g)
    <3>1. i \in Of(g)
      BY <2>2, <2>3 DEF Of, TaskInv
    <3>2. Cardinality(Of(g)) > 0
      BY <3>1, TasksFinite, CountOne
    <3> QED
      BY <3>2 DEF HasTasks, TaskInv
  <2>5. \A h \in Groups : HasTasks(h)' => HasTasks(h)
    BY <2>2, <2>3, <2>4 DEF HasTasks, TaskInv
  <2> QED
    BY <2>1, <2>5, WaitUnchanged
<1>3. ASSUME NEW c \in Callers, Push(c)
      PROVE  WaitInv'
  <2>1. /\ UNCHANGED <<waiting, released_count, worker_limit, alive>> /\ cpc[c] = "push"
        /\ \E s \in {"wait", "idle"} : cpc' = [cpc EXCEPT ![c] = s]
        /\ call' = call \/ call' = [call EXCEPT ![c] = None]
    BY <1>3 DEF Push
  <2>2. \A d \in Callers :
          /\ cpc'[d] \in {"blocked", "woken"} <=> cpc[d] \in {"blocked", "woken"}
          /\ cpc[d] \in {"blocked", "woken"} => call'[d] = call[d]
    BY <2>1 DEF CallInv
  <2>3. PICK g \in Groups : g = call[c].g /\ g \in Uses[c] \intersect alive
    BY <2>1 DEF CallInv, InCall, CallIsValid, Calls
  <2>4. released_count[g] = 0
    <3>1. Waiters(g) = {}
      <4>1. SUFFICES ASSUME NEW d \in Waiters(g)
                     PROVE  FALSE
        OBVIOUS
      <4>2. d \in Callers /\ d # c /\ call[d].g = g /\ d \in AllWaiters
        BY <2>1, <4>1 DEF Waiters, AllWaiters
      <4>3. g \in Uses[d]
        BY <4>2, WaitersFinite
      <4> QED
        BY <2>3, <4>2, <4>3 DEF OneCallerEach
    <3>2. released_count[g] \in 0..1 /\ released_count[g] # 1
      BY <3>1 DEF WaitInv
    <3> QED
      BY <3>2
  <2>5. \A h \in Groups : HasTasks(h)' => HasTasks(h) \/ h = g
    BY <1>3, <2>3 DEF Push, PushTask, HasTasks, TaskInv
  <2> QED
    BY <2>1, <2>2, <2>3, <2>4, <2>5, WaitUnchanged
<1>4. ASSUME NEW c \in Callers, WaitAll(c)
      PROVE  WaitInv'
  <2>1. CASE HasTasks(call[c].g)
    BY <1>4, <2>1, WaitBegins
  <2>2. CASE ~HasTasks(call[c].g)
    <3>1. /\ cpc[c] = "wait" /\ ReturnFromWait(c) /\ UNCHANGED counts
          /\ UNCHANGED <<waiting, released_count, worker_limit>>
      BY <1>4, <2>2 DEF WaitAll
    <3>2. /\ \A d \in Callers : d # c => cpc'[d] = cpc[d] /\ call'[d] = call[d]
          /\ cpc'[c] \notin {"blocked", "woken"}
          /\ alive' = alive \/ alive' = alive \ {call[c].g}
      BY <3>1, CallReturns DEF InCall
    <3>3. \A h \in Groups : HasTasks(h)' <=> HasTasks(h)
      BY <3>1 DEF HasTasks
    <3>4. \A d \in Callers :
            /\ cpc'[d] \in {"blocked", "woken"} <=> cpc[d] \in {"blocked", "woken"}
            /\ cpc[d] \in {"blocked", "woken"} => call'[d] = call[d]
      BY <3>1, <3>2
    <3>5. \A h \in Groups : h \in alive => h \in alive' \/ ~HasTasks(h)'
      BY <2>2, <3>2, <3>3
    <3> QED
      BY <3>1, <3>3, <3>4, <3>5, WaitUnchanged
  <2> QED
    BY <2>1, <2>2
<1>5. ASSUME NEW c \in Callers, WokenInWait(c)
      PROVE  WaitInv'
  <2>1. PICK g \in Groups : g = call[c].g
    BY <1>5 DEF WokenInWait, CallInv, InCall, CallIsValid, Calls
  <2>2. cpc[c] = "woken" /\ UNCHANGED counts
    BY <1>5 DEF WokenInWait
  <2>3. CASE HasTasks(g) /\ released_count[g] > 0
    BY <2>3 DEF WaitInv
  <2>4. CASE /\ ~HasTasks(g) /\ released_count[g] > 0
             /\ released_count' = [released_count EXCEPT ![g] = @ - 1]
             /\ waiting' = [waiting EXCEPT ![g] = waiting[g] - 1]
             /\ ReturnFromWait(c)
             /\ UNCHANGED <<worker_limit, tpc>>
    BY <2>1, <2>2, <2>4, WaitEnds
  <2>5. CASE /\ Block(c, g, waiting[g] - 1)
             /\ UNCHANGED <<released_count, worker_limit, tpc>>
    <3>1. waiting[g] - 1 + 1 = waiting[g] /\ waiting \in [Groups -> Nat]
      BY DEF WaitInv
    <3>2. waiting' = [waiting EXCEPT ![g] = waiting[g] - 1 + 1]
      BY <2>5 DEF Block
    <3>3. waiting' = waiting
      BY <3>1, <3>2
    <3>4. \A d \in Callers :
            /\ cpc'[d] \in {"blocked", "woken"} <=> cpc[d] \in {"blocked", "woken"}
            /\ call'[d] = call[d]
      BY <2>2, <2>5 DEF Block, CallInv
    <3>5. alive' = alive /\ \A h \in Groups : HasTasks(h)' => HasTasks(h)
      BY <2>2, <2>5 DEF Block, HasTasks
    <3> QED
      BY <2>5, <3>3, <3>4, <3>5, WaitUnchanged
  <2> QED
    BY <1>5, <2>1, <2>3, <2>4, <2>5 DEF WokenInWait
<1>6. ASSUME NEW c \in Callers,
             DestroyPool(c) \/ JoinThreads(c) \/ StartPush(c) \/ StartWait(c) \/ DropGroup(c)
               \/ DropPool(c)
      PROVE  WaitInv'
  <2>1. UNCHANGED <<waiting, released_count, worker_limit, alive, counts>>
    BY <1>6 DEF DestroyPool, JoinThreads, StartPush, StartWait, DropGroup, DropPool
  <2>2. \A h \in Groups : HasTasks(h)' => HasTasks(h)
    BY <2>1 DEF HasTasks
  <2>3. /\ cpc[c] \notin {"blocked", "woken"}
        /\ cpc' = cpc \/ \E s \in CallerStates \ {"blocked", "woken"} : cpc' = [cpc EXCEPT ![c] = s]
        /\ call' = call \/ \E x : call' = [call EXCEPT ![c] = x]
    BY <1>6 DEF DestroyPool, JoinThreads, StartPush, StartWait, DropGroup, DropPool, CallerStates
  <2>4. \A d \in Callers :
          /\ cpc'[d] \in {"blocked", "woken"} <=> cpc[d] \in {"blocked", "woken"}
          /\ cpc[d] \in {"blocked", "woken"} => call'[d] = call[d]
    BY <2>3 DEF CallInv
  <2> QED
    BY <2>1, <2>2, <2>4, WaitUnchanged
<1>7. ASSUME SpuriousWakeUp
      PROVE  WaitInv'
  <2>1. UNCHANGED <<waiting, released_count, worker_limit, alive, counts, call>>
    BY <1>7 DEF SpuriousWakeUp
  <2>2. \A h \in Groups : HasTasks(h)' => HasTasks(h)
    BY <2>1 DEF HasTasks
  <2>3. \A d \in Callers : cpc'[d] \in {"blocked", "woken"} <=> cpc[d] \in {"blocked", "woken"}
    BY <1>7 DEF SpuriousWakeUp, CallInv
  <2> QED
    BY <2>1, <2>2, <2>3, WaitUnchanged
<1>8. ASSUME UNCHANGED vars
      PROVE  WaitInv'
  BY <1>8, WaitStays DEF vars
<1> QED
  BY <1>1, <1>2, <1>3, <1>4, <1>5, <1>6, <1>7, <1>8, WaitReleases
  DEF Next, ThreadStep, CallStep

\* Each release has a waiter of its own, so there are as many waiters left to release
\* as the worker limit has been raised by.
LEMMA ReleasesHaveWaiters ==
  ASSUME OneCallerEach, CallInv, WaitInv, NEW S \in SUBSET AllWaiters,
         \A c \in AllWaiters : released_count[call[c].g] = 1 => c \in S
  PROVE  Cardinality(Releases) <= Cardinality(S)
<1>1. IsFiniteSet(S)
  BY WaitersFinite, FS_Subset
<1> DEFINE D == {c \in AllWaiters : released_count[call[c].g] = 1}
<1>2. D \subseteq S
  OBVIOUS
<1>3. IsFiniteSet(D) /\ Cardinality(D) <= Cardinality(S)
  BY <1>1, <1>2, FS_Subset
<1> DEFINE f == [c \in D |-> <<call[c].g, 1>>]
<1>4. ASSUME NEW r \in Releases
      PROVE  \E c \in D : f[c] = r
  <2>1. PICK g \in Groups, k \in 1..Cardinality(Callers) : r = <<g, k>> /\ k <= released_count[g]
    BY DEF Releases
  <2>2. released_count[g] \in 0..1
    BY DEF WaitInv
  <2>3. k = 1 /\ released_count[g] = 1
    BY <2>1, <2>2, PartsFinite
  <2>4. PICK c \in Callers : c \in Waiters(g)
    BY <2>3 DEF WaitInv, Waiters
  <2>5. c \in D /\ call[c].g = g
    BY <2>3, <2>4 DEF Waiters, AllWaiters
  <2> QED
    BY <2>1, <2>3, <2>5
<1>5. f \in [D -> Releases]
  <2>1. SUFFICES ASSUME NEW c \in D
                 PROVE  <<call[c].g, 1>> \in Releases
    OBVIOUS
  <2>2. call[c].g \in Groups /\ released_count[call[c].g] = 1
    BY WaitersFinite DEF Calls
  <2>3. Cardinality(Callers) \in Nat /\ Cardinality(Callers) # 0
    BY PartsFinite, FS_EmptySet, ConstantsAssumption DEF AllWaiters
  <2>4. 1 \in 1..Cardinality(Callers) /\ 1 <= released_count[call[c].g]
    BY <2>2, <2>3
  <2> QED
    BY <2>2, <2>4 DEF Releases
<1>6. f \in Surjection(D, Releases)
  BY <1>4, <1>5 DEF Surjection
<1>7. Cardinality(Releases) <= Cardinality(D)
  BY <1>3, <1>6, FS_Surjection
<1>8. Cardinality(Releases) \in Nat /\ Cardinality(D) \in Nat /\ Cardinality(S) \in Nat
  BY <1>1, <1>3, WaitersFinite, FS_CardinalityType
<1> QED
  BY <1>3, <1>7, <1>8

\* The rest of the types is kept.
LEMMA RestStep ==
  ASSUME RestTypes, [Next]_vars
  PROVE  RestTypes'
<1>1. MaxTasks \in Nat
  BY ConstantsAssumption
<1>2. mutex' \in Threads \union {None}
  BY DEF RestTypes, Next, vars, ThreadStep, CallStep, WaitForWork, StartWork, FinishWork,
         ThreadExit, AtLoop, Push, WaitAll, WokenInWait, DestroyPool, JoinThreads, StartPush,
         StartWait, DropGroup, DropPool, SpuriousWakeUp
<1>3. running' = running \/ running' = FALSE
  BY DEF Next, vars, ThreadStep, CallStep, WaitForWork, StartWork, FinishWork, ThreadExit,
         Push, WaitAll, WokenInWait, DestroyPool, JoinThreads, StartPush, StartWait, DropGroup,
         DropPool, SpuriousWakeUp
<1>4. pushed' = pushed \/ (pushed < MaxTasks /\ pushed' = pushed + 1)
  BY DEF Next, vars, ThreadStep, CallStep, WaitForWork, StartWork, FinishWork, ThreadExit,
         Push, WaitAll, WokenInWait, DestroyPool, JoinThreads, StartPush, StartWait, DropGroup,
         DropPool, SpuriousWakeUp
<1>5. running' \in BOOLEAN
  BY <1>3 DEF RestTypes
<1>6. pushed' \in 0..MaxTasks
  BY <1>1, <1>4 DEF RestTypes
<1> QED
  BY <1>2, <1>5, <1>6 DEF RestTypes

\* What the four invariants say together.
LEMMA InvariantsImplyPool ==
  ASSUME OneCallerEach, IdleInv, TaskInv, CallInv, WaitInv, RestTypes
  PROVE  PoolIsSound
<1>1. starting_worker_count \in Nat
  BY ConstantsAssumption, PartsFinite
<1>2. /\ Cardinality(AllWaiters) \in Nat /\ Cardinality(Releases) \in Nat
      /\ IsFiniteSet(AllWaiters)
  BY WaitersFinite
<1>3. TypeOK
  <2>1. available \in 0..Cardinality(Threads) /\ working_count \in 0..Cardinality(Threads)
    <3>1. Idle \in SUBSET Threads /\ Working \in SUBSET Threads
      BY DEF Idle, Working
    <3> QED
      BY <3>1, PartsFinite DEF IdleInv, TaskInv
  <2>2. tasks_in_array_count \in 0..MAX_TASK_COUNT
    BY TasksFinite DEF TaskInv
  <2>3. worker_limit \in Nat
    <3>1. Cardinality(Releases) <= Cardinality(AllWaiters)
      BY ReleasesHaveWaiters
    <3> QED
      BY <1>1, <1>2, <3>1 DEF WaitInv
  <2>4. released_count \in [Groups -> 0..Cardinality(Callers)]
    <3>1. released_count \in [Groups -> 0..1]
      BY DEF WaitInv
    <3>2. ASSUME NEW g \in Groups
          PROVE  released_count[g] \in 0..Cardinality(Callers)
      <4>1. CASE released_count[g] = 1
        <5>1. Callers # {}
          BY <4>1 DEF WaitInv, Waiters
        <5>2. Cardinality(Callers) \in Nat /\ Cardinality(Callers) # 0
          BY <5>1, PartsFinite, FS_EmptySet, ConstantsAssumption
        <5> QED
          BY <4>1, <5>2
      <4>2. CASE released_count[g] # 1
        BY <3>1, <4>2, PartsFinite
      <4> QED
        BY <4>1, <4>2
    <3> QED
      BY <3>1, <3>2
  <2>5. /\ mutex \in Threads \union {None} /\ running \in BOOLEAN /\ pushed \in 0..MaxTasks
    BY DEF RestTypes
  <2>6. /\ tasks \in [1..MAX_TASK_COUNT -> Groups \union {None}]
        /\ current_tasks_in_array \in [Groups -> Nat]
        /\ current_working_tasks \in [Groups -> Nat]
        /\ job \in [Threads -> Groups \union {None}]
    BY DEF TaskInv
  <2>7. /\ cpc \in [Callers -> CallerStates] /\ call \in [Callers -> Calls \union {None}]
        /\ held \in [Callers -> SUBSET Groups] /\ alive \in SUBSET Groups
        /\ pool_held \in BOOLEAN
    BY DEF CallInv
  <2>8. waiting \in [Groups -> Nat] /\ tpc \in [Threads -> ThreadStates]
    BY DEF WaitInv, IdleInv
  <2> QED
    BY <2>1, <2>2, <2>3, <2>4, <2>5, <2>6, <2>7, <2>8 DEF TypeOK, CallerStates, Calls, ThreadStates
<1>4. CountsAgree
  <2>1. DOMAIN tasks = 1..MAX_TASK_COUNT
    BY DEF TaskInv
  <2> QED
    BY <2>1 DEF CountsAgree, TaskInv, WaitInv, Taken, Of, Working, On
<1>5. LimitCountsDonors
  <2>1. \A c \in AllWaiters : call[c].g \in Groups
    BY WaitersFinite DEF Calls
  <2>2. UNION {Waiters(g) : g \in Groups} = AllWaiters
    BY <2>1 DEF Waiters, AllWaiters
  <2> QED
    BY <2>2 DEF LimitCountsDonors, WaitInv
<1>6. ReleaseHasDonor
  <2>1. SUFFICES ASSUME NEW t \in Threads, tpc[t] = "working", current_working_tasks[job[t]] = 1,
                        waiting[job[t]] > 0
                 PROVE  worker_limit > starting_worker_count
    BY DEF ReleaseHasDonor
  <2>2. PICK g \in Groups : g = job[t]
    BY <2>1 DEF TaskInv
  <2>3. released_count[g] # 1
    BY <2>1, <2>2 DEF WaitInv, HasTasks
  <2>4. PICK w \in Callers : w \in Waiters(g)
    <3>1. waiting[g] = Cardinality(Waiters(g)) /\ Cardinality({}) = 0
      BY FS_EmptySet DEF WaitInv
    <3>2. Waiters(g) # {}
      BY <2>1, <2>2, <3>1
    <3> QED
      BY <3>2 DEF Waiters
  <2>5. w \in AllWaiters /\ call[w].g = g
    BY <2>4 DEF Waiters, AllWaiters
  <2>6. Cardinality(Releases) <= Cardinality(AllWaiters \ {w})
    <3>1. AllWaiters \ {w} \in SUBSET AllWaiters
      OBVIOUS
    <3>2. \A c \in AllWaiters : released_count[call[c].g] = 1 => c \in AllWaiters \ {w}
      BY <2>3, <2>5
    <3> QED
      BY <3>1, <3>2, ReleasesHaveWaiters
  <2>7. Cardinality(AllWaiters \ {w}) = Cardinality(AllWaiters) - 1
    BY <1>2, <2>5, CountOne
  <2> QED
    BY <1>1, <1>2, <2>6, <2>7 DEF WaitInv
<1> QED
  BY <1>3, <1>4, <1>5, <1>6 DEF PoolIsSound

\* The books of the pool: tasks, working threads, waiters and donated places are counted
\* right, and the assert of locked_group_wake_waiter_if_allowed holds, at every step of
\* every thread, if no two callers use one group, as nobody in the tree does.
THEOREM PoolHolds ==
  ASSUME OneCallerEach
  PROVE  Spec => []PoolIsSound
<1> DEFINE Inv == IdleInv /\ TaskInv /\ CallInv /\ WaitInv /\ RestTypes
<1>1. Init => Inv
  <2>1. SUFFICES ASSUME Init
                 PROVE  Inv
    OBVIOUS
  <2>2. Cardinality({}) = 0 /\ MAX_TASK_COUNT \in Nat /\ None \notin Groups /\ MaxTasks \in Nat
    BY FS_EmptySet, ConstantsAssumption
  <2>3. IdleInv
    <3>1. Idle = {} /\ tpc \in [Threads -> ThreadStates]
      BY <2>1 DEF Init, Idle, ThreadStates
    <3>2. NoStrandedTask
      BY <2>1 DEF Init, NoStrandedTask, AllowedToWork
    <3> QED
      BY <2>1, <2>2, <3>1, <3>2 DEF Init, IdleInv
  <2>4. TaskInv
    <3>1. Taken = {} /\ Working = {} /\ \A g \in Groups : Of(g) = {} /\ On(g) = {}
      BY <2>1, <2>2 DEF Init, Taken, Working, Of, On
    <3> QED
      BY <2>1, <2>2, <3>1 DEF Init, TaskInv
  <2>5. CallInv
    BY <2>1, ConstantsAssumption DEF Init, CallInv, CallerStates, InCall
  <2>6. WaitInv
    <3>1. AllWaiters = {} /\ \A g \in Groups : Waiters(g) = {}
      BY <2>1 DEF Init, AllWaiters, Waiters
    <3>2. Releases = {}
      <4>1. \A r \in Groups \X (1..Cardinality(Callers)) : r[2] \in 1..Cardinality(Callers)
                                                         /\ released_count[r[1]] = 0
        BY <2>1 DEF Init
      <4> QED
        BY <4>1, PartsFinite DEF Releases
    <3>3. \A g \in Groups : ~HasTasks(g)
      BY <2>1 DEF Init, HasTasks
    <3>4. starting_worker_count \in Int
      BY ConstantsAssumption, PartsFinite
    <3>5. worker_limit + Cardinality(Releases) = starting_worker_count + Cardinality(AllWaiters)
      BY <2>1, <2>2, <3>1, <3>2, <3>4 DEF Init
    <3>6. /\ waiting \in [Groups -> Nat] /\ released_count \in [Groups -> 0..1]
          /\ \A g \in Groups : waiting[g] = 0 /\ released_count[g] = 0
          /\ worker_limit \in Int
      BY <2>1, <3>4 DEF Init
    <3>7. \A g \in Groups : waiting[g] = Cardinality(Waiters(g)) /\ released_count[g] # 1
      BY <2>2, <3>1, <3>6
    <3> QED
      BY <3>3, <3>5, <3>6, <3>7 DEF WaitInv
  <2>7. RestTypes
    BY <2>1, <2>2 DEF Init, RestTypes
  <2> QED
    BY <2>3, <2>4, <2>5, <2>6, <2>7
<1>2. Inv /\ [Next]_vars => Inv'
  BY IdleStep, TaskStep, CallerStep, WaitStep, RestStep
<1>3. Inv => PoolIsSound
  BY InvariantsImplyPool
<1> HIDE DEF Inv
<1> QED
  BY <1>1, <1>2, <1>3, PTL DEF Spec

=============================================================================
