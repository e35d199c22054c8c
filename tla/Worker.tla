------------------------------- MODULE Worker -------------------------------
(***************************************************************************)
(* The worker pool: tasks of several groups in one array, a fixed set of   *)
(* worker threads of which only worker_limit may work at a time, and       *)
(* callers that wait for all tasks of a group and meanwhile donate their   *)
(* place: worker_limit goes up by one for each of them.                    *)
(*                                                                         *)
(* All state is guarded by the mutex of the pool, so what happens between  *)
(* taking it and giving it up (unlock, or a wait on a condition) is one    *)
(* step.  mutex is only needed where a worker keeps it from the end of a   *)
(* task to the next round of its loop.  Condition variables wake one       *)
(* blocked thread, any, per signal, and may wake one spuriously.           *)
(***************************************************************************)
EXTENDS Integers, FiniteSets

CONSTANTS
  Threads,               \* the worker threads of the pool
  Callers,               \* the threads that use it
  Groups,
  Uses,                  \* the groups each caller has a reference to
  MAX_TASK_COUNT,
  starting_worker_count,
  MaxTasks,              \* bound: how many tasks are pushed in all
  None

ASSUME ConstantsAssumption ==
  /\ IsFiniteSet(Threads) /\ IsFiniteSet(Callers) /\ IsFiniteSet(Groups)
  /\ Uses \in [Callers -> SUBSET Groups]
  /\ MAX_TASK_COUNT \in Nat \ {0}
  /\ starting_worker_count \in 0..Cardinality(Threads)
  /\ MaxTasks \in Nat
  /\ None \notin Threads \union Callers \union Groups

VARIABLES
  mutex,                   \* a worker that keeps the mutex between two steps
  tasks,                   \* the group of the task in each place, or None
  tasks_in_array_count,
  available,               \* available.count
  worker_limit,
  working_count,
  running,
  current_tasks_in_array,  \* these four per group
  current_working_tasks,
  released_count,
  waiting,                 \* waiting.count
  tpc,                     \* each worker thread: "loop", "blocked" or "woken"
                           \* in the wait for work, "working", "exited"
  job,                     \* the group whose task a worker runs
  cpc,                     \* each caller
  call,                    \* the call a caller is in: operation and group
  held,                    \* the groups each caller has a reference to
  alive,                   \* the groups not destroyed
  pool_held,               \* the creator's reference to the pool
  pushed                   \* tasks pushed so far

counts == <<tasks_in_array_count, current_tasks_in_array, current_working_tasks>>
refs == <<held, alive, pool_held>>
vars == <<mutex, tasks, counts, available, worker_limit, working_count, running,
          released_count, waiting, tpc, job, cpc, call, refs, pushed>>

-----------------------------------------------------------------------------
(* Helpers.  A signal wakes one of the blocked threads; no thread blocked, *)
(* no effect.                                                              *)

Signalled(pc, blocked) ==
  IF blocked = {} THEN {pc} ELSE {[pc EXCEPT ![x] = "woken"] : x \in blocked}

BlockedWorkers == {t \in Threads : tpc[t] = "blocked"}
BlockedIn(g) == {c \in Callers : cpc[c] = "blocked" /\ call[c].g = g}

\* locked_group_has_tasks_waiting_or_inflight
HasTasks(g) == current_tasks_in_array[g] > 0 \/ current_working_tasks[g] > 0

\* locked_thread_allowed_to_work
AllowedToWork == tasks_in_array_count > 0 /\ working_count < worker_limit

\* Mutant of WakeWorkerIfAllowed: nobody is woken.
WakeWorkerNever(pc, inArray, working, limit, avail) == {pc}

\* locked_pool_wake_worker_if_allowed on the values that its caller has just
\* written; pc is where the threads are.
WakeWorkerIfAllowed(pc, inArray, working, limit, avail) ==
  Signalled(pc, IF inArray > 0 /\ working < limit /\ avail > 0
                THEN BlockedWorkers ELSE {})

-----------------------------------------------------------------------------
(* run_func.  A worker goes round its loop with the mutex.                 *)

\* The thread has the mutex at the top of its loop: it starts, it was woken, or
\* it finished a task and kept the mutex.
AtLoop(t) ==
  /\ tpc[t] \in {"loop", "woken"}
  /\ mutex \in {None, t}
  /\ mutex' = None

\* available.count after the wait the thread comes from, if any.
Left(t) == IF tpc[t] = "woken" THEN available - 1 ELSE available

\* Not allowed to work: locked_thread_wait_for_work.
WaitForWork(t) ==
  /\ AtLoop(t)
  /\ running
  /\ ~AllowedToWork
  /\ available' = Left(t) + 1
  /\ tpc' = [tpc EXCEPT ![t] = "blocked"]
  /\ UNCHANGED <<tasks, counts, worker_limit, working_count, running,
                 released_count, waiting, job, cpc, call, refs, pushed>>

\* locked_pool_pop_task: the first task in the array goes to the thread.
PopTask(t) ==
  \E i \in DOMAIN tasks :
    LET g == tasks[i]
    IN  /\ g # None
        /\ \A k \in 1..(i - 1) : tasks[k] = None
        /\ tasks' = [tasks EXCEPT ![i] = None]
        /\ tasks_in_array_count' = tasks_in_array_count - 1
        /\ current_tasks_in_array' = [current_tasks_in_array EXCEPT ![g] = @ - 1]
        /\ current_working_tasks' = [current_working_tasks EXCEPT ![g] = @ + 1]
        /\ job' = [job EXCEPT ![t] = g]

\* Allowed to work: take a task, wake another worker if one more may work, and
\* give up the mutex.
StartWork(t) ==
  /\ AtLoop(t)
  /\ running
  /\ AllowedToWork
  /\ PopTask(t)
  /\ working_count' = working_count + 1
  /\ available' = Left(t)
  /\ tpc' \in WakeWorkerIfAllowed([tpc EXCEPT ![t] = "working"],
                tasks_in_array_count - 1, working_count + 1, worker_limit, Left(t))
  /\ UNCHANGED <<worker_limit, running, released_count, waiting, cpc, call, refs,
                 pushed>>

\* Mutants of WakeWaiterIfAllowed: the limit stays raised; no signal.
WakeWaiterKeepsLimit(g) ==
  LET wake == current_tasks_in_array[g] = 0 /\ current_working_tasks'[g] = 0
                /\ waiting[g] > 0
  IN  /\ released_count' = [released_count EXCEPT ![g] = IF wake THEN @ + 1 ELSE @]
      /\ cpc' \in Signalled(cpc, IF wake THEN BlockedIn(g) ELSE {})
      /\ UNCHANGED worker_limit

WakeWaiterNoSignal(g) ==
  LET wake == current_tasks_in_array[g] = 0 /\ current_working_tasks'[g] = 0
                /\ waiting[g] > 0
  IN  /\ worker_limit' = IF wake THEN worker_limit - 1 ELSE worker_limit
      /\ released_count' = [released_count EXCEPT ![g] = IF wake THEN @ + 1 ELSE @]
      /\ UNCHANGED cpc

\* locked_group_wake_waiter_if_allowed: with no task of the group left, the place
\* that a waiter donated is taken back and the waiter released.  The assert of
\* the code is a guard: the program ends there.
WakeWaiterIfAllowed(g) ==
  LET wake == current_tasks_in_array[g] = 0 /\ current_working_tasks'[g] = 0
                /\ waiting[g] > 0
  IN  /\ wake => worker_limit > starting_worker_count
      /\ worker_limit' = IF wake THEN worker_limit - 1 ELSE worker_limit
      /\ released_count' = [released_count EXCEPT ![g] = IF wake THEN @ + 1 ELSE @]
      /\ cpc' \in Signalled(cpc, IF wake THEN BlockedIn(g) ELSE {})

\* The task is done: the thread takes the mutex again, which it keeps to the top
\* of its loop.
FinishWork(t) ==
  /\ tpc[t] = "working"
  /\ mutex = None
  /\ mutex' = t
  /\ working_count' = working_count - 1
  /\ current_working_tasks' = [current_working_tasks EXCEPT ![job[t]] = @ - 1]
  /\ WakeWaiterIfAllowed(job[t])
  /\ tpc' = [tpc EXCEPT ![t] = "loop"]
  /\ job' = [job EXCEPT ![t] = None]
  /\ UNCHANGED <<tasks, tasks_in_array_count, current_tasks_in_array, available,
                 running, waiting, call, refs, pushed>>

\* Mutant of ThreadExit: the thread does not pass the wake-up on.
ThreadExitNoSignal(t) ==
  /\ AtLoop(t)
  /\ ~running
  /\ available' = Left(t)
  /\ tpc' = [tpc EXCEPT ![t] = "exited"]
  /\ UNCHANGED <<tasks, counts, worker_limit, working_count, running,
                 released_count, waiting, job, cpc, call, refs, pushed>>

\* The pool is not running: the thread wakes the next one and returns.
ThreadExit(t) ==
  /\ AtLoop(t)
  /\ ~running
  /\ available' = Left(t)
  /\ tpc' \in Signalled([tpc EXCEPT ![t] = "exited"], BlockedWorkers)
  /\ UNCHANGED <<tasks, counts, worker_limit, working_count, running,
                 released_count, waiting, job, cpc, call, refs, pushed>>

-----------------------------------------------------------------------------
(* The callers.                                                            *)

\* A caller with nothing to do calls push, wait_all, or gives up a group; the
\* last reference destroys it, which waits for its tasks first.
StartPush(c) ==
  /\ cpc[c] = "idle"
  /\ pushed < MaxTasks
  /\ \E g \in held[c] : call' = [call EXCEPT ![c] = [op |-> "push", g |-> g]]
  /\ cpc' = [cpc EXCEPT ![c] = "push"]
  /\ pushed' = pushed + 1
  /\ UNCHANGED <<mutex, tasks, counts, available, worker_limit, working_count,
                 running, released_count, waiting, tpc, job, refs>>

StartWait(c) ==
  /\ cpc[c] = "idle"
  /\ \E g \in held[c] : call' = [call EXCEPT ![c] = [op |-> "wait", g |-> g]]
  /\ cpc' = [cpc EXCEPT ![c] = "wait"]
  /\ UNCHANGED <<mutex, tasks, counts, available, worker_limit, working_count,
                 running, released_count, waiting, tpc, job, refs, pushed>>

\* u_worker_group_reference(&g, NULL)
DropGroup(c) ==
  /\ cpc[c] = "idle"
  /\ \E g \in held[c] :
       /\ held' = [held EXCEPT ![c] = @ \ {g}]
       /\ IF \E d \in Callers \ {c} : g \in held[d]
          THEN UNCHANGED <<cpc, call>>
          ELSE /\ cpc' = [cpc EXCEPT ![c] = "wait"]
               /\ call' = [call EXCEPT ![c] = [op |-> "destroy", g |-> g]]
  /\ UNCHANGED <<mutex, tasks, counts, available, worker_limit, working_count,
                 running, released_count, waiting, tpc, job, alive, pool_held, pushed>>

\* locked_pool_push_task: a task of group g takes the first free place.
PushTask(g) ==
  \E i \in DOMAIN tasks :
    /\ tasks[i] = None
    /\ \A k \in 1..(i - 1) : tasks[k] # None
    /\ tasks' = [tasks EXCEPT ![i] = g]
    /\ tasks_in_array_count' = tasks_in_array_count + 1
    /\ current_tasks_in_array' = [current_tasks_in_array EXCEPT ![g] = @ + 1]
    /\ UNCHANGED current_working_tasks

\* u_worker_group_push: with the array full, wait_all of the caller's own group
\* and another try; else the task is put in the array and a worker woken.
Push(c) ==
  LET g == call[c].g
  IN  /\ cpc[c] = "push"
      /\ mutex = None
      /\ IF tasks_in_array_count >= MAX_TASK_COUNT
         THEN /\ cpc' = [cpc EXCEPT ![c] = "wait"]
              /\ UNCHANGED <<tasks, counts, tpc, call>>
         ELSE /\ PushTask(g)
              /\ tpc' \in Signalled(tpc, IF available > 0 THEN BlockedWorkers ELSE {})
              /\ cpc' = [cpc EXCEPT ![c] = "idle"]
              /\ call' = [call EXCEPT ![c] = None]
      /\ UNCHANGED <<mutex, available, worker_limit, working_count, running,
                     released_count, waiting, job, refs, pushed>>

\* wait_all returns, into push, to the caller, or into u_worker_group_destroy,
\* which frees the group and gives up its reference to the pool.
ReturnFromWait(c) ==
  \/ /\ call[c].op = "push"
     /\ cpc' = [cpc EXCEPT ![c] = "push"]
     /\ UNCHANGED <<call, refs>>
  \/ /\ call[c].op = "wait"
     /\ cpc' = [cpc EXCEPT ![c] = "idle"]
     /\ call' = [call EXCEPT ![c] = None]
     /\ UNCHANGED refs
  \/ /\ call[c].op = "destroy"
     /\ alive' = alive \ {call[c].g}
     /\ cpc' = [cpc EXCEPT ![c] =
                  IF alive' = {} /\ ~pool_held THEN "destroy_pool" ELSE "idle"]
     /\ call' = [call EXCEPT ![c] = None]
     /\ UNCHANGED <<held, pool_held>>

\* locked_group_wait
Block(c, g, left) ==
  /\ waiting' = [waiting EXCEPT ![g] = left + 1]
  /\ cpc' = [cpc EXCEPT ![c] = "blocked"]
  /\ UNCHANGED <<call, refs>>

\* locked_group_should_wait with tasks left: a released thread donates its place
\* again and wakes a worker for it.
Donate(g, released) ==
  /\ released_count' = [released_count EXCEPT ![g] = released - 1]
  /\ worker_limit' = worker_limit + 1
  /\ tpc' \in WakeWorkerIfAllowed(tpc, tasks_in_array_count, working_count,
                                  worker_limit + 1, available)

\* u_worker_group_wait_all up to its first wait.
WaitAll(c) ==
  LET g == call[c].g
  IN  /\ cpc[c] = "wait"
      /\ mutex = None
      /\ IF ~HasTasks(g)
         THEN /\ ReturnFromWait(c)
              /\ UNCHANGED <<released_count, worker_limit, tpc, waiting>>
         ELSE /\ Donate(g, released_count[g] + 1)
              /\ Block(c, g, waiting[g])
      /\ UNCHANGED <<mutex, tasks, counts, available, working_count, running, job,
                     pushed>>

\* A waiter has the mutex again, after a signal or not: locked_group_should_wait.
WokenInWait(c) ==
  LET g == call[c].g
      left == waiting[g] - 1
  IN  /\ cpc[c] = "woken"
      /\ mutex = None
      /\ \/ /\ HasTasks(g) /\ released_count[g] > 0
            /\ Donate(g, released_count[g])
            /\ Block(c, g, left)
         \/ /\ ~HasTasks(g) /\ released_count[g] > 0
            /\ released_count' = [released_count EXCEPT ![g] = @ - 1]
            /\ waiting' = [waiting EXCEPT ![g] = left]
            /\ ReturnFromWait(c)
            /\ UNCHANGED <<worker_limit, tpc>>
         \/ /\ released_count[g] = 0
            /\ Block(c, g, left)
            /\ UNCHANGED <<released_count, worker_limit, tpc>>
      /\ UNCHANGED <<mutex, tasks, counts, available, working_count, running, job,
                     pushed>>

\* The creator gives up its reference to the pool; the last reference, here or in
\* ReturnFromWait, destroys the pool.
DropPool(c) ==
  /\ cpc[c] = "idle"
  /\ pool_held
  /\ pool_held' = FALSE
  /\ cpc' = [cpc EXCEPT ![c] = IF alive = {} THEN "destroy_pool" ELSE "idle"]
  /\ UNCHANGED <<mutex, tasks, counts, available, worker_limit, working_count,
                 running, released_count, waiting, tpc, job, call, held, alive, pushed>>

\* u_worker_thread_pool_destroy up to the joins.
DestroyPool(c) ==
  /\ cpc[c] = "destroy_pool"
  /\ mutex = None
  /\ running' = FALSE
  /\ tpc' \in Signalled(tpc, BlockedWorkers)
  /\ cpc' = [cpc EXCEPT ![c] = "joining"]
  /\ UNCHANGED <<mutex, tasks, counts, available, worker_limit, working_count,
                 released_count, waiting, job, call, refs, pushed>>

JoinThreads(c) ==
  /\ cpc[c] = "joining"
  /\ \A t \in Threads : tpc[t] = "exited"
  /\ cpc' = [cpc EXCEPT ![c] = "done"]
  /\ UNCHANGED <<mutex, tasks, counts, available, worker_limit, working_count,
                 running, released_count, waiting, tpc, job, call, refs, pushed>>

\* A condition wait may end without a signal.
SpuriousWakeUp ==
  /\ \/ /\ \E t \in BlockedWorkers : tpc' = [tpc EXCEPT ![t] = "woken"]
        /\ UNCHANGED cpc
     \/ /\ \E c \in Callers : cpc[c] = "blocked" /\ cpc' = [cpc EXCEPT ![c] = "woken"]
        /\ UNCHANGED tpc
  /\ UNCHANGED <<mutex, tasks, counts, available, worker_limit, working_count,
                 running, released_count, waiting, job, call, refs, pushed>>

-----------------------------------------------------------------------------
\* u_worker_thread_pool_create and u_worker_group_create
Init ==
  /\ mutex = None
  /\ tasks = [i \in 1..MAX_TASK_COUNT |-> None]
  /\ tasks_in_array_count = 0
  /\ available = 0
  /\ worker_limit = starting_worker_count
  /\ working_count = 0
  /\ running = TRUE
  /\ current_tasks_in_array = [g \in Groups |-> 0]
  /\ current_working_tasks = [g \in Groups |-> 0]
  /\ released_count = [g \in Groups |-> 0]
  /\ waiting = [g \in Groups |-> 0]
  /\ tpc = [t \in Threads |-> "loop"]
  /\ job = [t \in Threads |-> None]
  /\ cpc = [c \in Callers |-> "idle"]
  /\ call = [c \in Callers |-> None]
  /\ held = Uses
  /\ alive = Groups
  /\ pool_held = TRUE
  /\ pushed = 0

ThreadStep(t) == WaitForWork(t) \/ StartWork(t) \/ FinishWork(t) \/ ThreadExit(t)

\* What a caller does once it is in a call.
CallStep(c) ==
  Push(c) \/ WaitAll(c) \/ WokenInWait(c) \/ DestroyPool(c) \/ JoinThreads(c)

Next ==
  \/ \E t \in Threads : ThreadStep(t)
  \/ \E c \in Callers :
       CallStep(c) \/ StartPush(c) \/ StartWait(c) \/ DropGroup(c) \/ DropPool(c)
  \/ SpuriousWakeUp

Spec == Init /\ [][Next]_vars

\* Threads that can run do; tasks end.  Nothing makes a caller start a call, and
\* nothing makes a wake-up come that nobody signalled.
FairSpec ==
  /\ Spec
  /\ \A t \in Threads : WF_vars(ThreadStep(t))
  /\ \A c \in Callers : WF_vars(CallStep(c))

-----------------------------------------------------------------------------
(* Properties.                                                             *)

\* Types of the state; the unsigned counters never go below zero.
TypeOK ==
  /\ mutex \in Threads \union {None}
  /\ tasks \in [1..MAX_TASK_COUNT -> Groups \union {None}]
  /\ tasks_in_array_count \in 0..MAX_TASK_COUNT
  /\ available \in 0..Cardinality(Threads)
  /\ worker_limit \in Nat
  /\ working_count \in 0..Cardinality(Threads)
  /\ running \in BOOLEAN
  /\ current_tasks_in_array \in [Groups -> Nat]
  /\ current_working_tasks \in [Groups -> Nat]
  /\ released_count \in [Groups -> 0..Cardinality(Callers)]
  /\ waiting \in [Groups -> Nat]
  /\ tpc \in [Threads -> {"loop", "blocked", "woken", "working", "exited"}]
  /\ job \in [Threads -> Groups \union {None}]
  /\ cpc \in [Callers -> {"idle", "push", "wait", "blocked", "woken", "destroy_pool",
                          "joining", "done"}]
  /\ call \in [Callers ->
                 [op : {"push", "wait", "destroy"}, g : Groups] \union {None}]
  /\ held \in [Callers -> SUBSET Groups]
  /\ alive \in SUBSET Groups
  /\ pool_held \in BOOLEAN
  /\ pushed \in 0..MaxTasks

\* The counters the decisions are made on agree with the array and the threads:
\* a task is in the array or with one worker, and is counted there once.
CountsAgree ==
  /\ tasks_in_array_count = Cardinality({i \in DOMAIN tasks : tasks[i] # None})
  /\ working_count = Cardinality({t \in Threads : tpc[t] = "working"})
  /\ \A g \in Groups :
       /\ current_tasks_in_array[g] = Cardinality({i \in DOMAIN tasks : tasks[i] = g})
       /\ current_working_tasks[g] = Cardinality({t \in Threads : job[t] = g})
       /\ g \notin alive => ~HasTasks(g)

\* The threads inside the loop of wait_all for group g.
Waiters(g) == {c \in Callers : cpc[c] \in {"blocked", "woken"} /\ call[c].g = g}

\* The releases that no waiter has taken yet: <<g, k>> is the k-th one of group g.
Releases == {r \in Groups \X (1..Cardinality(Callers)) : r[2] <= released_count[r[1]]}

\* worker_limit is what was given at creation plus one for each waiter that has
\* not been released: a place that is donated is given back exactly once, however
\* the wake-ups fall, so the pool neither loses nor gains workers over time.
LimitCountsDonors ==
  worker_limit + Cardinality(Releases)
    = starting_worker_count + Cardinality(UNION {Waiters(g) : g \in Groups})

\* No wake-up for a worker is lost: when a task is in the array and one more
\* worker may work, some worker that is not in a task is awake to take it.
NoStrandedTask ==
  running /\ AllowedToWork =>
    \/ \E t \in Threads : tpc[t] \in {"loop", "woken"}
    \/ BlockedWorkers = {}

\* The assert in locked_group_wake_waiter_if_allowed: where a worker is about to
\* release a waiter, a donated place is there to take back.
ReleaseHasDonor ==
  \A t \in Threads :
    LET g == job[t]
    IN  tpc[t] = "working" /\ current_tasks_in_array[g] = 0
          /\ current_working_tasks[g] = 1 /\ waiting[g] > 0
        => worker_limit > starting_worker_count

\* The books of the pool: tasks, working threads and donated places are counted
\* right, and a release finds a place to take back, at every step of every thread.
PoolIsSound == TypeOK /\ CountsAgree /\ LimitCountsDonors /\ ReleaseHasDonor

\* A caller that waits for all tasks of a group returns (u_worker_group_wait_all,
\* also where push and destroy call it).
WaitAllReturns ==
  \A c \in Callers :
    (cpc[c] \in {"wait", "blocked", "woken"}) ~> (cpc[c] \in {"idle", "push", "destroy_pool"})

\* Destroying the pool ends: one signal reaches all blocked workers in turn.
PoolDestroyEnds ==
  \A c \in Callers : (cpc[c] = "destroy_pool") ~> (cpc[c] = "done")

=============================================================================
