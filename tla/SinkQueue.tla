----------------------------- MODULE SinkQueue ------------------------------
(***************************************************************************)
(* A graph of frame sinks: a source pushes frames, possibly through a      *)
(* split, into queues; each queue (u_sink_queue or u_sink_simple_queue)    *)
(* has a thread that pushes them on to the queues downstream.  Frames are  *)
(* reference counted.  The frame context tears the graph down: all nodes   *)
(* are broken apart, then all are destroyed.                               *)
(*                                                                         *)
(* The linked list of a u_sink_queue is a sequence; the one frame pointer  *)
(* of a u_sink_simple_queue is a sequence of at most one frame.            *)
(***************************************************************************)
EXTENDS Integers, FiniteSets, Sequences

CONSTANTS
  Queues,      \* the queues of the graph
  Simple,      \* those that are a u_sink_simple_queue
  Source,      \* the node whose thread makes the frames
  MaxSize,     \* max_size of each queue; 1 for a simple one
  Down,        \* the queues that a node pushes each frame to, in order
  MaxFrames    \* bound: frames the source makes

ASSUME GraphAssumption ==
  /\ MaxFrames \in Nat
  /\ IsFiniteSet(Queues)
  /\ Simple \subseteq Queues
  /\ Source \notin Queues
  /\ MaxSize \in [Queues -> Nat]
  /\ \A q \in Simple : MaxSize[q] = 1
  /\ Down \in [Queues \union {Source} -> Seq(Queues)]

Nodes == Queues \union {Source}
Frames == 1..MaxFrames
NoFrame == 0

VARIABLES
  content,     \* front .. back, or the frame pointer
  current,     \* seq.current of a simple queue
  last,        \* seq.last
  running,     \* of queues, and of the source
  pc,          \* where the thread of a queue is
  out,         \* the local frame of the thread of a node
  todo,        \* the downstream queues it still has to push it to
  refs,        \* the reference counts of the frames; 0 when freed or not made
  made,        \* how many frames were made
  phase,       \* of the frame context: live, breaking, joining, destroying, gone
  joining,     \* the node whose thread is being joined
  left         \* the nodes still to be broken apart, then destroyed

queueVars == <<content, current, last>>
contextVars == <<phase, joining, left>>
vars == <<queueVars, running, pc, out, todo, refs, made, contextVars>>

Elements(s) == {s[i] : i \in DOMAIN s}

-----------------------------------------------------------------------------
(* Pushing a frame.                                                        *)

\* queue_is_full
IsFull(q) == MaxSize[q] # 0 /\ Len(content[q]) >= MaxSize[q]

\* Mutant of TryRefPush: the frame that is dropped keeps its reference.
TryRefPushLeaks(q, f) ==
  /\ content' = [content EXCEPT
       ![q] = Append(IF IsFull(q) THEN Tail(content[q]) ELSE content[q], f)]
  /\ refs' = [refs EXCEPT ![f] = @ + 1]
  /\ UNCHANGED <<current, last>>

\* Mutant of TryRefPush: the newest frame is dropped.
TryRefPushDropsNewest(q, f) ==
  /\ content' = [content EXCEPT
       ![q] = IF IsFull(q) THEN [@ EXCEPT ![Len(@)] = f] ELSE Append(@, f)]
  /\ refs' = [g \in Frames |->
       refs[g] + (IF g = f THEN 1 ELSE 0)
               - (IF IsFull(q) /\ g = content[q][Len(content[q])] THEN 1 ELSE 0)]
  /\ UNCHANGED <<current, last>>

\* queue_try_refpush: a full queue drops its oldest frame.
TryRefPush(q, f) ==
  /\ content' = [content EXCEPT
       ![q] = Append(IF IsFull(q) THEN Tail(content[q]) ELSE content[q], f)]
  /\ refs' = [g \in Frames |->
       refs[g] + (IF g = f THEN 1 ELSE 0)
               - (IF IsFull(q) /\ g = Head(content[q]) THEN 1 ELSE 0)]
  /\ UNCHANGED <<current, last>>

\* queue_frame of the simple queue: the new frame replaces the old one, and each
\* frame has a number.
Replace(q, f) ==
  /\ content' = [content EXCEPT ![q] = <<f>>]
  /\ refs' = [g \in Frames |->
       refs[g] + (IF g = f THEN 1 ELSE 0)
               - (IF g \in Elements(content[q]) THEN 1 ELSE 0)]
  /\ current' = [current EXCEPT ![q] = @ + 1]
  /\ UNCHANGED last

\* Mutant of Signal.
SignalNobody(q) == pc

\* pthread_cond_signal: only the thread of the queue waits on its condition.
Signal(q) == IF pc[q] = "wait" THEN [pc EXCEPT ![q] = "loop"] ELSE pc

\* queue_frame, for the next queue downstream of node n.
QueueFrame(n) ==
  LET q == Head(todo[n])
      f == out[n]
  IN  /\ todo[n] # <<>>
      /\ IF ~running[q] THEN UNCHANGED <<queueVars, refs>>
         ELSE IF q \in Simple THEN Replace(q, f)
         ELSE TryRefPush(q, f)
      /\ pc' = Signal(q)
      /\ todo' = [todo EXCEPT ![n] = Tail(@)]
      /\ UNCHANGED <<running, out, made, contextVars>>

\* Node n has pushed its frame everywhere and drops its reference.
DropFrame(n) ==
  /\ out[n] # NoFrame
  /\ todo[n] = <<>>
  /\ refs' = [refs EXCEPT ![out[n]] = @ - 1]
  /\ out' = [out EXCEPT ![n] = NoFrame]
  /\ pc' = IF n = Source THEN pc ELSE [pc EXCEPT ![n] = "loop"]
  /\ UNCHANGED <<queueVars, running, todo, made, contextVars>>

\* The source makes a frame and holds the first reference to it.
MakeFrame ==
  /\ running[Source]
  /\ out[Source] = NoFrame
  /\ made < MaxFrames
  /\ made' = made + 1
  /\ refs' = [refs EXCEPT ![made + 1] = 1]
  /\ out' = [out EXCEPT ![Source] = made + 1]
  /\ todo' = [todo EXCEPT ![Source] = Down[Source]]
  /\ UNCHANGED <<queueVars, running, pc, contextVars>>

-----------------------------------------------------------------------------
(* The thread of a queue.                                                  *)

\* There is no new frame: what makes queue_mainloop wait.
NothingNew(q) == IF q \in Simple THEN last[q] >= current[q] ELSE content[q] = <<>>

\* queue_mainloop with the mutex held, in both queues: to the end, to the wait, or
\* on with the oldest frame, whose reference moves from the queue to the thread.
Mainloop(q) ==
  /\ pc[q] = "loop"
  /\ \/ /\ ~running[q]
        /\ pc' = [pc EXCEPT ![q] = "exited"]
        /\ UNCHANGED <<queueVars, out, todo>>
     \/ /\ running[q] /\ NothingNew(q)
        /\ pc' = [pc EXCEPT ![q] = "wait"]
        /\ UNCHANGED <<queueVars, out, todo>>
     \/ /\ running[q] /\ ~NothingNew(q) /\ content[q] # <<>>
        /\ out' = [out EXCEPT ![q] = Head(content[q])]
        /\ content' = [content EXCEPT ![q] = Tail(@)]
        /\ last' = IF q \in Simple THEN [last EXCEPT ![q] = current[q]] ELSE last
        /\ todo' = [todo EXCEPT ![q] = Down[q]]
        /\ pc' = [pc EXCEPT ![q] = "push"]
        /\ UNCHANGED current
  /\ UNCHANGED <<running, refs, made, contextVars>>

\* The condition wait ends without a signal.
SpuriousWakeUp(q) ==
  /\ pc[q] = "wait"
  /\ pc' = [pc EXCEPT ![q] = "loop"]
  /\ UNCHANGED <<queueVars, running, out, todo, refs, made, contextVars>>

-----------------------------------------------------------------------------
(* xrt_frame_context_destroy_nodes.  The nodes come in the reverse of the  *)
(* order in which they were added, which may be any.                       *)

DestroyNodes ==
  /\ phase = "live"
  /\ phase' = "breaking"
  /\ UNCHANGED <<queueVars, running, pc, out, todo, refs, made, joining, left>>

\* queue_break_apart up to the join; the source stops its thread likewise.
BreakApart(n) ==
  /\ phase = "breaking"
  /\ n \in left
  /\ running' = [running EXCEPT ![n] = FALSE]
  /\ IF n = Source THEN UNCHANGED <<content, refs, pc>>
     ELSE /\ content' = [content EXCEPT ![n] = <<>>]
          /\ refs' = [g \in Frames |->
               refs[g] - (IF g \in Elements(content[n]) THEN 1 ELSE 0)]
          /\ pc' = Signal(n)
  /\ phase' = "joining"
  /\ joining' = n
  /\ UNCHANGED <<current, last, out, todo, made, left>>

\* The thread of node n has ended.
Ended(n) == IF n = Source THEN out[Source] = NoFrame ELSE pc[n] = "exited"

\* Mutant of JoinThread: the thread is not waited for.
JoinThreadNoWait ==
  /\ phase = "joining"
  /\ left' = IF left = {joining} THEN Nodes ELSE left \ {joining}
  /\ phase' = IF left = {joining} THEN "destroying" ELSE "breaking"
  /\ UNCHANGED <<queueVars, running, pc, out, todo, refs, made, joining>>

\* pthread_join; after the last node the second loop starts.
JoinThread ==
  /\ phase = "joining"
  /\ Ended(joining)
  /\ left' = IF left = {joining} THEN Nodes ELSE left \ {joining}
  /\ phase' = IF left = {joining} THEN "destroying" ELSE "breaking"
  /\ UNCHANGED <<queueVars, running, pc, out, todo, refs, made, joining>>

\* queue_destroy
DestroyNode(n) ==
  /\ phase = "destroying"
  /\ n \in left
  /\ left' = left \ {n}
  /\ phase' = IF left = {n} THEN "gone" ELSE phase
  /\ UNCHANGED <<queueVars, running, pc, out, todo, refs, made, joining>>

-----------------------------------------------------------------------------
Init ==
  /\ content = [q \in Queues |-> <<>>]
  /\ current = [q \in Queues |-> 0]
  /\ last = [q \in Queues |-> 0]
  /\ running = [n \in Nodes |-> TRUE]
  /\ pc = [q \in Queues |-> "loop"]
  /\ out = [n \in Nodes |-> NoFrame]
  /\ todo = [n \in Nodes |-> <<>>]
  /\ refs = [f \in Frames |-> 0]
  /\ made = 0
  /\ phase = "live"
  /\ joining = Source
  /\ left = Nodes

ThreadStep(n) == QueueFrame(n) \/ DropFrame(n)
ContextStep == (\E n \in Nodes : BreakApart(n) \/ DestroyNode(n)) \/ JoinThread

Next ==
  \/ MakeFrame
  \/ \E n \in Nodes : ThreadStep(n)
  \/ \E q \in Queues : Mainloop(q) \/ SpuriousWakeUp(q)
  \/ DestroyNodes \/ ContextStep

Spec == Init /\ [][Next]_vars

\* All threads and the tearing down go on; the source need not make frames.
FairSpec ==
  /\ Spec
  /\ \A n \in Nodes : WF_vars(ThreadStep(n))
  /\ \A q \in Queues : WF_vars(Mainloop(q))
  /\ WF_vars(ContextStep)

-----------------------------------------------------------------------------
(* Properties.                                                             *)

TypeOK ==
  /\ content \in [Queues -> Seq(Frames)]
  /\ current \in [Queues -> Nat]
  /\ last \in [Queues -> Nat]
  /\ running \in [Nodes -> BOOLEAN]
  /\ pc \in [Queues -> {"loop", "wait", "push", "exited"}]
  /\ out \in [Nodes -> Frames \union {NoFrame}]
  /\ todo \in [Nodes -> Seq(Queues)]
  /\ refs \in [Frames -> Nat]
  /\ made \in 0..MaxFrames
  /\ phase \in {"live", "breaking", "joining", "destroying", "gone"}
  /\ joining \in Nodes
  /\ left \subseteq Nodes

\* The queues and threads that have a pointer to frame f.
Holders(f) == {q \in Queues : f \in Elements(content[q])}
Hands(f) == {n \in Nodes : out[n] = f}

\* A frame's reference count is the number of queues and threads that have it, so
\* that no frame is freed while in use, however it is dropped, replaced, split or
\* cleared, and none is left when the graph has been torn down.
RefsExact ==
  /\ \A f \in Frames : refs[f] = Cardinality(Holders(f)) + Cardinality(Hands(f))
  /\ phase \in {"destroying", "gone"} => \A f \in Frames : refs[f] = 0

\* Frames leave a queue in the order in which they came, and each once: the frame in
\* the hands of the thread is older than all in its queue, and those are in order.
FramesInOrder ==
  \A q \in Queues :
    /\ \A i, j \in DOMAIN content[q] : i < j => content[q][i] < content[q][j]
    /\ \A f \in Elements(content[q]) : out[q] < f

\* A queue that is destroyed is no longer in use: no thread runs in it, and no other
\* thread is about to push a frame into it.
NoUseAfterDestroy ==
  phase \in {"destroying", "gone"} =>
    /\ \A q \in Queues : pc[q] = "exited"
    /\ \A n \in Nodes : todo[n] = <<>>

\* A simple queue has a frame exactly when its numbers say so: its thread neither
\* waits with a frame there nor spins without one.
SeqMatchesFrame ==
  \A q \in Simple : running[q] => (last[q] < current[q] <=> content[q] # <<>>)

\* The graph holds exactly the frames it has references to, in order.
GraphIsSound == TypeOK /\ RefsExact /\ FramesInOrder /\ SeqMatchesFrame

\* Every queue implements the promise of a bounded, lossy, in-order queue.
Promise == INSTANCE FrameQueue WITH
             out <- [q \in Queues |-> out[q]],
             open <- [q \in Queues |-> running[q]]
QueuesKeepPromise == Promise!Spec

\* No wake-up is lost: a frame that is queued is taken, dropped or cleared.
QueuedFrameLeaves ==
  \A q \in Queues : \A f \in Frames :
    (f \in Elements(content[q])) ~> (f \notin Elements(content[q]))

\* Tearing the graph down ends: every thread is woken and joined.
TeardownEnds == (phase = "breaking") ~> (phase = "gone")
=============================================================================
