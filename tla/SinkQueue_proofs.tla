-------------------------- MODULE SinkQueue_proofs --------------------------
(***************************************************************************)
(* Theorems about SinkQueue, for every number of frames and every graph of *)
(* queues; those about the frames in it are for trees.                     *)
(*                                                                         *)
(*   IInv       a queue and its thread: enough for the refinement of       *)
(*              FrameQueue;                                                *)
(*   EndInv     the nodes that the frame context has joined have ended;    *)
(*   SeqInv     the numbers of the simple queues;                          *)
(*   OrderInv   frames are in order along each path of the graph;          *)
(*   CountInv   the references are those of the queues and the threads.    *)
(***************************************************************************)
EXTENDS SinkQueue, FiniteSetTheorems, SequenceTheorems, TLAPS

\* The types the refinement needs; the reference counts are not among them.
QueueTypes ==
  /\ content \in [Queues -> Seq(Frames)]
  /\ running \in [Nodes -> BOOLEAN]
  /\ pc \in [Queues -> {"loop", "wait", "push", "exited"}]
  /\ out \in [Nodes -> Frames \union {NoFrame}]
  /\ todo \in [Nodes -> Seq(Queues)]
  /\ made \in 0..MaxFrames

\* What relates a queue to its thread: the thread has a frame only while it pushes
\* it on, a queue that is broken apart is empty, and a simple queue holds at most
\* one frame.
QueueShape ==
  /\ \A q \in Queues : pc[q] # "push" => out[q] = NoFrame
  /\ \A n \in Nodes : out[n] = NoFrame => todo[n] = <<>>
  /\ \A q \in Queues : ~running[q] => content[q] = <<>>
  /\ \A q \in Simple : Len(content[q]) <= 1

IInv == QueueTypes /\ QueueShape

\* Appending to a queue that may first drop its oldest frame.
LEMMA PutType ==
  ASSUME NEW s \in Seq(Frames), NEW f \in Frames
  PROVE  /\ Append(s, f) \in Seq(Frames)
         /\ s # <<>> => Append(Tail(s), f) \in Seq(Frames) /\ Tail(s) \in Seq(Frames)
         /\ s # <<>> => Head(s) \in Frames /\ Len(Tail(s)) = Len(s) - 1
  OBVIOUS

\* A sequence of at most one frame, with its frame dropped, is empty.
LEMMA AtMostOne ==
  ASSUME NEW s \in Seq(Frames), Len(s) <= 1, NEW f \in Frames
  PROVE  /\ Len(s) >= 1 => Append(Tail(s), f) = <<f>>
         /\ ~(Len(s) >= 1) => Append(s, f) = <<f>>
         /\ Len(<<f>>) = 1 /\ <<f>> \in Seq(Frames)
  <1>1. Len(<<f>>) = 1 /\ <<f>> \in Seq(Frames)
    OBVIOUS
  <1>2. ASSUME NEW t \in Seq(Frames), Len(t) = 0
        PROVE  Append(t, f) = <<f>>
    <2>1. t = <<>>
      BY <1>2, EmptySeq
    <2>2. Append(t, f) \in Seq(Frames) /\ Len(Append(t, f)) = 1 /\ Append(t, f)[1] = f
      BY <1>2
    <2>3. \A i \in 1..Len(Append(t, f)) : Append(t, f)[i] = <<f>>[i]
      BY <2>2
    <2> QED BY <1>1, <2>2, <2>3, SeqEqual
  <1>3. Len(s) = 0 \/ Len(s) = 1
    <2>1. Len(s) \in Nat
      OBVIOUS
    <2>2. \A k \in Nat : k <= 1 => k = 0 \/ k = 1
      OBVIOUS
    <2> QED BY <2>1, <2>2
  <1>4. ASSUME Len(s) >= 1 PROVE Tail(s) \in Seq(Frames) /\ Len(Tail(s)) = 0
    <2>1. s # <<>>
      <3>1. Len(<<>>) = 0
        OBVIOUS
      <3> QED BY <1>4, <3>1
    <2>2. Tail(s) \in Seq(Frames) /\ Len(Tail(s)) = Len(s) - 1
      BY <2>1, PutType
    <2>3. Len(s) = 1
      BY <1>3, <1>4
    <2> QED BY <2>2, <2>3
  <1>5. Len(s) >= 1 => Append(Tail(s), f) = <<f>>
    <2>1. SUFFICES ASSUME Len(s) >= 1 PROVE Append(Tail(s), f) = <<f>>
      OBVIOUS
    <2> QED BY <1>2, <1>4, <2>1
  <1>6. ~(Len(s) >= 1) => Append(s, f) = <<f>>
    <2>1. ~(Len(s) >= 1) => Len(s) = 0
      BY <1>3
    <2> QED BY <1>2, <2>1
  <1> QED BY <1>1, <1>5, <1>6

\* The invariant holds at first.
LEMMA InitIInv == Init => IInv
  <1>1. Init => QueueTypes
    BY GraphAssumption DEF Init, QueueTypes, Nodes, Frames, NoFrame
  <1>2. Init => QueueShape
    BY GraphAssumption DEF Init, QueueShape, Nodes
  <1> QED BY <1>1, <1>2 DEF IInv

\* queue_frame keeps the invariant.
LEMMA QueueFrameIInv ==
  ASSUME IInv, NEW n \in Nodes, QueueFrame(n)
  PROVE  IInv'
  <1> USE DEF IInv, QueueTypes, QueueShape
  <1> DEFINE q == Head(todo[n])
  <1>1. q \in Queues /\ out[n] \in Frames /\ Tail(todo[n]) \in Seq(Queues)
    BY DEF QueueFrame
  <1>2. UNCHANGED <<running, out, made>>
    BY DEF QueueFrame
  <1>3. pc' = Signal(q) /\ todo' = [todo EXCEPT ![n] = Tail(@)]
    BY DEF QueueFrame
  <1>4. /\ pc' \in [Queues -> {"loop", "wait", "push", "exited"}]
        /\ \A p \in Queues : pc'[p] # "push" => pc[p] # "push"
    BY <1>1, <1>3 DEF Signal
  <1>5. /\ todo' \in [Nodes -> Seq(Queues)]
        /\ \A m \in Nodes : out[m] = NoFrame => todo'[m] = <<>>
    <2>1. todo' \in [Nodes -> Seq(Queues)]
      BY <1>1, <1>3
    <2>2. out[n] # NoFrame
      BY <1>1, GraphAssumption DEF NoFrame, Frames
    <2>3. \A m \in Nodes : m # n => todo'[m] = todo[m]
      BY <1>3
    <2> QED BY <2>1, <2>2, <2>3
  <1> HIDE DEF q
  <1>6. content' = content \/ \E s \in Seq(Frames) :
          /\ running[q]
          /\ content' = [content EXCEPT ![q] = s]
          /\ q \in Simple => Len(s) <= 1
    <2>1. CASE ~running[q]
      BY <2>1 DEF QueueFrame, queueVars, q
    <2>2. CASE running[q] /\ q \in Simple
      <3>1. content' = [content EXCEPT ![q] = <<out[n]>>]
        BY <2>2 DEF QueueFrame, Replace, q
      <3>2. <<out[n]>> \in Seq(Frames) /\ Len(<<out[n]>>) <= 1
        BY <1>1
      <3> QED BY <2>2, <3>1, <3>2
    <2>3. CASE running[q] /\ q \notin Simple
      <3>1. content' = [content EXCEPT ![q] =
              Append(IF IsFull(q) THEN Tail(content[q]) ELSE content[q], out[n])]
        BY <2>3 DEF QueueFrame, TryRefPush, q
      <3>2. IsFull(q) => content[q] # <<>>
        BY <1>1, GraphAssumption DEF IsFull
      <3>3. Append(IF IsFull(q) THEN Tail(content[q]) ELSE content[q], out[n])
              \in Seq(Frames)
        BY <1>1, <3>2, PutType
      <3> QED BY <2>3, <3>1, <3>3
    <2> QED BY <2>1, <2>2, <2>3, <1>1, GraphAssumption DEF Nodes
  <1>7. /\ content' \in [Queues -> Seq(Frames)]
        /\ \A p \in Queues : ~running[p] => content'[p] = <<>>
        /\ \A p \in Simple : Len(content'[p]) <= 1
    BY <1>1, <1>6, GraphAssumption
  <1> QED BY <1>2, <1>4, <1>5, <1>7

\* A thread that has pushed its frame on keeps the invariant.
LEMMA DropFrameIInv ==
  ASSUME IInv, NEW n \in Nodes, DropFrame(n)
  PROVE  IInv'
  <1> USE DEF IInv, QueueTypes, QueueShape
  <1>1. n # Source => n \in Queues
    BY DEF Nodes
  <1>2. /\ out' = [out EXCEPT ![n] = NoFrame]
        /\ pc' = IF n = Source THEN pc ELSE [pc EXCEPT ![n] = "loop"]
        /\ UNCHANGED <<content, running, todo, made>>
        /\ todo[n] = <<>>
    BY DEF DropFrame, queueVars
  <1>3. QueueTypes'
    BY <1>1, <1>2, GraphAssumption DEF Nodes
  <1>4. QueueShape'
    BY <1>1, <1>2, GraphAssumption DEF Nodes
  <1> QED BY <1>3, <1>4

\* Making a frame keeps the invariant.
LEMMA MakeFrameIInv ==
  ASSUME IInv, MakeFrame
  PROVE  IInv'
  <1> USE DEF IInv, QueueTypes, QueueShape
  <1>1. /\ out' = [out EXCEPT ![Source] = made + 1]
        /\ todo' = [todo EXCEPT ![Source] = Down[Source]]
        /\ made' = made + 1 /\ made < MaxFrames
        /\ UNCHANGED <<content, running, pc>>
    BY DEF MakeFrame, queueVars
  <1>2. made + 1 \in Frames /\ made + 1 # NoFrame /\ Down[Source] \in Seq(Queues)
    BY <1>1, GraphAssumption DEF Frames, NoFrame
  <1>3. QueueTypes'
    BY <1>1, <1>2, GraphAssumption DEF Nodes, Frames
  <1>4. QueueShape'
    BY <1>1, <1>2, GraphAssumption DEF Nodes
  <1> QED BY <1>3, <1>4

\* The thread of a queue keeps the invariant.
LEMMA MainloopIInv ==
  ASSUME IInv, NEW q \in Queues, Mainloop(q)
  PROVE  IInv'
  <1> USE DEF IInv, QueueTypes, QueueShape
  <1>1. CASE UNCHANGED <<content, out, todo>>
    <2>1. UNCHANGED <<running, made>> /\ \E l \in {"wait", "exited", "push"} :
            pc' = [pc EXCEPT ![q] = l]
      BY DEF Mainloop
    <2>2. pc[q] = "loop" /\ out[q] = NoFrame
      BY DEF Mainloop
    <2>3. QueueTypes'
      BY <1>1, <2>1
    <2>4. QueueShape'
      BY <1>1, <2>1, <2>2
    <2> QED BY <2>3, <2>4
  <1>2. CASE /\ running[q] /\ content[q] # <<>>
             /\ out' = [out EXCEPT ![q] = Head(content[q])]
             /\ content' = [content EXCEPT ![q] = Tail(@)]
             /\ todo' = [todo EXCEPT ![q] = Down[q]]
             /\ pc' = [pc EXCEPT ![q] = "push"]
             /\ UNCHANGED <<running, made>>
    <2>1. /\ Head(content[q]) \in Frames /\ Tail(content[q]) \in Seq(Frames)
          /\ Len(Tail(content[q])) = Len(content[q]) - 1
      BY <1>2, PutType
    <2>2. Head(content[q]) # NoFrame /\ Down[q] \in Seq(Queues)
      BY <2>1, GraphAssumption DEF Frames, NoFrame
    <2>3. QueueTypes'
      BY <1>2, <2>1, <2>2 DEF Nodes
    <2>4. /\ \A p \in Queues : pc'[p] # "push" => out'[p] = NoFrame
          /\ \A n \in Nodes : out'[n] = NoFrame => todo'[n] = <<>>
      BY <1>2, <2>1, <2>2 DEF Nodes
    <2>5. /\ \A p \in Queues : ~running'[p] => content'[p] = <<>>
          /\ \A p \in Simple : Len(content'[p]) <= 1
      BY <1>2, <2>1, GraphAssumption DEF Nodes
    <2> QED BY <2>3, <2>4, <2>5
  <1> QED BY <1>1, <1>2 DEF Mainloop, queueVars

\* Breaking a node apart keeps the invariant.
LEMMA BreakApartIInv ==
  ASSUME IInv, NEW n \in Nodes, BreakApart(n)
  PROVE  IInv'
  <1> USE DEF IInv, QueueTypes, QueueShape
  <1>1. running' = [running EXCEPT ![n] = FALSE] /\ UNCHANGED <<out, todo, made>>
    BY DEF BreakApart
  <1>2. CASE n = Source
    BY <1>1, <1>2, GraphAssumption DEF BreakApart, Nodes
  <1>3. CASE n # Source
    <2>1. n \in Queues
      BY <1>3 DEF Nodes
    <2>2. content' = [content EXCEPT ![n] = <<>>] /\ pc' = Signal(n)
      BY <1>3 DEF BreakApart
    <2>3. /\ pc' \in [Queues -> {"loop", "wait", "push", "exited"}]
          /\ \A p \in Queues : pc'[p] # "push" => pc[p] # "push"
      BY <2>1, <2>2 DEF Signal
    <2>4. QueueTypes'
      <3>1. content' \in [Queues -> Seq(Frames)]
        <4>1. <<>> \in Seq(Frames)
          OBVIOUS
        <4> QED BY <2>1, <2>2, <4>1
      <3>2. running' \in [Nodes -> BOOLEAN]
        BY <1>1
      <3> QED BY <1>1, <2>3, <3>1, <3>2
    <2>5. \A p \in Queues : ~running'[p] => content'[p] = <<>>
      BY <1>1, <2>1, <2>2 DEF Nodes
    <2>6. \A p \in Simple : Len(content'[p]) <= 1
      <3>1. Len(<<>>) = 0
        OBVIOUS
      <3> QED BY <2>1, <2>2, <3>1, GraphAssumption
    <2>7. QueueShape'
      BY <1>1, <2>3, <2>5, <2>6
    <2> QED BY <2>4, <2>7
  <1> QED BY <1>2, <1>3

\* Every step keeps the invariant.
LEMMA NextIInv == IInv /\ [Next]_vars => IInv'
  <1> SUFFICES ASSUME IInv, [Next]_vars PROVE IInv'
    OBVIOUS
  <1>1. CASE MakeFrame
    BY <1>1, MakeFrameIInv
  <1>2. ASSUME NEW n \in Nodes, ThreadStep(n) PROVE IInv'
    BY <1>2, QueueFrameIInv, DropFrameIInv DEF ThreadStep
  <1>3. ASSUME NEW q \in Queues, Mainloop(q) PROVE IInv'
    BY <1>3, MainloopIInv
  <1>4. ASSUME NEW q \in Queues, SpuriousWakeUp(q) PROVE IInv'
    BY <1>4 DEF SpuriousWakeUp, queueVars, IInv, QueueTypes, QueueShape
  <1>5. ASSUME NEW n \in Nodes, BreakApart(n) PROVE IInv'
    BY <1>5, BreakApartIInv
  <1>6. CASE UNCHANGED <<content, running, pc, out, todo, made>>
    BY <1>6 DEF IInv, QueueTypes, QueueShape
  <1>7. CASE DestroyNodes \/ JoinThread \/ \E n \in Nodes : DestroyNode(n)
    BY <1>6, <1>7 DEF DestroyNodes, JoinThread, DestroyNode, queueVars
  <1>8. CASE UNCHANGED vars
    BY <1>6, <1>8 DEF vars, queueVars
  <1> QED BY <1>1, <1>2, <1>3, <1>4, <1>5, <1>7, <1>8 DEF Next, ContextStep

-----------------------------------------------------------------------------
\* queue_frame is a Put, or nothing when the queue has been broken apart.
LEMMA QueueFrameStep ==
  ASSUME IInv, NEW n \in Nodes, QueueFrame(n)
  PROVE  [Promise!Next]_Promise!vars
  <1> USE DEF IInv, QueueTypes, QueueShape
  <1> DEFINE q == Head(todo[n])
  <1>1. q \in Queues /\ out[n] \in Frames
    BY DEF QueueFrame
  <1>2. UNCHANGED <<running, out>>
    BY DEF QueueFrame
  <1> HIDE DEF q
  <1>3. CASE ~running[q]
    BY <1>2, <1>3 DEF QueueFrame, queueVars, q, Promise!vars
  <1>4. CASE running[q]
    <2>1. content' = [content EXCEPT ![q] =
            Append(IF Promise!IsFull(q) THEN Tail(content[q]) ELSE content[q], out[n])]
      <3>1. CASE q \in Simple
        <4>1. content' = [content EXCEPT ![q] = <<out[n]>>]
          BY <1>4, <3>1 DEF QueueFrame, Replace, q
        <4>2. Len(content[q]) <= 1 /\ MaxSize[q] = 1 /\ content[q] \in Seq(Frames)
          BY <3>1, <1>1, GraphAssumption
        <4>3. Promise!IsFull(q) <=> Len(content[q]) >= 1
          BY <4>2 DEF Promise!IsFull
        <4>4. /\ Len(content[q]) >= 1 => Append(Tail(content[q]), out[n]) = <<out[n]>>
              /\ ~(Len(content[q]) >= 1) => Append(content[q], out[n]) = <<out[n]>>
          BY <4>2, <1>1, AtMostOne
        <4> QED BY <4>1, <4>3, <4>4
      <3>2. CASE q \notin Simple
        BY <1>4, <3>2 DEF QueueFrame, TryRefPush, IsFull, Promise!IsFull, q
      <3> QED BY <3>1, <3>2
    <2>2. Promise!Put(q, out[n])
      BY <1>1, <1>2, <1>4, <2>1 DEF Promise!Put
    <2> QED BY <1>1, <2>2 DEF Promise!Next
  <1> QED BY <1>3, <1>4

\* Every step of the sinks is a step of the abstract queues or leaves them alone.
LEMMA StepRefines == IInv /\ [Next]_vars => [Promise!Next]_Promise!vars
  <1> SUFFICES ASSUME IInv, [Next]_vars PROVE [Promise!Next]_Promise!vars
    OBVIOUS
  <1> USE DEF IInv, QueueTypes, QueueShape
  <1>1. CASE UNCHANGED <<content, running, out>>
    BY <1>1 DEF Promise!vars
  <1>2. CASE MakeFrame
    <2>1. content' = content /\ running' = running
      BY <1>2 DEF MakeFrame, queueVars
    <2>2. \A q \in Queues : out'[q] = out[q]
      BY <1>2, GraphAssumption DEF MakeFrame, Nodes
    <2> QED BY <2>1, <2>2 DEF Promise!vars
  <1>3. ASSUME NEW n \in Nodes, DropFrame(n) PROVE [Promise!Next]_Promise!vars
    <2>1. /\ content' = content /\ running' = running
          /\ out' = [out EXCEPT ![n] = NoFrame] /\ out[n] # NoFrame
      BY <1>3 DEF DropFrame, queueVars
    <2>2. CASE n = Source
      <3>1. \A q \in Queues : out'[q] = out[q]
        BY <2>1, <2>2, GraphAssumption DEF Nodes
      <3> QED BY <2>1, <3>1 DEF Promise!vars
    <2>3. CASE n # Source
      <3>1. n \in Queues
        BY <2>3 DEF Nodes
      <3>2. Promise!Done(n)
        BY <2>1, <3>1 DEF Promise!Done, Nodes
      <3> QED BY <3>1, <3>2 DEF Promise!Next
    <2> QED BY <2>2, <2>3
  <1>4. ASSUME NEW q \in Queues, Mainloop(q) PROVE [Promise!Next]_Promise!vars
    <2>1. CASE UNCHANGED <<content, out>>
      BY <1>1, <1>4, <2>1 DEF Mainloop
    <2>2. CASE /\ content[q] # <<>>
               /\ out' = [out EXCEPT ![q] = Head(content[q])]
               /\ content' = [content EXCEPT ![q] = Tail(@)]
      <3>1. running' = running /\ out[q] = NoFrame
        BY <1>4 DEF Mainloop
      <3>2. Promise!Get(q)
        BY <2>2, <3>1 DEF Promise!Get, Nodes
      <3> QED BY <3>2 DEF Promise!Next
    <2> QED BY <1>4, <2>1, <2>2 DEF Mainloop, queueVars
  <1>5. ASSUME NEW n \in Nodes, BreakApart(n) PROVE [Promise!Next]_Promise!vars
    <2>1. running' = [running EXCEPT ![n] = FALSE] /\ out' = out
      BY <1>5 DEF BreakApart
    <2>2. CASE n = Source
      <3>1. content' = content
        BY <1>5, <2>2 DEF BreakApart
      <3>2. \A q \in Queues : running'[q] = running[q]
        BY <2>1, <2>2, GraphAssumption DEF Nodes
      <3> QED BY <2>1, <3>1, <3>2 DEF Promise!vars
    <2>3. CASE n # Source
      <3>1. n \in Queues /\ content' = [content EXCEPT ![n] = <<>>]
        BY <1>5, <2>3 DEF BreakApart, Nodes
      <3>2. CASE running[n]
        <4>1. Promise!Close(n)
          BY <2>1, <3>1, <3>2 DEF Promise!Close, Nodes
        <4> QED BY <3>1, <4>1 DEF Promise!Next
      <3>3. CASE ~running[n]
        <4>1. content' = content /\ running' = running
          BY <2>1, <3>1, <3>3
        <4> QED BY <2>1, <4>1, <1>1
      <3> QED BY <3>2, <3>3
    <2> QED BY <2>2, <2>3
  <1>6. CASE DestroyNodes \/ JoinThread \/ \E n \in Nodes : DestroyNode(n)
    BY <1>1, <1>6 DEF DestroyNodes, JoinThread, DestroyNode, queueVars
  <1>7. CASE \E q \in Queues : SpuriousWakeUp(q)
    BY <1>1, <1>7 DEF SpuriousWakeUp, queueVars
  <1>8. CASE UNCHANGED vars
    BY <1>1, <1>8 DEF vars, queueVars
  <1> QED BY <1>2, <1>3, <1>4, <1>5, <1>6, <1>7, <1>8, QueueFrameStep
          DEF Next, ThreadStep, ContextStep

\* The sinks start as the abstract queues do.
LEMMA InitRefines == Init => Promise!Init
  BY DEF Init, Promise!Init, Nodes

\* Both kinds of queueing sink, in any graph, implement the bounded, lossy, in-order
\* queue of FrameQueue: queue_frame puts a frame in at the back and drops the oldest
\* of a full queue, the thread takes the oldest and has one at a time, and breaking
\* the node apart drops all.
THEOREM QueuesImplementPromise == Spec => QueuesKeepPromise
  <1>1. Spec => []IInv
    BY InitIInv, NextIInv, PTL DEF Spec
  <1> QED BY <1>1, InitRefines, StepRefines, PTL DEF Spec, QueuesKeepPromise, Promise!Spec

-----------------------------------------------------------------------------
(* Tearing the graph down.                                                 *)

\* Node n is stopped and its thread has ended, which lasts.
Over(n) == ~running[n] /\ Ended(n)

\* The nodes that are no longer left have been joined; the one being joined has been
\* told to stop; and all are over before the first is destroyed.
EndInv ==
  /\ phase \in {"live", "breaking", "joining", "destroying", "gone"}
  /\ left \subseteq Nodes /\ joining \in Nodes
  /\ phase = "live" => left = Nodes
  /\ phase \in {"breaking", "joining"} => \A n \in Nodes \ left : Over(n)
  /\ phase = "joining" => joining \in left /\ ~running[joining]
  /\ phase \in {"destroying", "gone"} => \A n \in Nodes : Over(n)

\* Every step keeps it: a node that is over stays so.
LEMMA EndStep ==
  ASSUME IInv, EndInv, [Next]_vars
  PROVE  EndInv'
<1> USE DEF IInv, QueueTypes, QueueShape
<1>0. \A n \in Nodes : n # Source => n \in Queues
  BY DEF Nodes
<1>1. ASSUME NEW n \in Nodes, Over(n)
      PROVE  /\ ~running[n] /\ out[n] = NoFrame /\ todo[n] = <<>>
             /\ n # Source => pc[n] = "exited"
  BY <1>0, <1>1 DEF Over, Ended
<1>2. ASSUME NEW n \in Nodes, Over(n) PROVE Over(n)'
  <2>0. ~running[n] /\ out[n] = NoFrame /\ todo[n] = <<>> /\ (n # Source => pc[n] = "exited")
    BY <1>1, <1>2
  <2>1. CASE MakeFrame
    BY <2>0, <2>1 DEF MakeFrame, Over, Ended, Nodes
  <2>2. ASSUME NEW m \in Nodes, QueueFrame(m) PROVE Over(n)'
    <3>1. running' = running /\ out' = out /\ pc' = Signal(Head(todo[m]))
      BY <2>2 DEF QueueFrame
    <3>2. n # Source => pc'[n] = "exited"
      BY <1>0, <2>0, <3>1 DEF Signal
    <3> QED
      BY <2>0, <3>1, <3>2 DEF Over, Ended
  <2>3. ASSUME NEW m \in Nodes, DropFrame(m) PROVE Over(n)'
    BY <1>0, <2>0, <2>3 DEF DropFrame, Over, Ended
  <2>4. ASSUME NEW q \in Queues, Mainloop(q) \/ SpuriousWakeUp(q) PROVE Over(n)'
    BY <1>0, <2>0, <2>4, GraphAssumption DEF Mainloop, SpuriousWakeUp, Over, Ended
  <2>5. ASSUME NEW m \in Nodes, BreakApart(m) PROVE Over(n)'
    <3>1. running' = [running EXCEPT ![m] = FALSE] /\ out' = out
          /\ (pc' = pc \/ pc' = Signal(m))
      BY <2>5 DEF BreakApart
    <3>2. n # Source => pc'[n] = "exited"
      BY <1>0, <2>0, <3>1 DEF Signal
    <3> QED
      BY <2>0, <3>1, <3>2 DEF Over, Ended
  <2>6. CASE UNCHANGED <<running, pc, out>>
    BY <2>0, <2>6 DEF Over, Ended
  <2> QED
    BY <2>1, <2>2, <2>3, <2>4, <2>5, <2>6
       DEF Next, ThreadStep, ContextStep, DestroyNodes, JoinThread, DestroyNode, vars
<1>3. ASSUME UNCHANGED contextVars, \A n \in Nodes : ~running[n] => ~running'[n] PROVE EndInv'
  BY <1>2, <1>3 DEF EndInv, contextVars
<1>4. CASE MakeFrame
  BY <1>3, <1>4 DEF MakeFrame
<1>5. ASSUME NEW n \in Nodes, ThreadStep(n) PROVE EndInv'
  BY <1>3, <1>5 DEF ThreadStep, QueueFrame, DropFrame
<1>6. ASSUME NEW q \in Queues, Mainloop(q) \/ SpuriousWakeUp(q) PROVE EndInv'
  BY <1>3, <1>6 DEF Mainloop, SpuriousWakeUp
<1>7. CASE DestroyNodes
  BY <1>2, <1>7 DEF DestroyNodes, EndInv
<1>8. ASSUME NEW n \in Nodes, BreakApart(n) PROVE EndInv'
  <2>1. phase = "breaking" /\ n \in left /\ phase' = "joining" /\ joining' = n
        /\ left' = left /\ running' = [running EXCEPT ![n] = FALSE]
    BY <1>8 DEF BreakApart
  <2> QED
    BY <1>2, <2>1 DEF EndInv
<1>9. CASE JoinThread
  <2>1. phase = "joining" /\ joining' = joining
        /\ left' = (IF left = {joining} THEN Nodes ELSE left \ {joining})
        /\ phase' = (IF left = {joining} THEN "destroying" ELSE "breaking")
    BY <1>9 DEF JoinThread
  <2>2. Over(joining)
    BY <1>9, <2>1 DEF EndInv, Over, JoinThread
  <2> QED
    BY <1>2, <2>1, <2>2 DEF EndInv
<1>10. ASSUME NEW n \in Nodes, DestroyNode(n) PROVE EndInv'
  <2>1. phase = "destroying" /\ phase' \in {"destroying", "gone"}
        /\ left' \subseteq left /\ joining' = joining
    BY <1>10 DEF DestroyNode
  <2> QED
    BY <1>2, <2>1 DEF EndInv
<1>11. CASE UNCHANGED vars
  BY <1>3, <1>11 DEF vars
<1> QED
  BY <1>4, <1>5, <1>6, <1>7, <1>8, <1>9, <1>10, <1>11 DEF Next, ContextStep

\* Nobody is in a queue that is destroyed.
LEMMA OverUnused ==
  ASSUME IInv, EndInv
  PROVE  NoUseAfterDestroy
<1> SUFFICES ASSUME phase \in {"destroying", "gone"}
             PROVE  (\A q \in Queues : pc[q] = "exited") /\ \A n \in Nodes : todo[n] = <<>>
  BY DEF NoUseAfterDestroy
<1>1. \A n \in Nodes : Ended(n)
  BY DEF EndInv, Over
<1>2. ASSUME NEW q \in Queues PROVE pc[q] = "exited"
  BY <1>1, GraphAssumption DEF Ended, Nodes
<1>3. ASSUME NEW n \in Nodes PROVE todo[n] = <<>>
  <2>1. out[n] = NoFrame
    BY <1>1, <1>2 DEF Ended, Nodes, IInv, QueueShape
  <2> QED
    BY <2>1 DEF IInv, QueueShape
<1> QED
  BY <1>2, <1>3

\* When the frame context destroys the first node no thread runs in any queue, and no
\* thread is about to push a frame into one: for every graph, every order of breaking
\* the nodes apart, and every moment at which that starts.
THEOREM NoUseAfterDestroyHolds == Spec => []NoUseAfterDestroy
<1>1. Init => EndInv
  BY DEF Init, EndInv, Nodes
<1>2. Spec => []IInv
  BY InitIInv, NextIInv, PTL DEF Spec
<1>3. IInv /\ EndInv /\ [Next]_vars => EndInv'
  BY EndStep
<1>4. IInv /\ EndInv => NoUseAfterDestroy
  BY OverUnused
<1> QED
  BY <1>1, <1>2, <1>3, <1>4, PTL DEF Spec

-----------------------------------------------------------------------------
(* The numbers of the simple queues.                                       *)

\* The thread is never ahead, and is behind exactly when there is a frame.
SeqInv ==
  /\ current \in [Queues -> Nat] /\ last \in [Queues -> Nat]
  /\ \A q \in Queues : last[q] <= current[q]
  /\ SeqMatchesFrame

\* Every step keeps the numbers right.
LEMMA SeqStep ==
  ASSUME IInv, SeqInv, [Next]_vars
  PROVE  SeqInv'
<1> USE DEF SeqInv, SeqMatchesFrame
<1>0. Simple \subseteq Queues /\ Queues \subseteq Nodes
  BY GraphAssumption DEF Nodes
<1>1. ASSUME UNCHANGED queueVars, running' = running PROVE SeqInv'
  BY <1>1 DEF queueVars
<1>2. ASSUME NEW n \in Nodes, QueueFrame(n) PROVE SeqInv'
  <2> DEFINE q == Head(todo[n])
             f == out[n]
  <2>1. running' = running /\ q \in Queues
    BY <1>2 DEF QueueFrame, IInv, QueueTypes
  <2>2. CASE ~running[q]
    BY <1>1, <1>2, <2>1, <2>2 DEF QueueFrame
  <2>3. CASE running[q] /\ q \in Simple
    <3>1. content' = [content EXCEPT ![q] = <<f>>] /\ current' = [current EXCEPT ![q] = @ + 1]
          /\ last' = last
      BY <1>2, <2>3 DEF QueueFrame, Replace
    <3>2. <<f>> # <<>>
      OBVIOUS
    <3>3. content \in [Queues -> Seq(Frames)]
      BY DEF IInv, QueueTypes
    <3> HIDE DEF q, f
    <3>4. content'[q] # <<>> /\ last'[q] < current'[q]
      BY <2>1, <3>1, <3>2, <3>3
    <3>5. ASSUME NEW p \in Queues, p # q
          PROVE  content'[p] = content[p] /\ last'[p] = last[p] /\ current'[p] = current[p]
      BY <3>1, <3>3, <3>5
    <3>6. current' \in [Queues -> Nat] /\ last' \in [Queues -> Nat]
      BY <2>1, <3>1
    <3>7. ASSUME NEW p \in Queues PROVE last'[p] <= current'[p]
      <4>1. last'[p] \in Nat /\ current'[p] \in Nat
        BY <3>6
      <4>2. CASE p = q
        BY <3>4, <4>1, <4>2
      <4>3. CASE p # q
        BY <3>5, <4>3
      <4> QED
        BY <4>2, <4>3
    <3> QED
      BY <1>0, <2>1, <3>4, <3>5, <3>6, <3>7
  <2>4. CASE running[q] /\ q \notin Simple
    <3>1. /\ current' = current /\ last' = last
          /\ \A p \in Queues : p # q => content'[p] = content[p]
      BY <1>2, <2>4 DEF QueueFrame, TryRefPush, IInv, QueueTypes
    <3> QED
      BY <1>0, <2>1, <2>4, <3>1
  <2> QED
    BY <2>2, <2>3, <2>4
<1>3. ASSUME NEW q \in Queues, Mainloop(q) PROVE SeqInv'
  <2>1. CASE UNCHANGED queueVars
    BY <1>1, <1>3, <2>1 DEF Mainloop
  <2>2. CASE /\ content[q] # <<>> /\ content' = [content EXCEPT ![q] = Tail(@)]
             /\ last' = (IF q \in Simple THEN [last EXCEPT ![q] = current[q]] ELSE last)
             /\ current' = current
    <3>1. running' = running /\ content \in [Queues -> Seq(Frames)]
      BY <1>3 DEF Mainloop, IInv, QueueTypes
    <3>2. q \in Simple => content'[q] = <<>>
      <4>1. q \in Simple => Len(content[q]) <= 1
        BY DEF IInv, QueueShape
      <4>2. Tail(content[q]) \in Seq(Frames) /\ Len(Tail(content[q])) = Len(content[q]) - 1
            /\ Len(content[q]) \in Nat
        BY <2>2, <3>1
      <4>3. q \in Simple => Tail(content[q]) = <<>>
        BY <4>1, <4>2, EmptySeq
      <4> QED
        BY <2>2, <3>1, <4>3
    <3>3. \A p \in Queues : p # q => content'[p] = content[p] /\ last'[p] = last[p]
      BY <2>2, <3>1
    <3>4. last' \in [Queues -> Nat] /\ (q \in Simple => last'[q] = current[q])
          /\ (q \notin Simple => last' = last)
      BY <2>2
    <3> QED
      BY <1>0, <2>2, <3>1, <3>2, <3>3, <3>4
  <2> QED
    BY <1>3, <2>1, <2>2 DEF Mainloop
<1>4. ASSUME NEW n \in Nodes, BreakApart(n) PROVE SeqInv'
  <2>1. /\ running' = [running EXCEPT ![n] = FALSE] /\ current' = current /\ last' = last
        /\ content' = content \/ content' = [content EXCEPT ![n] = <<>>]
    BY <1>4 DEF BreakApart
  <2>2. running \in [Nodes -> BOOLEAN] /\ content \in [Queues -> Seq(Frames)]
    BY DEF IInv, QueueTypes
  <2>3. ASSUME NEW p \in Queues, running'[p] PROVE running[p] /\ content'[p] = content[p]
    BY <1>0, <2>1, <2>2, <2>3
  <2> QED
    BY <1>0, <2>1, <2>3
<1>5. CASE MakeFrame
  BY <1>1, <1>5 DEF MakeFrame
<1>6. ASSUME NEW n \in Nodes, DropFrame(n) PROVE SeqInv'
  BY <1>1, <1>6 DEF DropFrame
<1>7. ASSUME NEW q \in Queues, SpuriousWakeUp(q) PROVE SeqInv'
  BY <1>1, <1>7 DEF SpuriousWakeUp
<1>8. CASE DestroyNodes \/ JoinThread \/ \E n \in Nodes : DestroyNode(n)
  BY <1>1, <1>8 DEF DestroyNodes, JoinThread, DestroyNode
<1>9. CASE UNCHANGED vars
  BY <1>1, <1>9 DEF vars
<1> QED
  BY <1>2, <1>3, <1>4, <1>5, <1>6, <1>7, <1>8, <1>9 DEF Next, ThreadStep, ContextStep

-----------------------------------------------------------------------------
(* The order of the frames and their references.                           *)

\* Each queue has one node upstream that pushes each frame to it once.
Tree ==
  /\ \A n, m \in Nodes :
       Elements(Down[n]) \intersect Elements(Down[m]) # {} => n = m
  /\ \A n \in Nodes : \A i, j \in DOMAIN Down[n] : Down[n][i] = Down[n][j] => i = j

\* Nothing is pushed to one queue twice.
Injective(s) == \A i, j \in DOMAIN s : s[i] = s[j] => i = j

\* Each frame is newer than those before it.
Increasing(s) == \A i, j \in DOMAIN s : i < j => s[i] < s[j]

\* h[q] is a frame no newer than any that queue q may still be given, and no older
\* than any it has been given.
Ordered(h) ==
  /\ h \in [Nodes -> 0..MaxFrames]
  /\ h[Source] = made /\ \A n \in Nodes : h[n] <= made
  /\ \A n \in Nodes : out[n] <= h[n]
  /\ \A q \in Queues : \A f \in Elements(content[q]) : f <= h[q]
  /\ \A n \in Nodes : \A q \in Elements(Down[n]) :
       /\ h[q] <= h[n]
       /\ n \in Queues => \A f \in Elements(content[n]) : h[q] < f
       /\ out[n] # NoFrame => h[q] <= out[n]
       /\ q \in Elements(todo[n]) => h[q] < out[n]

OrderInv ==
  /\ \A n \in Nodes : Elements(todo[n]) \subseteq Elements(Down[n]) /\ Injective(todo[n])
  /\ FramesInOrder
  /\ \E h \in [Nodes -> 0..MaxFrames] : Ordered(h)

CountInv ==
  /\ refs \in [Frames -> Nat]
  /\ \A f \in Frames : refs[f] = Cardinality(Holders(f)) + Cardinality(Hands(f))

\* The elements of a sequence of frames.
LEMMA ElementsType ==
  ASSUME NEW s \in Seq(Frames)
  PROVE  Elements(s) \subseteq Frames
BY DEF Elements

\* A newer frame at the back.
LEMMA AppendIncreasing ==
  ASSUME NEW s \in Seq(Frames), NEW f \in Frames, Increasing(s),
         \A g \in Elements(s) : g < f
  PROVE  /\ Append(s, f) \in Seq(Frames) /\ Increasing(Append(s, f))
         /\ Elements(Append(s, f)) = Elements(s) \union {f}
<1> DEFINE t == Append(s, f)
<1>1. /\ t \in Seq(Frames) /\ Len(t) = Len(s) + 1 /\ Len(s) \in Nat /\ t[Len(s) + 1] = f
  OBVIOUS
<1>2. \A k \in 1..Len(s) : t[k] = s[k]
  OBVIOUS
<1> HIDE DEF t
<1>3. DOMAIN s = 1..Len(s) /\ DOMAIN t = 1..(Len(s) + 1)
  BY <1>1
<1>4. \A k \in 1..Len(s) : s[k] < f
  BY <1>3 DEF Elements
<1>5. Increasing(t)
  <2> SUFFICES ASSUME NEW i \in 1..(Len(s) + 1), NEW j \in 1..(Len(s) + 1), i < j
               PROVE  t[i] < t[j]
    BY <1>3 DEF Increasing
  <2>1. i \in 1..Len(s) /\ (j \in 1..Len(s) \/ j = Len(s) + 1)
    BY <1>1
  <2> QED
    BY <1>1, <1>2, <1>3, <1>4, <2>1 DEF Increasing
<1>6. Elements(t) = Elements(s) \union {f}
  <2>1. 1..(Len(s) + 1) = (1..Len(s)) \union {Len(s) + 1}
    BY <1>1
  <2> QED
    BY <1>1, <1>2, <1>3, <2>1 DEF Elements
<1> QED
  BY <1>1, <1>5, <1>6 DEF t

\* The oldest frame is taken from the front.
LEMMA TailIncreasing ==
  ASSUME NEW s \in Seq(Frames), s # <<>>, Increasing(s)
  PROVE  /\ Tail(s) \in Seq(Frames) /\ Increasing(Tail(s))
         /\ Head(s) \in Elements(s) /\ Head(s) \in Frames
         /\ \A g \in Elements(Tail(s)) : Head(s) < g
         /\ Elements(Tail(s)) = Elements(s) \ {Head(s)}
<1>1. /\ Tail(s) \in Seq(Frames) /\ Len(Tail(s)) = Len(s) - 1 /\ Len(s) \in Nat \ {0}
      /\ Head(s) = s[1] /\ Head(s) \in Frames
  BY EmptySeq
<1>2. \A k \in 1..(Len(s) - 1) : Tail(s)[k] = s[k + 1] /\ k + 1 \in 1..Len(s)
  BY <1>1
<1>3. DOMAIN s = 1..Len(s) /\ DOMAIN Tail(s) = 1..(Len(s) - 1) /\ 1 \in 1..Len(s)
  BY <1>1
<1>4. Increasing(Tail(s))
  <2> SUFFICES ASSUME NEW i \in 1..(Len(s) - 1), NEW j \in 1..(Len(s) - 1), i < j
               PROVE  Tail(s)[i] < Tail(s)[j]
    BY <1>3 DEF Increasing
  <2>1. i + 1 < j + 1
    BY <1>1
  <2> QED
    BY <1>2, <1>3, <2>1 DEF Increasing
<1>5. Head(s) \in Elements(s)
  BY <1>1, <1>3 DEF Elements
<1>6. ASSUME NEW g \in Elements(Tail(s)) PROVE Head(s) < g /\ g \in Elements(s)
  <2>1. PICK k \in 1..(Len(s) - 1) : g = Tail(s)[k]
    BY <1>3 DEF Elements
  <2>2. 1 < k + 1 /\ k + 1 \in 1..Len(s) /\ g = s[k + 1]
    BY <1>1, <1>2, <2>1
  <2> QED
    BY <1>1, <1>3, <2>2 DEF Elements, Increasing
<1>7. ASSUME NEW g \in Elements(s), g # Head(s) PROVE g \in Elements(Tail(s))
  <2>1. PICK k \in 1..Len(s) : g = s[k]
    BY <1>3 DEF Elements
  <2>2. k # 1
    BY <1>1, <1>7, <2>1
  <2>3. k - 1 \in 1..(Len(s) - 1) /\ (k - 1) + 1 = k
    BY <1>1, <2>1, <2>2
  <2>4. g = Tail(s)[k - 1]
    BY <1>2, <2>1, <2>3
  <2> QED
    BY <1>3, <2>3, <2>4 DEF Elements
<1>8. Head(s) \notin Elements(Tail(s))
  BY <1>1, <1>6 DEF Frames
<1> QED
  BY <1>1, <1>4, <1>5, <1>6, <1>7, <1>8

\* What a push does to the queue and to the references: the frame, which is newer than
\* all the queue had, comes in, and what is dropped leaves.
LEMMA PushEffect ==
  ASSUME IInv, OrderInv, NEW n \in Nodes, QueueFrame(n), running[Head(todo[n])]
  PROVE  \E s \in Seq(Frames) : \E D \in SUBSET Elements(content[Head(todo[n])]) :
           /\ content' = [content EXCEPT ![Head(todo[n])] = s]
           /\ Increasing(s)
           /\ Elements(s) = (Elements(content[Head(todo[n])]) \ D) \union {out[n]}
           /\ out[n] \notin Elements(content[Head(todo[n])])
           /\ refs' = [g \in Frames |-> refs[g] + (IF g = out[n] THEN 1 ELSE 0)
                                                - (IF g \in D THEN 1 ELSE 0)]
<1> DEFINE q == Head(todo[n])
           f == out[n]
           c == content[q]
<1>1. q \in Queues /\ todo[n] \in Seq(Queues) /\ todo[n] # <<>> /\ f \in Frames
      /\ c \in Seq(Frames)
  BY DEF QueueFrame, IInv, QueueTypes, QueueShape
<1>2. q \in Elements(todo[n])
  BY <1>1 DEF Elements
<1>3. Increasing(c)
  BY <1>1 DEF OrderInv, FramesInOrder, Increasing
<1>4. \A g \in Elements(c) : g < f
  <2>1. PICK h \in [Nodes -> 0..MaxFrames] : Ordered(h)
    BY DEF OrderInv
  <2>2. h[q] < f
    BY <1>2, <2>1 DEF OrderInv, Ordered
  <2>3. \A g \in Elements(c) : g <= h[q]
    BY <1>1, <2>1 DEF Ordered
  <2>4. h[q] \in Int /\ f \in Int
    BY <1>1, <2>1 DEF Frames, Nodes
  <2>5. Elements(c) \subseteq Int
    <3> HIDE DEF c
    <3> QED
      BY <1>1, ElementsType DEF Frames
  <2> QED
    BY <2>2, <2>3, <2>4, <2>5
<1> HIDE DEF q, f, c
<1>0. f \notin Elements(c)
  BY <1>1, <1>4 DEF Frames
<1>5. CASE q \in Simple
  <2>1. /\ content' = [content EXCEPT ![q] = <<f>>]
        /\ refs' = [g \in Frames |-> refs[g] + (IF g = f THEN 1 ELSE 0)
                                             - (IF g \in Elements(c) THEN 1 ELSE 0)]
    BY <1>5 DEF QueueFrame, Replace, q, f, c
  <2>2. <<f>> \in Seq(Frames) /\ DOMAIN <<f>> = {1} /\ <<f>>[1] = f
    BY <1>1
  <2>3. Increasing(<<f>>) /\ Elements(<<f>>) = (Elements(c) \ Elements(c)) \union {f}
    BY <2>2 DEF Increasing, Elements
  <2> QED
    BY <1>0, <2>1, <2>2, <2>3 DEF q, f, c
<1>6. CASE q \notin Simple /\ IsFull(q)
  <2>1. /\ content' = [content EXCEPT ![q] = Append(Tail(c), f)]
        /\ refs' = [g \in Frames |-> refs[g] + (IF g = f THEN 1 ELSE 0)
                                             - (IF g \in {Head(c)} THEN 1 ELSE 0)]
    BY <1>6 DEF QueueFrame, TryRefPush, q, f, c
  <2>2. c # <<>>
    <3>1. MaxSize[q] \in Nat /\ MaxSize[q] # 0 /\ Len(c) >= MaxSize[q]
      BY <1>1, <1>6, GraphAssumption DEF IsFull, c
    <3>2. Len(<<>>) = 0
      OBVIOUS
    <3> QED
      BY <3>1, <3>2
  <2>3. /\ Tail(c) \in Seq(Frames) /\ Increasing(Tail(c)) /\ Head(c) \in Elements(c)
        /\ Elements(Tail(c)) = Elements(c) \ {Head(c)}
    BY <1>1, <1>3, <2>2, TailIncreasing
  <2>4. \A g \in Elements(Tail(c)) : g < f
    BY <1>4, <2>3
  <2>5. /\ Append(Tail(c), f) \in Seq(Frames) /\ Increasing(Append(Tail(c), f))
        /\ Elements(Append(Tail(c), f)) = (Elements(c) \ {Head(c)}) \union {f}
    BY <1>1, <2>3, <2>4, AppendIncreasing
  <2>6. {Head(c)} \in SUBSET Elements(c)
    BY <2>3
  <2> QED
    BY <1>0, <2>1, <2>5, <2>6 DEF q, f, c
<1>7. CASE q \notin Simple /\ ~IsFull(q)
  <2> DEFINE D == {}
  <2>1. /\ content' = [content EXCEPT ![q] = Append(c, f)]
        /\ refs' = [g \in Frames |-> refs[g] + (IF g = f THEN 1 ELSE 0)
                                             - (IF g \in D THEN 1 ELSE 0)]
    BY <1>7 DEF QueueFrame, TryRefPush, q, f, c
  <2>2. /\ Append(c, f) \in Seq(Frames) /\ Increasing(Append(c, f))
        /\ Elements(Append(c, f)) = (Elements(c) \ D) \union {f}
    BY <1>1, <1>3, <1>4, AppendIncreasing
  <2>3. D \in SUBSET Elements(c)
    OBVIOUS
  <2> HIDE DEF D
  <2> QED
    BY <1>0, <2>1, <2>2, <2>3 DEF q, f, c
<1> QED
  BY <1>5, <1>6, <1>7

\* The queues still to be pushed to, without the first.
LEMMA TailInjective ==
  ASSUME NEW s \in Seq(Queues), s # <<>>, Injective(s)
  PROVE  /\ Injective(Tail(s)) /\ Elements(Tail(s)) \subseteq Elements(s)
         /\ Head(s) \in Elements(s) /\ Head(s) \notin Elements(Tail(s))
<1>1. /\ Tail(s) \in Seq(Queues) /\ Len(Tail(s)) = Len(s) - 1 /\ Len(s) \in Nat \ {0}
      /\ Head(s) = s[1]
  BY EmptySeq
<1>2. \A k \in 1..(Len(s) - 1) : Tail(s)[k] = s[k + 1] /\ k + 1 \in 1..Len(s) /\ k + 1 # 1
  BY <1>1
<1>3. DOMAIN s = 1..Len(s) /\ DOMAIN Tail(s) = 1..(Len(s) - 1) /\ 1 \in 1..Len(s)
  BY <1>1
<1>4. Injective(Tail(s))
  <2> SUFFICES ASSUME NEW i \in 1..(Len(s) - 1), NEW j \in 1..(Len(s) - 1),
                      Tail(s)[i] = Tail(s)[j]
               PROVE  i = j
    BY <1>3 DEF Injective
  <2>1. i + 1 = j + 1
    BY <1>2, <1>3 DEF Injective
  <2> QED
    BY <2>1
<1>5. Elements(Tail(s)) \subseteq Elements(s)
  BY <1>2, <1>3 DEF Elements
<1>6. Head(s) \in Elements(s) /\ Head(s) \notin Elements(Tail(s))
  BY <1>1, <1>2, <1>3 DEF Elements, Injective
<1> QED
  BY <1>4, <1>5, <1>6

\* A push to a queue that runs keeps the order.
LEMMA PushOrder ==
  ASSUME Tree, IInv, OrderInv, NEW n \in Nodes, QueueFrame(n), running[Head(todo[n])]
  PROVE  OrderInv'
<1> DEFINE q == Head(todo[n])
           f == out[n]
<1>1. /\ q \in Queues /\ q \in Nodes /\ todo[n] \in Seq(Queues) /\ todo[n] # <<>>
      /\ f \in Frames /\ f # NoFrame /\ f \in 0..MaxFrames
  BY DEF QueueFrame, IInv, QueueTypes, QueueShape, Nodes, NoFrame, Frames
<1>2. out' = out /\ made' = made /\ todo' = [todo EXCEPT ![n] = Tail(todo[n])]
  BY DEF QueueFrame
<1>3. PICK s \in Seq(Frames), D \in SUBSET Elements(content[q]) :
        /\ content' = [content EXCEPT ![q] = s]
        /\ Increasing(s)
        /\ Elements(s) = (Elements(content[q]) \ D) \union {f}
  BY PushEffect
<1>4. PICK h \in [Nodes -> 0..MaxFrames] : Ordered(h)
  BY DEF OrderInv
<1>5. /\ Injective(Tail(todo[n])) /\ Elements(Tail(todo[n])) \subseteq Elements(todo[n])
      /\ q \in Elements(todo[n]) /\ q \notin Elements(Tail(todo[n]))
  BY <1>1, TailInjective DEF OrderInv
<1>6. q \in Elements(Down[n]) /\ h[q] < f /\ f <= h[n] /\ h[n] <= made
  BY <1>4, <1>5 DEF OrderInv, Ordered
<1>7. \A m \in Nodes : q \in Elements(Down[m]) => m = n
  BY <1>6 DEF Tree
<1>8. content \in [Queues -> Seq(Frames)] /\ todo \in [Nodes -> Seq(Queues)]
      /\ out \in [Nodes -> Frames \union {NoFrame}]
  BY DEF IInv, QueueTypes
<1>9. \A m \in Nodes : Elements(Down[m]) \subseteq Queues
  <2>1. \A t \in Seq(Queues) : Elements(t) \subseteq Queues
    BY DEF Elements
  <2> QED
    BY <2>1, GraphAssumption DEF Nodes
<1>10. \A m \in Nodes : h[m] \in Int /\ out[m] \in Int
  BY <1>4, <1>8 DEF Frames, NoFrame
<1>11. \A p \in Queues : Elements(content[p]) \subseteq Int
  BY <1>8, ElementsType DEF Frames
<1> HIDE DEF q, f
<1>12. /\ \A m \in Nodes : m # n => todo'[m] = todo[m]
       /\ todo'[n] = Tail(todo[n])
       /\ \A p \in Queues : p # q => content'[p] = content[p]
       /\ content'[q] = s
  BY <1>1, <1>2, <1>3, <1>8
<1>13. \A m \in Nodes : Elements(todo'[m]) \subseteq Elements(Down[m]) /\ Injective(todo'[m])
  BY <1>5, <1>12 DEF OrderInv
<1>14. FramesInOrder'
  <2>1. ASSUME NEW p \in Queues
        PROVE  /\ \A i, j \in DOMAIN content'[p] : i < j => content'[p][i] < content'[p][j]
               /\ \A g \in Elements(content'[p]) : out'[p] < g
    <3>1. CASE p # q
      BY <1>2, <1>12, <3>1 DEF OrderInv, FramesInOrder
    <3>2. CASE p = q
      <4>1. out[q] <= h[q]
        BY <1>1, <1>4 DEF Ordered
      <4>2. out[q] < f
        BY <1>1, <1>6, <1>10, <4>1 DEF Frames
      <4>3. \A g \in Elements(content[q]) : out[q] < g
        BY <1>1 DEF OrderInv, FramesInOrder
      <4> QED
        BY <1>2, <1>3, <1>12, <3>2, <4>2, <4>3 DEF Increasing
    <3> QED
      BY <3>1, <3>2
  <2> QED
    BY <2>1 DEF FramesInOrder
<1>15. PICK k \in [Nodes -> 0..MaxFrames] :
         k[q] = f /\ \A m \in Nodes : m # q => k[m] = h[m]
  <2>1. [h EXCEPT ![q] = f] \in [Nodes -> 0..MaxFrames]
    BY <1>1, <1>4
  <2> QED
    BY <1>1, <1>4, <2>1
<1>16. f \in Int /\ made \in Int
  BY <1>1 DEF IInv, QueueTypes, Frames
<1>17. k[Source] = made /\ \A m \in Nodes : k[m] <= made
  <2>1. Source \in Nodes /\ Source # q
    BY <1>1, GraphAssumption DEF Nodes
  <2>2. f <= made
    BY <1>6, <1>10, <1>16
  <2> QED
    BY <1>4, <1>15, <2>1, <2>2 DEF Ordered
<1>18. \A m \in Nodes : out[m] <= k[m]
  <2>1. out[q] <= f
    BY <1>1, <1>4, <1>6, <1>10, <1>16 DEF Ordered
  <2> QED
    BY <1>4, <1>15, <2>1 DEF Ordered
<1>19. ASSUME NEW p \in Queues, NEW g \in Elements(content'[p]) PROVE g <= k[p]
  <2>1. CASE p # q
    <3>1. p \in Nodes
      BY DEF Nodes
    <3> QED
      BY <1>4, <1>12, <1>15, <2>1, <3>1 DEF Ordered
  <2>2. CASE p = q
    <3>1. \A e \in Elements(content[q]) : e <= h[q] /\ e \in Int
      BY <1>1, <1>4, <1>11 DEF Ordered
    <3>2. \A e \in Elements(content[q]) : e <= f
      BY <1>1, <1>6, <1>10, <1>16, <3>1
    <3> QED
      BY <1>3, <1>12, <1>15, <1>16, <2>2, <3>2
  <2> QED
    BY <2>1, <2>2
<1>20. ASSUME NEW m \in Nodes, NEW p \in Elements(Down[m])
       PROVE  /\ k[p] <= k[m]
              /\ m \in Queues => \A g \in Elements(content'[m]) : k[p] < g
              /\ out[m] # NoFrame => k[p] <= out[m]
              /\ p \in Elements(todo'[m]) => k[p] < out[m]
  <2>1. /\ h[p] <= h[m]
        /\ m \in Queues => \A g \in Elements(content[m]) : h[p] < g
        /\ out[m] # NoFrame => h[p] <= out[m]
        /\ p \in Elements(todo[m]) => h[p] < out[m]
    BY <1>4 DEF Ordered
  <2>2. p \in Queues /\ p \in Nodes
    BY <1>9 DEF Nodes
  <2>3. Elements(todo'[m]) \subseteq Elements(todo[m])
    BY <1>5, <1>12
  <2>4. n # q
    <3>1. out[n] <= h[n]
      BY <1>4 DEF Ordered
    <3> QED
      BY <1>1, <1>6, <1>10, <1>16, <3>1 DEF f
  <2>5. CASE p = q
    <3>1. m = n /\ k[p] = f
      BY <1>7, <1>15, <2>5
    <3>2. k[p] <= k[m] /\ k[p] <= out[m]
      BY <1>6, <1>15, <1>16, <2>4, <3>1 DEF f
    <3>3. p \notin Elements(todo'[m])
      BY <1>5, <1>12, <2>5, <3>1
    <3>4. m \in Queues => \A g \in Elements(content'[m]) : k[p] < g
      BY <1>12, <2>4, <3>1 DEF OrderInv, FramesInOrder, f
    <3> QED
      BY <3>2, <3>3, <3>4
  <2>6. CASE p # q /\ m # q
    <3>1. k[p] = h[p] /\ k[m] = h[m]
      BY <1>15, <2>2, <2>6
    <3>2. m \in Queues => content'[m] = content[m]
      BY <1>12, <2>6
    <3> QED
      BY <2>1, <2>3, <3>1, <3>2
  <2>7. CASE p # q /\ m = q
    <3>1. k[p] = h[p] /\ k[m] = f
      BY <1>15, <2>2, <2>7
    <3>2. h[p] < f
      BY <1>1, <1>6, <1>10, <1>16, <2>1, <2>2, <2>7
    <3>3. k[p] <= k[m]
      BY <1>10, <1>16, <2>2, <3>1, <3>2
    <3>4. m \in Queues => \A g \in Elements(content'[m]) : k[p] < g
      BY <1>3, <1>12, <2>1, <2>7, <3>1, <3>2
    <3> QED
      BY <2>1, <2>3, <3>1, <3>3, <3>4
  <2> QED
    BY <2>5, <2>6, <2>7
<1>21. Ordered(k)'
  BY <1>2, <1>15, <1>17, <1>18, <1>19, <1>20 DEF Ordered
<1> QED
  BY <1>13, <1>14, <1>15, <1>21 DEF OrderInv

\* Less in the queues, in the hands of the threads and still to be pushed, is in order
\* as well.
LEMMA LessOrder ==
  ASSUME OrderInv, made' = made,
         content' \in [Queues -> Seq(Frames)], content \in [Queues -> Seq(Frames)],
         \A q \in Queues : content'[q] = content[q] \/ content'[q] = <<>>,
         \A n \in Nodes : out'[n] = out[n] \/ (out'[n] = NoFrame /\ todo'[n] = <<>>),
         \A n \in Nodes : /\ Elements(todo'[n]) \subseteq Elements(todo[n])
                          /\ Injective(todo'[n])
  PROVE  OrderInv'
<1>1. PICK h \in [Nodes -> 0..MaxFrames] : Ordered(h)
  BY DEF OrderInv
<1>2. Elements(<<>>) = {} /\ DOMAIN <<>> = {}
  BY DEF Elements
<1>3. \A q \in Queues : Elements(content'[q]) \subseteq Elements(content[q])
  BY <1>2
<1>4. \A q \in Queues : Elements(content[q]) \subseteq Frames
  BY ElementsType
<1>5. FramesInOrder'
  <2>1. ASSUME NEW q \in Queues
        PROVE  /\ \A i, j \in DOMAIN content'[q] : i < j => content'[q][i] < content'[q][j]
               /\ \A g \in Elements(content'[q]) : out'[q] < g
    <3>1. \A i, j \in DOMAIN content'[q] : i < j => content'[q][i] < content'[q][j]
      BY <1>2 DEF OrderInv, FramesInOrder
    <3>2. \A g \in Elements(content'[q]) : out[q] < g /\ NoFrame < g
      BY <1>3, <1>4 DEF OrderInv, FramesInOrder, Frames, NoFrame
    <3> QED
      BY <3>1, <3>2 DEF Nodes
  <2> QED
    BY <2>1 DEF FramesInOrder
<1>6. \A n \in Nodes : out'[n] <= h[n]
  <2>1. \A n \in Nodes : NoFrame <= h[n] /\ out[n] <= h[n]
    BY <1>1 DEF NoFrame, Ordered
  <2> QED
    BY <2>1
<1>7. ASSUME NEW n \in Nodes, NEW q \in Elements(Down[n])
      PROVE  /\ out'[n] # NoFrame => h[q] <= out'[n]
             /\ q \in Elements(todo'[n]) => h[q] < out'[n]
  BY <1>1, <1>2 DEF Ordered
<1>8. Ordered(h)'
  BY <1>1, <1>3, <1>6, <1>7 DEF Ordered
<1> QED
  BY <1>5, <1>8 DEF OrderInv

\* The source makes a frame newer than all.
LEMMA MakeOrder ==
  ASSUME Tree, IInv, OrderInv, MakeFrame
  PROVE  OrderInv'
<1>1. /\ out' = [out EXCEPT ![Source] = made + 1]
      /\ todo' = [todo EXCEPT ![Source] = Down[Source]]
      /\ made' = made + 1 /\ made < MaxFrames /\ content' = content
  BY DEF MakeFrame, queueVars
<1>2. PICK h \in [Nodes -> 0..MaxFrames] : Ordered(h)
  BY DEF OrderInv
<1>3. made \in 0..MaxFrames /\ MaxFrames \in Nat /\ out \in [Nodes -> Frames \union {NoFrame}]
      /\ todo \in [Nodes -> Seq(Queues)] /\ Source \in Nodes /\ Source \notin Queues
  BY GraphAssumption DEF IInv, QueueTypes, Nodes
<1>4. PICK k \in [Nodes -> 0..MaxFrames] :
        k[Source] = made + 1 /\ \A m \in Nodes : m # Source => k[m] = h[m]
  <2>1. [h EXCEPT ![Source] = made + 1] \in [Nodes -> 0..MaxFrames]
    BY <1>1, <1>2, <1>3
  <2> QED
    BY <1>2, <1>3, <2>1
<1>5. \A n \in Nodes : \A q \in Elements(Down[n]) : q \in Queues /\ q # Source /\ q \in Nodes
  <2>1. \A t \in Seq(Queues) : Elements(t) \subseteq Queues
    BY DEF Elements
  <2> QED
    BY <1>3, <2>1, GraphAssumption DEF Nodes
<1>6. /\ \A n \in Nodes : n # Source => out'[n] = out[n] /\ todo'[n] = todo[n]
      /\ out'[Source] = made + 1 /\ todo'[Source] = Down[Source]
  BY <1>1, <1>3
<1>7. \A n \in Nodes : h[n] \in Int /\ h[n] <= made
  BY <1>2 DEF Ordered
<1>8. \A n \in Nodes : Elements(todo'[n]) \subseteq Elements(Down[n]) /\ Injective(todo'[n])
  <2>1. ASSUME NEW n \in Nodes, n = Source
        PROVE  Elements(todo'[n]) \subseteq Elements(Down[n]) /\ Injective(todo'[n])
    <3>1. todo'[n] = Down[n]
      BY <1>6, <2>1
    <3> QED
      BY <3>1 DEF Tree, Injective
  <2>2. ASSUME NEW n \in Nodes, n # Source
        PROVE  Elements(todo'[n]) \subseteq Elements(Down[n]) /\ Injective(todo'[n])
    <3>1. todo'[n] = todo[n]
      BY <1>6, <2>2
    <3>2. Elements(todo[n]) \subseteq Elements(Down[n]) /\ Injective(todo[n])
      BY DEF OrderInv
    <3> QED
      BY <3>1, <3>2
  <2> QED
    BY <2>1, <2>2
<1>9. FramesInOrder'
  BY <1>1, <1>3, <1>6 DEF FramesInOrder, OrderInv, Nodes
<1>10. k[Source] = made' /\ \A n \in Nodes : k[n] <= made'
  <2>1. made + 1 <= made + 1 /\ \A n \in Nodes : h[n] <= made + 1
    BY <1>3, <1>7
  <2> QED
    BY <1>1, <1>4, <2>1
<1>11. ASSUME NEW n \in Nodes PROVE out'[n] <= k[n]
  <2>1. CASE n = Source
    <3>1. made + 1 <= made + 1
      BY <1>3
    <3> QED
      BY <1>4, <1>6, <2>1, <3>1
  <2>2. CASE n # Source
    BY <1>2, <1>4, <1>6, <2>2 DEF Ordered
  <2> QED
    BY <2>1, <2>2
<1>12. \A q \in Queues : \A f \in Elements(content'[q]) : f <= k[q]
  BY <1>1, <1>2, <1>3, <1>4 DEF Ordered, Nodes
<1>13. ASSUME NEW n \in Nodes, NEW q \in Elements(Down[n])
       PROVE  /\ k[q] <= k[n]
              /\ n \in Queues => \A f \in Elements(content'[n]) : k[q] < f
              /\ out'[n] # NoFrame => k[q] <= out'[n]
              /\ q \in Elements(todo'[n]) => k[q] < out'[n]
  <2>1. k[q] = h[q] /\ q \in Nodes
    BY <1>4, <1>5
  <2>2. CASE n = Source
    <3>1. k[q] < made + 1
      BY <1>3, <1>7, <2>1
    <3>2. k[q] <= made + 1
      BY <1>3, <1>7, <2>1
    <3> QED
      BY <1>3, <1>4, <1>6, <2>2, <3>1, <3>2
  <2>3. CASE n # Source
    BY <1>1, <1>2, <1>4, <1>6, <2>1, <2>3 DEF Ordered
  <2> QED
    BY <2>2, <2>3
<1>14. Ordered(k)'
  BY <1>10, <1>11, <1>12, <1>13 DEF Ordered
<1> QED
  BY <1>8, <1>9, <1>14 DEF OrderInv

\* The thread of a queue takes the oldest frame.
LEMMA TakeOrder ==
  ASSUME Tree, IInv, OrderInv, NEW q \in Queues, content[q] # <<>>,
         out' = [out EXCEPT ![q] = Head(content[q])],
         content' = [content EXCEPT ![q] = Tail(@)],
         todo' = [todo EXCEPT ![q] = Down[q]],
         made' = made
  PROVE  OrderInv'
<1> DEFINE f == Head(content[q])
<1>1. content \in [Queues -> Seq(Frames)] /\ out \in [Nodes -> Frames \union {NoFrame}]
      /\ todo \in [Nodes -> Seq(Queues)] /\ q \in Nodes
  BY DEF IInv, QueueTypes, Nodes
<1>2. PICK h \in [Nodes -> 0..MaxFrames] : Ordered(h)
  BY DEF OrderInv
<1>3. Increasing(content[q])
  BY DEF OrderInv, FramesInOrder, Increasing
<1>4. /\ Increasing(Tail(content[q]))
      /\ f \in Elements(content[q]) /\ f \in Frames
      /\ \A g \in Elements(Tail(content[q])) : f < g
      /\ Elements(Tail(content[q])) \subseteq Elements(content[q])
  BY <1>1, <1>3, TailIncreasing
<1> HIDE DEF f
<1>5. /\ \A n \in Nodes : n # q => out'[n] = out[n] /\ todo'[n] = todo[n]
      /\ out'[q] = f /\ todo'[q] = Down[q]
      /\ \A p \in Queues : p # q => content'[p] = content[p]
      /\ content'[q] = Tail(content[q])
  BY <1>1 DEF f
<1>6. \A n \in Nodes : Elements(todo'[n]) \subseteq Elements(Down[n]) /\ Injective(todo'[n])
  BY <1>1, <1>5 DEF OrderInv, Tree, Injective
<1>7. FramesInOrder'
  <2>1. ASSUME NEW p \in Queues
        PROVE  /\ \A i, j \in DOMAIN content'[p] : i < j => content'[p][i] < content'[p][j]
               /\ \A g \in Elements(content'[p]) : out'[p] < g
    <3>1. CASE p # q
      BY <1>5, <3>1 DEF OrderInv, FramesInOrder, Nodes
    <3>2. CASE p = q
      BY <1>4, <1>5, <3>2 DEF Increasing
    <3> QED
      BY <3>1, <3>2
  <2> QED
    BY <2>1 DEF FramesInOrder
<1>8. \A n \in Nodes : out'[n] <= h[n]
  BY <1>2, <1>4, <1>5 DEF Ordered
<1>9. \A p \in Queues : \A g \in Elements(content'[p]) : g <= h[p]
  BY <1>2, <1>4, <1>5 DEF Ordered
<1>10. ASSUME NEW n \in Nodes, NEW p \in Elements(Down[n])
       PROVE  /\ h[p] <= h[n]
              /\ n \in Queues => \A g \in Elements(content'[n]) : h[p] < g
              /\ out'[n] # NoFrame => h[p] <= out'[n]
              /\ p \in Elements(todo'[n]) => h[p] < out'[n]
  <2>1. CASE n # q
    BY <1>2, <1>5, <2>1 DEF Ordered
  <2>2. CASE n = q
    <3>1. h[p] <= h[n] /\ h[p] < f /\ \A g \in Elements(content[q]) : h[p] < g
      BY <1>2, <1>4, <2>2 DEF Ordered
    <3>2. h[p] \in Int /\ f \in Int
      <4>1. p \in Nodes
        <5>1. \A t \in Seq(Queues) : Elements(t) \subseteq Queues
          BY DEF Elements
        <5> QED
          BY <5>1, GraphAssumption DEF Nodes
      <4> QED
        BY <1>2, <1>4, <4>1 DEF Frames
    <3>3. h[p] <= f
      BY <3>1, <3>2
    <3> QED
      BY <1>4, <1>5, <2>2, <3>1, <3>3
  <2> QED
    BY <2>1, <2>2
<1>11. Ordered(h)'
  BY <1>2, <1>8, <1>9, <1>10 DEF Ordered
<1> QED
  BY <1>6, <1>7, <1>11 DEF OrderInv

\* Every step keeps the frames in order.
LEMMA OrderStep ==
  ASSUME Tree, IInv, OrderInv, [Next]_vars
  PROVE  OrderInv'
<1>0. IInv' /\ content \in [Queues -> Seq(Frames)] /\ content' \in [Queues -> Seq(Frames)]
      /\ todo \in [Nodes -> Seq(Queues)]
  BY NextIInv DEF IInv, QueueTypes
<1>1. \A n \in Nodes : Injective(todo[n])
  BY DEF OrderInv
<1>2. ASSUME UNCHANGED <<content, out, todo, made>> PROVE OrderInv'
  BY <1>0, <1>1, <1>2, LessOrder
<1>3. CASE MakeFrame
  BY <1>3, MakeOrder
<1>4. ASSUME NEW n \in Nodes, QueueFrame(n) PROVE OrderInv'
  <2>1. CASE running[Head(todo[n])]
    BY <1>4, <2>1, PushOrder
  <2>2. CASE ~running[Head(todo[n])]
    <3>1. /\ content' = content /\ out' = out /\ made' = made /\ todo[n] # <<>>
          /\ todo' = [todo EXCEPT ![n] = Tail(todo[n])]
      BY <1>4, <2>2 DEF QueueFrame, queueVars
    <3>2. Injective(Tail(todo[n])) /\ Elements(Tail(todo[n])) \subseteq Elements(todo[n])
      BY <1>0, <1>1, <3>1, TailInjective
    <3>3. \A m \in Nodes : Elements(todo'[m]) \subseteq Elements(todo[m]) /\ Injective(todo'[m])
      BY <1>0, <1>1, <3>1, <3>2
    <3> QED
      BY <1>0, <3>1, <3>3, LessOrder
  <2> QED
    BY <2>1, <2>2
<1>5. ASSUME NEW n \in Nodes, DropFrame(n) PROVE OrderInv'
  <2>1. /\ content' = content /\ todo' = todo /\ made' = made /\ todo[n] = <<>>
        /\ out' = [out EXCEPT ![n] = NoFrame]
    BY <1>5 DEF DropFrame, queueVars
  <2>2. \A m \in Nodes : out'[m] = out[m] \/ (out'[m] = NoFrame /\ todo'[m] = <<>>)
    BY <2>1 DEF IInv, QueueTypes
  <2> QED
    BY <1>0, <1>1, <2>1, <2>2, LessOrder
<1>6. ASSUME NEW q \in Queues, Mainloop(q) PROVE OrderInv'
  <2>1. CASE UNCHANGED <<content, out, todo>>
    BY <1>2, <1>6, <2>1 DEF Mainloop
  <2>2. CASE /\ content[q] # <<>>
             /\ out' = [out EXCEPT ![q] = Head(content[q])]
             /\ content' = [content EXCEPT ![q] = Tail(@)]
             /\ todo' = [todo EXCEPT ![q] = Down[q]]
    <3>1. made' = made
      BY <1>6 DEF Mainloop
    <3> QED
      BY <2>2, <3>1, TakeOrder
  <2> QED
    BY <1>6, <2>1, <2>2 DEF Mainloop, queueVars
<1>7. ASSUME NEW n \in Nodes, BreakApart(n) PROVE OrderInv'
  <2>1. /\ out' = out /\ todo' = todo /\ made' = made
        /\ content' = content \/ content' = [content EXCEPT ![n] = <<>>]
    BY <1>7 DEF BreakApart
  <2>2. \A q \in Queues : content'[q] = content[q] \/ content'[q] = <<>>
    BY <1>0, <2>1
  <2> QED
    BY <1>0, <1>1, <2>1, <2>2, LessOrder
<1>8. CASE DestroyNodes \/ JoinThread \/ \E n \in Nodes : DestroyNode(n)
  BY <1>2, <1>8 DEF DestroyNodes, JoinThread, DestroyNode, queueVars
<1>9. ASSUME NEW q \in Queues, SpuriousWakeUp(q) PROVE OrderInv'
  BY <1>2, <1>9 DEF SpuriousWakeUp, queueVars
<1>10. CASE UNCHANGED vars
  BY <1>2, <1>10 DEF vars, queueVars
<1> QED
  BY <1>3, <1>4, <1>5, <1>6, <1>7, <1>8, <1>9, <1>10 DEF Next, ThreadStep, ContextStep

\* The queues and threads that have a frame are finitely many.
LEMMA HoldersFinite ==
  ASSUME NEW f
  PROVE  /\ IsFiniteSet(Holders(f)) /\ Cardinality(Holders(f)) \in Nat
         /\ IsFiniteSet(Hands(f)) /\ Cardinality(Hands(f)) \in Nat
<1>1. IsFiniteSet(Queues) /\ IsFiniteSet(Nodes)
  BY GraphAssumption, FS_AddElement DEF Nodes
<1>2. Holders(f) \subseteq Queues /\ Hands(f) \subseteq Nodes
  BY DEF Holders, Hands
<1> QED
  BY <1>1, <1>2, FS_Subset, FS_CardinalityType

\* One more and one less.
LEMMA CountOne ==
  ASSUME NEW S, IsFiniteSet(S), NEW x
  PROVE  /\ x \notin S => Cardinality(S \union {x}) = Cardinality(S) + 1
         /\ x \in S => Cardinality(S \ {x}) = Cardinality(S) - 1 /\ Cardinality(S) > 0
         /\ Cardinality(S) \in Nat
<1>1. Cardinality(S) \in Nat
  BY FS_CardinalityType
<1>2. x \notin S => Cardinality(S \union {x}) = Cardinality(S) + 1
  BY FS_AddElement
<1>3. x \in S => Cardinality(S \ {x}) = Cardinality(S) - 1 /\ IsFiniteSet(S \ {x})
  BY FS_RemoveElement
<1>4. x \in S => Cardinality(S) # 0
  BY FS_EmptySet
<1> QED
  BY <1>1, <1>2, <1>3, <1>4

\* A push adds a reference of the queue and takes those of what is dropped.
LEMMA PushCount ==
  ASSUME IInv, OrderInv, CountInv, NEW n \in Nodes, QueueFrame(n), running[Head(todo[n])]
  PROVE  CountInv'
<1> DEFINE q == Head(todo[n])
           f == out[n]
<1>1. q \in Queues /\ f \in Frames /\ out' = out /\ content \in [Queues -> Seq(Frames)]
  BY DEF QueueFrame, IInv, QueueTypes, QueueShape
<1>2. PICK s \in Seq(Frames) : \E D \in SUBSET Elements(content[q]) :
        /\ content' = [content EXCEPT ![q] = s]
        /\ Increasing(s)
        /\ Elements(s) = (Elements(content[q]) \ D) \union {f}
        /\ f \notin Elements(content[q])
        /\ refs' = [g \in Frames |-> refs[g] + (IF g = f THEN 1 ELSE 0)
                                             - (IF g \in D THEN 1 ELSE 0)]
  BY PushEffect, Zenon
<1>5. PICK D \in SUBSET Elements(content[q]) :
        /\ content' = [content EXCEPT ![q] = s]
        /\ Elements(s) = (Elements(content[q]) \ D) \union {f}
        /\ f \notin Elements(content[q])
        /\ refs' = [g \in Frames |-> refs[g] + (IF g = f THEN 1 ELSE 0)
                                             - (IF g \in D THEN 1 ELSE 0)]
  BY <1>2, Zenon
<1> HIDE DEF q, f
<1>3. ASSUME NEW g \in Frames
      PROVE  refs'[g] = Cardinality(Holders(g)') + Cardinality(Hands(g)') /\ refs'[g] \in Nat
  <2>1. Hands(g)' = Hands(g)
    BY <1>1 DEF Hands
  <2>2. /\ refs[g] = Cardinality(Holders(g)) + Cardinality(Hands(g))
        /\ refs'[g] = refs[g] + (IF g = f THEN 1 ELSE 0) - (IF g \in D THEN 1 ELSE 0)
    BY <1>5 DEF CountInv
  <2>3. q \in Holders(g) <=> g \in Elements(content[q])
    BY <1>1 DEF Holders
  <2>4. \A p \in Queues : p # q => content'[p] = content[p]
    BY <1>1, <1>5
  <2>5. content'[q] = s
    BY <1>1, <1>5
  <2>6. CASE g = f
    <3>1. Holders(g)' = Holders(g) \union {q} /\ q \notin Holders(g) /\ g \notin D
      BY <1>1, <1>5, <2>3, <2>4, <2>5, <2>6 DEF Holders
    <3> QED
      BY <2>1, <2>2, <2>6, <3>1, CountOne, HoldersFinite
  <2>7. CASE g # f /\ g \in D
    <3>1. Holders(g)' = Holders(g) \ {q} /\ q \in Holders(g)
      BY <1>1, <1>5, <2>3, <2>4, <2>5, <2>7 DEF Holders
    <3> QED
      BY <2>1, <2>2, <2>7, <3>1, CountOne, HoldersFinite
  <2>8. CASE g # f /\ g \notin D
    <3>1. Holders(g)' = Holders(g)
      BY <1>1, <1>5, <2>3, <2>4, <2>5, <2>8 DEF Holders
    <3> QED
      BY <2>1, <2>2, <2>8, <3>1, HoldersFinite
  <2> QED
    BY <2>6, <2>7, <2>8
<1>4. refs' \in [Frames -> Nat]
  BY <1>5, <1>3
<1> QED
  BY <1>3, <1>4 DEF CountInv

\* The first reference of a new frame is that of the source.
LEMMA MakeCount ==
  ASSUME IInv, OrderInv, CountInv, MakeFrame
  PROVE  CountInv'
<1> DEFINE f == made + 1
<1>1. /\ refs' = [refs EXCEPT ![f] = 1] /\ out' = [out EXCEPT ![Source] = f]
      /\ content' = content /\ out[Source] = NoFrame /\ made < MaxFrames
  BY DEF MakeFrame, queueVars
<1>2. f \in Frames /\ made \in Int /\ out \in [Nodes -> Frames \union {NoFrame}]
      /\ content \in [Queues -> Seq(Frames)] /\ Source \in Nodes
  BY <1>1, GraphAssumption DEF Frames, IInv, QueueTypes, Nodes
<1>3. PICK h \in [Nodes -> 0..MaxFrames] : Ordered(h)
  BY DEF OrderInv
<1>4. \A n \in Nodes : h[n] <= made /\ out[n] <= h[n] /\ h[n] \in Int /\ out[n] \in Int
  BY <1>2, <1>3 DEF Ordered, Frames, NoFrame
<1>5. \A n \in Nodes : out[n] # f
  BY <1>2, <1>4
<1>6. ASSUME NEW q \in Queues PROVE f \notin Elements(content[q])
  <2>1. q \in Nodes /\ \A g \in Elements(content[q]) : g <= h[q] /\ g \in Int
    BY <1>2, <1>3, ElementsType DEF Ordered, Nodes, Frames
  <2> QED
    BY <1>2, <1>4, <2>1
<1> HIDE DEF f
<1>7. ASSUME NEW g \in Frames
      PROVE  refs'[g] = Cardinality(Holders(g)') + Cardinality(Hands(g)') /\ refs'[g] \in Nat
  <2>1. Holders(g)' = Holders(g)
    BY <1>1 DEF Holders
  <2>2. CASE g = f
    <3>1. Holders(g) = {} /\ Hands(g)' = {Source}
      BY <1>1, <1>2, <1>5, <1>6, <2>2 DEF Holders, Hands
    <3>2. Cardinality({}) = 0 /\ Cardinality({Source}) = 1
      BY FS_EmptySet, FS_Singleton
    <3>3. refs'[g] = 1
      BY <1>1, <1>2, <2>2 DEF CountInv
    <3> QED
      BY <2>1, <3>1, <3>2, <3>3
  <2>3. CASE g # f
    <3>1. g # NoFrame
      BY DEF Frames, NoFrame
    <3>2. Hands(g)' = Hands(g)
      BY <1>1, <1>2, <2>3, <3>1 DEF Hands
    <3>3. refs'[g] = refs[g] /\ refs[g] \in Nat
      BY <1>1, <2>3 DEF CountInv
    <3> QED
      BY <2>1, <3>2, <3>3 DEF CountInv
  <2> QED
    BY <2>2, <2>3
<1>8. refs' \in [Frames -> Nat]
  BY <1>1, <1>2 DEF CountInv
<1> QED
  BY <1>7, <1>8 DEF CountInv

\* The thread that drops its frame drops its reference.
LEMMA DropCount ==
  ASSUME IInv, CountInv, NEW n \in Nodes, DropFrame(n)
  PROVE  CountInv'
<1>1. /\ refs' = [refs EXCEPT ![out[n]] = @ - 1] /\ out' = [out EXCEPT ![n] = NoFrame]
      /\ content' = content /\ out[n] # NoFrame
  BY DEF DropFrame, queueVars
<1>2. out \in [Nodes -> Frames \union {NoFrame}] /\ out[n] \in Frames
  BY <1>1 DEF IInv, QueueTypes
<1>3. ASSUME NEW g \in Frames
      PROVE  refs'[g] = Cardinality(Holders(g)') + Cardinality(Hands(g)') /\ refs'[g] \in Nat
  <2>1. Holders(g)' = Holders(g) /\ g # NoFrame
    BY <1>1 DEF Holders, Frames, NoFrame
  <2>2. CASE g = out[n]
    <3>1. Hands(g)' = Hands(g) \ {n} /\ n \in Hands(g)
      BY <1>1, <1>2, <2>1, <2>2 DEF Hands
    <3>2. refs'[g] = refs[g] - 1
      BY <1>1, <1>2, <2>2 DEF CountInv
    <3> QED
      BY <2>1, <3>1, <3>2, CountOne, HoldersFinite DEF CountInv
  <2>3. CASE g # out[n]
    <3>1. Hands(g)' = Hands(g)
      BY <1>1, <1>2, <2>1, <2>3 DEF Hands
    <3>2. refs'[g] = refs[g] /\ refs[g] \in Nat
      BY <1>1, <2>3 DEF CountInv
    <3> QED
      BY <2>1, <3>1, <3>2 DEF CountInv
  <2> QED
    BY <2>2, <2>3
<1>4. refs' \in [Frames -> Nat]
  <2>1. refs'[out[n]] = refs[out[n]] - 1 /\ refs'[out[n]] \in Nat
    BY <1>1, <1>2, <1>3 DEF CountInv
  <2> QED
    BY <1>1, <1>2, <2>1 DEF CountInv
<1> QED
  BY <1>3, <1>4 DEF CountInv

\* The reference of the frame that is taken goes from the queue to the thread.
LEMMA TakeCount ==
  ASSUME IInv, OrderInv, CountInv, NEW q \in Queues, content[q] # <<>>, out[q] = NoFrame,
         out' = [out EXCEPT ![q] = Head(content[q])],
         content' = [content EXCEPT ![q] = Tail(@)], refs' = refs
  PROVE  CountInv'
<1> DEFINE f == Head(content[q])
<1>1. content \in [Queues -> Seq(Frames)] /\ out \in [Nodes -> Frames \union {NoFrame}]
      /\ q \in Nodes
  BY DEF IInv, QueueTypes, Nodes
<1>2. Increasing(content[q])
  BY DEF OrderInv, FramesInOrder, Increasing
<1>3. f \in Elements(content[q]) /\ f \in Frames
      /\ Elements(Tail(content[q])) = Elements(content[q]) \ {f}
  BY <1>1, <1>2, TailIncreasing
<1> HIDE DEF f
<1>4. /\ \A p \in Queues : p # q => content'[p] = content[p]
      /\ content'[q] = Tail(content[q])
      /\ \A n \in Nodes : n # q => out'[n] = out[n]
      /\ out'[q] = f
  BY <1>1 DEF f
<1>5. ASSUME NEW g \in Frames
      PROVE  refs'[g] = Cardinality(Holders(g)') + Cardinality(Hands(g)')
  <2>0. refs[g] = Cardinality(Holders(g)) + Cardinality(Hands(g)) /\ g # NoFrame
    BY DEF CountInv, Frames, NoFrame
  <2>1. CASE g = f
    <3>1. Holders(g)' = Holders(g) \ {q} /\ q \in Holders(g)
      BY <1>3, <1>4, <2>1 DEF Holders
    <3>2. Hands(g)' = Hands(g) \union {q} /\ q \notin Hands(g)
      BY <1>1, <1>4, <2>0, <2>1 DEF Hands
    <3>3. /\ Cardinality(Holders(g)') = Cardinality(Holders(g)) - 1
          /\ Cardinality(Hands(g)') = Cardinality(Hands(g)) + 1
      BY <3>1, <3>2, CountOne, HoldersFinite
    <3> QED
      BY <2>0, <3>3, HoldersFinite
  <2>2. CASE g # f
    <3>1. Holders(g)' = Holders(g)
      BY <1>3, <1>4, <2>2 DEF Holders
    <3>2. Hands(g)' = Hands(g)
      BY <1>1, <1>4, <2>0, <2>2 DEF Hands
    <3> QED
      BY <2>0, <3>1, <3>2
  <2> QED
    BY <2>1, <2>2
<1> QED
  BY <1>5 DEF CountInv

\* A queue that is cleared drops its references.
LEMMA ClearCount ==
  ASSUME IInv, CountInv, NEW n \in Queues, out' = out,
         content' = [content EXCEPT ![n] = <<>>],
         refs' = [g \in Frames |-> refs[g] - (IF g \in Elements(content[n]) THEN 1 ELSE 0)]
  PROVE  CountInv'
<1>1. content \in [Queues -> Seq(Frames)]
  BY DEF IInv, QueueTypes
<1>2. /\ \A p \in Queues : p # n => content'[p] = content[p]
      /\ content'[n] = <<>> /\ Elements(<<>>) = {}
  BY <1>1 DEF Elements
<1>3. ASSUME NEW g \in Frames
      PROVE  refs'[g] = Cardinality(Holders(g)') + Cardinality(Hands(g)') /\ refs'[g] \in Nat
  <2>0. /\ refs[g] = Cardinality(Holders(g)) + Cardinality(Hands(g))
        /\ refs'[g] = refs[g] - (IF g \in Elements(content[n]) THEN 1 ELSE 0)
        /\ Hands(g)' = Hands(g)
    BY DEF CountInv, Hands
  <2>1. CASE g \in Elements(content[n])
    <3>1. Holders(g)' = Holders(g) \ {n} /\ n \in Holders(g)
      BY <1>2, <2>1 DEF Holders
    <3> QED
      BY <2>0, <2>1, <3>1, CountOne, HoldersFinite
  <2>2. CASE g \notin Elements(content[n])
    <3>1. Holders(g)' = Holders(g)
      BY <1>2, <2>2 DEF Holders
    <3> QED
      BY <2>0, <2>2, <3>1, HoldersFinite
  <2> QED
    BY <2>1, <2>2
<1>4. refs' \in [Frames -> Nat]
  BY <1>3
<1> QED
  BY <1>3, <1>4 DEF CountInv

\* Every step keeps the reference counts exact.
LEMMA CountStep ==
  ASSUME IInv, OrderInv, CountInv, [Next]_vars
  PROVE  CountInv'
<1>1. ASSUME UNCHANGED <<content, out, refs>> PROVE CountInv'
  BY <1>1 DEF CountInv, Holders, Hands
<1>2. CASE MakeFrame
  BY <1>2, MakeCount
<1>3. ASSUME NEW n \in Nodes, QueueFrame(n) PROVE CountInv'
  <2>1. CASE running[Head(todo[n])]
    BY <1>3, <2>1, PushCount
  <2>2. CASE ~running[Head(todo[n])]
    BY <1>1, <1>3, <2>2 DEF QueueFrame, queueVars
  <2> QED
    BY <2>1, <2>2
<1>4. ASSUME NEW n \in Nodes, DropFrame(n) PROVE CountInv'
  BY <1>4, DropCount
<1>5. ASSUME NEW q \in Queues, Mainloop(q) PROVE CountInv'
  <2>1. refs' = refs /\ out[q] = NoFrame
    BY <1>5 DEF Mainloop, IInv, QueueShape
  <2>2. CASE UNCHANGED <<content, out>>
    BY <1>1, <2>1, <2>2
  <2>3. CASE /\ content[q] # <<>>
             /\ out' = [out EXCEPT ![q] = Head(content[q])]
             /\ content' = [content EXCEPT ![q] = Tail(@)]
    BY <2>1, <2>3, TakeCount
  <2> QED
    BY <1>5, <2>2, <2>3 DEF Mainloop, queueVars
<1>6. ASSUME NEW n \in Nodes, BreakApart(n) PROVE CountInv'
  <2>1. CASE n = Source
    BY <1>1, <1>6, <2>1 DEF BreakApart
  <2>2. CASE n # Source
    <3>1. /\ n \in Queues /\ out' = out
          /\ content' = [content EXCEPT ![n] = <<>>]
          /\ refs' = [g \in Frames |->
               refs[g] - (IF g \in Elements(content[n]) THEN 1 ELSE 0)]
      BY <1>6, <2>2 DEF BreakApart, Nodes
    <3> QED
      BY <3>1, ClearCount
  <2> QED
    BY <2>1, <2>2
<1>7. CASE DestroyNodes \/ JoinThread \/ \E n \in Nodes : DestroyNode(n)
  BY <1>1, <1>7 DEF DestroyNodes, JoinThread, DestroyNode, queueVars
<1>8. ASSUME NEW q \in Queues, SpuriousWakeUp(q) PROVE CountInv'
  BY <1>1, <1>8 DEF SpuriousWakeUp, queueVars
<1>9. CASE UNCHANGED vars
  BY <1>1, <1>9 DEF vars, queueVars
<1> QED
  BY <1>2, <1>3, <1>4, <1>5, <1>6, <1>7, <1>8, <1>9 DEF Next, ThreadStep, ContextStep

\* All of it holds at first.
LEMMA InitGraph ==
  ASSUME Init
  PROVE  EndInv /\ SeqInv /\ OrderInv /\ CountInv
<1>0. IInv /\ Source \in Nodes /\ Simple \subseteq Queues /\ MaxFrames \in Nat
  BY InitIInv, GraphAssumption DEF Nodes
<1>1. EndInv
  BY <1>0 DEF Init, EndInv
<1>2. SeqInv
  BY <1>0 DEF Init, SeqInv, SeqMatchesFrame
<1>3. /\ \A q \in Queues : content[q] = <<>> /\ DOMAIN content[q] = {}
      /\ \A q \in Queues : Elements(content[q]) = {}
      /\ \A n \in Nodes : out[n] = NoFrame
      /\ \A n \in Nodes : todo[n] = <<>> /\ DOMAIN todo[n] = {} /\ Elements(todo[n]) = {}
      /\ made = 0
  BY DEF Init, Elements
<1>4. OrderInv
  <2> DEFINE z == [n \in Nodes |-> 0]
  <2>1. z \in [Nodes -> 0..MaxFrames] /\ \A n \in Nodes : z[n] = 0
    BY <1>0
  <2>2. \A n \in Nodes : Elements(Down[n]) \subseteq Nodes
    <3>1. \A t \in Seq(Queues) : Elements(t) \subseteq Queues
      BY DEF Elements
    <3> QED
      BY <3>1, GraphAssumption DEF Nodes
  <2> HIDE DEF z
  <2>3. Ordered(z)
    <3>1. 0 <= 0
      OBVIOUS
    <3>2. z[Source] = made /\ \A n \in Nodes : z[n] <= made /\ out[n] <= z[n]
      BY <1>0, <1>3, <2>1, <3>1 DEF NoFrame
    <3>3. \A n \in Nodes : \A q \in Elements(Down[n]) : z[q] <= z[n]
      BY <2>1, <2>2, <3>1
    <3> QED
      BY <1>3, <2>1, <3>2, <3>3 DEF Ordered
  <2>4. FramesInOrder
    BY <1>3 DEF FramesInOrder
  <2> QED
    BY <1>3, <2>1, <2>3, <2>4 DEF OrderInv, Injective
<1>5. CountInv
  <2>1. refs \in [Frames -> Nat] /\ \A f \in Frames : refs[f] = 0
    BY DEF Init
  <2>2. \A f \in Frames : Holders(f) = {} /\ Hands(f) = {}
    BY SMTT(30), <1>3 DEF Holders, Hands, Frames, NoFrame
  <2>3. Cardinality({}) = 0
    BY FS_EmptySet
  <2>4. ASSUME NEW f \in Frames
        PROVE  refs[f] = Cardinality(Holders(f)) + Cardinality(Hands(f))
    <3>1. Cardinality(Holders(f)) = 0 /\ Cardinality(Hands(f)) = 0
      BY <2>2, <2>3
    <3> QED
      BY <2>1, <3>1
  <2> QED
    BY <2>1, <2>4 DEF CountInv
<1> QED
  BY <1>1, <1>2, <1>4, <1>5

\* The invariants together say what the run checks; nothing is left of the frames when
\* all threads have ended and all queues are cleared.
LEMMA GraphSound ==
  ASSUME IInv, EndInv, SeqInv, OrderInv, CountInv
  PROVE  GraphIsSound
<1>1. TypeOK
  BY DEF TypeOK, IInv, QueueTypes, EndInv, SeqInv, CountInv
<1>2. FramesInOrder /\ SeqMatchesFrame
  BY DEF OrderInv, SeqInv
<1>3. ASSUME phase \in {"destroying", "gone"}, NEW f \in Frames PROVE refs[f] = 0
  <2>1. \A n \in Nodes : Over(n)
    BY <1>3 DEF EndInv
  <2>2. ASSUME NEW q \in Queues PROVE f \notin Elements(content[q]) /\ out[q] # f
    <3>1. content[q] = <<>> /\ out[q] = NoFrame
      BY <2>1, GraphAssumption DEF Over, Ended, Nodes, IInv, QueueShape
    <3> QED
      BY <3>1 DEF Elements, Frames, NoFrame
  <2>3. out[Source] # f
    BY <2>1 DEF Over, Ended, Nodes, Frames, NoFrame
  <2>4. Holders(f) = {} /\ Hands(f) = {}
    BY <2>2, <2>3 DEF Holders, Hands, Nodes
  <2>5. Cardinality({}) = 0
    BY FS_EmptySet
  <2> QED
    BY <2>4, <2>5 DEF CountInv
<1>4. RefsExact
  BY <1>3 DEF RefsExact, CountInv
<1> QED
  BY <1>1, <1>2, <1>4 DEF GraphIsSound

\* In a tree of queues, of whatever shape, kind and sizes: a frame's reference count is
\* the number of queues and threads that have it, and zero for all frames once the
\* graph is torn down; each queue hands its frames on in order and once; and a simple
\* queue has a frame exactly when its numbers say so.
THEOREM GraphHolds ==
  ASSUME Tree
  PROVE  Spec => []GraphIsSound
<1> DEFINE Inv == IInv /\ EndInv /\ SeqInv /\ OrderInv /\ CountInv
<1>1. Init => Inv
  BY InitIInv, InitGraph
<1>2. Inv /\ [Next]_vars => Inv'
  BY NextIInv, EndStep, SeqStep, OrderStep, CountStep
<1>3. Inv => GraphIsSound
  BY GraphSound
<1> QED
  BY <1>1, <1>2, <1>3, PTL DEF Spec

=============================================================================
