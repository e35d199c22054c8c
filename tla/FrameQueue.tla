----------------------------- MODULE FrameQueue -----------------------------
(***************************************************************************)
(* What the queueing sinks promise: each is a first-in first-out queue     *)
(* between the threads that push frames and one consumer, which is given   *)
(* one frame at a time.  A full queue drops its oldest frame.  A queue     *)
(* that is broken apart drops all frames and takes no more.                *)
(***************************************************************************)
EXTENDS Naturals, Sequences

CONSTANTS
  Queues,    \* the queues of a frame graph
  Frames,    \* the frames
  NoFrame,   \* not a frame
  MaxSize    \* the most frames of each queue; 0 means unbounded

VARIABLES
  content,   \* the frames of each queue, oldest first
  out,       \* the frame given to the consumer of each queue
  open       \* the queues that take frames

vars == <<content, out, open>>

Init ==
  /\ content = [q \in Queues |-> <<>>]
  /\ out = [q \in Queues |-> NoFrame]
  /\ open = [q \in Queues |-> TRUE]

IsFull(q) == MaxSize[q] # 0 /\ Len(content[q]) >= MaxSize[q]

\* A frame goes in at the back; a full queue drops the one at the front.
Put(q, f) ==
  /\ open[q]
  /\ content' = [content EXCEPT
       ![q] = Append(IF IsFull(q) THEN Tail(content[q]) ELSE content[q], f)]
  /\ UNCHANGED <<out, open>>

\* The consumer, when it has none, is given the oldest frame.
Get(q) ==
  /\ content[q] # <<>>
  /\ out[q] = NoFrame
  /\ out' = [out EXCEPT ![q] = Head(content[q])]
  /\ content' = [content EXCEPT ![q] = Tail(content[q])]
  /\ UNCHANGED open

\* The consumer is done with its frame.
Done(q) ==
  /\ out[q] # NoFrame
  /\ out' = [out EXCEPT ![q] = NoFrame]
  /\ UNCHANGED <<content, open>>

\* The queue is broken apart.
Close(q) ==
  /\ open[q]
  /\ open' = [open EXCEPT ![q] = FALSE]
  /\ content' = [content EXCEPT ![q] = <<>>]
  /\ UNCHANGED out

Next ==
  \E q \in Queues :
    \/ \E f \in Frames : Put(q, f)
    \/ Get(q) \/ Done(q) \/ Close(q)

Spec == Init /\ [][Next]_vars
=============================================================================
