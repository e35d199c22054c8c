---------------------------- MODULE MCSinkQueue -----------------------------
(* A source that is split into a queue of two frames and a simple queue,    *)
(* the latter followed by an unbounded queue.                               *)
EXTENDS SinkQueue, TLC

CONSTANTS a, b, c, src

SplitSize == (a :> 2) @@ (b :> 1) @@ (c :> 0)
SplitDown == (src :> <<a, b>>) @@ (a :> <<>>) @@ (b :> <<c>>) @@ (c :> <<>>)
=============================================================================
