------------------------------ MODULE MCWorker ------------------------------
(* Instances of Worker for TLC.                                             *)
EXTENDS Worker, TLC

CONSTANTS c1, c2, g1, g2

\* Each caller has a group of its own, as the hand tracker has.
OwnGroups == c1 :> {g1} @@ c2 :> {g2}

\* Two callers push to and wait for the same group.
SharedGroup == c1 :> {g1} @@ c2 :> {g1}
=============================================================================
