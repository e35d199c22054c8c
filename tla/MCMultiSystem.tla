--------------------------- MODULE MCMultiSystem ---------------------------
(* Instances of MultiSystem for TLC; the constants are in the .cfg files.   *)
EXTENDS MultiSystem
=============================================================================
