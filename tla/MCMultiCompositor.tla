------------------------- MODULE MCMultiCompositor -------------------------
(* Model checking of MultiCompositor; the bounds are in the .cfg files.     *)
EXTENDS MultiCompositor
=============================================================================
