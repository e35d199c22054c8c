---------------------------- MODULE MCOxrEvents -----------------------------
(* Instances of OxrEvents for TLC; the constants are in the .cfg files.     *)
EXTENDS OxrEvents
=============================================================================
