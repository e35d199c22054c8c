---------------------------- MODULE MCOxrSession ----------------------------
(* Instances of OxrSession for TLC; the constants are in the .cfg files.    *)
EXTENDS OxrSession
=============================================================================
