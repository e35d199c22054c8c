---------------------------- MODULE MCIpcServer ----------------------------
(* Instances of IpcServer for TLC; the bounds are in the .cfg files.        *)
EXTENDS IpcServer
=============================================================================
