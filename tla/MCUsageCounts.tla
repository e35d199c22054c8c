----------------------------- MODULE MCUsageCounts -----------------------------
(* Instance of UsageCounts for TLC. *)
EXTENDS UsageCounts
================================================================================
