--------------------------- MODULE MCOxrSwapchain ---------------------------
(* Instances of OxrSwapchain for TLC; the constants are in the .cfg files.  *)
EXTENDS OxrSwapchain
=============================================================================
