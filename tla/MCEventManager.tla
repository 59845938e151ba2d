--------------------------- MODULE MCEventManager ---------------------------
(***************************************************************************)
(* Small instances of EventManager for TLC.                                *)
(***************************************************************************)
EXTENDS EventManager
=============================================================================
