--------------------------- MODULE MCCleanupOrder ---------------------------
(* An instance of CleanupOrder for TLC. *)
EXTENDS CleanupOrder
=============================================================================
