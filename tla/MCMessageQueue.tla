--------------------------- MODULE MCMessageQueue ---------------------------
(* An instance of MessageQueue for TLC. *)
EXTENDS MessageQueue
=============================================================================
