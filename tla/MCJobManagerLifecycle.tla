----------------------- MODULE MCJobManagerLifecycle -----------------------
(* An instance of JobManagerLifecycle for TLC. *)
EXTENDS JobManagerLifecycle
=============================================================================
