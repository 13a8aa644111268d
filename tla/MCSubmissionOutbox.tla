------------------------- MODULE MCSubmissionOutbox -------------------------
(* Instances of SubmissionOutbox for TLC. *)
EXTENDS SubmissionOutbox, TLC

\* Replicas are interchangeable; used for safety only.
ReplicaSymmetry == Permutations(Replicas)
=============================================================================
