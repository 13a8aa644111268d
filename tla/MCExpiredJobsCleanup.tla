------------------------ MODULE MCExpiredJobsCleanup ------------------------
(* Instances of ExpiredJobsCleanup for TLC. *)
EXTENDS ExpiredJobsCleanup, TLC

\* Jobs and replicas are interchangeable; used for safety only.
JobAndCleanerSymmetry == Permutations(Jobs) \cup Permutations(Cleaners)
=============================================================================
