-------------------------- MODULE MCScrapePipeline --------------------------
(* Instances of ScrapePipeline for TLC. *)
EXTENDS ScrapePipeline, TLC

\* Handlers are interchangeable; used for safety only.
WorkerSymmetry == Permutations(Workers)
=============================================================================
