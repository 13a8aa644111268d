--------------------------- MODULE MCScrapeEngine ---------------------------
(* Instances of ScrapeEngine for TLC. *)
EXTENDS ScrapeEngine

CONSTANTS h1, h2, f1, f2, f3

OneHost == [f \in Fetches |-> h1]
F3Elsewhere == [f \in Fetches |-> IF f = f3 THEN h2 ELSE h1]
=============================================================================
