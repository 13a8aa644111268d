--------------------------- MODULE MCScrapeClient ---------------------------
(* An instance of ScrapeClient for TLC. *)
EXTENDS ScrapeClient
=============================================================================
