---------------------------- MODULE MCApiGateway ----------------------------
(* An instance of ApiGateway for TLC. *)
EXTENDS ApiGateway
=============================================================================
