--------------------------- MODULE MCRetriedRequest ---------------------------
(* A small instance of RetriedRequest for TLC. *)
EXTENDS RetriedRequest
=============================================================================
