--------------------------- MODULE MCSessionLogin ---------------------------
(* A small instance of SessionLogin for TLC.                               *)
EXTENDS SessionLogin
=============================================================================
