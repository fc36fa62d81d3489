---------------------------- MODULE MCDataPlane ----------------------------
(* A small instance of DataPlane for TLC.                                  *)
EXTENDS DataPlane
=============================================================================
