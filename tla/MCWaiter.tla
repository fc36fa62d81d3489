------------------------------ MODULE MCWaiter ------------------------------
(* A small instance of Waiter for TLC.                                     *)
EXTENDS Waiter
=============================================================================
