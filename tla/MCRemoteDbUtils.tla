-------------------------- MODULE MCRemoteDbUtils --------------------------
(* A small instance of RemoteDbUtils for TLC.                              *)
EXTENDS RemoteDbUtils
=============================================================================
