-------------------------- MODULE MCResilientDownload --------------------------
(* A small instance of ResilientDownload for TLC. *)
EXTENDS ResilientDownload

\* Every version has a length of its own and was stored in a second of its own.
MCSizeOf == [v \in Versions |-> 3 + v]
MCReadSizes == {-1, 0, 1, 3}
MCModifiedAt == [v \in Versions |-> 10 * v]
=============================================================================
