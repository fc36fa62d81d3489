---------------------------- MODULE MCRefreshable ----------------------------
(* A small instance of Refreshable for TLC. *)
EXTENDS Refreshable

\* A token saved by an earlier process: it may be fresh, stale or expired by
\* now, and its expiry may run ahead of the server's by the latency.
MCInitTokens ==
    {[some |-> TRUE, expiry |-> e, real |-> e - Latency] : e \in {4, 7}}
=============================================================================
