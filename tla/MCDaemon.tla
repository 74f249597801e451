------------------------------ MODULE MCDaemon ------------------------------
(* Two requests, one slot, two connections.                                 *)
EXTENDS Daemon, TLC

CONSTANTS q1, q2, r1, r2

MCQueries == {q1, q2}
MCRequests == {r1, r2}

\* Two queries, or one that is sent twice.
MCDistinct == (r1 :> q1) @@ (r2 :> q2)
MCRepeated == [r \in MCRequests |-> q1]
=============================================================================
