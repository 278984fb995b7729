------------------------------ MODULE MCDbPool ------------------------------
(* DbPool with two workers and the event loop, for the pool main() opens    *)
(* (as many connections as workers) and for one more than there are threads. *)
EXTENDS DbPool

CONSTANTS w1, w2

MCWorkers == {w1, w2}
MCPoolSizes == {2, 4}
=============================================================================
