----------------------------- MODULE MCAddresses -----------------------------
(* Addresses with two workers, two rows at the start and three requests: a  *)
(* pair of requests that overlap, and one before, between or after them.   *)
EXTENDS Addresses

CONSTANTS w1, w2

MCWorkers == {w1, w2}
=============================================================================
