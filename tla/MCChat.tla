------------------------------- MODULE MCChat -------------------------------
(* Chat with a user and "admin", two workers and three requests: a room     *)
(* that is opened, used and closed, opened and closed twice, or two rooms   *)
(* of which one is closed; each of the two, or a session without identity, *)
(* accepts.                                                                *)
EXTENDS Chat, TLC

CONSTANTS u1, admin, w1, w2

MCUsers == {u1, admin}
MCWorkers == {w1, w2}
Symmetry == Permutations(MCWorkers)
=============================================================================
