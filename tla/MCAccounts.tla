----------------------------- MODULE MCAccounts -----------------------------
(* Accounts with two users, two phone numbers and two workers: two requests *)
(* that overlap in every way, on accounts that exist or not.               *)
EXTENDS Accounts, TLC

CONSTANTS u1, u2, p1, p2, w1, w2

MCUserIds == {u1, u2}
MCPhones == {p1, p2}
MCWorkers == {w1, w2}
Symmetry == Permutations(MCUserIds) \cup Permutations(MCPhones) \cup Permutations(MCWorkers)
=============================================================================
