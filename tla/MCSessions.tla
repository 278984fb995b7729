----------------------------- MODULE MCSessions -----------------------------
(* Sessions with two workers, two users and three connections over two      *)
(* descriptors, so that descriptor numbers are used again.                 *)
EXTENDS Sessions, TLC

CONSTANTS s1, s2, s3, f1, f2, u1, u2, w1, w2

MCSessions == {s1, s2, s3}
MCFds == {f1, f2}
MCUsers == {u1, u2}
MCWorkers == {w1, w2}

Symmetry == Permutations(MCSessions) \cup Permutations(MCFds) \cup Permutations(MCUsers)
              \cup Permutations(MCWorkers)
=============================================================================
