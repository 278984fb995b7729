--------------------------- MODULE ConnectionLease ---------------------------
(***************************************************************************)
(* What the connection pool promises the handlers, with no queue, mutex or *)
(* condition: a fixed set of connections is lent out, each to one borrower *)
(* at a time, a borrower returns what it borrowed last first, and what it  *)
(* returns can be lent again.                                              *)
(***************************************************************************)
EXTENDS Naturals, Sequences

CONSTANTS Threads, PoolSizes

Depth == 2  \* a handler's connection and the one of the DAO it calls

VARIABLES
  free,  \* the connections that can be lent
  held   \* per thread: the connections it holds, in the order of borrowing

lease == <<free, held>>

Init ==
  /\ \E n \in PoolSizes : free = 1..n
  /\ held = [t \in Threads |-> <<>>]

Borrow(t, c) ==
  /\ Len(held[t]) < Depth
  /\ free' = free \ {c}
  /\ held' = [held EXCEPT ![t] = Append(@, c)]

Return(t) ==
  /\ held[t] # <<>>
  /\ held[t][Len(held[t])] \notin free
  /\ free' = free \cup {held[t][Len(held[t])]}
  /\ held' = [held EXCEPT ![t] = SubSeq(@, 1, Len(@) - 1)]

Next ==
  \/ \E t \in Threads : \E c \in free : Borrow(t, c)
  \/ \E t \in Threads : Return(t)

Spec == Init /\ [][Next]_lease
=============================================================================
