------------------------------ MODULE MCOrders ------------------------------
(* Orders with two workers and two orders of one store, one of them with   *)
(* two items.                                                              *)
EXTENDS Orders

CONSTANTS w1, w2, o1, o2, s1, s2

MCWorkers == {w1, w2}
MCOrderIds == {o1, o2}
MCStores == {s1, s2}
MCStoreOf == [o \in MCOrderIds |-> s1]
MCItemsOf == [o \in MCOrderIds |-> IF o = o1 THEN 2 ELSE 0]
MCNewStates == {0, 4}
=============================================================================
