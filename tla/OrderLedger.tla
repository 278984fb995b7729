----------------------------- MODULE OrderLedger -----------------------------
(***************************************************************************)
(* What the order handlers promise of the ORDERS, ORDER_DETAILS and STORES *)
(* tables, with no workers, statements or failures: an order appears whole,*)
(* an acceptance moves a waiting order to cooking and adds its price to    *)
(* the store's total_sales in the same step, and anything else only        *)
(* changes a status.                                                       *)
(***************************************************************************)
EXTENDS Integers

CONSTANTS OrderIds,  \* the order numbers
          Stores,
          StoreOf,   \* the store an order is addressed to
          ItemsOf,   \* how many items it lists
          States     \* the values order_status is given

VARIABLES
  rows,          \* the orders that exist
  order_status,  \* 0 waiting, 1 cooking, ..., 9 cancelled
  details,       \* the items stored for an order
  total_sales    \* per store, how often each order's price was added

ledger == <<rows, order_status, details, total_sales>>

Init ==
  /\ rows \in SUBSET OrderIds
  /\ order_status = [o \in OrderIds |-> 0]
  /\ details = [o \in OrderIds |-> IF o \in rows THEN 1..ItemsOf[o] ELSE {}]
  /\ total_sales = [s \in Stores |-> [o \in OrderIds |-> 0]]

Place(o) ==
  /\ o \notin rows
  /\ rows' = rows \cup {o}
  /\ order_status' = [order_status EXCEPT ![o] = 0]
  /\ details' = [details EXCEPT ![o] = 1..ItemsOf[o]]
  /\ UNCHANGED total_sales

Accept(o) ==
  /\ o \in rows
  /\ order_status[o] = 0
  /\ order_status' = [order_status EXCEPT ![o] = 1]
  /\ total_sales' = [total_sales EXCEPT ![StoreOf[o]][o] = @ + 1]
  /\ UNCHANGED <<rows, details>>

SetStatus(o) ==
  /\ o \in rows
  /\ \E v \in States : order_status' = [order_status EXCEPT ![o] = v]
  /\ UNCHANGED <<rows, details, total_sales>>

Next == \E o \in OrderIds : Place(o) \/ Accept(o) \/ SetStatus(o)

Spec == Init /\ [][Next]_ledger
=============================================================================
