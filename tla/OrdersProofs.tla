----------------------------- MODULE OrdersProofs -----------------------------
(***************************************************************************)
(* What Orders promises, for any number of workers, orders, stores, items  *)
(* and requests.  The inductive invariant IInv adds to the properties what *)
(* each open transaction has written and that its order still is as the    *)
(* transaction found it, which the row locks (Exclusive) preserve.         *)
(***************************************************************************)
EXTENDS Orders, TLAPS

TablesType ==
  /\ rows \in SUBSET OrderIds
  /\ order_status \in [OrderIds -> States]
  /\ details \in [OrderIds -> SUBSET Nat]
  /\ total_sales \in [Stores -> [OrderIds -> Nat]]
  /\ accepts \in [OrderIds -> Nat]
  /\ past \in [OrderIds -> SUBSET States]
  /\ overridden \in SUBSET OrderIds

Requests == [op : Ops, order : OrderIds, state : States]

Places == {"idle", "insert", "detail", "accept", "charge", "commit", "update", "answer"}

ControlType ==
  /\ autocommit \in [Workers -> BOOLEAN]
  /\ pc \in [Workers -> Places]
  /\ req \in [Workers -> Requests \cup {NoRequest}]
  /\ \A w \in Workers : pc[w] = "idle" <=> req[w] = NoRequest
  /\ item \in [Workers -> Nat]
  /\ \A w \in Workers : pc[w] = "detail" => item[w] < ItemsOf[req[w].order]
  /\ txn = [w \in Workers |-> txn[w]]
  /\ requests \in 0..MaxRequests

AnswersType ==
  /\ told \in [OrderIds -> SUBSET States]
  /\ ownerTold \in SUBSET OrderIds
  /\ confirmed \in SUBSET (Ops \X OrderIds)
  /\ refused \in SUBSET (OrderIds \X BOOLEAN)
  /\ cookTimed \in SUBSET OrderIds
  /\ premature \in SUBSET (OrderIds \X States)

InTransaction(w) == pc[w] \in {"insert", "detail", "accept", "charge", "commit"}

\* The connection's mode and what a worker may have written follow from where
\* it stands.
ModeOf(w) ==
  /\ autocommit[w] <=> ~InTransaction(w)
  /\ ~InTransaction(w) => txn[w] = {}

\* The handler a worker stands in, and the state it is about to write.
HandlerOf(w) ==
  /\ pc[w] \in {"insert", "detail"} => req[w].op = "create"
  /\ pc[w] \in {"accept", "charge"} => req[w].op = "accept"
  /\ pc[w] = "commit" => req[w].op \in {"create", "accept"}
  /\ pc[w] = "update" => req[w].op \notin {"create", "accept"}
  /\ req[w].op = "create" => req[w].state = Waiting
  /\ req[w].op = "accept" => req[w].state = Cooking
  /\ req[w].op \in {"reject", "cancel", "pickup", "complete"}
       => req[w].state \notin {Waiting, Cooking}

Inserts(o, n) == {<<"insert", o>>} \cup ({"detail"} \X (1..n))
Charges(o) == {<<"update", o>>, <<"charge", o>>}

\* What an open transaction holds, and that its order is as it found it.
OpenTransaction(w) ==
  LET o == req[w].order
  IN  /\ pc[w] \in {"insert", "accept"} => txn[w] = {}
      /\ pc[w] = "insert" => item[w] = 0
      /\ pc[w] = "detail" => txn[w] = Inserts(o, item[w]) /\ o \notin rows
      /\ pc[w] = "charge" => txn[w] = {<<"update", o>>} /\ Acceptable(o)
      /\ pc[w] = "commit" /\ req[w].op = "create"
           => txn[w] = Inserts(o, ItemsOf[o]) /\ o \notin rows
      /\ pc[w] = "commit" /\ req[w].op = "accept"
           => txn[w] = Charges(o) /\ Acceptable(o)

\* What a worker about to answer has published, unless it is one of those that
\* did not notice that there was no row.
PublishedBy(w) ==
  pc[w] = "answer" =>
    \/ /\ req[w].order \in rows
       /\ req[w].state \in past[req[w].order]
       /\ req[w].op = "accept" => accepts[req[w].order] > 0
    \/ /\ req[w].op \in {"reject", "pickup"}
       /\ <<req[w].order, req[w].state>> \in premature

Modes == \A w \in Workers : ModeOf(w)
Handlers == \A w \in Workers : HandlerOf(w)
OpenTransactions == \A w \in Workers : OpenTransaction(w)
Published == \A w \in Workers : PublishedBy(w)

Holding(w) == pc[w] \in {"detail", "charge", "commit"}

\* Row locks: two transactions never write the same order.
Exclusive ==
  \A v, w \in Workers : v # w /\ Holding(v) /\ Holding(w) => req[v].order # req[w].order

\* An order still waiting, or not there yet, has never been accepted.
Acceptances ==
  \A o \in OrderIds \ overridden :
    /\ accepts[o] <= 1
    /\ o \notin rows => accepts[o] = 0
    /\ order_status[o] = Waiting => accepts[o] = 0
    /\ o \in rows /\ order_status[o] = Cooking => accepts[o] = 1

Tables == TablesType /\ Acceptances /\ SalesLedger /\ CompleteOrders

Control == ControlType /\ Modes /\ Handlers /\ Exclusive

Answers == AnswersType /\ PushFollowsCommit /\ ConfirmedIsDurable

IInv == Tables /\ Control /\ OpenTransactions /\ Published /\ Answers

-----------------------------------------------------------------------------
(* The three things that can happen to the tables.                         *)

Placed(o) ==
  /\ rows' = rows \cup {o}
  /\ order_status' = [order_status EXCEPT ![o] = Waiting]
  /\ details' = [details EXCEPT ![o] = @ \cup 1..ItemsOf[o]]
  /\ total_sales' = total_sales
  /\ accepts' = accepts
  /\ past' = [past EXCEPT ![o] = @ \cup {Waiting}]
  /\ overridden' = overridden

Accepted(o) ==
  /\ rows' = rows
  /\ order_status' = [order_status EXCEPT ![o] = Cooking]
  /\ details' = details
  /\ total_sales' = [total_sales EXCEPT ![StoreOf[o]][o] = @ + 1]
  /\ accepts' = [accepts EXCEPT ![o] = @ + 1]
  /\ past' = [past EXCEPT ![o] = @ \cup {Cooking}]
  /\ overridden' = overridden

StatusSet(o, v) ==
  /\ rows' = rows
  /\ order_status' = [order_status EXCEPT ![o] = v]
  /\ details' = details
  /\ total_sales' = total_sales
  /\ accepts' = accepts
  /\ past' = [past EXCEPT ![o] = @ \cup {v}]
  /\ \/ overridden' = overridden \cup {o}
     \/ overridden' = overridden /\ v \notin {Waiting, Cooking}

\* Everything an answer relies on only grows.
Grows ==
  /\ rows \subseteq rows'
  /\ \A o \in OrderIds : /\ past[o] \subseteq past'[o]
                         /\ accepts[o] <= accepts'[o]
                         /\ total_sales[StoreOf[o]][o] <= total_sales'[StoreOf[o]][o]

\* Publishing the writes of a whole creation places the order.
LEMMA PublishInserts ==
  ASSUME NEW w \in Workers, TablesType, req[w] \in Requests,
         req[w].op = "create", req[w].state = Waiting,
         Publish(w, Inserts(req[w].order, ItemsOf[req[w].order]))
  PROVE  Placed(req[w].order)
<1> DEFINE o == req[w].order
<1> DEFINE W == Inserts(o, ItemsOf[o])
<1>0. o \in OrderIds /\ ItemsOf[o] \in Nat
  BY OrdersAssumption DEF Requests
<1>1. /\ <<"insert", o>> \in W
      /\ <<"update", o>> \notin W
      /\ <<"charge", o>> \notin W
  BY DEF Inserts
<1>2. {i \in 1..ItemsOf[o] : <<"detail", i>> \in W} = 1..ItemsOf[o]
  BY <1>0 DEF Inserts
<1>10. Publish(w, W)
  OBVIOUS
<1>3. details' = [details EXCEPT ![o] = @ \cup {i \in 1..ItemsOf[o] : <<"detail", i>> \in W}]
  BY DEF Publish
<1>4. details' = [details EXCEPT ![o] = @ \cup 1..ItemsOf[o]]
  BY <1>2, <1>3
<1>5. /\ rows' = rows \cup {o}
      /\ order_status' = [order_status EXCEPT ![o] = Waiting]
      /\ total_sales' = total_sales
      /\ accepts' = accepts
      /\ past' = [past EXCEPT ![o] = @ \cup {Waiting}]
      /\ overridden' = overridden
  <2> HIDE DEF W
  <2> QED BY <1>10, <1>1 DEF Publish
<1> QED
  BY <1>4, <1>5 DEF Placed

\* Publishing the writes of a whole acceptance accepts and charges the order.
LEMMA PublishCharges ==
  ASSUME NEW w \in Workers, TablesType, req[w] \in Requests,
         req[w].op = "accept", req[w].state = Cooking,
         Publish(w, Charges(req[w].order))
  PROVE  Accepted(req[w].order)
<1> DEFINE o == req[w].order
<1> DEFINE W == Charges(o)
<1>0. o \in OrderIds
  BY DEF Requests
<1>1. /\ <<"insert", o>> \notin W
      /\ <<"update", o>> \in W
      /\ <<"charge", o>> \in W
  BY DEF Charges
<1>2. {i \in 1..ItemsOf[o] : <<"detail", i>> \in W} = {}
  BY DEF Charges
<1>10. Publish(w, W)
  OBVIOUS
<1>3. details' = [details EXCEPT ![o] = @ \cup {i \in 1..ItemsOf[o] : <<"detail", i>> \in W}]
  BY DEF Publish
<1>4. details' = details
  BY <1>0, <1>2, <1>3 DEF TablesType
<1>5. /\ rows' = rows
      /\ order_status' = [order_status EXCEPT ![o] = Cooking]
      /\ total_sales' = [total_sales EXCEPT ![StoreOf[o]][o] = @ + 1]
      /\ accepts' = [accepts EXCEPT ![o] = @ + 1]
      /\ past' = [past EXCEPT ![o] = @ \cup {Cooking}]
      /\ overridden' = overridden
  <2> HIDE DEF W
  <2> QED BY <1>10, <1>1 DEF Publish
<1> QED
  BY <1>4, <1>5 DEF Accepted

\* Publishing one status update of another handler only sets the status.
LEMMA PublishUpdate ==
  ASSUME NEW w \in Workers, TablesType, req[w] \in Requests, HandlerOf(w),
         req[w].op \notin {"create", "accept"},
         Publish(w, {<<"update", req[w].order>>})
  PROVE  StatusSet(req[w].order, req[w].state)
<1> DEFINE o == req[w].order
<1> DEFINE W == {<<"update", o>>}
<1>0. o \in OrderIds
  BY DEF Requests
<1>1. /\ <<"insert", o>> \notin W
      /\ <<"update", o>> \in W
      /\ <<"charge", o>> \notin W
  OBVIOUS
<1>2. {i \in 1..ItemsOf[o] : <<"detail", i>> \in W} = {}
  OBVIOUS
<1>10. Publish(w, W)
  OBVIOUS
<1>3. details' = [details EXCEPT ![o] = @ \cup {i \in 1..ItemsOf[o] : <<"detail", i>> \in W}]
  BY DEF Publish
<1>4. details' = details
  BY <1>0, <1>2, <1>3 DEF TablesType
<1>5. req[w].op = "change" \/ req[w].state \notin {Waiting, Cooking}
  BY DEF HandlerOf, Requests, Ops
<1>6. /\ rows' = rows
      /\ order_status' = [order_status EXCEPT ![o] = req[w].state]
      /\ total_sales' = total_sales
      /\ accepts' = accepts
      /\ past' = [past EXCEPT ![o] = @ \cup {req[w].state}]
      /\ \/ overridden' = overridden \cup {o}
         \/ overridden' = overridden /\ req[w].state \notin {Waiting, Cooking}
  <2> HIDE DEF W
  <2> QED BY <1>10, <1>1, <1>5 DEF Publish
<1> QED
  BY <1>4, <1>6 DEF StatusSet

\* Each of the three keeps the tables consistent.
LEMMA PlacedTables ==
  ASSUME Tables, NEW o \in OrderIds, o \notin rows, Placed(o)
  PROVE  Tables' /\ Grows
<1> USE OrdersAssumption
<1>0. ItemsOf[o] \in Nat
  OBVIOUS
<1>1. TablesType'
  BY <1>0 DEF Tables, TablesType, Placed, States, Waiting
<1>2. Acceptances'
  BY DEF Tables, TablesType, Acceptances, Placed, Waiting, Cooking
<1>3. SalesLedger'
  BY DEF Tables, SalesLedger, Placed
<1>4. CompleteOrders'
  BY DEF Tables, TablesType, CompleteOrders, Placed
<1>5. Grows
  <2>1. \A p \in OrderIds : total_sales[StoreOf[p]][p] \in Nat /\ accepts[p] \in Nat
    BY DEF Tables, TablesType
  <2>2. \A p \in OrderIds : past[p] \subseteq past'[p]
    BY DEF Tables, TablesType, Placed
  <2>3. \A p \in OrderIds : /\ accepts[p] <= accepts'[p]
                           /\ total_sales[StoreOf[p]][p] <= total_sales'[StoreOf[p]][p]
    BY <2>1 DEF Tables, TablesType, Placed
  <2> QED
    BY <2>2, <2>3 DEF Grows, Placed
<1> QED
  BY <1>1, <1>2, <1>3, <1>4, <1>5 DEF Tables

LEMMA AcceptedTables ==
  ASSUME Tables, NEW o \in OrderIds, Acceptable(o), Accepted(o)
  PROVE  Tables' /\ Grows
<1> USE OrdersAssumption
<1>0. StoreOf[o] \in Stores
  OBVIOUS
<1>1. TablesType'
  BY <1>0 DEF Tables, TablesType, Accepted, States, Cooking
<1>2. Acceptances'
  BY DEF Tables, TablesType, Acceptances, Accepted, Acceptable, Waiting, Cooking
<1>3. SalesLedger'
  BY <1>0 DEF Tables, TablesType, SalesLedger, Accepted
<1>4. CompleteOrders'
  BY DEF Tables, CompleteOrders, Accepted
<1>5. Grows
  <2>1. \A p \in OrderIds : total_sales[StoreOf[p]][p] \in Nat /\ accepts[p] \in Nat
    BY DEF Tables, TablesType
  <2>2. \A p \in OrderIds : past[p] \subseteq past'[p]
    BY DEF Tables, TablesType, Accepted
  <2>3. \A p \in OrderIds : /\ accepts[p] <= accepts'[p]
                           /\ total_sales[StoreOf[p]][p] <= total_sales'[StoreOf[p]][p]
    BY <2>1 DEF Tables, TablesType, Accepted
  <2> QED
    BY <2>2, <2>3 DEF Grows, Accepted
<1> QED
  BY <1>1, <1>2, <1>3, <1>4, <1>5 DEF Tables

LEMMA StatusSetTables ==
  ASSUME Tables, NEW o \in OrderIds, NEW v \in States, o \in rows, StatusSet(o, v)
  PROVE  Tables' /\ Grows
<1> USE OrdersAssumption
<1>1. TablesType'
  BY DEF Tables, TablesType, StatusSet
<1>2. Acceptances'
  BY DEF Tables, TablesType, Acceptances, StatusSet, Waiting, Cooking
<1>3. SalesLedger'
  BY DEF Tables, SalesLedger, StatusSet
<1>4. CompleteOrders'
  BY DEF Tables, CompleteOrders, StatusSet
<1>5. Grows
  <2>1. \A p \in OrderIds : total_sales[StoreOf[p]][p] \in Nat /\ accepts[p] \in Nat
    BY DEF Tables, TablesType
  <2>2. \A p \in OrderIds : past[p] \subseteq past'[p]
    BY DEF Tables, TablesType, StatusSet
  <2>3. \A p \in OrderIds : /\ accepts[p] <= accepts'[p]
                           /\ total_sales[StoreOf[p]][p] <= total_sales'[StoreOf[p]][p]
    BY <2>1 DEF Tables, TablesType, StatusSet
  <2> QED
    BY <2>2, <2>3 DEF Grows, StatusSet
<1> QED
  BY <1>1, <1>2, <1>3, <1>4, <1>5 DEF Tables

LEMMA SameTables ==
  ASSUME Tables, UNCHANGED <<tables, history>>
  PROVE  Tables' /\ Grows
<1> USE OrdersAssumption DEF tables, history
<1>1. TablesType'
  BY DEF Tables, TablesType
<1>2. Acceptances' /\ SalesLedger' /\ CompleteOrders'
  BY DEF Tables, Acceptances, SalesLedger, CompleteOrders
<1>3. Grows
  <2>1. \A p \in OrderIds : total_sales[StoreOf[p]][p] \in Nat /\ accepts[p] \in Nat
    BY DEF Tables, TablesType
  <2> QED
    BY <2>1 DEF Grows
<1> QED
  BY <1>1, <1>2, <1>3 DEF Tables

-----------------------------------------------------------------------------
(* One worker moves and the others stand still.                            *)

Others(w) ==
  \A u \in Workers \ {w} :
    /\ pc'[u] = pc[u]
    /\ req'[u] = req[u]
    /\ item'[u] = item[u]
    /\ txn'[u] = txn[u]
    /\ autocommit'[u] = autocommit[u]

\* The order of every other open transaction stays as it is.
OthersOrders(w) ==
  \A u \in Workers \ {w} :
    Holding(u) => /\ req[u].order \in rows <=> req[u].order \in rows'
                  /\ order_status'[req[u].order] = order_status[req[u].order]

\* If w gets hold of a row, nobody else holds it.
LockFree(w) ==
  Holding(w)' => \A u \in Workers \ {w} : Holding(u) => req[u].order # req'[w].order

LEMMA ControlStep ==
  ASSUME Control, NEW w \in Workers, Others(w), ControlType', ModeOf(w)', HandlerOf(w)',
         LockFree(w)
  PROVE  Control'
<1>1. Modes'
  BY DEF Control, Modes, ModeOf, InTransaction, Others
<1>2. Handlers'
  BY DEF Control, Handlers, HandlerOf, Others
<1>3. Exclusive'
  BY DEF Control, Exclusive, Holding, LockFree, Others
<1> QED
  BY <1>1, <1>2, <1>3 DEF Control

LEMMA OpenStep ==
  ASSUME OpenTransactions, NEW w \in Workers, Others(w), OthersOrders(w), OpenTransaction(w)'
  PROVE  OpenTransactions'
<1> SUFFICES ASSUME NEW u \in Workers \ {w} PROVE OpenTransaction(u)'
  BY DEF OpenTransactions
<1>1. OpenTransaction(u)
  BY DEF OpenTransactions
<1>2. /\ pc'[u] = pc[u]
      /\ req'[u] = req[u]
      /\ item'[u] = item[u]
      /\ txn'[u] = txn[u]
  BY DEF Others
<1>3. pc[u] \in {"detail", "charge", "commit"}
        => /\ req[u].order \in rows <=> req[u].order \in rows'
           /\ order_status'[req[u].order] = order_status[req[u].order]
  BY DEF OthersOrders, Holding
<1> QED
  BY <1>1, <1>2, <1>3 DEF OpenTransaction, Acceptable

LEMMA PublishedStep ==
  ASSUME Tables, Tables', Grows, premature \subseteq premature', ControlType, Published,
         NEW w \in Workers, Others(w), PublishedBy(w)'
  PROVE  Published'
<1> SUFFICES ASSUME NEW u \in Workers \ {w}, pc[u] = "answer" PROVE PublishedBy(u)'
  BY DEF Published, PublishedBy, Others
<1>1. pc'[u] = pc[u] /\ req'[u] = req[u]
  BY DEF Others
<1>2. CASE /\ req[u].order \in rows
           /\ req[u].state \in past[req[u].order]
           /\ req[u].op = "accept" => accepts[req[u].order] > 0
  <2>1. req[u].order \in OrderIds
    BY <1>2 DEF Tables, TablesType
  <2>2. /\ accepts[req[u].order] \in Nat
        /\ accepts'[req[u].order] \in Nat
    BY <2>1 DEF Tables, TablesType
  <2> QED
    BY <1>1, <1>2, <2>1, <2>2 DEF Grows, PublishedBy
<1>3. CASE req[u].op \in {"reject", "pickup"} /\ <<req[u].order, req[u].state>> \in premature
  BY <1>1, <1>3 DEF PublishedBy
<1> QED
  BY <1>2, <1>3 DEF Published, PublishedBy

\* What has been said stays true.
LEMMA AnswersStep ==
  ASSUME Tables, Tables', Grows, Answers,
         UNCHANGED <<told, ownerTold, confirmed, cookTimed, premature>>,
         refused' \in SUBSET (OrderIds \X BOOLEAN)
  PROVE  Answers'
<1> USE OrdersAssumption
<1>1. AnswersType'
  BY DEF Answers, AnswersType
<1>2. PushFollowsCommit'
  BY DEF Answers, PushFollowsCommit, Grows
<1>3. ConfirmedIsDurable'
  <2>1. \A o \in OrderIds : /\ total_sales[StoreOf[o]][o] \in Nat
                            /\ total_sales'[StoreOf[o]][o] \in Nat
    BY DEF Tables, TablesType
  <2>2. confirmed' = confirmed /\ ConfirmedIsDurable
    BY DEF Answers
  <2>3. \A o \in OrderIds : total_sales[StoreOf[o]][o] <= total_sales'[StoreOf[o]][o]
    BY DEF Grows
  <2>4. \A o \in OrderIds : <<"create", o>> \in confirmed => o \in rows'
    BY <2>2 DEF ConfirmedIsDurable, Grows
  <2>5. \A o \in OrderIds : <<"accept", o>> \in confirmed => total_sales'[StoreOf[o]][o] > 0
    <3> SUFFICES ASSUME NEW o \in OrderIds, <<"accept", o>> \in confirmed
                 PROVE  total_sales'[StoreOf[o]][o] > 0
      OBVIOUS
    <3> DEFINE a == total_sales[StoreOf[o]][o]
               b == total_sales'[StoreOf[o]][o]
    <3>1. a > 0
      BY <2>2 DEF ConfirmedIsDurable
    <3>2. a \in Nat /\ b \in Nat /\ a <= b
      BY <2>1, <2>3
    <3> HIDE DEF a, b
    <3>3. b > 0
      BY <3>1, <3>2
    <3> QED
      BY <3>3 DEF b
  <2> QED
    BY <2>2, <2>4, <2>5 DEF ConfirmedIsDurable
<1> QED
  BY <1>1, <1>2, <1>3 DEF Answers

LEMMA ReqType ==
  ASSUME ControlType, NEW w \in Workers, pc[w] # "idle"
  PROVE  /\ req[w] \in Requests
         /\ req[w].op \in Ops
         /\ req[w].order \in OrderIds
         /\ req[w].state \in States
         /\ ItemsOf[req[w].order] \in Nat
         /\ item[w] \in Nat
BY OrdersAssumption DEF ControlType, Requests

LEMMA RefusedType ==
  ASSUME ControlType, Answers, NEW w \in Workers, pc[w] # "idle", NEW b \in BOOLEAN, MayRefuse(w, b)
  PROVE  refused' \in SUBSET (OrderIds \X BOOLEAN)
BY ReqType DEF MayRefuse, Answers, AnswersType

\* A worker gives up its transaction, if any, and its request.
LEMMA DoneStep ==
  ASSUME Control, OpenTransactions, NEW w \in Workers, pc[w] # "idle",
         Done(w), EndTransaction(w), UNCHANGED <<item, requests>>
  PROVE  Control' /\ OpenTransaction(w)' /\ PublishedBy(w)' /\ Others(w)
<1> USE DEF Done, EndTransaction
<1>1. Others(w)
  BY DEF Others, Control, ControlType
<1>2. /\ pc'[w] = "idle"
      /\ req'[w] = NoRequest
      /\ autocommit'[w] = TRUE
      /\ txn'[w] = {}
  BY DEF Control, ControlType
<1>3. ControlType'
  BY <1>1, <1>2 DEF Control, ControlType, Others, Places
<1>4. ModeOf(w)' /\ HandlerOf(w)' /\ LockFree(w)
  BY <1>2 DEF ModeOf, HandlerOf, LockFree, InTransaction, Holding, NoRequest, Request
<1>5. OpenTransaction(w)' /\ PublishedBy(w)'
  BY <1>2 DEF OpenTransaction, PublishedBy
<1> QED
  BY <1>1, <1>3, <1>4, <1>5, ControlStep

-----------------------------------------------------------------------------
(* The actions.                                                            *)

\* A worker that starts a request has no transaction yet.
LEMMA BeginStep ==
  ASSUME IInv, NEW w \in Workers, NEW o \in OrderIds, NEW op \in Ops, NEW v \in States,
         NEW first \in {"insert", "accept", "update"},
         first = "insert" => op = "create" /\ v = Waiting,
         first = "accept" => op = "accept" /\ v = Cooking,
         first = "update" => op \notin {"create", "accept"},
         op \in {"reject", "cancel", "pickup", "complete"} => v \notin {Waiting, Cooking},
         Begin(w, op, o, v, first),
         autocommit' = [autocommit EXCEPT ![w] = (first = "update")]
  PROVE  IInv'
<1> USE OrdersAssumption DEF Begin
<1>0. Tables /\ Control /\ ControlType
  BY DEF IInv, Control
<1>1. Tables' /\ Grows
  BY SameTables DEF IInv
<1>2. Others(w)
  BY <1>0 DEF Others, ControlType
<1>3. /\ pc'[w] = first
      /\ req'[w] = Request(op, o, v)
      /\ autocommit'[w] = (first = "update")
      /\ txn'[w] = txn[w]
      /\ item'[w] = 0
  BY <1>0 DEF ControlType
<1>4. txn[w] = {}
  BY <1>0 DEF Control, Modes, ModeOf, InTransaction
<1>5. req'[w] \in Requests /\ req'[w] # NoRequest
  BY <1>3 DEF Request, Requests, NoRequest
<1>6. ControlType'
  <2>1. autocommit' \in [Workers -> BOOLEAN] /\ pc' \in [Workers -> Places]
    BY <1>0 DEF ControlType, Places
  <2>2. req' \in [Workers -> Requests \cup {NoRequest}]
    BY <1>0, <1>5 DEF ControlType
  <2>3. \A u \in Workers : pc'[u] = "idle" <=> req'[u] = NoRequest
    BY <1>0, <1>2, <1>3, <1>5 DEF ControlType, Others
  <2>4. /\ item' \in [Workers -> Nat]
        /\ requests' \in 0..MaxRequests
        /\ txn' = [u \in Workers |-> txn'[u]]
    BY <1>0 DEF ControlType
  <2>5. \A u \in Workers : pc'[u] = "detail" => item'[u] < ItemsOf[req'[u].order]
    BY <1>0, <1>2, <1>3 DEF ControlType, Others
  <2> QED
    BY <2>1, <2>2, <2>3, <2>4, <2>5 DEF ControlType
<1>7. ModeOf(w)' /\ LockFree(w)
  BY <1>3, <1>4 DEF ModeOf, InTransaction, LockFree, Holding
<1>8. HandlerOf(w)'
  BY <1>3 DEF HandlerOf, Request
<1>9. OpenTransaction(w)' /\ PublishedBy(w)'
  BY <1>3, <1>4 DEF OpenTransaction, PublishedBy
<1>10. OthersOrders(w)
  BY DEF OthersOrders, tables
<1>11. Control'
  BY <1>0, <1>2, <1>6, <1>7, <1>8, ControlStep
<1>12. OpenTransactions'
  BY <1>2, <1>9, <1>10, OpenStep DEF IInv
<1>13. Published'
  BY <1>0, <1>1, <1>2, <1>9, PublishedStep DEF IInv, answers
<1>14. Answers'
  <2>1. refused' \in SUBSET (OrderIds \X BOOLEAN)
    BY DEF IInv, Answers, AnswersType, answers
  <2> QED
    BY <1>0, <1>1, <2>1, AnswersStep DEF IInv, answers
<1> QED
  BY <1>1, <1>11, <1>12, <1>13, <1>14 DEF IInv

\* A handler's catch block before anything is published.
LEMMA AbortStep ==
  ASSUME IInv, NEW w \in Workers, pc[w] # "idle", Abort(w)
  PROVE  IInv'
<1> USE DEF Abort
<1>0. Tables /\ Control /\ ControlType
  BY DEF IInv, Control
<1>1. Tables' /\ Grows
  BY SameTables DEF IInv
<1>2. Control' /\ OpenTransaction(w)' /\ PublishedBy(w)' /\ Others(w)
  BY DoneStep DEF IInv
<1>3. OthersOrders(w)
  BY DEF OthersOrders, tables
<1>4. OpenTransactions'
  BY <1>2, <1>3, OpenStep DEF IInv
<1>5. Published'
  BY <1>0, <1>1, <1>2, PublishedStep DEF IInv
<1>6. refused' \in SUBSET (OrderIds \X BOOLEAN)
  BY <1>0, RefusedType DEF IInv
<1>7. Answers'
  BY <1>0, <1>1, <1>6, AnswersStep DEF IInv
<1> QED
  BY <1>1, <1>2, <1>4, <1>5, <1>7 DEF IInv

\* A write inside a transaction: only the worker itself changes.
LEMMA WriteStep ==
  ASSUME IInv, NEW w \in Workers, NEW x,
         InTransaction(w), InTransaction(w)', Write(w, x),
         pc' = [pc EXCEPT ![w] = pc'[w]], req' = req,
         item' = [item EXCEPT ![w] = item'[w]], item'[w] \in Nat,
         pc'[w] = "detail" => item'[w] < ItemsOf[req[w].order],
         UNCHANGED <<answers, autocommit, requests>>,
         HandlerOf(w)', OpenTransaction(w)', LockFree(w)
  PROVE  IInv'
<1>0. Tables /\ Control /\ ControlType /\ pc[w] # "idle"
  BY DEF IInv, Control, InTransaction
<1>1. ~autocommit[w]
  BY <1>0 DEF Control, Modes, ModeOf
<1>2. txn' = [txn EXCEPT ![w] = @ \cup {x}] /\ UNCHANGED <<tables, history>>
  BY <1>1 DEF Write
<1>3. Tables' /\ Grows
  BY <1>2, SameTables DEF IInv
<1>4. Others(w)
  BY <1>0, <1>2 DEF Others, ControlType
<1>5. ControlType'
  <2>1. pc'[w] \in Places \ {"idle"}
    BY DEF InTransaction, Places
  <2>2. pc' \in [Workers -> Places] /\ item' \in [Workers -> Nat]
    BY <1>0, <2>1 DEF ControlType
  <2>3. txn' = [u \in Workers |-> txn'[u]]
    BY <1>0, <1>2 DEF ControlType
  <2>4. \A u \in Workers : pc'[u] = "idle" <=> req'[u] = NoRequest
    BY <1>0, <1>4, <2>1 DEF ControlType, Others
  <2>5. \A u \in Workers : pc'[u] = "detail" => item'[u] < ItemsOf[req'[u].order]
    BY <1>0, <1>4 DEF ControlType, Others
  <2> QED
    BY <1>0, <2>2, <2>3, <2>4, <2>5 DEF ControlType
<1>6. ModeOf(w)' /\ PublishedBy(w)'
  BY <1>1 DEF ModeOf, PublishedBy, InTransaction
<1>7. Control'
  BY <1>0, <1>4, <1>5, <1>6, ControlStep
<1>8. OthersOrders(w)
  BY <1>2 DEF OthersOrders, tables
<1>9. OpenTransactions'
  BY <1>4, <1>8, OpenStep DEF IInv
<1>10. Published'
  BY <1>0, <1>3, <1>4, <1>6, PublishedStep DEF IInv, answers
<1>11. Answers'
  <2>1. refused' \in SUBSET (OrderIds \X BOOLEAN)
    BY DEF IInv, Answers, AnswersType, answers
  <2> QED
    BY <1>0, <1>3, <2>1, AnswersStep DEF IInv, answers
<1> QED
  BY <1>3, <1>7, <1>9, <1>10, <1>11 DEF IInv

\* A worker past its first write holds its order's row.
LEMMA HoldingHolds ==
  ASSUME IInv, NEW u \in Workers, Holding(u)
  PROVE  HoldsRow(u, req[u].order)
<1>1. OpenTransaction(u) /\ HandlerOf(u)
  BY DEF IInv, Control, OpenTransactions, Handlers
<1> QED
  BY <1>1 DEF Holding, HandlerOf, OpenTransaction, HoldsRow, Inserts, Charges

\* A statement that did not have to wait finds nobody else at its order.
LEMMA NotLocked ==
  ASSUME IInv, NEW w \in Workers, ~RowLocked(w)
  PROVE  \A u \in Workers \ {w} : Holding(u) => req[u].order # req[w].order
BY HoldingHolds DEF RowLocked

LEMMA StillExclusive ==
  ASSUME IInv, NEW w \in Workers, Holding(w)
  PROVE  \A u \in Workers \ {w} : Holding(u) => req[u].order # req[w].order
BY DEF IInv, Control, Exclusive

LEMMA InsertOrderStep ==
  ASSUME IInv, NEW w \in Workers, InsertOrder(w)
  PROVE  IInv'
<1> USE DEF InsertOrder
<1>0. ControlType /\ pc[w] # "idle" /\ OpenTransaction(w) /\ HandlerOf(w)
  BY DEF IInv, Control, OpenTransactions, Handlers
<1>1. CASE Duplicate(req[w].order)
  BY <1>0, <1>1, AbortStep
<1>2. CASE ~Duplicate(req[w].order)
  <2> DEFINE o == req[w].order
             x == <<"insert", o>>
  <2>1. /\ Write(w, x)
        /\ item' = item
        /\ pc' = [pc EXCEPT ![w] = AfterItems(w)]
        /\ req' = req
        /\ UNCHANGED <<answers, autocommit, requests>>
    BY <1>2 DEF Goto
  <2>2. /\ o \notin rows /\ txn[w] = {} /\ item[w] = 0 /\ ItemsOf[o] \in Nat
        /\ req[w].op = "create"
    BY <1>0, <1>2, ReqType DEF Duplicate, OpenTransaction, HandlerOf
  <2>3. /\ pc'[w] = IF 0 >= ItemsOf[o] THEN "commit" ELSE "detail"
        /\ item'[w] = 0
    BY <1>0, <2>1, <2>2 DEF AfterItems, ControlType
  <2>4. ~autocommit[w]
    BY DEF IInv, Control, Modes, ModeOf, InTransaction
  <2>5. txn'[w] = {x} /\ rows' = rows /\ order_status' = order_status
    BY <1>0, <2>1, <2>2, <2>4 DEF Write, ControlType, tables
  <2>6. {x} = Inserts(o, 0)
    BY DEF Inserts
  <2>7. ItemsOf[o] = 0 \/ pc'[w] = "detail"
    BY <2>2, <2>3
  <2>8. OpenTransaction(w)'
    BY <2>1, <2>2, <2>3, <2>5, <2>6, <2>7 DEF OpenTransaction
  <2>9. HandlerOf(w)'
    BY <1>0, <2>1, <2>2, <2>3 DEF HandlerOf
  <2>10. LockFree(w)
    BY <2>1, NotLocked DEF LockFree
  <2>11. pc'[w] = "detail" => item'[w] < ItemsOf[req[w].order]
    BY <2>2, <2>3
  <2>12. InTransaction(w) /\ InTransaction(w)'
    BY <2>3 DEF InTransaction
  <2>13. /\ pc' = [pc EXCEPT ![w] = pc'[w]]
         /\ item' = [item EXCEPT ![w] = item'[w]]
         /\ item'[w] \in Nat
    BY <1>0, <2>1, <2>3 DEF ControlType
  <2> HIDE DEF x
  <2> QED
    BY <2>1, <2>8, <2>9, <2>10, <2>11, <2>12, <2>13, WriteStep
<1> QED
  BY <1>1, <1>2

LEMMA InsertDetailStep ==
  ASSUME IInv, NEW w \in Workers, InsertDetail(w)
  PROVE  IInv'
<1> USE DEF InsertDetail
<1> DEFINE o == req[w].order
           n == item[w]
           x == <<"detail", n + 1>>
<1>0. ControlType /\ pc[w] = "detail" /\ OpenTransaction(w) /\ HandlerOf(w)
  BY DEF IInv, Control, OpenTransactions, Handlers
<1>1. /\ Write(w, x)
      /\ item' = [item EXCEPT ![w] = n + 1]
      /\ pc' = [pc EXCEPT ![w] = AfterItems(w)]
      /\ req' = req
      /\ UNCHANGED <<answers, autocommit, requests>>
  BY DEF Goto
<1>2. /\ o \notin rows /\ txn[w] = Inserts(o, n)
      /\ n \in Nat /\ ItemsOf[o] \in Nat /\ n < ItemsOf[o]
      /\ req[w].op = "create"
  BY <1>0, ReqType DEF OpenTransaction, HandlerOf, ControlType
<1>3. /\ item'[w] = n + 1
      /\ pc'[w] = IF n + 1 >= ItemsOf[o] THEN "commit" ELSE "detail"
  BY <1>0, <1>1 DEF AfterItems, ControlType
<1>4. ~autocommit[w]
  BY DEF IInv, Control, Modes, ModeOf, InTransaction
<1>5. txn'[w] = Inserts(o, n) \cup {x} /\ rows' = rows /\ order_status' = order_status
  BY <1>0, <1>1, <1>2, <1>4 DEF Write, ControlType, tables
<1>6. Inserts(o, n) \cup {x} = Inserts(o, n + 1)
  BY <1>2 DEF Inserts
<1>7. pc'[w] = "commit" => ItemsOf[o] = n + 1
  BY <1>2, <1>3
<1>8. OpenTransaction(w)'
  BY <1>1, <1>2, <1>3, <1>5, <1>6, <1>7 DEF OpenTransaction
<1>9. HandlerOf(w)'
  BY <1>0, <1>1, <1>2, <1>3 DEF HandlerOf
<1>10. LockFree(w)
  BY <1>0, <1>1, StillExclusive DEF LockFree, Holding
<1>11. pc'[w] = "detail" => item'[w] < ItemsOf[o]
  BY <1>2, <1>3
<1>12. InTransaction(w) /\ InTransaction(w)'
  BY <1>3 DEF InTransaction
<1>13. /\ pc' = [pc EXCEPT ![w] = pc'[w]]
       /\ item' = [item EXCEPT ![w] = item'[w]]
       /\ item'[w] \in Nat
  BY <1>0, <1>1, <1>2, <1>3 DEF ControlType
<1> HIDE DEF x
<1> QED
  BY <1>1, <1>8, <1>9, <1>10, <1>11, <1>12, <1>13, WriteStep

LEMMA UpdateAcceptStep ==
  ASSUME IInv, NEW w \in Workers, UpdateAccept(w)
  PROVE  IInv'
<1> USE DEF UpdateAccept
<1>0. ControlType /\ pc[w] = "accept" /\ OpenTransaction(w) /\ HandlerOf(w)
  BY DEF IInv, Control, OpenTransactions, Handlers
<1>1. CASE ~Acceptable(req[w].order)
  BY <1>0, <1>1, AbortStep
<1>2. CASE Acceptable(req[w].order)
  <2> DEFINE o == req[w].order
             x == <<"update", o>>
  <2>1. /\ Write(w, x)
        /\ item' = item
        /\ pc' = [pc EXCEPT ![w] = "charge"]
        /\ req' = req
        /\ UNCHANGED <<answers, autocommit, requests>>
    BY <1>2 DEF Goto
  <2>2. txn[w] = {} /\ item[w] \in Nat /\ req[w].op = "accept"
    BY <1>0, ReqType DEF OpenTransaction, HandlerOf
  <2>3. pc'[w] = "charge"
    BY <1>0, <2>1 DEF ControlType
  <2>4. ~autocommit[w]
    BY DEF IInv, Control, Modes, ModeOf, InTransaction
  <2>5. txn'[w] = {x} /\ rows' = rows /\ order_status' = order_status
    BY <1>0, <2>1, <2>2, <2>4 DEF Write, ControlType, tables
  <2>6. OpenTransaction(w)'
    BY <1>2, <2>1, <2>3, <2>5 DEF OpenTransaction, Acceptable
  <2>7. HandlerOf(w)'
    BY <1>0, <2>1, <2>3 DEF HandlerOf
  <2>8. LockFree(w)
    BY <2>1, NotLocked DEF LockFree
  <2>9. InTransaction(w) /\ InTransaction(w)'
    BY <2>3 DEF InTransaction
  <2>10. /\ pc' = [pc EXCEPT ![w] = pc'[w]]
         /\ item' = [item EXCEPT ![w] = item'[w]]
         /\ item'[w] \in Nat
    BY <1>0, <2>1, <2>2, <2>3 DEF ControlType
  <2> HIDE DEF x
  <2> QED
    BY <2>1, <2>3, <2>6, <2>7, <2>8, <2>9, <2>10, WriteStep
<1> QED
  BY <1>1, <1>2

LEMMA ChargeSalesStep ==
  ASSUME IInv, NEW w \in Workers, ChargeSales(w)
  PROVE  IInv'
<1> USE DEF ChargeSales
<1> DEFINE o == req[w].order
           x == <<"charge", o>>
<1>0. ControlType /\ pc[w] = "charge" /\ OpenTransaction(w) /\ HandlerOf(w)
  BY DEF IInv, Control, OpenTransactions, Handlers
<1>1. /\ Write(w, x)
      /\ item' = item
      /\ pc' = [pc EXCEPT ![w] = "commit"]
      /\ req' = req
      /\ UNCHANGED <<answers, autocommit, requests>>
  BY DEF Goto
<1>2. /\ txn[w] = {<<"update", o>>} /\ Acceptable(o)
      /\ item[w] \in Nat /\ req[w].op = "accept"
  BY <1>0, ReqType DEF OpenTransaction, HandlerOf
<1>3. pc'[w] = "commit"
  BY <1>0, <1>1 DEF ControlType
<1>4. ~autocommit[w]
  BY DEF IInv, Control, Modes, ModeOf, InTransaction
<1>5. txn'[w] = Charges(o) /\ rows' = rows /\ order_status' = order_status
  BY <1>0, <1>1, <1>2, <1>4 DEF Write, ControlType, tables, Charges
<1>6. OpenTransaction(w)'
  BY <1>1, <1>2, <1>3, <1>5 DEF OpenTransaction, Acceptable
<1>7. HandlerOf(w)'
  BY <1>0, <1>1, <1>2, <1>3 DEF HandlerOf
<1>8. LockFree(w)
  BY <1>0, <1>1, StillExclusive DEF LockFree, Holding
<1>9. InTransaction(w) /\ InTransaction(w)'
  BY <1>3 DEF InTransaction
<1>10. /\ pc' = [pc EXCEPT ![w] = pc'[w]]
       /\ item' = [item EXCEPT ![w] = item'[w]]
       /\ item'[w] \in Nat
  BY <1>0, <1>1, <1>2, <1>3 DEF ControlType
<1> HIDE DEF x
<1> QED
  BY <1>1, <1>3, <1>6, <1>7, <1>8, <1>9, <1>10, WriteStep

\* The tables after a publication, and what its worker may then answer.
Visible(w) ==
  /\ Tables' /\ Grows
  /\ OthersOrders(w)
  /\ req[w].order \in rows'
  /\ req[w].state \in past'[req[w].order]
  /\ req[w].op = "accept" => accepts'[req[w].order] > 0

LEMMA CommitPublishes ==
  ASSUME IInv, NEW w \in Workers, pc[w] = "commit", Publish(w, txn[w])
  PROVE  Visible(w)
<1> DEFINE o == req[w].order
<1>0. /\ Tables /\ TablesType /\ ControlType /\ OpenTransaction(w) /\ HandlerOf(w)
      /\ pc[w] # "idle"
  BY DEF IInv, Tables, Control, OpenTransactions, Handlers
<1>1. req[w] \in Requests /\ o \in OrderIds
  BY <1>0, ReqType
<1>2. \A u \in Workers \ {w} : Holding(u) => req[u].order # o
  BY StillExclusive DEF Holding
<1>3. CASE req[w].op = "create"
  <2>1. txn[w] = Inserts(o, ItemsOf[o]) /\ o \notin rows /\ req[w].state = Waiting
    BY <1>0, <1>3 DEF OpenTransaction, HandlerOf
  <2>2. Placed(o)
    BY <1>0, <1>1, <1>3, <2>1, PublishInserts
  <2>3. Tables' /\ Grows
    BY <1>0, <1>1, <2>1, <2>2, PlacedTables
  <2>4. OthersOrders(w)
    BY <1>0, <1>2, <2>2 DEF OthersOrders, Placed, TablesType
  <2>5. o \in rows' /\ Waiting \in past'[o]
    BY <1>0, <1>1, <2>2 DEF Placed, TablesType
  <2> QED
    BY <1>3, <2>1, <2>3, <2>4, <2>5 DEF Visible
<1>4. CASE req[w].op = "accept"
  <2>1. txn[w] = Charges(o) /\ Acceptable(o) /\ req[w].state = Cooking
    BY <1>0, <1>4 DEF OpenTransaction, HandlerOf
  <2>2. Accepted(o)
    BY <1>0, <1>1, <1>4, <2>1, PublishCharges
  <2>3. Tables' /\ Grows
    BY <1>0, <1>1, <2>1, <2>2, AcceptedTables
  <2>4. OthersOrders(w)
    BY <1>0, <1>2, <2>2 DEF OthersOrders, Accepted, TablesType
  <2>5. o \in rows' /\ Cooking \in past'[o] /\ accepts'[o] > 0
    BY <1>0, <1>1, <2>1, <2>2 DEF Accepted, Acceptable, TablesType
  <2> QED
    BY <1>4, <2>1, <2>3, <2>4, <2>5 DEF Visible
<1> QED
  BY <1>0, <1>3, <1>4 DEF HandlerOf

LEMMA UpdatePublishes ==
  ASSUME IInv, NEW w \in Workers, pc[w] = "update", ~RowLocked(w), req[w].order \in rows,
         Publish(w, {<<"update", req[w].order>>})
  PROVE  Visible(w)
<1> DEFINE o == req[w].order
<1>0. Tables /\ TablesType /\ ControlType /\ HandlerOf(w) /\ pc[w] # "idle"
  BY DEF IInv, Tables, Control, Handlers
<1>1. /\ req[w] \in Requests /\ o \in OrderIds /\ req[w].state \in States
      /\ req[w].op \notin {"create", "accept"}
  BY <1>0, ReqType DEF HandlerOf
<1>2. StatusSet(o, req[w].state)
  BY <1>0, <1>1, PublishUpdate
<1>3. Tables' /\ Grows
  BY <1>0, <1>1, <1>2, StatusSetTables
<1>4. OthersOrders(w)
  BY <1>0, <1>2, NotLocked DEF OthersOrders, StatusSet, TablesType
<1>5. o \in rows' /\ req[w].state \in past'[o]
  BY <1>0, <1>1, <1>2 DEF StatusSet, TablesType
<1> QED
  BY <1>1, <1>3, <1>4, <1>5 DEF Visible

\* After its writes the worker goes on to its answer,
LEMMA ToAnswer ==
  ASSUME IInv, NEW w \in Workers, pc[w] \in {"commit", "update"}, Goto(w, "answer"),
         Tables', Grows, OthersOrders(w), PublishedBy(w)', Answers', premature \subseteq premature',
         autocommit' = [autocommit EXCEPT ![w] = TRUE], txn' = [txn EXCEPT ![w] = {}],
         UNCHANGED <<item, requests>>
  PROVE  IInv'
<1> USE DEF Goto
<1>0. Tables /\ Control /\ ControlType /\ HandlerOf(w) /\ pc[w] # "idle"
  BY DEF IInv, Control, Handlers
<1>1. Others(w)
  BY <1>0 DEF Others, ControlType
<1>2. /\ pc'[w] = "answer" /\ req'[w] = req[w]
      /\ autocommit'[w] = TRUE /\ txn'[w] = {}
  BY <1>0 DEF ControlType
<1>3. ControlType'
  <2>1. pc' \in [Workers -> Places] /\ autocommit' \in [Workers -> BOOLEAN]
    BY <1>0 DEF ControlType, Places
  <2>2. txn' = [u \in Workers |-> txn'[u]]
    BY <1>0 DEF ControlType
  <2>3. \A u \in Workers : pc'[u] = "idle" <=> req'[u] = NoRequest
    BY <1>0, <1>1, <1>2 DEF ControlType, Others
  <2>4. \A u \in Workers : pc'[u] = "detail" => item'[u] < ItemsOf[req'[u].order]
    BY <1>0, <1>1, <1>2 DEF ControlType, Others
  <2> QED
    BY <1>0, <2>1, <2>2, <2>3, <2>4 DEF ControlType
<1>4. ModeOf(w)' /\ HandlerOf(w)' /\ LockFree(w)
  BY <1>0, <1>2 DEF ModeOf, HandlerOf, LockFree, InTransaction, Holding
<1>5. Control'
  BY <1>0, <1>1, <1>3, <1>4, ControlStep
<1>6. OpenTransaction(w)'
  BY <1>2 DEF OpenTransaction
<1>7. OpenTransactions'
  BY <1>1, <1>6, OpenStep DEF IInv
<1>8. Published'
  BY <1>0, <1>1, PublishedStep DEF IInv
<1> QED
  BY <1>5, <1>7, <1>8 DEF IInv

\* whatever it published,
LEMMA VisibleAnswer ==
  ASSUME IInv, NEW w \in Workers, pc[w] \in {"commit", "update"}, Visible(w), Goto(w, "answer"),
         autocommit' = [autocommit EXCEPT ![w] = TRUE], txn' = [txn EXCEPT ![w] = {}],
         UNCHANGED <<answers, item, requests>>
  PROVE  IInv'
<1>1. refused' \in SUBSET (OrderIds \X BOOLEAN) /\ premature \subseteq premature'
  BY DEF IInv, Answers, AnswersType, answers
<1>2. Answers'
  BY <1>1, AnswersStep DEF IInv, answers, Visible
<1>3. PublishedBy(w)'
  BY DEF PublishedBy, Visible, Goto
<1> QED
  BY <1>1, <1>2, <1>3, ToAnswer DEF Visible

\* or ends its request, having lost its link or found no row.
LEMMA EndsRequest ==
  ASSUME IInv, NEW w \in Workers, pc[w] # "idle", Tables', Grows, OthersOrders(w),
         EndTransaction(w), Done(w), Answers', premature \subseteq premature',
         UNCHANGED <<item, requests>>
  PROVE  IInv'
<1>0. Tables /\ Control /\ ControlType
  BY DEF IInv, Control
<1>1. Control' /\ OpenTransaction(w)' /\ PublishedBy(w)' /\ Others(w)
  BY DoneStep DEF IInv
<1>2. OpenTransactions'
  BY <1>1, OpenStep DEF IInv
<1>3. Published'
  BY <1>0, <1>1, PublishedStep DEF IInv
<1> QED
  BY <1>1, <1>2, <1>3 DEF IInv

LEMMA CommitStep ==
  ASSUME IInv, NEW w \in Workers, Commit(w)
  PROVE  IInv'
<1>1. Visible(w)
  BY CommitPublishes DEF Commit
<1> QED
  BY <1>1, VisibleAnswer DEF Commit, EndTransaction

LEMMA UpdateStatusStep ==
  ASSUME IInv, NEW w \in Workers, UpdateStatus(w)
  PROVE  IInv'
<1> USE DEF UpdateStatus
<1>0. ControlType /\ pc[w] = "update" /\ autocommit[w] /\ txn[w] = {}
  BY DEF IInv, Control, Modes, ModeOf, InTransaction
<1>1. /\ autocommit' = [autocommit EXCEPT ![w] = TRUE]
      /\ txn' = txn => txn' = [txn EXCEPT ![w] = {}]
  BY <1>0 DEF ControlType
<1>2. CASE req[w].order \in rows
  <2>1. Publish(w, {<<"update", req[w].order>>}) /\ txn' = txn /\ Goto(w, "answer")
    BY <1>0, <1>2 DEF Write
  <2>2. Visible(w)
    BY <1>0, <1>2, <2>1, UpdatePublishes
  <2> QED
    BY <1>0, <1>1, <1>2, <2>1, <2>2, VisibleAnswer DEF answers
<1>3. CASE req[w].order \notin rows
  <2>1. /\ UNCHANGED <<tables, history, txn, told, ownerTold, confirmed, refused, cookTimed,
                       item, requests>>
        /\ \/ /\ req[w].op \in {"reject", "pickup"}
              /\ Goto(w, "answer")
              /\ premature' = premature \cup {<<req[w].order, req[w].state>>}
           \/ Done(w) /\ UNCHANGED premature
    BY <1>3
  <2>2. Tables' /\ Grows
    BY <2>1, SameTables DEF IInv
  <2>3. OthersOrders(w)
    BY <2>1 DEF OthersOrders, tables
  <2>4. req[w].order \in OrderIds /\ req[w].state \in States
    BY <1>0, ReqType
  <2>5. premature \subseteq premature' /\ premature' \in SUBSET (OrderIds \X States)
    BY <2>1, <2>4 DEF IInv, Answers, AnswersType
  <2>6. Answers'
    <3>1. AnswersType'
      BY <2>1, <2>5 DEF IInv, Answers, AnswersType
    <3>2. PushFollowsCommit'
      BY <2>1, <2>5 DEF IInv, Answers, PushFollowsCommit, tables, history
    <3>3. ConfirmedIsDurable'
      BY <2>1 DEF IInv, Answers, ConfirmedIsDurable, tables
    <3> QED
      BY <3>1, <3>2, <3>3 DEF Answers
  <2>7. CASE Done(w)
    <3>1. EndTransaction(w)
      BY <1>1, <2>1 DEF EndTransaction
    <3> QED
      BY <1>0, <2>1, <2>2, <2>3, <2>5, <2>6, <2>7, <3>1, EndsRequest
  <2>8. CASE /\ req[w].op \in {"reject", "pickup"} /\ Goto(w, "answer")
             /\ premature' = premature \cup {<<req[w].order, req[w].state>>}
    <3>1. PublishedBy(w)'
      BY <2>8 DEF PublishedBy, Goto
    <3> QED
      BY <1>0, <1>1, <2>1, <2>2, <2>3, <2>5, <2>6, <2>8, <3>1, ToAnswer
  <2> QED
    BY <2>1, <2>7, <2>8
<1> QED
  BY <1>2, <1>3

LEMMA OutcomeLostStep ==
  ASSUME IInv, NEW w \in Workers, OutcomeLost(w)
  PROVE  IInv'
<1> USE DEF OutcomeLost
<1>0. ControlType /\ Answers /\ pc[w] # "idle"
  BY DEF IInv, Control
<1>1. refused' \in SUBSET (OrderIds \X BOOLEAN)
  BY <1>0, RefusedType DEF Answers, AnswersType
<1>2. Tables' /\ Grows /\ OthersOrders(w)
  <2>1. CASE pc[w] = "commit" /\ Publish(w, txn[w])
    BY <2>1, CommitPublishes DEF Visible
  <2>2. CASE UNCHANGED <<tables, history>>
    BY <2>2, SameTables DEF IInv, OthersOrders, tables
  <2>3. CASE /\ pc[w] = "update" /\ ~RowLocked(w) /\ req[w].order \in rows
             /\ Publish(w, {<<"update", req[w].order>>})
    BY <2>3, UpdatePublishes DEF Visible
  <2> QED
    BY <2>1, <2>2, <2>3
<1>3. Answers'
  BY <1>0, <1>1, <1>2, AnswersStep DEF IInv
<1> QED
  BY <1>0, <1>2, <1>3, EndsRequest

\* The answer and the pushes say what the worker has published.
LEMMA AnsweredStep ==
  ASSUME IInv, NEW w \in Workers, pc[w] = "answer", Done(w),
         UNCHANGED <<tables, history, autocommit, txn, cookTimed, premature, item, requests>>,
         refused' \in SUBSET (OrderIds \X BOOLEAN),
         \/ told' = told
         \/ /\ req[w].order \in rows
            /\ told' = [told EXCEPT ![req[w].order] = @ \cup {req[w].state}],
         \/ ownerTold' = ownerTold
         \/ req[w].op = "create" /\ ownerTold' = ownerTold \cup {req[w].order},
         confirmed' = confirmed \/ Confirm(w)
  PROVE  IInv'
<1> DEFINE o == req[w].order
<1>0. /\ Tables /\ TablesType /\ SalesLedger /\ Control /\ ControlType
      /\ PublishedBy(w) /\ Answers /\ AnswersType
  BY DEF IInv, Tables, Control, Published, Answers
<1>1. o \in OrderIds /\ req[w].op \in Ops /\ req[w].state \in States
  BY <1>0, ReqType
<1>2. /\ req[w].state \in past[o] \/ <<o, req[w].state>> \in premature
      /\ req[w].op \in {"create", "accept"} => o \in rows
      /\ req[w].op = "accept" => accepts[o] > 0
  BY <1>0 DEF PublishedBy
<1>3. Tables' /\ Grows
  BY SameTables DEF IInv
<1>4. EndTransaction(w)
  BY <1>0 DEF EndTransaction, Control, ControlType, Modes, ModeOf, InTransaction
<1>5. Control' /\ OpenTransaction(w)' /\ PublishedBy(w)' /\ Others(w)
  BY <1>4, DoneStep DEF IInv
<1>6. OthersOrders(w)
  BY DEF OthersOrders, tables
<1>7. OpenTransactions'
  BY <1>5, <1>6, OpenStep DEF IInv
<1>8. Published'
  BY <1>0, <1>3, <1>5, PublishedStep DEF IInv
<1>9. AnswersType'
  BY <1>0, <1>1 DEF AnswersType, Confirm
<1>10. PushFollowsCommit'
  <2>1. PushFollowsCommit /\ rows' = rows /\ past' = past
    BY <1>0 DEF Answers, tables, history
  <2>2. ownerTold' \subseteq rows'
    BY <1>2, <2>1 DEF PushFollowsCommit
  <2>3. ASSUME NEW p \in OrderIds, NEW v \in told'[p]
        PROVE  v \in told[p] \/ (p = o /\ v = req[w].state /\ o \in rows)
    BY <1>0, <1>1 DEF AnswersType
  <2> QED
    BY <1>2, <2>1, <2>2, <2>3 DEF PushFollowsCommit
<1>11. ConfirmedIsDurable'
  <2>1. ConfirmedIsDurable /\ rows' = rows /\ total_sales' = total_sales
    BY <1>0 DEF Answers, tables
  <2>2. req[w].op = "accept" => total_sales[StoreOf[o]][o] > 0
    BY <1>0, <1>1, <1>2, OrdersAssumption DEF SalesLedger
  <2>3. CASE confirmed' = confirmed
    BY <2>1, <2>3 DEF ConfirmedIsDurable
  <2>4. CASE confirmed' = confirmed \cup {<<req[w].op, o>>}
    BY <1>1, <1>2, <2>1, <2>2, <2>4 DEF ConfirmedIsDurable
  <2> QED
    BY <2>3, <2>4 DEF Confirm
<1> QED
  BY <1>3, <1>5, <1>7, <1>8, <1>9, <1>10, <1>11 DEF IInv, Answers

LEMMA AnswerStep ==
  ASSUME IInv, NEW w \in Workers, Answer(w)
  PROVE  IInv'
<1>1. refused' \in SUBSET (OrderIds \X BOOLEAN)
  BY DEF IInv, Answers, AnswersType, Answer
<1> QED
  BY <1>1, AnsweredStep DEF Answer, MayTellCustomer

LEMMA OwnerLookupFailsStep ==
  ASSUME IInv, NEW w \in Workers, OwnerLookupFails(w)
  PROVE  IInv'
<1>1. refused' \in SUBSET (OrderIds \X BOOLEAN)
  BY RefusedType DEF IInv, Control, OwnerLookupFails
<1> QED
  BY <1>1, AnsweredStep DEF OwnerLookupFails, MayTellCustomer

LEMMA CookTimeStep ==
  ASSUME IInv, NEW o \in OrderIds, HandleCookTimeSet(o)
  PROVE  IInv'
<1> USE DEF HandleCookTimeSet
<1>1. Tables' /\ Grows
  BY SameTables DEF IInv
<1>2. Control'
  BY OrdersAssumption DEF IInv, Control, ControlType, Modes, ModeOf, Handlers, HandlerOf, Exclusive, Holding,
     InTransaction
<1>3. OpenTransactions' /\ Published'
  BY DEF IInv, OpenTransactions, OpenTransaction, Acceptable, Published, PublishedBy, tables, history
<1>4. AnswersType'
  BY DEF IInv, Answers, AnswersType, States
<1>5. PushFollowsCommit'
  <2>1. PushFollowsCommit /\ AnswersType /\ rows' = rows /\ past' = past /\ ownerTold' = ownerTold
    BY DEF IInv, Answers, tables, history
  <2>2. CASE o \in rows
    BY <2>1, <2>2 DEF PushFollowsCommit, AnswersType
  <2>3. CASE o \notin rows
    BY <2>1, <2>3 DEF PushFollowsCommit
  <2> QED
    BY <2>2, <2>3
<1>6. ConfirmedIsDurable'
  BY DEF IInv, Answers, ConfirmedIsDurable, tables
<1> QED
  BY <1>1, <1>2, <1>3, <1>4, <1>5, <1>6 DEF IInv, Answers

LEMMA BeginRequestStep ==
  ASSUME IInv, NEW w \in Workers, BeginRequest(w)
  PROVE  IInv'
<1> USE DEF Ops, States, Waiting, Cooking, PickedUp, Delivered, Cancelled
<1>0. ControlType
  BY DEF IInv, Control
<1>1. PICK o \in OrderIds :
        \/ HandleCreateOrder(w, o) \/ HandleOrderAccept(w, o)
        \/ \E v \in NewStates : HandleChangeOrderState(w, o, v)
        \/ HandleOrderReject(w, o) \/ HandleCancel(w, o)
        \/ HandlePickup(w, o) \/ HandleDeliveryComplete(w, o)
  BY DEF BeginRequest
<1>2. pc[w] = "idle"
  BY <1>1 DEF HandleCreateOrder, HandleOrderAccept, HandleChangeOrderState, HandleOrderReject,
     HandleCancel, HandlePickup, HandleDeliveryComplete, Begin
<1>3. autocommit[w] = TRUE
  BY <1>0, <1>2 DEF IInv, Control, ControlType, Modes, ModeOf, InTransaction
<1>4. autocommit' = autocommit => autocommit' = [autocommit EXCEPT ![w] = ("update" = "update")]
  BY <1>0, <1>3 DEF ControlType
<1>5. BeginTransaction(w) => autocommit' = [autocommit EXCEPT ![w] = ("insert" = "update")]
  BY DEF BeginTransaction
<1>6. BeginTransaction(w) => autocommit' = [autocommit EXCEPT ![w] = ("accept" = "update")]
  BY DEF BeginTransaction
<1>7. CASE HandleCreateOrder(w, o)
  BY <1>5, <1>7, BeginStep DEF HandleCreateOrder
<1>8. CASE HandleOrderAccept(w, o)
  BY <1>6, <1>8, BeginStep DEF HandleOrderAccept
<1>9. CASE \E v \in NewStates : HandleChangeOrderState(w, o, v)
  BY <1>4, <1>9, BeginStep DEF HandleChangeOrderState
<1>10. CASE HandleOrderReject(w, o)
  BY <1>4, <1>10, BeginStep DEF HandleOrderReject
<1>11. CASE HandleCancel(w, o)
  BY <1>4, <1>11, BeginStep DEF HandleCancel
<1>12. CASE HandlePickup(w, o)
  BY <1>4, <1>12, BeginStep DEF HandlePickup
<1>13. CASE HandleDeliveryComplete(w, o)
  BY <1>4, <1>13, BeginStep DEF HandleDeliveryComplete
<1> QED
  BY <1>1, <1>7, <1>8, <1>9, <1>10, <1>11, <1>12, <1>13

LEMMA Initially == Init => IInv
<1> SUFFICES ASSUME Init PROVE IInv
  OBVIOUS
<1> USE OrdersAssumption DEF Init
<1>1. TablesType
  BY DEF TablesType, States, Waiting
<1>2. Acceptances /\ SalesLedger /\ CompleteOrders
  BY DEF Acceptances, SalesLedger, CompleteOrders, Waiting, Cooking
<1>3. ControlType
  BY DEF ControlType, Places
<1>4. Modes /\ Handlers /\ Exclusive
  BY DEF Modes, ModeOf, InTransaction, Handlers, HandlerOf, Exclusive, Holding, NoRequest, Request
<1>5. OpenTransactions /\ Published
  BY DEF OpenTransactions, OpenTransaction, Published, PublishedBy
<1>6. AnswersType /\ PushFollowsCommit /\ ConfirmedIsDurable
  BY DEF AnswersType, PushFollowsCommit, ConfirmedIsDurable
<1> QED
  BY <1>1, <1>2, <1>3, <1>4, <1>5, <1>6 DEF IInv, Tables, Control, Answers

LEMMA Inductive == IInv /\ [Next]_vars => IInv'
<1> SUFFICES ASSUME IInv, [Next]_vars PROVE IInv'
  OBVIOUS
<1>1. ASSUME NEW w \in Workers, BeginRequest(w) PROVE IInv'
  BY <1>1, BeginRequestStep
<1>2. ASSUME NEW w \in Workers, Step(w) PROVE IInv'
  BY <1>2, InsertOrderStep, InsertDetailStep, UpdateAcceptStep, ChargeSalesStep, CommitStep,
     UpdateStatusStep, AnswerStep DEF Step
<1>3. ASSUME NEW w \in Workers, StatementFails(w) PROVE IInv'
  <2>1. pc[w] # "idle" /\ Abort(w)
    BY <1>3 DEF StatementFails
  <2> QED
    BY <2>1, AbortStep
<1>4. ASSUME NEW w \in Workers, Failure(w) PROVE IInv'
  BY <1>3, <1>4, OutcomeLostStep, OwnerLookupFailsStep DEF Failure
<1>5. ASSUME NEW o \in OrderIds, HandleCookTimeSet(o) PROVE IInv'
  BY <1>5, CookTimeStep
<1>6. CASE UNCHANGED vars
  <2> USE <1>6 DEF vars, tables, history, answers
  <2>1. Tables'
    BY SameTables DEF IInv
  <2>2. Control'
    BY DEF IInv, Control, ControlType, Modes, ModeOf, Handlers, HandlerOf, Exclusive, Holding, InTransaction
  <2>3. OpenTransactions' /\ Published'
    BY DEF IInv, OpenTransactions, OpenTransaction, Acceptable, Published, PublishedBy
  <2>4. Answers'
    BY DEF IInv, Answers, AnswersType, PushFollowsCommit, ConfirmedIsDurable
  <2> QED
    BY <2>1, <2>2, <2>3, <2>4 DEF IInv
<1> QED
  BY <1>1, <1>2, <1>4, <1>5, <1>6 DEF Next

LEMMA TypeImplied == IInv => TypeOK
<1> SUFFICES ASSUME IInv PROVE TypeOK
  OBVIOUS
<1>1. TablesType /\ ControlType /\ AnswersType
  BY DEF IInv, Tables, Control, Answers
<1>2. ASSUME NEW w \in Workers
      PROVE  IF pc[w] = "idle" THEN txn[w] = {} ELSE txn[w] \subseteq Writes(req[w].order)
  <2> DEFINE o == req[w].order
  <2>1. ModeOf(w) /\ OpenTransaction(w) /\ HandlerOf(w) /\ pc[w] \in Places
    BY <1>1 DEF IInv, Control, ControlType, Modes, Handlers, OpenTransactions
  <2>2. CASE pc[w] = "idle"
    BY <2>1, <2>2 DEF ModeOf, InTransaction
  <2>3. CASE pc[w] = "detail"
    <3>1. txn[w] = Inserts(o, item[w]) /\ item[w] \in Nat /\ ItemsOf[o] \in Nat /\ item[w] < ItemsOf[o]
      BY <1>1, <2>1, <2>3, ReqType DEF OpenTransaction, ControlType
    <3> QED
      BY <2>3, <3>1 DEF Inserts, Writes
  <2>4. CASE pc[w] = "commit"
    <3>1. txn[w] = Inserts(o, ItemsOf[o]) \/ txn[w] = Charges(o)
      BY <2>1, <2>4 DEF OpenTransaction, HandlerOf
    <3> QED
      BY <2>4, <3>1 DEF Inserts, Charges, Writes
  <2>5. CASE pc[w] = "charge"
    <3>1. txn[w] = {<<"update", o>>}
      BY <2>1, <2>5 DEF OpenTransaction
    <3> QED
      BY <2>5, <3>1 DEF Writes
  <2>6. CASE pc[w] \in {"insert", "accept"}
    BY <2>1, <2>6 DEF OpenTransaction
  <2>7. CASE pc[w] \in {"update", "answer"}
    BY <2>1, <2>7 DEF ModeOf, InTransaction
  <2> QED
    BY <2>1, <2>2, <2>3, <2>4, <2>5, <2>6, <2>7 DEF Places
<1> QED
  BY <1>1, <1>2 DEF TypeOK, TablesType, ControlType, AnswersType, Requests, Places

-----------------------------------------------------------------------------
\* The inductive invariant holds in every reachable state of Spec, for every
\* number of workers, orders, stores, items and requests.
THEOREM Invariance == Spec => []IInv
BY Initially, Inductive, PTL DEF Spec

\* The order handlers keep their state, the tables and the answers well typed.
THEOREM TypeCorrect == Spec => []TypeOK
BY Invariance, TypeImplied, PTL

\* handleOrderAccept: total_sales holds exactly the committed acceptances.
THEOREM SalesAreAcceptances == Spec => []SalesLedger
<1>1. IInv => SalesLedger
  BY DEF IInv, Tables
<1> QED
  BY <1>1, Invariance, PTL

\* handleOrderAccept: of any number of racing acceptances at most one succeeds,
\* and only an accepted order is cooking.
THEOREM AtMostOneAcceptance == Spec => []AcceptedOnce
<1>1. IInv => AcceptedOnce
  BY DEF IInv, Tables, Acceptances, AcceptedOnce
<1> QED
  BY <1>1, Invariance, PTL

\* handleCreateOrder: an order exists with all its items or not at all.
THEOREM OrdersAreComplete == Spec => []CompleteOrders
<1>1. IInv => CompleteOrders
  BY DEF IInv, Tables
<1> QED
  BY <1>1, Invariance, PTL

\* The handlers push only what they have committed, but for the cooking that
\* handleCookTimeSet announces and a rejection or pickup that came too early.
THEOREM PushesFollowCommits == Spec => []PushFollowsCommit
<1>1. IInv => PushFollowsCommit
  BY DEF IInv, Answers
<1> QED
  BY <1>1, Invariance, PTL

\* A success answer to a creation or an acceptance is never invalidated.
THEOREM ConfirmationsAreDurable == Spec => []ConfirmedIsDurable
<1>1. IInv => ConfirmedIsDurable
  BY DEF IInv, Answers
<1> QED
  BY <1>1, Invariance, PTL

\* A transaction holds an order from its first write on, the store's row only
\* from the charge on.
LEMMA WhoHolds ==
  ASSUME IInv, NEW v \in Workers
  PROVE  /\ \A o \in OrderIds : HoldsRow(v, o) => pc[v] \in {"detail", "charge", "commit"}
         /\ \A s \in Stores : HoldsStore(v, s) => pc[v] = "commit"
<1>1. pc[v] \in Places
  BY DEF IInv, Control, ControlType
<1>2. /\ ~InTransaction(v) => txn[v] = {}
      /\ OpenTransaction(v)
  BY DEF IInv, Control, Modes, ModeOf, OpenTransactions
<1>3. pc[v] \in {"idle", "insert", "accept", "update", "answer"} => txn[v] = {}
  BY <1>2 DEF InTransaction, OpenTransaction
<1>4. pc[v] = "detail" => txn[v] = Inserts(req[v].order, item[v])
  BY <1>2 DEF OpenTransaction
<1>5. pc[v] = "charge" => txn[v] = {<<"update", req[v].order>>}
  BY <1>2 DEF OpenTransaction
<1>6. \A s \in Stores : HoldsStore(v, s) => pc[v] = "commit"
  BY <1>1, <1>3, <1>4, <1>5 DEF HoldsStore, Inserts, Places
<1>7. \A o \in OrderIds : HoldsRow(v, o) => pc[v] \in {"detail", "charge", "commit"}
  BY <1>1, <1>3 DEF HoldsRow, Places
<1> QED
  BY <1>6, <1>7

\* Locks are taken in one order, ORDERS before STORES, and a worker that has
\* both waits for nothing: no circle of waits, however many workers there are.
THEOREM NoDeadlock == Spec => []WaitsEnd
<1>1. IInv => WaitsEnd
  <2> SUFFICES ASSUME IInv, NEW w \in Workers, NEW v \in Workers, WaitsFor(w, v)
               PROVE  pc[v] # "idle" /\ \A u \in Workers : WaitsFor(v, u) => AtWork(u)
    BY DEF WaitsEnd
  <2>1. ASSUME NEW x \in Workers, NEW y \in Workers, WaitsFor(x, y)
        PROVE  /\ pc[y] \in {"detail", "charge", "commit"}
               /\ pc[x] = "charge" => pc[y] = "commit"
    <3>1. pc[x] # "idle"
      BY <2>1 DEF WaitsFor
    <3>2. req[x].order \in OrderIds /\ StoreOf[req[x].order] \in Stores
      BY <3>1, OrdersAssumption DEF IInv, Control, ControlType, Requests
    <3> QED
      BY <2>1, <3>2, WhoHolds DEF WaitsFor
  <2>2. pc[v] \in {"detail", "charge", "commit"}
    BY <2>1
  <2>3. ASSUME NEW u \in Workers, WaitsFor(v, u)
        PROVE  AtWork(u)
    <3>1. pc[v] = "charge"
      BY <2>2, <2>3 DEF WaitsFor
    <3>2. pc[u] = "commit"
      BY <2>1, <2>3, <3>1
    <3> QED
      BY <3>2 DEF AtWork, WaitsFor
  <2> QED
    BY <2>2, <2>3
<1> QED
  BY <1>1, Invariance, PTL

-----------------------------------------------------------------------------
(* Refinement.                                                             *)

LEMMA PublishIsLedgerStep ==
  ASSUME IInv, NEW w \in Workers,
         \/ pc[w] = "commit" /\ Publish(w, txn[w])
         \/ /\ pc[w] = "update" /\ req[w].order \in rows
            /\ Publish(w, {<<"update", req[w].order>>})
  PROVE  Ledger!Next
<1> DEFINE o == req[w].order
<1>0. /\ Tables /\ TablesType /\ CompleteOrders /\ ControlType
      /\ OpenTransaction(w) /\ HandlerOf(w) /\ pc[w] # "idle"
  BY DEF IInv, Tables, Control, OpenTransactions, Handlers
<1>1. req[w] \in Requests /\ o \in OrderIds /\ req[w].state \in States
  BY <1>0, ReqType
<1>2. CASE pc[w] = "commit" /\ req[w].op = "create"
  <2>1. txn[w] = Inserts(o, ItemsOf[o]) /\ o \notin rows /\ req[w].state = Waiting
    BY <1>0, <1>2 DEF OpenTransaction, HandlerOf
  <2>2. Placed(o)
    BY <1>0, <1>1, <1>2, <2>1, PublishInserts
  <2>3. details[o] = {}
    BY <1>0, <1>1, <2>1 DEF CompleteOrders
  <2>4. details' = [details EXCEPT ![o] = 1..ItemsOf[o]]
    BY <2>2, <2>3 DEF Placed
  <2>5. Ledger!Place(o)
    BY <2>1, <2>2, <2>4 DEF Placed, Ledger!Place, Waiting
  <2> QED
    BY <1>1, <2>5 DEF Ledger!Next
<1>3. CASE pc[w] = "commit" /\ req[w].op = "accept"
  <2>1. txn[w] = Charges(o) /\ Acceptable(o) /\ req[w].state = Cooking
    BY <1>0, <1>3 DEF OpenTransaction, HandlerOf
  <2>2. Accepted(o)
    BY <1>0, <1>1, <1>3, <2>1, PublishCharges
  <2>3. Ledger!Accept(o)
    BY <2>1, <2>2 DEF Accepted, Acceptable, Ledger!Accept, Waiting, Cooking
  <2> QED
    BY <1>1, <2>3 DEF Ledger!Next
<1>4. CASE pc[w] = "update"
  <2>1. o \in rows /\ req[w].op \notin {"create", "accept"}
    BY <1>0, <1>4 DEF HandlerOf
  <2>2. StatusSet(o, req[w].state)
    BY <1>0, <1>1, <1>4, <2>1, PublishUpdate
  <2>3. Ledger!SetStatus(o)
    BY <1>1, <2>1, <2>2 DEF StatusSet, Ledger!SetStatus
  <2> QED
    BY <1>1, <2>3 DEF Ledger!Next
<1> QED
  BY <1>0, <1>2, <1>3, <1>4 DEF HandlerOf

LEMMA StepRefines == IInv /\ [Next]_vars => [Ledger!Next]_(Ledger!ledger)
<1> SUFFICES ASSUME IInv, [Next]_vars PROVE Ledger!Next \/ UNCHANGED tables
  BY DEF tables, Ledger!ledger
<1>1. ASSUME NEW w \in Workers, BeginRequest(w) PROVE UNCHANGED tables
  BY <1>1 DEF BeginRequest, HandleCreateOrder, HandleOrderAccept, HandleChangeOrderState,
     HandleOrderReject, HandleCancel, HandlePickup, HandleDeliveryComplete, Begin
<1>2. ASSUME NEW w \in Workers, InTransaction(w), NEW x, Write(w, x) PROVE UNCHANGED tables
  <2>1. ~autocommit[w]
    BY <1>2 DEF IInv, Control, Modes, ModeOf
  <2> QED
    BY <1>2, <2>1 DEF Write
<1>3. ASSUME NEW w \in Workers, Step(w) PROVE Ledger!Next \/ UNCHANGED tables
  <2>1. CASE InsertOrder(w)
    BY <1>2, <2>1 DEF InsertOrder, Abort, InTransaction
  <2>2. CASE InsertDetail(w)
    BY <1>2, <2>2 DEF InsertDetail, InTransaction
  <2>3. CASE UpdateAccept(w)
    BY <1>2, <2>3 DEF UpdateAccept, Abort, InTransaction
  <2>4. CASE ChargeSales(w)
    BY <1>2, <2>4 DEF ChargeSales, InTransaction
  <2>5. CASE Commit(w)
    BY <2>5, PublishIsLedgerStep DEF Commit
  <2>6. CASE UpdateStatus(w)
    <3>1. CASE req[w].order \in rows
      <4>1. autocommit[w]
        BY <2>6 DEF IInv, Control, Modes, ModeOf, InTransaction, UpdateStatus
      <4> QED
        BY <2>6, <3>1, <4>1, PublishIsLedgerStep DEF UpdateStatus, Write
    <3>2. CASE req[w].order \notin rows
      BY <2>6, <3>2 DEF UpdateStatus
    <3> QED
      BY <3>1, <3>2
  <2>7. CASE Answer(w)
    BY <2>7 DEF Answer
  <2> QED
    BY <1>3, <2>1, <2>2, <2>3, <2>4, <2>5, <2>6, <2>7 DEF Step
<1>4. ASSUME NEW w \in Workers, Failure(w) PROVE Ledger!Next \/ UNCHANGED tables
  <2>1. CASE StatementFails(w)
    BY <2>1 DEF StatementFails, Abort
  <2>2. CASE OutcomeLost(w)
    BY <2>2, PublishIsLedgerStep DEF OutcomeLost
  <2>3. CASE OwnerLookupFails(w)
    BY <2>3 DEF OwnerLookupFails
  <2> QED
    BY <1>4, <2>1, <2>2, <2>3 DEF Failure
<1>5. ASSUME NEW o \in OrderIds, HandleCookTimeSet(o) PROVE UNCHANGED tables
  BY <1>5 DEF HandleCookTimeSet
<1>6. CASE UNCHANGED vars
  BY <1>6 DEF vars
<1> QED
  BY <1>1, <1>3, <1>4, <1>5, <1>6 DEF Next

\* The handlers, with all their interleavings and failures, implement the
\* ledger: whole orders, acceptances together with their charge, and status
\* changes are all that ever happens to the tables.
THEOREM ImplementsLedger == Spec => LedgerSpec
<1>1. Init => Ledger!Init
  BY DEF Init, Ledger!Init, Waiting
<1> QED
  BY <1>1, StepRefines, Invariance, PTL DEF Spec, LedgerSpec, Ledger!Spec

-----------------------------------------------------------------------------
(* What no step does to the tables; read off the refinement.               *)

\* A store's sales change only in the step that takes one of its waiting orders
\* to cooking, and by that order's price once; no step, of whatever worker and
\* failing wherever, takes a stored order or its items away again.
BooksOnlyGrow ==
  [][/\ \A s \in Stores, o \in OrderIds :
          total_sales'[s][o] # total_sales[s][o] =>
            /\ s = StoreOf[o] /\ o \in rows
            /\ order_status[o] = Waiting /\ order_status'[o] = Cooking
            /\ total_sales'[s][o] = total_sales[s][o] + 1
     /\ rows \subseteq rows'
     /\ \A o \in rows : details'[o] = details[o]]_vars

\* Every step of the handlers is a step of the ledger, and those keep the books.
THEOREM BooksAreKept == Spec => BooksOnlyGrow
<1> DEFINE Charge == \A s \in Stores, o \in OrderIds :
                       total_sales'[s][o] # total_sales[s][o] =>
                         /\ s = StoreOf[o] /\ o \in rows
                         /\ order_status[o] = Waiting /\ order_status'[o] = Cooking
                         /\ total_sales'[s][o] = total_sales[s][o] + 1
           Stay == rows \subseteq rows' /\ \A o \in rows : details'[o] = details[o]
<1>1. IInv /\ [Next]_vars => [Charge /\ Stay]_vars
  <2> SUFFICES ASSUME IInv, Ledger!Next \/ UNCHANGED tables PROVE Charge /\ Stay
    BY StepRefines DEF Ledger!ledger, tables
  <2>0. TablesType
    BY DEF IInv, Tables
  <2>1. CASE UNCHANGED tables
    BY <2>1 DEF tables
  <2>2. ASSUME NEW o \in OrderIds, Ledger!Place(o) PROVE Charge /\ Stay
    BY <2>0, <2>2 DEF Ledger!Place, TablesType
  <2>3. ASSUME NEW o \in OrderIds, Ledger!Accept(o) PROVE Charge /\ Stay
    <3>1. /\ o \in rows /\ order_status[o] = Waiting
          /\ order_status' = [order_status EXCEPT ![o] = Cooking]
          /\ total_sales' = [total_sales EXCEPT ![StoreOf[o]][o] = @ + 1]
          /\ rows' = rows /\ details' = details
      BY <2>3 DEF Ledger!Accept, Waiting, Cooking
    <3>2. StoreOf[o] \in Stores /\ order_status'[o] = Cooking
      BY <2>0, <3>1, OrdersAssumption DEF TablesType
    <3>3. \A s \in Stores, x \in OrderIds :
            total_sales'[s][x] = IF s = StoreOf[o] /\ x = o THEN total_sales[s][x] + 1
                                 ELSE total_sales[s][x]
      BY <2>0, <3>1, <3>2 DEF TablesType
    <3>4. Charge
      BY <3>1, <3>2, <3>3
    <3> QED BY <3>1, <3>4
  <2>4. ASSUME NEW o \in OrderIds, Ledger!SetStatus(o) PROVE Charge /\ Stay
    BY <2>4 DEF Ledger!SetStatus
  <2> HIDE DEF Charge, Stay
  <2> QED BY <2>1, <2>2, <2>3, <2>4 DEF Ledger!Next
<1> QED BY <1>1, Invariance, PTL DEF Spec, BooksOnlyGrow
=============================================================================
