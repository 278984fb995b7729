-------------------------------- MODULE Orders --------------------------------
(***************************************************************************)
(* The life of an order (server/src/handler/OrderHandler.cpp and           *)
(* RiderHandler.cpp) as the workers execute it, statement by statement,    *)
(* against MariaDB.                                                        *)
(*                                                                         *)
(* A handler that calls setAutoCommit(false) collects its writes in txn    *)
(* until commit() publishes them; its rows stay locked meanwhile, and a    *)
(* statement of another worker on such a row waits.  Without it each       *)
(* statement commits itself.  Any statement may throw; the catch block     *)
(* then rolls back and answers, unless the rollback throws too, which      *)
(* leaves the client without an answer.                                    *)
(*                                                                         *)
(* total_sales is represented by the amounts added to it: how often the    *)
(* price of each order has been added.  An order number stands for one     *)
(* customer request: a second creation with the same number is a repeated  *)
(* tap that drew the same second and random suffix.                        *)
(***************************************************************************)
EXTENDS Integers

CONSTANTS Workers,
          OrderIds,
          Stores,
          StoreOf,      \* the store an order is addressed to
          ItemsOf,      \* how many items it lists
          NewStates,    \* the states clients send in REQ_CHANGE_ORDER_STATE
          NoOrder,      \* the order of a worker without a request
          MaxRequests   \* bound: requests handled in a behaviour

ASSUME OrdersAssumption ==
  /\ StoreOf \in [OrderIds -> Stores]
  /\ ItemsOf \in [OrderIds -> Nat]
  /\ NewStates \subseteq Int
  /\ NoOrder \notin OrderIds
  /\ MaxRequests \in Nat

VARIABLES
  rows,          \* committed ORDERS rows
  order_status,  \* ORDERS.order_status
  details,       \* committed ORDER_DETAILS rows, by item number
  total_sales,   \* STORES.total_sales, as the amounts added
  autocommit,    \* the mode of the connection a worker holds
  txn,           \* the uncommitted writes of a worker
  pc,            \* the statement a worker executes next
  req,           \* the request it handles: handler, order, new state
  item,          \* handleCreateOrder's loop: the items already inserted
  requests,      \* requests begun
  told,          \* the states pushed to the order's customer
  ownerTold,     \* the new orders pushed to the store's owner
  confirmed,     \* requests <<handler, order>> that were answered with success
  refused,       \* <<order, stored>>: creations answered with failure
  cookTimed,     \* orders handleCookTimeSet told the customer about
  premature,     \* history: <<order, state>> of updates that found no row and went on
  accepts,       \* history: committed acceptances
  past,          \* history: the states an order has had
  overridden     \* history: orders handleChangeOrderState put at 0 or 1

tables == <<rows, order_status, details, total_sales>>
history == <<accepts, past, overridden>>
answers == <<told, ownerTold, confirmed, refused, cookTimed, premature>>
vars == <<tables, history, answers, autocommit, txn, pc, req, item, requests>>

Waiting == 0
Cooking == 1
PickedUp == 2
Delivered == 3
Cancelled == 9

Ops == {"create", "accept", "change", "reject", "cancel", "pickup", "complete"}

States == NewStates \cup {Waiting, Cooking, PickedUp, Delivered, Cancelled}

Request(op, o, v) == [op |-> op, order |-> o, state |-> v]

NoRequest == Request("none", NoOrder, Waiting)

\* The server starts on a database that may already hold orders nobody has
\* accepted yet.
Init ==
  /\ rows \in SUBSET OrderIds
  /\ order_status = [o \in OrderIds |-> Waiting]
  /\ details = [o \in OrderIds |-> IF o \in rows THEN 1..ItemsOf[o] ELSE {}]
  /\ total_sales = [s \in Stores |-> [o \in OrderIds |-> 0]]
  /\ autocommit = [w \in Workers |-> TRUE]
  /\ txn = [w \in Workers |-> {}]
  /\ pc = [w \in Workers |-> "idle"]
  /\ req = [w \in Workers |-> NoRequest]
  /\ item = [w \in Workers |-> 0]
  /\ requests = 0
  /\ told = [o \in OrderIds |-> {}]
  /\ ownerTold = {}
  /\ confirmed = {}
  /\ refused = {}
  /\ cookTimed = {}
  /\ premature = {}
  /\ accepts = [o \in OrderIds |-> 0]
  /\ past = [o \in OrderIds |-> IF o \in rows THEN {Waiting} ELSE {}]
  /\ overridden = {}

-----------------------------------------------------------------------------
(* Faulty variants, used by no specification.                              *)

FaultNoTransaction(w) == autocommit' = autocommit

FaultAnyStatus(o) == o \in rows

FaultKeepTransaction(w) ==
  /\ autocommit' = [autocommit EXCEPT ![w] = TRUE]
  /\ txn' = txn

FaultForgetCommit(w) == IF item'[w] >= ItemsOf[req[w].order] THEN "answer" ELSE "detail"

FaultOneItemMore(w) == IF item'[w] > ItemsOf[req[w].order] THEN "commit" ELSE "detail"

FaultAnswerBeforeCommit(w) ==
  /\ pc[w] = "charge"
  /\ txn' = [txn EXCEPT ![w] = @ \cup {<<"charge", req[w].order>>}]
  /\ pc' = [pc EXCEPT ![w] = "answer"]
  /\ UNCHANGED <<tables, history, answers, req, autocommit, item, requests>>

-----------------------------------------------------------------------------
(* MariaDB, as the handlers use it.                                        *)

\* The writes W of worker w become visible to everybody.
Publish(w, W) ==
  LET r == req[w]
      o == r.order
      inserted == <<"insert", o>> \in W
      updated == <<"update", o>> \in W
  IN  /\ rows' = IF inserted THEN rows \cup {o} ELSE rows
      /\ order_status' = IF inserted \/ updated
                         THEN [order_status EXCEPT ![o] = r.state] ELSE order_status
      /\ details' = [details EXCEPT ![o] = @ \cup {i \in 1..ItemsOf[o] : <<"detail", i>> \in W}]
      /\ total_sales' = IF <<"charge", o>> \in W
                        THEN [total_sales EXCEPT ![StoreOf[o]][o] = @ + 1] ELSE total_sales
      /\ accepts' = IF updated /\ r.op = "accept"
                    THEN [accepts EXCEPT ![o] = @ + 1] ELSE accepts
      /\ past' = IF inserted \/ updated
                 THEN [past EXCEPT ![o] = @ \cup {r.state}] ELSE past
      /\ overridden' = IF updated /\ r.op = "change" /\ r.state \in {Waiting, Cooking}
                       THEN overridden \cup {o} ELSE overridden

\* One INSERT or UPDATE statement that has its row locks.
Write(w, x) ==
  IF autocommit[w]
  THEN Publish(w, {x}) /\ txn' = txn
  ELSE txn' = [txn EXCEPT ![w] = @ \cup {x}] /\ UNCHANGED <<tables, history>>

\* The open transaction of v holds the row of order o, or of store s.
HoldsRow(v, o) == <<"insert", o>> \in txn[v] \/ <<"update", o>> \in txn[v]
HoldsStore(v, s) == \E o \in OrderIds : StoreOf[o] = s /\ <<"charge", o>> \in txn[v]

RowLocked(w) == \E v \in Workers \ {w} : HoldsRow(v, req[w].order)
StoreLocked(w) == \E v \in Workers \ {w} : HoldsStore(v, StoreOf[req[w].order])

-----------------------------------------------------------------------------
(* A worker takes a request: the handler up to its first write.            *)

Begin(w, op, o, v, first) ==
  /\ pc[w] = "idle"
  /\ requests < MaxRequests
  /\ requests' = requests + 1
  /\ pc' = [pc EXCEPT ![w] = first]
  /\ req' = [req EXCEPT ![w] = Request(op, o, v)]
  /\ item' = [item EXCEPT ![w] = 0]
  /\ UNCHANGED <<tables, history, answers, txn>>

\* conn->setAutoCommit(false)
BeginTransaction(w) == autocommit' = [autocommit EXCEPT ![w] = FALSE]

\* A price that does not add up is logged and the order goes on.
HandleCreateOrder(w, o) == Begin(w, "create", o, Waiting, "insert") /\ BeginTransaction(w)

HandleOrderAccept(w, o) == Begin(w, "accept", o, Cooking, "accept") /\ BeginTransaction(w)

HandleChangeOrderState(w, o, v) == Begin(w, "change", o, v, "update") /\ UNCHANGED autocommit

HandleOrderReject(w, o) == Begin(w, "reject", o, Cancelled, "update") /\ UNCHANGED autocommit

HandleCancel(w, o) == Begin(w, "cancel", o, Cancelled, "update") /\ UNCHANGED autocommit

HandlePickup(w, o) == Begin(w, "pickup", o, PickedUp, "update") /\ UNCHANGED autocommit

\* The dispatched handler is RiderHandler's.
HandleDeliveryComplete(w, o) == Begin(w, "complete", o, Delivered, "update") /\ UNCHANGED autocommit

\* handleCookTimeSet writes nothing: it tells the customer of an existing
\* order that cooking has begun, whatever state the order is in, unless one of
\* its queries fails.
HandleCookTimeSet(o) ==
  /\ requests < MaxRequests
  /\ requests' = requests + 1
  /\ \/ /\ o \in rows
        /\ told' = [told EXCEPT ![o] = @ \cup {Cooking}]
        /\ cookTimed' = cookTimed \cup {o}
     \/ UNCHANGED <<told, cookTimed>>
  /\ UNCHANGED <<tables, history, ownerTold, confirmed, refused, premature, autocommit, txn, pc, req, item>>

-----------------------------------------------------------------------------
(* The writes.                                                             *)

Goto(w, p) == pc' = [pc EXCEPT ![w] = p] /\ req' = req

Done(w) ==
  /\ pc' = [pc EXCEPT ![w] = "idle"]
  /\ req' = [req EXCEPT ![w] = NoRequest]

\* The failure answer of a creation, sent or not; stored says whether the
\* request's own writes are in the database.
MayRefuse(w, stored) ==
  refused' = refused \/ (req[w].op = "create" /\ refused' = refused \cup {<<req[w].order, stored>>})

\* What commit() and rollback() have in common, with the setAutoCommit(true)
\* that follows.  A connection whose rollback failed is replaced at its next
\* checkout.
EndTransaction(w) ==
  /\ autocommit' = [autocommit EXCEPT ![w] = TRUE]
  /\ txn' = [txn EXCEPT ![w] = {}]

\* The catch block of a handler that has published nothing.
Abort(w) ==
  /\ EndTransaction(w)
  /\ MayRefuse(w, FALSE)
  /\ Done(w)
  /\ UNCHANGED <<tables, history, told, ownerTold, confirmed, cookTimed, premature, item, requests>>

Duplicate(o) == o \in rows

AfterItems(w) == IF item'[w] >= ItemsOf[req[w].order] THEN "commit" ELSE "detail"

\* INSERT INTO ORDERS; a used number violates the primary key.
InsertOrder(w) ==
  /\ pc[w] = "insert"
  /\ ~RowLocked(w)
  /\ IF Duplicate(req[w].order)
     THEN Abort(w)
     ELSE /\ Write(w, <<"insert", req[w].order>>)
          /\ item' = item
          /\ Goto(w, AfterItems(w))
          /\ UNCHANGED <<answers, autocommit, requests>>

\* INSERT INTO ORDER_DETAILS, once per item.
InsertDetail(w) ==
  /\ pc[w] = "detail"
  /\ Write(w, <<"detail", item[w] + 1>>)
  /\ item' = [item EXCEPT ![w] = @ + 1]
  /\ Goto(w, AfterItems(w))
  /\ UNCHANGED <<answers, autocommit, requests>>

\* WHERE order_id = ? AND order_status = 0
Acceptable(o) == o \in rows /\ order_status[o] = Waiting

UpdateAccept(w) ==
  /\ pc[w] = "accept"
  /\ ~RowLocked(w)
  /\ IF Acceptable(req[w].order)
     THEN /\ Write(w, <<"update", req[w].order>>)
          /\ Goto(w, "charge")
          /\ UNCHANGED <<answers, autocommit, item, requests>>
     ELSE Abort(w)

\* UPDATE STORES ... SET total_sales = total_sales + total_price
ChargeSales(w) ==
  /\ pc[w] = "charge"
  /\ ~StoreLocked(w)
  /\ Write(w, <<"charge", req[w].order>>)
  /\ Goto(w, "commit")
  /\ UNCHANGED <<answers, autocommit, item, requests>>

\* conn->commit(); conn->setAutoCommit(true)
Commit(w) ==
  /\ pc[w] = "commit"
  /\ Publish(w, txn[w])
  /\ EndTransaction(w)
  /\ Goto(w, "answer")
  /\ UNCHANGED <<answers, item, requests>>

\* The single UPDATE of the other handlers.  They look at no state of the
\* order.  One that finds no row ends there; but handleOrderReject and
\* handlePickup do not look at that either: they answer with success and go on.
UpdateStatus(w) ==
  /\ pc[w] = "update"
  /\ ~RowLocked(w)
  /\ \/ /\ req[w].order \in rows
        /\ Write(w, <<"update", req[w].order>>)
        /\ Goto(w, "answer")
        /\ UNCHANGED premature
     \/ /\ req[w].order \notin rows
        /\ IF req[w].op \in {"reject", "pickup"}
           THEN Goto(w, "answer") /\ premature' = premature \cup {<<req[w].order, req[w].state>>}
           ELSE Done(w) /\ UNCHANGED premature
        /\ UNCHANGED <<tables, history, txn>>
  /\ UNCHANGED <<told, ownerTold, confirmed, refused, cookTimed, autocommit, item, requests>>

\* A statement throws, commit excepted: lock wait timeout, lost link, ...
StatementFails(w) ==
  /\ pc[w] \in {"insert", "detail", "accept", "charge", "update"}
  /\ Abort(w)

\* The link is lost while commit() or an autocommitted UPDATE is under way: the
\* database may have executed it, and the handler takes its catch block.
OutcomeLost(w) ==
  /\ \/ pc[w] = "commit" /\ Publish(w, txn[w]) /\ MayRefuse(w, TRUE)
     \/ pc[w] = "commit" /\ UNCHANGED <<tables, history>> /\ MayRefuse(w, FALSE)
     \/ /\ pc[w] = "update"
        /\ ~RowLocked(w)
        /\ req[w].order \in rows
        /\ Publish(w, {<<"update", req[w].order>>})
        /\ refused' = refused
  /\ EndTransaction(w)
  /\ Done(w)
  /\ UNCHANGED <<told, ownerTold, confirmed, cookTimed, premature, item, requests>>

-----------------------------------------------------------------------------
(* The answer to the client and the pushes, after the commit.              *)

Confirm(w) == confirmed' = confirmed \cup {<<req[w].op, req[w].order>>}

\* The customer is that of the row there is now, on another connection.
\* getCustomerIdByOrderId swallows an SQL error, and then nothing is pushed; an
\* owner may be unknown or offline.
MayTellCustomer(w) ==
  \/ told' = told
  \/ req[w].order \in rows /\ told' = [told EXCEPT ![req[w].order] = @ \cup {req[w].state}]

Answer(w) ==
  /\ pc[w] = "answer"
  /\ Confirm(w)
  /\ IF req[w].op = "create"
     THEN /\ ownerTold' = ownerTold \/ ownerTold' = ownerTold \cup {req[w].order}
          /\ told' = told
     ELSE MayTellCustomer(w) /\ ownerTold' = ownerTold
  /\ Done(w)
  /\ UNCHANGED <<tables, history, autocommit, txn, refused, cookTimed, premature, item, requests>>

\* Looking up the owner throws after the order is stored: the catch block
\* answers a second time, now with failure (handleDeliveryComplete only then
\* answers at all).
OwnerLookupFails(w) ==
  /\ pc[w] = "answer"
  /\ req[w].op \in {"create", "cancel", "pickup", "complete"}
  /\ IF req[w].op = "complete" THEN confirmed' = confirmed ELSE Confirm(w)
  /\ IF req[w].op \in {"cancel", "complete"} THEN MayTellCustomer(w) ELSE told' = told
  /\ MayRefuse(w, TRUE)
  /\ Done(w)
  /\ UNCHANGED <<tables, history, autocommit, txn, ownerTold, cookTimed, premature, item, requests>>

-----------------------------------------------------------------------------
BeginRequest(w) ==
  \E o \in OrderIds :
    \/ HandleCreateOrder(w, o)
    \/ HandleOrderAccept(w, o)
    \/ \E v \in NewStates : HandleChangeOrderState(w, o, v)
    \/ HandleOrderReject(w, o)
    \/ HandleCancel(w, o)
    \/ HandlePickup(w, o)
    \/ HandleDeliveryComplete(w, o)

Step(w) ==
  \/ InsertOrder(w)
  \/ InsertDetail(w)
  \/ UpdateAccept(w)
  \/ ChargeSales(w)
  \/ Commit(w)
  \/ UpdateStatus(w)
  \/ Answer(w)

Failure(w) == StatementFails(w) \/ OutcomeLost(w) \/ OwnerLookupFails(w)

Next ==
  \/ \E w \in Workers : BeginRequest(w) \/ Step(w) \/ Failure(w)
  \/ \E o \in OrderIds : HandleCookTimeSet(o)

Spec == Init /\ [][Next]_vars

\* A worker goes on with its request; nothing makes a client send one or a
\* statement fail.
FairSpec == Spec /\ \A w \in Workers : WF_vars(Step(w))

-----------------------------------------------------------------------------
Writes(o) ==
  ({"insert", "update", "charge"} \X {o}) \cup ({"detail"} \X (1..ItemsOf[o]))

TypeOK ==
  /\ rows \in SUBSET OrderIds
  /\ order_status \in [OrderIds -> States]
  /\ details \in [OrderIds -> SUBSET Nat]
  /\ total_sales \in [Stores -> [OrderIds -> Nat]]
  /\ autocommit \in [Workers -> BOOLEAN]
  /\ pc \in [Workers -> {"idle", "insert", "detail", "accept", "charge", "commit", "update", "answer"}]
  /\ req \in [Workers -> [op : Ops, order : OrderIds, state : States] \cup {NoRequest}]
  /\ \A w \in Workers : pc[w] = "idle" <=> req[w] = NoRequest
  /\ item \in [Workers -> Nat]
  /\ \A w \in Workers : pc[w] = "detail" => item[w] < ItemsOf[req[w].order]
  /\ \A w \in Workers : IF pc[w] = "idle" THEN txn[w] = {} ELSE txn[w] \subseteq Writes(req[w].order)
  /\ requests \in 0..MaxRequests
  /\ told \in [OrderIds -> SUBSET States]
  /\ ownerTold \in SUBSET OrderIds
  /\ confirmed \in SUBSET (Ops \X OrderIds)
  /\ refused \in SUBSET (OrderIds \X BOOLEAN)
  /\ cookTimed \in SUBSET OrderIds
  /\ premature \in SUBSET (OrderIds \X States)
  /\ accepts \in [OrderIds -> Nat]
  /\ past \in [OrderIds -> SUBSET States]
  /\ overridden \in SUBSET OrderIds

\* A store's sales are the prices of the acceptances that happened, each added
\* once to the store of its order: an acceptance and its charge are never
\* separated by a concurrent acceptance, an SQL error or a lost link.
SalesLedger ==
  \A s \in Stores, o \in OrderIds :
    total_sales[s][o] = IF s = StoreOf[o] THEN accepts[o] ELSE 0

\* However many acceptances of an order race each other and the rejections,
\* cancellations and deliveries, at most one succeeds, and an order is cooking
\* only after one did; an order that handleChangeOrderState put back to waiting
\* or straight to cooking is excepted, since nothing stops a client from that.
AcceptedOnce ==
  \A o \in OrderIds \ overridden :
    /\ accepts[o] <= 1
    /\ o \in rows /\ order_status[o] = Cooking => accepts[o] = 1

\* An order that exists has all its items: nobody sees half an order, and a
\* failed or interrupted creation leaves nothing behind.
CompleteOrders ==
  \A o \in OrderIds : details[o] = IF o \in rows THEN 1..ItemsOf[o] ELSE {}

\* Customers and owners are told only of orders that exist, and only what is
\* committed: a state the order really had.  Excepted are the cooking that
\* handleCookTimeSet announces by itself, and a rejection or a pickup whose UPDATE
\* came before the order was stored and whose lookup came after.
PushFollowsCommit ==
  /\ \A o \in OrderIds : \A v \in told[o] :
       /\ o \in rows
       /\ v \in past[o] \/ (v = Cooking /\ o \in cookTimed) \/ <<o, v>> \in premature
  /\ ownerTold \subseteq rows

\* A success answer is never taken back: the created order exists and the
\* accepted one is on the books.
ConfirmedIsDurable ==
  \A o \in OrderIds :
    /\ <<"create", o>> \in confirmed => o \in rows
    /\ <<"accept", o>> \in confirmed => total_sales[StoreOf[o]][o] > 0

\* Worker w has to wait for the transaction of v.
WaitsFor(w, v) ==
  /\ v # w
  /\ \/ pc[w] \in {"insert", "accept", "update"} /\ HoldsRow(v, req[w].order)
     \/ pc[w] = "charge" /\ HoldsStore(v, StoreOf[req[w].order])

AtWork(w) == pc[w] # "idle" /\ \A v \in Workers : ~WaitsFor(w, v)

\* The row locks never close a circle and none is left behind: whoever a worker
\* waits for is busy with a request, and waits himself, if at all, only for
\* workers who wait for nobody.
WaitsEnd ==
  \A w, v \in Workers :
    WaitsFor(w, v) => pc[v] # "idle" /\ \A u \in Workers : WaitsFor(v, u) => AtWork(u)

\* Every request ends: the locks of open transactions are always released and
\* no two workers wait for each other's rows.
RequestsFinish == \A w \in Workers : pc[w] # "idle" ~> pc[w] = "idle"

Ledger == INSTANCE OrderLedger
  WITH rows <- rows, order_status <- order_status, details <- details, total_sales <- total_sales

\* Statement by statement, with failures at every point, the handlers do
\* nothing to the tables but place whole orders, accept waiting ones together
\* with the charge, and set statuses.
LedgerSpec == Ledger!Spec

\* dto/OrderDTO.h on the status of OrderCreateResDTO: 0 is success and 1 is
\* failure.  A creation answered with failure has stored no order.
FailureMeansNoOrder == \A o \in OrderIds : <<o, TRUE>> \notin refused
=============================================================================
