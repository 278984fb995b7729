------------------------------ MODULE Addresses ------------------------------
(***************************************************************************)
(* The delivery addresses of one customer (server/src/database/AddressDAO  *)
(* .cpp under handler/AddressHandler.cpp), as the workers execute the      *)
(* customer's requests statement by statement.  Every statement names the  *)
(* user_id, or an address_id found under it, so customers meet only in the *)
(* gaps of an index: a save that waits there, or is rolled back for it.    *)
(*                                                                         *)
(* saveAddress is one transaction: its reset locks the customer's rows and *)
(* the gap a new row would go to until the commit, and what it writes is   *)
(* published by the commit.  Row locks exclude each other; gap locks do    *)
(* not, but an INSERT waits for those of others.  (MariaDB's REPEATABLE    *)
(* READ, which the code leaves as it is; the schema in the repository does *)
(* not show USER_ADDRESSES: address_id is taken for its primary key.)  The *)
(* statements of the other requests commit one by one, and reads see what  *)
(* is committed.                                                           *)
(*                                                                         *)
(* The address of a row never changes and is named by its address_id; its  *)
(* detail is numbered by the edits of updateAddress.  CUSTOMERS.address is *)
(* the text made of both by saveAddress, of the first by setDefaultAddress.*)
(* The list that is sent after a success is left out.                      *)
(***************************************************************************)
EXTENDS Naturals

CONSTANTS Workers,
          Existing,     \* rows the customer may have when the server starts
          MaxRequests   \* bound: requests handled in a behaviour

ASSUME BoundsAssumption == Existing \in Nat /\ MaxRequests \in Nat

VARIABLES
  book,        \* committed USER_ADDRESSES rows of the customer, by address_id
  defaults,    \* the rows with is_default = 1
  detail,      \* by address_id: the detail of the row, FirstDetail when saved
  customer,    \* CUSTOMERS.address: the address in the text, and the detail
  nextId,      \* AUTO_INCREMENT of address_id
  pc,          \* the statement a worker executes next
  req,         \* its request: the DAO call and the address it is about
  demoted,     \* the rows reset by the open transaction of a worker
  found,       \* setDefaultAddress: the text it has selected
  requests,    \* requests begun
  raced,       \* history: a setDefaultAddress ran beside another request
  brokenOff,   \* history: a setDefaultAddress ended between its statements
  chosen       \* history: the customer has had a default address

tables == <<book, defaults, detail, customer>>
vars == <<tables, nextId, pc, req, demoted, found, requests, raced, brokenOff, chosen>>

NoAddress == 0
Ids == 1..(Existing + MaxRequests)

\* What address + " " + detail, or address alone, makes of a row.
NoDetail == 0
FirstDetail == 1
Text(a, d) == [of |-> a, detail |-> d]
NoText == Text(NoAddress, NoDetail)

NoRequest == [op |-> "none", id |-> NoAddress]

\* The customer has at most one default address, copied to CUSTOMERS.
Init ==
  /\ book \in SUBSET (1..Existing)
  /\ customer \in {NoText} \cup {Text(a, d) : a \in book, d \in {NoDetail, FirstDetail}}
  /\ defaults = book \cap {customer.of}
  /\ detail = [a \in Ids |-> FirstDetail]
  /\ nextId = Existing + 1
  /\ pc = [w \in Workers |-> "idle"]
  /\ req = [w \in Workers |-> NoRequest]
  /\ demoted = [w \in Workers |-> {}]
  /\ found = [w \in Workers |-> NoText]
  /\ requests = 0
  /\ raced = FALSE
  /\ brokenOff = FALSE
  /\ chosen = (defaults # {})

-----------------------------------------------------------------------------
(* Faulty variants, used by no specification.                              *)

FaultNoNewId == NoAddress

FaultKeepDefaults(w) == defaults \cup {req[w].id}

FaultDeletable(a) == a \in book

FaultNoSync(w) == "idle"

-----------------------------------------------------------------------------
(* MariaDB, as the DAO uses it.                                            *)

\* The rows locked by the open saveAddress of a worker: those its reset found,
\* and the one it has inserted.
Locked(v) ==
  CASE pc[v] = "insert"             -> demoted[v]
    [] pc[v] \in {"copy", "commit"} -> demoted[v] \cup {req[v].id}
    [] OTHER                        -> {}

\* What the statement of w has to wait for: some row of the customer, the row
\* it is about, the gap (which every reset locks), or the CUSTOMERS row.
RowsLocked(w) == \E v \in Workers \ {w} : Locked(v) # {}
RowLocked(w) == \E v \in Workers \ {w} : req[w].id \in Locked(v)
GapLocked(w) == \E v \in Workers \ {w} : pc[v] \in {"insert", "copy", "commit"}
CustomerLocked(w) == \E v \in Workers \ {w} : pc[v] = "commit"

-----------------------------------------------------------------------------
(* A worker takes a request.                                               *)

Busy == {w \in Workers : pc[w] # "idle"}

Begin(w, op, a, first) ==
  /\ pc[w] = "idle"
  /\ requests < MaxRequests
  /\ requests' = requests + 1
  /\ pc' = [pc EXCEPT ![w] = first]
  /\ req' = [req EXCEPT ![w] = [op |-> op, id |-> a]]
  /\ raced' = (raced \/ \E v \in Busy : /\ "default" \in {op, req[v].op}
                                        /\ "update" \notin {op, req[v].op})
  /\ UNCHANGED <<tables, nextId, demoted, found, brokenOff, chosen>>

HandleAddressSave(w) == Begin(w, "save", NoAddress, "reset")

HandleAddressDelete(w, a) == Begin(w, "delete", a, "check")

HandleAddressUpdate(w, a) == Begin(w, "update", a, "edit")

HandleAddressDefault(w, a) == Begin(w, "default", a, "demote")

Goto(w, p) == pc' = [pc EXCEPT ![w] = p]

\* The DAO returns and the handler answers, with 200, 400 or 500.
Done(w) ==
  /\ pc' = [pc EXCEPT ![w] = "idle"]
  /\ req' = [req EXCEPT ![w] = NoRequest]
  /\ demoted' = [demoted EXCEPT ![w] = {}]
  /\ found' = [found EXCEPT ![w] = NoText]

-----------------------------------------------------------------------------
(* saveAddress.                                                            *)

\* UPDATE ... SET is_default = 0, in the transaction.
SaveReset(w) ==
  /\ pc[w] = "reset"
  /\ ~RowsLocked(w)
  /\ demoted' = [demoted EXCEPT ![w] = book]
  /\ Goto(w, "insert")
  /\ UNCHANGED <<tables, nextId, req, found, requests, raced, brokenOff, chosen>>

\* SELECT LAST_INSERT_ID()
NewId == nextId

\* INSERT INTO USER_ADDRESSES, as the default.  There are as many numbers as
\* rows and requests, so there always is one.  The first addresses of a customer
\* saved by two workers wait for each other's gap, until MariaDB rolls one of
\* them back: StatementFails.
SaveInsert(w) ==
  /\ pc[w] = "insert"
  /\ ~GapLocked(w)
  /\ nextId \in Ids
  /\ req' = [req EXCEPT ![w].id = NewId]
  /\ nextId' = nextId + 1
  /\ Goto(w, "copy")
  /\ UNCHANGED <<tables, demoted, found, requests, raced, brokenOff, chosen>>

\* UPDATE CUSTOMERS, in the transaction.
SaveCopy(w) ==
  /\ pc[w] = "copy"
  /\ ~CustomerLocked(w)
  /\ Goto(w, "commit")
  /\ UNCHANGED <<tables, nextId, req, demoted, found, requests, raced, brokenOff, chosen>>

\* fullAddr = dto.address + " " + dto.detail
FullText(a) == Text(a, FirstDetail)

SavedDefaults(w) == (defaults \ demoted[w]) \cup {req[w].id}

Publish(w) ==
  /\ book' = book \cup {req[w].id}
  /\ defaults' = SavedDefaults(w)
  /\ customer' = FullText(req[w].id)
  /\ chosen' = TRUE
  /\ UNCHANGED detail

SaveCommit(w) ==
  /\ pc[w] = "commit"
  /\ Publish(w)
  /\ Done(w)
  /\ UNCHANGED <<nextId, requests, raced, brokenOff>>

-----------------------------------------------------------------------------
(* deleteAddress.                                                          *)

Deletable(a) == a \in book /\ a \notin defaults

\* SELECT is_default: the default address, or none, is refused.
DeleteCheck(w) ==
  /\ pc[w] = "check"
  /\ IF Deletable(req[w].id)
     THEN Goto(w, "delete") /\ UNCHANGED <<req, demoted, found>>
     ELSE Done(w)
  /\ UNCHANGED <<tables, nextId, requests, raced, brokenOff, chosen>>

Delete(w) ==
  /\ pc[w] = "delete"
  /\ ~RowLocked(w)
  /\ book' = book \ {req[w].id}
  /\ defaults' = defaults \ {req[w].id}
  /\ UNCHANGED <<detail, customer, chosen>>

DeleteRow(w) ==
  /\ Delete(w)
  /\ Done(w)
  /\ UNCHANGED <<nextId, requests, raced, brokenOff>>

-----------------------------------------------------------------------------
(* updateAddress.                                                          *)

\* UPDATE ... SET detail, guide, label: neither is_default nor CUSTOMERS.
Edit(w) ==
  /\ pc[w] = "edit"
  /\ ~RowLocked(w)
  /\ detail' = [a \in Ids |-> IF a \in book /\ a = req[w].id THEN detail[a] + 1 ELSE detail[a]]
  /\ UNCHANGED <<book, defaults, customer, chosen>>

EditRow(w) ==
  /\ Edit(w)
  /\ Done(w)
  /\ UNCHANGED <<nextId, requests, raced, brokenOff>>

-----------------------------------------------------------------------------
(* setDefaultAddress.                                                      *)

\* UPDATE ... SET is_default = 0
Demote(w) ==
  /\ pc[w] = "demote"
  /\ ~RowsLocked(w)
  /\ defaults' = {}
  /\ UNCHANGED <<book, detail, customer, chosen>>

DemoteAll(w) ==
  /\ Demote(w)
  /\ Goto(w, "promote")
  /\ UNCHANGED <<nextId, req, demoted, found, requests, raced, brokenOff>>

\* UPDATE ... SET is_default = 1 ... AND address_id = ?
Promote(w) ==
  /\ pc[w] = "promote"
  /\ ~RowLocked(w)
  /\ defaults' = defaults \cup (book \cap {req[w].id})
  /\ chosen' = (chosen \/ req[w].id \in book)
  /\ UNCHANGED <<book, detail, customer>>

\* if (rows > 0)
AfterPromote(w) == IF req[w].id \in book THEN "lookup" ELSE "idle"

\* An address_id that is not the customer's leaves no default at all.
PromoteOne(w) ==
  /\ Promote(w)
  /\ IF AfterPromote(w) = "idle" THEN Done(w) ELSE Goto(w, "lookup") /\ UNCHANGED <<req, demoted, found>>
  /\ brokenOff' = (brokenOff \/ req[w].id \notin book)
  /\ UNCHANGED <<nextId, requests, raced>>

\* SELECT address, without the detail: a row deleted meanwhile leaves "".
Selected(a) == IF a \in book THEN Text(a, NoDetail) ELSE NoText

Lookup(w) ==
  /\ pc[w] = "lookup"
  /\ found' = [found EXCEPT ![w] = Selected(req[w].id)]
  /\ Goto(w, "sync")
  /\ UNCHANGED <<tables, nextId, req, demoted, requests, raced, brokenOff, chosen>>

\* UPDATE CUSTOMERS SET address
Sync(w) ==
  /\ pc[w] = "sync"
  /\ ~CustomerLocked(w)
  /\ customer' = found[w]
  /\ UNCHANGED <<book, defaults, detail, chosen>>

SyncCustomer(w) ==
  /\ Sync(w)
  /\ Done(w)
  /\ UNCHANGED <<nextId, requests, raced, brokenOff>>

-----------------------------------------------------------------------------
(* Failures.                                                               *)

MayBreakOff(w, places) ==
  brokenOff' = (brokenOff \/ (req[w].op = "default" /\ pc[w] \in places))

\* A statement throws: saveAddress rolls back, the others stop where they are.
StatementFails(w) ==
  /\ pc[w] # "idle"
  /\ Done(w)
  /\ MayBreakOff(w, {"promote", "lookup", "sync"})
  /\ UNCHANGED <<tables, nextId, requests, raced, chosen>>

\* The link is lost when the database has executed the statement already.
OutcomeLost(w) ==
  /\ \/ pc[w] = "commit" /\ Publish(w)
     \/ Delete(w)
     \/ Edit(w)
     \/ Demote(w)
     \/ Promote(w)
     \/ Sync(w)
  /\ Done(w)
  /\ MayBreakOff(w, {"demote", "promote"})
  /\ UNCHANGED <<nextId, requests, raced>>

-----------------------------------------------------------------------------
BeginRequest(w) ==
  \/ HandleAddressSave(w)
  \/ \E a \in Ids : \/ HandleAddressDelete(w, a)
                    \/ HandleAddressUpdate(w, a)
                    \/ HandleAddressDefault(w, a)

Step(w) ==
  \/ SaveReset(w)
  \/ SaveInsert(w)
  \/ SaveCopy(w)
  \/ SaveCommit(w)
  \/ DeleteCheck(w)
  \/ DeleteRow(w)
  \/ EditRow(w)
  \/ DemoteAll(w)
  \/ PromoteOne(w)
  \/ Lookup(w)
  \/ SyncCustomer(w)

Next == \E w \in Workers : BeginRequest(w) \/ Step(w) \/ StatementFails(w) \/ OutcomeLost(w)

Spec == Init /\ [][Next]_vars

-----------------------------------------------------------------------------
Places == {"idle", "reset", "insert", "copy", "commit", "check", "delete", "edit",
           "demote", "promote", "lookup", "sync"}

Calls == {"none", "save", "delete", "update", "default"}

Texts == [of : Ids \cup {NoAddress}, detail : {NoDetail, FirstDetail}]

TypeOK ==
  /\ book \in SUBSET Ids
  /\ defaults \in SUBSET book
  /\ detail \in [Ids -> Nat \ {NoDetail}]
  /\ customer \in Texts
  /\ nextId \in (Existing + 1)..(Existing + MaxRequests + 1)
  /\ pc \in [Workers -> Places]
  /\ req \in [Workers -> [op : Calls, id : Ids \cup {NoAddress}]]
  /\ demoted \in [Workers -> SUBSET Ids]
  /\ found \in [Workers -> Texts]
  /\ requests \in 0..MaxRequests
  /\ raced \in BOOLEAN
  /\ brokenOff \in BOOLEAN
  /\ chosen \in BOOLEAN

\* One selected address per customer (the comment in saveAddress).
AtMostOneDefault == \A a, b \in defaults : a = b

\* However many saves and deletions run beside each other, and wherever they
\* fail, the customer has at most one default address: only a
\* setDefaultAddress that runs beside another request can leave two.
OneDefaultUnlessRaced == ~raced => AtMostOneDefault

\* A setDefaultAddress is between its statements in one of the places.
Changing(places) == \E w \in Workers : pc[w] \in places

\* A customer who has chosen a default address keeps one: deletions refuse it,
\* a failed save leaves it, and it is gone only when a setDefaultAddress raced,
\* was broken off or named an address that does not exist.
DefaultKept ==
  chosen /\ ~raced /\ ~brokenOff /\ ~Changing({"promote"}) => defaults # {}

\* CUSTOMERS.address, which checkout and order details show, is made of the
\* default address, under the same exceptions, and of no other row.  It has the
\* detail of that row, or none after a setDefaultAddress, or else it is out of
\* date: an edit of the row's detail never reaches it.
CustomerInSync ==
  ~raced /\ ~brokenOff /\ ~Changing({"promote", "lookup", "sync"})
    => \A a \in defaults : /\ customer.of = a
                           /\ \/ customer.detail \in {NoDetail, detail[a]}
                              \/ detail[a] > FirstDetail
=============================================================================
