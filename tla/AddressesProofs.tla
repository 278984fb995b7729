--------------------------- MODULE AddressesProofs ---------------------------
(***************************************************************************)
(* The address book for every number of workers, rows and requests.  Two   *)
(* facts carry the properties: a saveAddress that has inserted its row is  *)
(* the only open one, several before their INSERT have found no rows, and  *)
(* each one's reset covers every row there is (Saver); and a               *)
(* setDefaultAddress that raced with nobody is alone between its           *)
(* statements but for edits (Alone), so that what it has done so far is    *)
(* still so (Between).                                                     *)
(***************************************************************************)
EXTENDS Addresses, TLAPS

Saving == {"insert", "copy", "commit"}
Choosing == {"demote", "promote", "lookup", "sync"}

\* The statement a worker is at belongs to its request.
Ops ==
  \A w \in Workers :
    /\ pc[w] \in Saving \cup {"reset"} => req[w].op = "save"
    /\ pc[w] \in {"check", "delete"} => req[w].op = "delete"
    /\ pc[w] = "edit" <=> req[w].op = "update"
    /\ pc[w] = "idle" => req[w].op = "none"
    /\ pc[w] \in Choosing <=> req[w].op = "default"

Saver ==
  /\ \A v, w \in Workers : pc[v] \in Saving /\ pc[w] \in {"copy", "commit"} => v = w
  /\ \A v, w \in Workers : pc[v] = "insert" /\ pc[w] = "insert" /\ v # w => book = {}
  /\ \A w \in Workers : pc[w] \in Saving => demoted[w] = book

\* The number of a row that is being saved is nobody else's.
Fresh ==
  /\ \A a \in book : a < nextId
  /\ \A w \in Workers : pc[w] \in {"copy", "commit"} =>
       req[w].id \in Ids /\ req[w].id < nextId /\ req[w].id \notin book
  /\ \A w \in Workers : pc[w] = "delete" => req[w].id < nextId
  /\ \A v, w \in Workers :
       pc[v] \in {"copy", "commit"} /\ pc[w] = "delete" => req[v].id # req[w].id

Alone ==
  ~raced => \A v, w \in Workers : req[v].op = "default" /\ v # w => pc[w] \in {"idle", "edit"}

Between ==
  ~raced => \A w \in Workers :
    /\ pc[w] = "delete" => req[w].id \notin defaults
    /\ pc[w] = "promote" => defaults = {}
    /\ pc[w] = "lookup" => req[w].id \in book /\ defaults = {req[w].id}
    /\ pc[w] = "sync" => found[w] = Text(req[w].id, NoDetail) /\ defaults = {req[w].id}

IInv ==
  /\ TypeOK
  /\ Ops
  /\ Saver
  /\ Fresh
  /\ Alone
  /\ Between
  /\ OneDefaultUnlessRaced
  /\ DefaultKept
  /\ CustomerInSync

-----------------------------------------------------------------------------
(* Requests.                                                               *)

\* A worker takes a request: a setDefaultAddress beside another one is a race.
LEMMA BeginStep ==
  ASSUME NEW w \in Workers, NEW a \in Ids \cup {NoAddress}, NEW op, NEW first, IInv,
         Begin(w, op, a, first),
         <<op, first>> \in {<<"save", "reset">>, <<"delete", "check">>, <<"update", "edit">>,
                           <<"default", "demote">>}
  PROVE  IInv'
<1> USE BoundsAssumption DEF Saving, Choosing, Places, Ids, NoAddress, NoDetail, FirstDetail,
   Text, NoText, Texts, Calls, NoRequest, tables,
   Begin, Busy
<1>1. TypeOK'
  BY DEF IInv, TypeOK, Fresh
<1>2. Ops'
  BY DEF IInv, TypeOK, Ops
<1>3. Saver'
  BY DEF IInv, TypeOK, Saver
<1>4. Fresh'
  BY DEF IInv, TypeOK, Fresh
<1>5. Alone'
  BY ZenonT(60) DEF IInv, TypeOK, Ops, Alone
<1>6. Between'
  BY DEF IInv, TypeOK, Ops, Alone, Fresh, Between
<1>7. OneDefaultUnlessRaced'
  BY DEF IInv, TypeOK, OneDefaultUnlessRaced, AtMostOneDefault
<1>8. DefaultKept'
  BY DEF IInv, TypeOK, Ops, Alone, Between, DefaultKept, Changing
<1>9. CustomerInSync'
  BY DEF IInv, TypeOK, Ops, Alone, Between, CustomerInSync, Changing
<1> QED
  BY <1>1, <1>2, <1>3, <1>4, <1>5, <1>6, <1>7, <1>8, <1>9 DEF IInv

-----------------------------------------------------------------------------
(* saveAddress.                                                            *)

\* The reset waits for other saves, and covers the rows there are.
LEMMA SaveResetStep ==
  ASSUME NEW w \in Workers, IInv, SaveReset(w)
  PROVE  IInv'
<1> USE BoundsAssumption DEF Saving, Choosing, Places, Ids, NoAddress, NoDetail, FirstDetail,
   Text, NoText, Texts, Calls, NoRequest, tables,
   SaveReset, Goto, RowsLocked, Locked
<1>1. TypeOK'
  BY DEF IInv, TypeOK, Fresh
<1>2. Ops'
  BY DEF IInv, TypeOK, Ops
<1>3. Saver'
  BY ZenonT(60) DEF IInv, TypeOK, Saver
<1>4. Fresh'
  BY DEF IInv, TypeOK, Fresh
<1>5. Alone'
  BY DEF IInv, TypeOK, Ops, Alone
<1>6. Between'
  BY DEF IInv, TypeOK, Ops, Alone, Fresh, Between
<1>7. OneDefaultUnlessRaced'
  BY DEF IInv, TypeOK, OneDefaultUnlessRaced, AtMostOneDefault
<1>8. DefaultKept'
  BY DEF IInv, TypeOK, Ops, Alone, Between, DefaultKept, Changing
<1>9. CustomerInSync'
  BY DEF IInv, TypeOK, Ops, Alone, Between, CustomerInSync, Changing
<1> QED
  BY <1>1, <1>2, <1>3, <1>4, <1>5, <1>6, <1>7, <1>8, <1>9 DEF IInv

\* The new row has a number no request knows of.
LEMMA SaveInsertStep ==
  ASSUME NEW w \in Workers, IInv, SaveInsert(w)
  PROVE  IInv'
<1> USE BoundsAssumption DEF Saving, Choosing, Places, Ids, NoAddress, NoDetail, FirstDetail,
   Text, NoText, Texts, Calls, NoRequest, tables,
   SaveInsert, NewId, Goto, GapLocked
<1>1. TypeOK'
  <2>1. req' \in [Workers -> [op : Calls, id : Ids \cup {NoAddress}]]
    BY SMTT(30) DEF IInv, TypeOK
  <2>2. nextId' \in (Existing + 1)..(Existing + MaxRequests + 1)
    BY DEF IInv, TypeOK
  <2>3. pc' \in [Workers -> Places]
    BY DEF IInv, TypeOK
  <2> QED
    BY <2>1, <2>2, <2>3 DEF IInv, TypeOK
<1>2. Ops'
  BY DEF IInv, TypeOK, Ops
<1>3. Saver'
  BY DEF IInv, TypeOK, Saver
<1>4. Fresh'
  BY SMTT(30) DEF IInv, TypeOK, Fresh
<1>5. Alone'
  BY DEF IInv, TypeOK, Ops, Alone
<1>6. Between'
  BY DEF IInv, TypeOK, Ops, Alone, Fresh, Between
<1>7. OneDefaultUnlessRaced'
  BY DEF IInv, TypeOK, OneDefaultUnlessRaced, AtMostOneDefault
<1>8. DefaultKept'
  BY DEF IInv, TypeOK, Ops, Alone, Between, DefaultKept, Changing
<1>9. CustomerInSync'
  BY DEF IInv, TypeOK, Ops, Alone, Between, CustomerInSync, Changing
<1> QED
  BY <1>1, <1>2, <1>3, <1>4, <1>5, <1>6, <1>7, <1>8, <1>9 DEF IInv

\* The copy to CUSTOMERS stays in the transaction.
LEMMA SaveCopyStep ==
  ASSUME NEW w \in Workers, IInv, SaveCopy(w)
  PROVE  IInv'
<1> USE BoundsAssumption DEF Saving, Choosing, Places, Ids, NoAddress, NoDetail, FirstDetail,
   Text, NoText, Texts, Calls, NoRequest, tables,
   SaveCopy, Goto
<1>1. TypeOK'
  BY DEF IInv, TypeOK, Fresh
<1>2. Ops'
  BY DEF IInv, TypeOK, Ops
<1>3. Saver'
  BY DEF IInv, TypeOK, Saver
<1>4. Fresh'
  BY DEF IInv, TypeOK, Fresh
<1>5. Alone'
  BY DEF IInv, TypeOK, Ops, Alone
<1>6. Between'
  BY DEF IInv, TypeOK, Ops, Alone, Fresh, Between
<1>7. OneDefaultUnlessRaced'
  BY DEF IInv, TypeOK, OneDefaultUnlessRaced, AtMostOneDefault
<1>8. DefaultKept'
  BY DEF IInv, TypeOK, Ops, Alone, Between, DefaultKept, Changing
<1>9. CustomerInSync'
  BY DEF IInv, TypeOK, Ops, Alone, Between, CustomerInSync, Changing
<1> QED
  BY <1>1, <1>2, <1>3, <1>4, <1>5, <1>6, <1>7, <1>8, <1>9 DEF IInv

\* The commit, heard of or not: the new address is the only default.
LEMMA PublishStep ==
  ASSUME NEW w \in Workers, IInv, pc[w] = "commit", Publish(w), Done(w),
         UNCHANGED <<nextId, requests, raced, brokenOff>>
  PROVE  IInv'
<1> USE BoundsAssumption DEF Saving, Choosing, Places, Ids, NoAddress, NoDetail, FirstDetail,
   Text, NoText, Texts, Calls, NoRequest, tables,
   Publish, FullText, SavedDefaults, Done
<1>1. TypeOK'
  BY DEF IInv, TypeOK, Fresh
<1>2. Ops'
  BY DEF IInv, TypeOK, Ops
<1>3. Saver'
  BY DEF IInv, TypeOK, Saver
<1>4. Fresh'
  BY DEF IInv, TypeOK, Fresh, Saver
<1>5. Alone'
  BY DEF IInv, TypeOK, Ops, Alone
<1>6. Between'
  BY ZenonT(60) DEF IInv, TypeOK, Ops, Alone, Fresh, Between, Saver
<1>7. OneDefaultUnlessRaced'
  BY DEF IInv, TypeOK, OneDefaultUnlessRaced, AtMostOneDefault, Saver
<1>8. DefaultKept'
  BY DEF IInv, TypeOK, Ops, Alone, Between, DefaultKept, Changing, Saver
<1>9. CustomerInSync'
  BY DEF IInv, TypeOK, Ops, Fresh, Alone, Between, CustomerInSync, Changing, Saver
<1> QED
  BY <1>1, <1>2, <1>3, <1>4, <1>5, <1>6, <1>7, <1>8, <1>9 DEF IInv

-----------------------------------------------------------------------------
(* deleteAddress.                                                          *)

\* A request ends and has changed nothing in this step.
LEMMA DoneStep ==
  ASSUME NEW w \in Workers, IInv, pc[w] \notin {"promote", "lookup", "sync"}, Done(w),
         UNCHANGED <<tables, nextId, requests, raced, brokenOff, chosen>>
  PROVE  IInv'
<1> USE BoundsAssumption DEF Saving, Choosing, Places, Ids, NoAddress, NoDetail, FirstDetail,
   Text, NoText, Texts, Calls, NoRequest, tables, Done
<1>1. TypeOK'
  BY DEF IInv, TypeOK, Fresh
<1>2. Ops'
  BY DEF IInv, TypeOK, Ops
<1>3. Saver'
  BY DEF IInv, TypeOK, Saver
<1>4. Fresh'
  BY DEF IInv, TypeOK, Fresh
<1>5. Alone'
  BY DEF IInv, TypeOK, Ops, Alone
<1>6. Between'
  BY DEF IInv, TypeOK, Ops, Alone, Fresh, Between
<1>7. OneDefaultUnlessRaced'
  BY DEF IInv, TypeOK, OneDefaultUnlessRaced, AtMostOneDefault
<1>8. DefaultKept'
  BY DEF IInv, TypeOK, Ops, Alone, Between, DefaultKept, Changing
<1>9. CustomerInSync'
  BY DEF IInv, TypeOK, Ops, Alone, Between, CustomerInSync, Changing
<1> QED
  BY <1>1, <1>2, <1>3, <1>4, <1>5, <1>6, <1>7, <1>8, <1>9 DEF IInv

\* The address is not the default, and goes.
LEMMA DeletableStep ==
  ASSUME NEW w \in Workers, IInv, pc[w] = "check", Deletable(req[w].id), Goto(w, "delete"),
         UNCHANGED <<tables, nextId, req, demoted, found, requests, raced, brokenOff, chosen>>
  PROVE  IInv'
<1> USE BoundsAssumption DEF Saving, Choosing, Places, Ids, NoAddress, NoDetail, FirstDetail,
   Text, NoText, Texts, Calls, NoRequest, tables,
   Deletable, Goto
<1>1. TypeOK'
  BY DEF IInv, TypeOK, Fresh
<1>2. Ops'
  BY DEF IInv, TypeOK, Ops
<1>3. Saver'
  BY DEF IInv, TypeOK, Saver
<1>4. Fresh'
  BY DEF IInv, TypeOK, Fresh
<1>5. Alone'
  BY DEF IInv, TypeOK, Ops, Alone
<1>6. Between'
  BY DEF IInv, TypeOK, Ops, Alone, Fresh, Between
<1>7. OneDefaultUnlessRaced'
  BY DEF IInv, TypeOK, OneDefaultUnlessRaced, AtMostOneDefault
<1>8. DefaultKept'
  BY DEF IInv, TypeOK, Ops, Alone, Between, DefaultKept, Changing
<1>9. CustomerInSync'
  BY DEF IInv, TypeOK, Ops, Alone, Between, CustomerInSync, Changing
<1> QED
  BY <1>1, <1>2, <1>3, <1>4, <1>5, <1>6, <1>7, <1>8, <1>9 DEF IInv

\* The default address, or an unknown one, is refused.
LEMMA DeleteCheckStep ==
  ASSUME NEW w \in Workers, IInv, DeleteCheck(w)
  PROVE  IInv'
BY DoneStep, DeletableStep DEF DeleteCheck

\* The row deleted is not the default, unless somebody made it so meanwhile.
LEMMA DeleteStep ==
  ASSUME NEW w \in Workers, IInv, Delete(w), Done(w),
         UNCHANGED <<nextId, requests, raced, brokenOff>>
  PROVE  IInv'
<1> USE BoundsAssumption DEF Saving, Choosing, Places, Ids, NoAddress, NoDetail, FirstDetail,
   Text, NoText, Texts, Calls, NoRequest, tables,
   Delete, RowLocked, Locked, Done
<1>1. TypeOK'
  BY DEF IInv, TypeOK, Fresh
<1>2. Ops'
  BY DEF IInv, TypeOK, Ops
<1>3. Saver'
  BY DEF IInv, TypeOK, Saver
<1>4. Fresh'
  BY DEF IInv, TypeOK, Fresh
<1>5. Alone'
  BY DEF IInv, TypeOK, Ops, Alone
<1>6. Between'
  BY DEF IInv, TypeOK, Ops, Alone, Fresh, Between
<1>7. OneDefaultUnlessRaced'
  BY DEF IInv, TypeOK, OneDefaultUnlessRaced, AtMostOneDefault
<1>8. DefaultKept'
  BY DEF IInv, TypeOK, Ops, Alone, Between, DefaultKept, Changing
<1>9. CustomerInSync'
  BY DEF IInv, TypeOK, Ops, Alone, Between, CustomerInSync, Changing
<1> QED
  BY <1>1, <1>2, <1>3, <1>4, <1>5, <1>6, <1>7, <1>8, <1>9 DEF IInv

-----------------------------------------------------------------------------
(* updateAddress.                                                          *)

\* The detail of a row changes, beside anything: no request reads it.
LEMMA EditStep ==
  ASSUME NEW w \in Workers, IInv, Edit(w), Done(w),
         UNCHANGED <<nextId, requests, raced, brokenOff>>
  PROVE  IInv'
<1> USE BoundsAssumption DEF Saving, Choosing, Places, Ids, NoAddress, NoDetail, FirstDetail,
   Text, NoText, Texts, Calls, NoRequest, tables,
   Edit, RowLocked, Locked, Done
<1>1. TypeOK'
  BY DEF IInv, TypeOK, Fresh
<1>2. Ops'
  BY DEF IInv, TypeOK, Ops
<1>3. Saver'
  BY DEF IInv, TypeOK, Saver
<1>4. Fresh'
  BY DEF IInv, TypeOK, Fresh
<1>5. Alone'
  BY DEF IInv, TypeOK, Ops, Alone
<1>6. Between'
  BY DEF IInv, TypeOK, Ops, Alone, Fresh, Between
<1>7. OneDefaultUnlessRaced'
  BY DEF IInv, TypeOK, OneDefaultUnlessRaced, AtMostOneDefault
<1>8. DefaultKept'
  BY DEF IInv, TypeOK, Ops, Alone, Between, DefaultKept, Changing
<1>9. CustomerInSync'
  BY DEF IInv, TypeOK, Ops, Alone, Between, CustomerInSync, Changing
<1> QED
  BY <1>1, <1>2, <1>3, <1>4, <1>5, <1>6, <1>7, <1>8, <1>9 DEF IInv

-----------------------------------------------------------------------------
(* setDefaultAddress.                                                      *)

\* Nobody else is at work, or it is a race: the customer has no default now.
LEMMA DemoteStep ==
  ASSUME NEW w \in Workers, IInv, DemoteAll(w)
  PROVE  IInv'
<1> USE BoundsAssumption DEF Saving, Choosing, Places, Ids, NoAddress, NoDetail, FirstDetail,
   Text, NoText, Texts, Calls, NoRequest, tables,
   DemoteAll, Demote, RowsLocked, Locked, Goto
<1>1. TypeOK'
  BY DEF IInv, TypeOK, Fresh
<1>2. Ops'
  BY DEF IInv, TypeOK, Ops
<1>3. Saver'
  BY DEF IInv, TypeOK, Saver
<1>4. Fresh'
  BY DEF IInv, TypeOK, Fresh
<1>5. Alone'
  BY DEF IInv, TypeOK, Ops, Alone
<1>6. Between'
  BY DEF IInv, TypeOK, Ops, Alone, Fresh, Between
<1>7. OneDefaultUnlessRaced'
  BY DEF IInv, TypeOK, OneDefaultUnlessRaced, AtMostOneDefault
<1>8. DefaultKept'
  BY DEF IInv, TypeOK, Ops, Alone, Between, DefaultKept, Changing
<1>9. CustomerInSync'
  BY DEF IInv, TypeOK, Ops, Alone, Between, CustomerInSync, Changing
<1> QED
  BY <1>1, <1>2, <1>3, <1>4, <1>5, <1>6, <1>7, <1>8, <1>9 DEF IInv

\* The address exists and becomes the default.
LEMMA PromotedStep ==
  ASSUME NEW w \in Workers, IInv, Promote(w), req[w].id \in book, Goto(w, "lookup"),
         UNCHANGED <<nextId, req, demoted, found, requests, raced, brokenOff>>
  PROVE  IInv'
<1> USE BoundsAssumption DEF Saving, Choosing, Places, Ids, NoAddress, NoDetail, FirstDetail,
   Text, NoText, Texts, Calls, NoRequest, tables,
   Promote, RowLocked, Locked, Goto
<1>1. TypeOK'
  BY DEF IInv, TypeOK, Fresh
<1>2. Ops'
  BY DEF IInv, TypeOK, Ops
<1>3. Saver'
  BY DEF IInv, TypeOK, Saver
<1>4. Fresh'
  BY DEF IInv, TypeOK, Fresh
<1>5. Alone'
  BY DEF IInv, TypeOK, Ops, Alone
<1>6. Between'
  <2>1. ~raced => \A v \in Workers : v # w => pc[v] \in {"idle", "edit"}
    BY DEF IInv, TypeOK, Ops, Alone
  <2>2. ~raced => defaults' = {req[w].id}
    BY DEF IInv, Between
  <2> QED
    BY <2>1, <2>2 DEF IInv, TypeOK, Between
<1>7. OneDefaultUnlessRaced'
  BY DEF IInv, TypeOK, OneDefaultUnlessRaced, AtMostOneDefault, Between
<1>8. DefaultKept'
  BY DEF IInv, TypeOK, Ops, Alone, Between, DefaultKept, Changing
<1>9. CustomerInSync'
  BY DEF IInv, TypeOK, Ops, Alone, Between, CustomerInSync, Changing
<1> QED
  BY <1>1, <1>2, <1>3, <1>4, <1>5, <1>6, <1>7, <1>8, <1>9 DEF IInv

\* The row just promoted is still there, unless somebody raced.
LEMMA LookupStep ==
  ASSUME NEW w \in Workers, IInv, Lookup(w)
  PROVE  IInv'
<1> USE BoundsAssumption DEF Saving, Choosing, Places, Ids, NoAddress, NoDetail, FirstDetail,
   Text, NoText, Texts, Calls, NoRequest, tables,
   Lookup, Selected, Goto
<1>1. TypeOK'
  BY DEF IInv, TypeOK, Fresh
<1>2. Ops'
  BY DEF IInv, TypeOK, Ops
<1>3. Saver'
  BY DEF IInv, TypeOK, Saver
<1>4. Fresh'
  BY DEF IInv, TypeOK, Fresh
<1>5. Alone'
  BY DEF IInv, TypeOK, Ops, Alone
<1>6. Between'
  BY DEF IInv, TypeOK, Ops, Alone, Fresh, Between
<1>7. OneDefaultUnlessRaced'
  BY DEF IInv, TypeOK, OneDefaultUnlessRaced, AtMostOneDefault
<1>8. DefaultKept'
  BY DEF IInv, TypeOK, Ops, Alone, Between, DefaultKept, Changing
<1>9. CustomerInSync'
  BY DEF IInv, TypeOK, Ops, Alone, Between, CustomerInSync, Changing
<1> QED
  BY <1>1, <1>2, <1>3, <1>4, <1>5, <1>6, <1>7, <1>8, <1>9 DEF IInv

\* Heard of or not, CUSTOMERS now repeats the default.
LEMMA SyncStep ==
  ASSUME NEW w \in Workers, IInv, Sync(w), Done(w),
         UNCHANGED <<nextId, requests, raced, brokenOff>>
  PROVE  IInv'
<1> USE BoundsAssumption DEF Saving, Choosing, Places, Ids, NoAddress, NoDetail, FirstDetail,
   Text, NoText, Texts, Calls, NoRequest, tables,
   Sync, CustomerLocked, Done
<1>1. TypeOK'
  BY DEF IInv, TypeOK, Fresh
<1>2. Ops'
  BY DEF IInv, TypeOK, Ops
<1>3. Saver'
  BY DEF IInv, TypeOK, Saver
<1>4. Fresh'
  BY DEF IInv, TypeOK, Fresh
<1>5. Alone'
  BY DEF IInv, TypeOK, Ops, Alone
<1>6. Between'
  BY DEF IInv, TypeOK, Ops, Alone, Fresh, Between
<1>7. OneDefaultUnlessRaced'
  BY DEF IInv, TypeOK, OneDefaultUnlessRaced, AtMostOneDefault
<1>8. DefaultKept'
  BY DEF IInv, TypeOK, Ops, Alone, Between, DefaultKept, Changing
<1>9. CustomerInSync'
  BY DEF IInv, TypeOK, Ops, Alone, Between, CustomerInSync, Changing
<1> QED
  BY <1>1, <1>2, <1>3, <1>4, <1>5, <1>6, <1>7, <1>8, <1>9 DEF IInv

-----------------------------------------------------------------------------
(* Failures.                                                               *)

\* A failed statement has changed nothing; a default in the making is broken off.
LEMMA StatementFailsStep ==
  ASSUME NEW w \in Workers, IInv, StatementFails(w)
  PROVE  IInv'
<1> USE BoundsAssumption DEF Saving, Choosing, Places, Ids, NoAddress, NoDetail, FirstDetail,
   Text, NoText, Texts, Calls, NoRequest, tables,
   StatementFails, MayBreakOff, Done
<1>1. TypeOK'
  BY DEF IInv, TypeOK, Fresh
<1>2. Ops'
  BY DEF IInv, TypeOK, Ops
<1>3. Saver'
  BY DEF IInv, TypeOK, Saver
<1>4. Fresh'
  BY DEF IInv, TypeOK, Fresh
<1>5. Alone'
  BY DEF IInv, TypeOK, Ops, Alone
<1>6. Between'
  BY DEF IInv, TypeOK, Ops, Alone, Fresh, Between
<1>7. OneDefaultUnlessRaced'
  BY DEF IInv, TypeOK, OneDefaultUnlessRaced, AtMostOneDefault
<1>8. DefaultKept'
  BY DEF IInv, TypeOK, Ops, Alone, Between, DefaultKept, Changing
<1>9. CustomerInSync'
  BY ZenonT(60) DEF IInv, TypeOK, Ops, Alone, Between, CustomerInSync, Changing
<1> QED
  BY <1>1, <1>2, <1>3, <1>4, <1>5, <1>6, <1>7, <1>8, <1>9 DEF IInv

\* A setDefaultAddress that stops after its first statement is broken off.
LEMMA DemoteLostStep ==
  ASSUME NEW w \in Workers, IInv, Demote(w), Done(w), brokenOff' = TRUE,
         UNCHANGED <<nextId, requests, raced>>
  PROVE  IInv'
<1> USE BoundsAssumption DEF Saving, Choosing, Places, Ids, NoAddress, NoDetail, FirstDetail,
   Text, NoText, Texts, Calls, NoRequest, tables,
   Demote, RowsLocked, Locked, Done
<1>1. TypeOK'
  BY DEF IInv, TypeOK, Fresh
<1>2. Ops'
  BY DEF IInv, TypeOK, Ops
<1>3. Saver'
  BY DEF IInv, TypeOK, Saver
<1>4. Fresh'
  BY DEF IInv, TypeOK, Fresh
<1>5. Alone'
  BY DEF IInv, TypeOK, Ops, Alone
<1>6. Between'
  BY DEF IInv, TypeOK, Ops, Alone, Fresh, Between
<1>7. OneDefaultUnlessRaced'
  BY DEF IInv, TypeOK, OneDefaultUnlessRaced, AtMostOneDefault
<1>8. DefaultKept'
  BY DEF IInv, TypeOK, Ops, Alone, Between, DefaultKept, Changing
<1>9. CustomerInSync'
  BY DEF IInv, TypeOK, Ops, Alone, Between, CustomerInSync, Changing
<1> QED
  BY <1>1, <1>2, <1>3, <1>4, <1>5, <1>6, <1>7, <1>8, <1>9 DEF IInv

\* The promotion is done, the copy to CUSTOMERS will not be.
LEMMA PromoteLostStep ==
  ASSUME NEW w \in Workers, IInv, Promote(w), Done(w), brokenOff' = TRUE,
         UNCHANGED <<nextId, requests, raced>>
  PROVE  IInv'
<1> USE BoundsAssumption DEF Saving, Choosing, Places, Ids, NoAddress, NoDetail, FirstDetail,
   Text, NoText, Texts, Calls, NoRequest, tables,
   Promote, RowLocked, Locked, Done
<1>1. TypeOK'
  BY DEF IInv, TypeOK, Fresh
<1>2. Ops'
  BY DEF IInv, TypeOK, Ops
<1>3. Saver'
  BY DEF IInv, TypeOK, Saver
<1>4. Fresh'
  BY DEF IInv, TypeOK, Fresh
<1>5. Alone'
  BY DEF IInv, TypeOK, Ops, Alone
<1>6. Between'
  BY SMTT(30) DEF IInv, TypeOK, Ops, Alone, Fresh, Between
<1>7. OneDefaultUnlessRaced'
  BY DEF IInv, TypeOK, OneDefaultUnlessRaced, AtMostOneDefault, Between
<1>8. DefaultKept'
  BY DEF IInv, TypeOK, Ops, Alone, Between, DefaultKept, Changing
<1>9. CustomerInSync'
  BY DEF IInv, TypeOK, Ops, Alone, Between, CustomerInSync, Changing
<1> QED
  BY <1>1, <1>2, <1>3, <1>4, <1>5, <1>6, <1>7, <1>8, <1>9 DEF IInv

\* The address exists, or the request ends without a default.
LEMMA PromoteStep ==
  ASSUME NEW w \in Workers, IInv, PromoteOne(w)
  PROVE  IInv'
<1>1. CASE req[w].id \in book
  <2>1. brokenOff' = brokenOff
    BY <1>1 DEF PromoteOne, IInv, TypeOK
  <2> QED
    BY <1>1, <2>1, PromotedStep DEF PromoteOne, AfterPromote
<1>2. CASE req[w].id \notin book
  BY <1>2, PromoteLostStep DEF PromoteOne, AfterPromote
<1> QED
  BY <1>1, <1>2

\* A statement whose outcome is lost has had its effect.
LEMMA OutcomeLostStep ==
  ASSUME NEW w \in Workers, IInv, OutcomeLost(w)
  PROVE  IInv'
<1>1. CASE pc[w] = "commit" /\ Publish(w)
  <2>1. req[w].op # "default" /\ brokenOff' = brokenOff
    BY <1>1 DEF OutcomeLost, MayBreakOff, IInv, TypeOK, Ops, Saving, Choosing
  <2> QED
    BY <1>1, <2>1, PublishStep DEF OutcomeLost
<1>2. CASE Delete(w)
  <2>1. brokenOff' = brokenOff
    BY <1>2 DEF OutcomeLost, MayBreakOff, Delete, IInv, TypeOK
  <2> QED
    BY <1>2, <2>1, DeleteStep DEF OutcomeLost
<1>3. CASE Demote(w)
  <2>1. brokenOff' = TRUE
    BY <1>3 DEF OutcomeLost, MayBreakOff, Demote, IInv, Ops, Choosing
  <2> QED
    BY <1>3, <2>1, DemoteLostStep DEF OutcomeLost
<1>4. CASE Promote(w)
  <2>1. brokenOff' = TRUE
    BY <1>4 DEF OutcomeLost, MayBreakOff, Promote, IInv, Ops, Choosing
  <2> QED
    BY <1>4, <2>1, PromoteLostStep DEF OutcomeLost
<1>5. CASE Edit(w)
  <2>1. brokenOff' = brokenOff
    BY <1>5 DEF OutcomeLost, MayBreakOff, Edit, IInv, TypeOK
  <2> QED
    BY <1>5, <2>1, EditStep DEF OutcomeLost
<1>6. CASE Sync(w)
  <2>1. brokenOff' = brokenOff
    BY <1>6 DEF OutcomeLost, MayBreakOff, Sync, IInv, TypeOK
  <2> QED
    BY <1>6, <2>1, SyncStep DEF OutcomeLost
<1> QED
  BY <1>1, <1>2, <1>3, <1>4, <1>5, <1>6 DEF OutcomeLost

\* Nothing changes.
LEMMA Stuttering ==
  ASSUME IInv, UNCHANGED vars
  PROVE  IInv'
<1> USE BoundsAssumption DEF Saving, Choosing, Places, Ids, NoAddress, NoDetail, FirstDetail,
   Text, NoText, Texts, Calls, NoRequest, tables, vars
<1>1. TypeOK'
  BY DEF IInv, TypeOK, Fresh
<1>2. Ops'
  BY DEF IInv, TypeOK, Ops
<1>3. Saver'
  BY DEF IInv, TypeOK, Saver
<1>4. Fresh'
  BY DEF IInv, TypeOK, Fresh
<1>5. Alone'
  BY DEF IInv, TypeOK, Ops, Alone
<1>6. Between'
  BY DEF IInv, TypeOK, Ops, Alone, Fresh, Between
<1>7. OneDefaultUnlessRaced'
  BY DEF IInv, TypeOK, OneDefaultUnlessRaced, AtMostOneDefault
<1>8. DefaultKept'
  BY DEF IInv, TypeOK, Ops, Alone, Between, DefaultKept, Changing
<1>9. CustomerInSync'
  BY DEF IInv, TypeOK, Ops, Alone, Between, CustomerInSync, Changing
<1> QED
  BY <1>1, <1>2, <1>3, <1>4, <1>5, <1>6, <1>7, <1>8, <1>9 DEF IInv

-----------------------------------------------------------------------------
\* The invariant holds when the server starts.
LEMMA Initially ==
  ASSUME Init
  PROVE  IInv
<1> USE BoundsAssumption DEF Init, Saving, Choosing, Places, Ids, NoAddress, NoDetail, FirstDetail,
   Text, NoText, Texts, Calls, NoRequest
<1>1. TypeOK
  <2>1. chosen \in BOOLEAN
    BY Zenon
  <2>2. book \in SUBSET Ids /\ customer \in Texts /\ detail \in [Ids -> Nat \ {NoDetail}]
    OBVIOUS
  <2>3. /\ defaults \in SUBSET book
        /\ nextId \in (Existing + 1)..(Existing + MaxRequests + 1)
        /\ requests \in 0..MaxRequests
    OBVIOUS
  <2>4. /\ pc \in [Workers -> Places]
        /\ req \in [Workers -> [op : Calls, id : Ids \cup {NoAddress}]]
        /\ demoted \in [Workers -> SUBSET Ids]
        /\ found \in [Workers -> Texts]
    OBVIOUS
  <2>5. raced \in BOOLEAN /\ brokenOff \in BOOLEAN
    OBVIOUS
  <2> HIDE DEF Init
  <2> QED
    BY <2>1, <2>2, <2>3, <2>4, <2>5 DEF TypeOK
<1>2. Ops
  BY DEF Ops
<1>3. Saver
  BY DEF Saver
<1>4. Fresh
  BY DEF Fresh
<1>5. Alone
  BY DEF Alone
<1>6. Between
  BY DEF Between
<1>7. OneDefaultUnlessRaced
  BY DEF OneDefaultUnlessRaced, AtMostOneDefault
<1>8. DefaultKept
  BY DEF DefaultKept, Changing
<1>9. CustomerInSync
  BY DEF CustomerInSync, Changing
<1> QED
  BY <1>1, <1>2, <1>3, <1>4, <1>5, <1>6, <1>7, <1>8, <1>9 DEF IInv

\* The four requests.
LEMMA BeginRequestStep ==
  ASSUME NEW w \in Workers, IInv, BeginRequest(w)
  PROVE  IInv'
<1>1. CASE HandleAddressSave(w)
  BY <1>1, BeginStep DEF HandleAddressSave
<1>2. CASE \E a \in Ids : HandleAddressDelete(w, a)
  BY <1>2, BeginStep DEF HandleAddressDelete
<1>3. CASE \E a \in Ids : HandleAddressDefault(w, a)
  BY <1>3, BeginStep DEF HandleAddressDefault
<1>4. CASE \E a \in Ids : HandleAddressUpdate(w, a)
  BY <1>4, BeginStep DEF HandleAddressUpdate
<1> QED
  BY <1>1, <1>2, <1>3, <1>4 DEF BeginRequest

\* The statements of the four requests.
LEMMA StatementStep ==
  ASSUME NEW w \in Workers, IInv, Step(w)
  PROVE  IInv'
<1>1. CASE SaveCommit(w)
  BY <1>1, PublishStep DEF SaveCommit
<1>2. CASE DeleteRow(w)
  BY <1>2, DeleteStep DEF DeleteRow
<1>3. CASE SyncCustomer(w)
  BY <1>3, SyncStep DEF SyncCustomer
<1>4. CASE EditRow(w)
  BY <1>4, EditStep DEF EditRow
<1> QED
  BY <1>1, <1>2, <1>3, <1>4, SaveResetStep, SaveInsertStep, SaveCopyStep, DeleteCheckStep,
     DemoteStep, PromoteStep, LookupStep DEF Step

\* The inductive invariant.
THEOREM Invariance == Spec => []IInv
<1>1. Init => IInv
  BY Initially
<1>2. IInv /\ [Next]_vars => IInv'
  <2> SUFFICES ASSUME IInv, [Next]_vars
               PROVE  IInv'
    OBVIOUS
  <2>1. CASE Next
    BY <2>1, BeginRequestStep, StatementStep, StatementFailsStep, OutcomeLostStep DEF Next
  <2>2. CASE UNCHANGED vars
    BY <2>2, Stuttering
  <2> QED
    BY <2>1, <2>2
<1> QED
  BY <1>1, <1>2, PTL DEF Spec

\* The rows, the numbers given to them and the workers' requests keep their types.
THEOREM TypeCorrect == Spec => []TypeOK
<1>1. IInv => TypeOK
  BY DEF IInv
<1> QED
  BY <1>1, Invariance, PTL

\* Any number of saves and deletions, failing anywhere, leave at most one default
\* address; so does a setDefaultAddress that runs by itself.
THEOREM OneDefault == Spec => []OneDefaultUnlessRaced
<1>1. IInv => OneDefaultUnlessRaced
  BY DEF IInv
<1> QED
  BY <1>1, Invariance, PTL

\* A customer who has chosen a default address keeps one, whatever is deleted,
\* saved or fails, outside the exceptions DefaultKept names.
THEOREM DefaultIsKept == Spec => []DefaultKept
<1>1. IInv => DefaultKept
  BY DEF IInv
<1> QED
  BY <1>1, Invariance, PTL

\* The text in CUSTOMERS is made of the default address, under the same
\* exceptions, with its detail, with none, or with one that was edited since.
THEOREM CustomersShowsDefault == Spec => []CustomerInSync
<1>1. IInv => CustomerInSync
  BY DEF IInv
<1> QED
  BY <1>1, Invariance, PTL

\* Worker w stands before a statement that has to wait for another's locks.
Waits(w) ==
  \/ pc[w] \in {"reset", "demote"} /\ RowsLocked(w)
  \/ pc[w] \in {"delete", "edit", "promote"} /\ RowLocked(w)
  \/ pc[w] = "insert" /\ GapLocked(w)
  \/ pc[w] \in {"copy", "sync"} /\ CustomerLocked(w)

\* Whose locks others may wait for.
Holds(w) == pc[w] \in {"insert", "copy", "commit"}

\* Who holds locks waits for nobody, but for first addresses that are saved
\* beside each other; and then nobody has changed a row yet.
OnlyFirstSavesDeadlock ==
  \A v, w \in Workers :
    Holds(w) /\ Waits(w) /\ Holds(v) => book = {} /\ pc[v] = "insert" /\ pc[w] = "insert"

\* saveAddress takes the customer's rows before the CUSTOMERS row, and
\* setDefaultAddress, which touches both, commits in between.  So a circle of
\* waits can close at one place only: between the INSERTs of workers that save
\* the first addresses of a customer, of which the database rolls all but one back.
THEOREM DeadlocksAreFirstSaves == Spec => []OnlyFirstSavesDeadlock
<1>1. IInv => OnlyFirstSavesDeadlock
  <2> SUFFICES ASSUME IInv, NEW v \in Workers, NEW w \in Workers, Holds(w), Waits(w), Holds(v)
               PROVE  book = {} /\ pc[v] = "insert" /\ pc[w] = "insert"
    BY DEF OnlyFirstSavesDeadlock
  <2>1. \A u \in Workers : pc[u] = "commit" => u = w
    BY DEF IInv, Saver, Saving, Holds
  <2>2. pc[w] = "insert" /\ GapLocked(w)
    BY <2>1 DEF Holds, Waits, CustomerLocked
  <2>3. \A u \in Workers : pc[u] \in Saving => pc[u] = "insert"
    BY <2>2 DEF IInv, Saver, Saving
  <2>4. PICK u \in Workers \ {w} : pc[u] = "insert"
    BY <2>2, <2>3 DEF GapLocked, Saving
  <2>5. book = {}
    BY <2>2, <2>4 DEF IInv, Saver
  <2> QED
    BY <2>2, <2>3, <2>5 DEF Holds, Saving
<1> QED
  BY <1>1, Invariance, PTL

=============================================================================
