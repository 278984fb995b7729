--------------------------- MODULE AccountsProofs ---------------------------
(***************************************************************************)
(* The accounts for every set of users, phone numbers and workers.         *)
(*                                                                         *)
(* What a worker has done follows from the statement it is at (Work); in   *)
(* particular an open signup has inserted a user that is not committed     *)
(* yet, and nobody else has (Exclusive), so that its commit publishes the  *)
(* whole account at once.  A request that nothing disturbed has the        *)
(* server to itself (Alone), so that what it has checked is still so.      *)
(***************************************************************************)
EXTENDS Accounts, TLAPS

Changing == {"user", "role"}

\* What a worker's place says of its request, its transaction and its user.
Work(w) ==
  /\ pc[w] = "idle" <=> req[w].op = "none"
  /\ pc[w] \in {"checkId", "checkPhone"} => req[w].op = "signup"
  /\ pc[w] \in {"begin", "user", "role"} => req[w].op \in {"signup", "grade"}
  /\ pc[w] = "save" <=> req[w].op = "store"
  /\ pc[w] # "idle" => req[w].user \in UserIds
  /\ req[w].op \in {"signup", "store"} => req[w].phone \in Phones
  /\ req[w].op = "signup" => req[w].grade = "normal"
  /\ req[w].op # "store" => ~req[w].owner
  /\ pc[w] # "role" => pending[w] = {}
  /\ pc[w] \notin {"role", "save"} => written[w] = {}
  /\ pc[w] = "role" =>
       /\ pending[w] = IF mode[w] = "txn" THEN written[w] \cup {"USERS"} ELSE {}
       /\ written[w] \subseteq RowsToWrite(w)
  /\ mode[w] = "txn" => pc[w] \in Changing
  /\ pc[w] \in Changing /\ mode[w] = "auto" => req[w].user \in renewed
  /\ pc[w] = "role" /\ req[w].op = "signup" =>
       IF mode[w] = "txn" THEN ~Exists(req[w].user)
       ELSE Exists(req[w].user) /\ users[req[w].user].role = req[w].role
  /\ pc[w] \in {"checkPhone", "begin", "user"} /\ req[w].op = "signup" /\ w \notin disturbed =>
       ~Exists(req[w].user)
  /\ success[w] => tried[w] \subseteq written[w]

Exclusive ==
  \A v, w \in Workers :
    "USERS" \in pending[v] /\ "USERS" \in pending[w] /\ req[v].user = req[w].user => v = w

Alone ==
  \A v, w \in Workers : v \notin disturbed /\ pc[v] # "idle" /\ pc[w] # "idle" => v = w

\* A row of USERS has a phone number.
Numbers == \A u \in UserIds : Exists(u) => users[u].phone \in Phones

\* Signups are answered for users.
Known == \A a \in answers : a.op = "signup" => a.user \in UserIds

IInv ==
  /\ TypeOK
  /\ Numbers
  /\ \A w \in Workers : Work(w)
  /\ Exclusive
  /\ Alone
  /\ TablesAgree
  /\ Known
  /\ AnswersTrue

-----------------------------------------------------------------------------
(* The tables.                                                             *)

UserRows == [phone : Phones \cup {NoPhone}, role : Roles, grade : Grades]

TableOK ==
  /\ users \in [UserIds -> UserRows]
  /\ customers \in [UserIds -> Grades \cup {"none"}]
  /\ owners \subseteq UserIds
  /\ stores \subseteq UserIds

Places == {"idle", "checkId", "checkPhone", "begin", "user", "role", "save"}
AllTables == Parts \cup {"CUSTOMERS"}

WorkerOK ==
  /\ pc \in [Workers -> Places]
  /\ req \in [Workers -> Requests]
  /\ mode \in [Workers -> {"auto", "txn"}]
  /\ pending \in [Workers -> SUBSET AllTables]
  /\ written \in [Workers -> SUBSET AllTables]
  /\ tried \in [Workers -> SUBSET Parts]
  /\ success \in [Workers -> BOOLEAN]

\* The parts of the type invariant.
LEMMA TypeParts ==
  TypeOK <=> /\ TableOK
             /\ WorkerOK
             /\ requests \in 0..MaxRequests
             /\ disturbed \subseteq Workers
             /\ renewed \subseteq UserIds
BY DEF TypeOK, TableOK, WorkerOK, UserRows, Places, AllTables

\* One account.
Agrees(u) == Whole(u) /\ (HasRow(u, "CUSTOMERS") => customers[u] = users[u].grade)

\* The rows of an account, for citation without the CASE expressions.
LEMMA AgreesMeans ==
  ASSUME TableOK, NEW u \in UserIds
  PROVE  Agrees(u) <=>
           /\ customers[u] # "none" <=> Exists(u) /\ users[u].role = "customer"
           /\ u \in owners <=> Exists(u) /\ users[u].role = "owner"
           /\ u \in stores <=> Exists(u) /\ users[u].role = "owner"
           /\ customers[u] # "none" => customers[u] = users[u].grade
<1>1. users[u].role \in Roles
  BY DEF TableOK, UserRows
<1>2. /\ HasRow(u, "CUSTOMERS") <=> customers[u] # "none"
      /\ HasRow(u, "OWNERS") <=> u \in owners
      /\ HasRow(u, "STORES") <=> u \in stores
  BY DEF HasRow
<1>3. /\ "CUSTOMERS" \in RoleTables(users[u].role) <=> users[u].role = "customer"
      /\ "OWNERS" \in RoleTables(users[u].role) <=> users[u].role = "owner"
      /\ "STORES" \in RoleTables(users[u].role) <=> users[u].role = "owner"
  <2>1. CASE users[u].role = "customer"
    BY <2>1 DEF RoleTables
  <2>2. CASE users[u].role = "owner"
    BY <2>2 DEF RoleTables
  <2>3. CASE users[u].role = "rider"
    BY <2>3 DEF RoleTables
  <2> QED
    BY <1>1, <2>1, <2>2, <2>3 DEF Roles
<1> HIDE DEF Roles
<1> QED
  BY <1>2, <1>3 DEF Agrees, Whole

\* The same of the next state.
LEMMA AgreesMeansNext ==
  ASSUME TableOK', NEW u \in UserIds
  PROVE  Agrees(u)' <=>
           /\ customers'[u] # "none" <=> Exists(u)' /\ users'[u].role = "customer"
           /\ u \in owners' <=> Exists(u)' /\ users'[u].role = "owner"
           /\ u \in stores' <=> Exists(u)' /\ users'[u].role = "owner"
           /\ customers'[u] # "none" => customers'[u] = users'[u].grade
<1>1. users'[u].role \in Roles
  BY DEF TableOK, UserRows
<1>2. /\ HasRow(u, "CUSTOMERS")' <=> customers'[u] # "none"
      /\ HasRow(u, "OWNERS")' <=> u \in owners'
      /\ HasRow(u, "STORES")' <=> u \in stores'
  BY DEF HasRow
<1>3. /\ "CUSTOMERS" \in RoleTables(users'[u].role) <=> users'[u].role = "customer"
      /\ "OWNERS" \in RoleTables(users'[u].role) <=> users'[u].role = "owner"
      /\ "STORES" \in RoleTables(users'[u].role) <=> users'[u].role = "owner"
  <2>1. CASE users'[u].role = "customer"
    BY <2>1 DEF RoleTables
  <2>2. CASE users'[u].role = "owner"
    BY <2>2 DEF RoleTables
  <2>3. CASE users'[u].role = "rider"
    BY <2>3 DEF RoleTables
  <2> QED
    BY <1>1, <2>1, <2>2, <2>3 DEF Roles
<1> HIDE DEF Roles
<1> QED
  BY <1>2, <1>3 DEF Agrees, Whole

\* The property in terms of the accounts.
LEMMA TablesAgreeMeans ==
  TablesAgree <=> \A u \in UserIds \ renewed : Agrees(u)
BY DEF TablesAgree, Agrees

\* A step that concerns the account of one user: others stay as they are, and
\* nobody's account is lost or changes its role.
Concerns(u) ==
  /\ TableOK'
  /\ Numbers'
  /\ \A v \in UserIds : v # u => (Exists(v)' <=> Exists(v))
  /\ \A v \in UserIds : Exists(v) => Exists(v)' /\ users'[v].role = users[v].role
  /\ \A v \in UserIds : v # u => (Agrees(v)' <=> Agrees(v))

\* The row written for a request.
LEMMA RowFacts ==
  ASSUME IInv, NEW w \in Workers, req[w].op \in {"signup", "grade", "store"}
  PROVE  /\ req[w].user \in UserIds
         /\ req[w].grade \in Grades /\ req[w].role \in Roles
         /\ req[w].op = "signup" =>
              /\ UserRow(w) \in UserRows /\ UserRow(w) # Absent /\ UserRow(w).phone \in Phones
              /\ UserRow(w).role = req[w].role /\ UserRow(w).grade = "normal"
         /\ req[w].op = "grade" /\ Exists(req[w].user) =>
              /\ UserRow(w) \in UserRows /\ UserRow(w) # Absent /\ UserRow(w).phone \in Phones
              /\ UserRow(w).role = users[req[w].user].role /\ UserRow(w).grade = req[w].grade
         /\ req[w].op = "store" /\ Exists(req[w].user) =>
              /\ UserRow(w) \in UserRows /\ UserRow(w) # Absent /\ UserRow(w).phone \in Phones
              /\ UserRow(w).role = users[req[w].user].role
              /\ UserRow(w).grade = users[req[w].user].grade
<1>1. req[w] \in Requests
  BY DEF IInv, TypeOK
<1>2. req[w].grade \in Grades /\ req[w].role \in Roles /\ req[w].op # "none"
  BY <1>1 DEF Requests
<1>3. req[w].user \in UserIds /\ (req[w].op \in {"signup", "store"} => req[w].phone \in Phones)
  BY <1>2 DEF IInv, Work
<1>4. users[req[w].user] \in UserRows
  BY <1>3, TypeParts DEF IInv, TableOK
<1>5. NoPhone \notin Phones /\ Absent.phone = NoPhone
  BY AccountsAssumption DEF Absent
<1>6. CASE req[w].op = "signup"
  <2>1. UserRow(w) = [phone |-> req[w].phone, role |-> req[w].role, grade |-> "normal"]
    BY <1>6 DEF UserRow
  <2> QED
    BY <1>2, <1>3, <1>5, <1>6, <2>1 DEF UserRows, Grades
<1>7. CASE req[w].op = "grade"
  <2>1. UserRow(w) = [users[req[w].user] EXCEPT !.grade = req[w].grade]
    BY <1>7 DEF UserRow
  <2>2. Exists(req[w].user) => users[req[w].user].phone \in Phones
    BY <1>3 DEF IInv, Numbers
  <2> QED
    BY <1>2, <1>3, <1>4, <1>5, <1>7, <2>1, <2>2 DEF UserRows
<1>8. CASE req[w].op = "store"
  <2>1. UserRow(w) = [users[req[w].user] EXCEPT !.phone = req[w].phone]
    BY <1>8 DEF UserRow
  <2> QED
    BY <1>2, <1>3, <1>4, <1>5, <1>8, <2>1 DEF UserRows
<1> QED
  BY <1>2, <1>3, <1>6, <1>7, <1>8

\* What publishing does to the account of the request.
LEMMA Published ==
  ASSUME IInv, NEW w \in Workers, req[w].op \in {"signup", "grade", "store"},
         NEW ts \in SUBSET AllTables, Publish(w, ts), NEW u \in UserIds, u = req[w].user
  PROVE  /\ TableOK'
         /\ \A v \in UserIds : v # u =>
              /\ users'[v] = users[v] /\ customers'[v] = customers[v]
              /\ v \in owners' <=> v \in owners
              /\ v \in stores' <=> v \in stores
         /\ users'[u] = IF "USERS" \in ts /\ (req[w].op = "signup" \/ Exists(u)) THEN UserRow(w) ELSE users[u]
         /\ customers'[u] = IF "CUSTOMERS" \in ts /\ (req[w].op = "signup" \/ customers[u] # "none")
                            THEN req[w].grade ELSE customers[u]
         /\ u \in owners' <=> u \in owners \/ ("OWNERS" \in ts /\ req[w].op = "signup")
         /\ u \in stores' <=> u \in stores \/ ("STORES" \in ts /\ req[w].op = "signup")
<1> DEFINE on == {t \in ts : Affects(w, t)}
<1>1. /\ "USERS" \in on <=> "USERS" \in ts /\ (req[w].op = "signup" \/ Exists(u))
      /\ "CUSTOMERS" \in on <=> "CUSTOMERS" \in ts /\ (req[w].op = "signup" \/ customers[u] # "none")
      /\ "OWNERS" \in on <=> "OWNERS" \in ts /\ (req[w].op = "signup" \/ u \in owners)
      /\ "STORES" \in on <=> "STORES" \in ts /\ (req[w].op = "signup" \/ u \in stores)
  BY DEF Affects, HasRow
<1>2. /\ users' = IF "USERS" \in on THEN [users EXCEPT ![u] = UserRow(w)] ELSE users
      /\ customers' = IF "CUSTOMERS" \in on THEN [customers EXCEPT ![u] = req[w].grade] ELSE customers
      /\ owners' = IF "OWNERS" \in on THEN owners \cup {u} ELSE owners
      /\ stores' = IF "STORES" \in on THEN stores \cup {u} ELSE stores
  BY DEF Publish
<1> HIDE DEF on
<1>3. TableOK
  BY TypeParts DEF IInv
<1>4. ("USERS" \in on => UserRow(w) \in UserRows) /\ req[w].grade \in Grades
  BY <1>1, RowFacts
<1>5. TableOK'
  BY <1>2, <1>3, <1>4 DEF TableOK
<1> QED
  BY <1>1, <1>2, <1>3, <1>5 DEF TableOK

\* Publishing concerns the user of the request only.
LEMMA PublishedOthers ==
  ASSUME IInv, NEW w \in Workers, req[w].op \in {"signup", "grade", "store"},
         NEW ts \in SUBSET AllTables, Publish(w, ts), NEW u \in UserIds, u = req[w].user,
         Exists(u) => users'[u].role = users[u].role,
         req[w].op = "signup" /\ "USERS" \in ts => ~Exists(u)
  PROVE  /\ Concerns(u)
         /\ Exists(u)' <=> Exists(u) \/ (req[w].op = "signup" /\ "USERS" \in ts)
<1>1. TableOK /\ TableOK'
  BY Published, TypeParts DEF IInv
<1>2. \A v \in UserIds : v # u =>
        /\ users'[v] = users[v] /\ customers'[v] = customers[v]
        /\ v \in owners' <=> v \in owners
        /\ v \in stores' <=> v \in stores
  BY Published
<1>3. users'[u] = IF "USERS" \in ts /\ (req[w].op = "signup" \/ Exists(u)) THEN UserRow(w) ELSE users[u]
  BY Published
<1>4. Exists(u)' <=> Exists(u) \/ (req[w].op = "signup" /\ "USERS" \in ts)
  BY <1>3, RowFacts DEF Exists
<1>5. \A v \in UserIds : v # u => (Exists(v)' <=> Exists(v))
  BY <1>2 DEF Exists
<1>6. \A v \in UserIds : Exists(v) => Exists(v)' /\ users'[v].role = users[v].role
  BY <1>2, <1>4, <1>5
<1>7. Numbers'
  <2> SUFFICES ASSUME NEW v \in UserIds, Exists(v)'
               PROVE  users'[v].phone \in Phones
    BY DEF Numbers
  <2>1. CASE v = u
    BY <1>3, <1>4, <2>1, RowFacts DEF IInv, Numbers
  <2>2. CASE v # u
    BY <1>2, <1>5, <2>2 DEF IInv, Numbers
  <2> QED
    BY <2>1, <2>2
<1>8. ASSUME NEW v \in UserIds, v # u
      PROVE  Agrees(v)' <=> Agrees(v)
  <2>1. Agrees(v) <=>
           /\ customers[v] # "none" <=> Exists(v) /\ users[v].role = "customer"
           /\ v \in owners <=> Exists(v) /\ users[v].role = "owner"
           /\ v \in stores <=> Exists(v) /\ users[v].role = "owner"
           /\ customers[v] # "none" => customers[v] = users[v].grade
    BY <1>1, AgreesMeans
  <2>2. Agrees(v)' <=>
           /\ customers'[v] # "none" <=> Exists(v)' /\ users'[v].role = "customer"
           /\ v \in owners' <=> Exists(v)' /\ users'[v].role = "owner"
           /\ v \in stores' <=> Exists(v)' /\ users'[v].role = "owner"
           /\ customers'[v] # "none" => customers'[v] = users'[v].grade
    BY <1>1, AgreesMeansNext
  <2> QED
    BY <1>2, <1>5, <1>8, <2>1, <2>2
<1> QED
  BY <1>1, <1>4, <1>5, <1>6, <1>7, <1>8 DEF Concerns

\* An update of STORES, USERS or OWNERS leaves the account what it was.
LEMMA StorePublished ==
  ASSUME IInv, NEW w \in Workers, req[w].op = "store", NEW t \in Parts, Publish(w, {t}),
         NEW u \in UserIds, u = req[w].user
  PROVE  /\ Concerns(u)
         /\ Exists(u)' <=> Exists(u)
         /\ Agrees(u) => Agrees(u)'
<1>0. {t} \in SUBSET AllTables /\ "CUSTOMERS" \notin {t}
  BY DEF AllTables, Parts
<1>1. /\ users'[u] = IF "USERS" \in {t} /\ (req[w].op = "signup" \/ Exists(u)) THEN UserRow(w) ELSE users[u]
      /\ customers'[u] = IF "CUSTOMERS" \in {t} /\ (req[w].op = "signup" \/ customers[u] # "none")
                         THEN req[w].grade ELSE customers[u]
      /\ u \in owners' <=> u \in owners \/ ("OWNERS" \in {t} /\ req[w].op = "signup")
      /\ u \in stores' <=> u \in stores \/ ("STORES" \in {t} /\ req[w].op = "signup")
      /\ TableOK'
  BY <1>0, Published
<1>2. users'[u].role = users[u].role /\ users'[u].grade = users[u].grade
  BY <1>1, RowFacts
<1>3. Concerns(u) /\ (Exists(u)' <=> Exists(u))
  BY <1>0, <1>2, PublishedOthers
<1>4. Agrees(u) <=>
         /\ customers[u] # "none" <=> Exists(u) /\ users[u].role = "customer"
         /\ u \in owners <=> Exists(u) /\ users[u].role = "owner"
         /\ u \in stores <=> Exists(u) /\ users[u].role = "owner"
         /\ customers[u] # "none" => customers[u] = users[u].grade
  BY AgreesMeans, TypeParts DEF IInv
<1>5. Agrees(u)' <=>
         /\ customers'[u] # "none" <=> Exists(u)' /\ users'[u].role = "customer"
         /\ u \in owners' <=> Exists(u)' /\ users'[u].role = "owner"
         /\ u \in stores' <=> Exists(u)' /\ users'[u].role = "owner"
         /\ customers'[u] # "none" => customers'[u] = users'[u].grade
  BY <1>1, AgreesMeansNext
<1> QED
  BY <1>0, <1>1, <1>2, <1>3, <1>4, <1>5

\* A commit publishes an account whole, or a grade in both tables.
LEMMA CommitPublished ==
  ASSUME IInv, NEW w \in Workers, ReadyToCommit(w), mode[w] = "txn", Publish(w, pending[w]),
         NEW u \in UserIds, u = req[w].user
  PROVE  /\ Concerns(u)
         /\ req[w].op = "signup" => Exists(u)' /\ users'[u].role = req[w].role
         /\ req[w].op = "grade" => (Exists(u)' <=> Exists(u))
         /\ Agrees(u) => Agrees(u)'
<1> DEFINE ts == pending[w]
<1>0. /\ pc[w] = "role" /\ req[w].op \in {"signup", "grade"}
      /\ written[w] = RowsToWrite(w) /\ ts = written[w] \cup {"USERS"}
      /\ req[w].op = "signup" => ~Exists(u) /\ req[w].grade = "normal"
  BY DEF IInv, Work, ReadyToCommit
<1>s. /\ ts \in SUBSET AllTables
  BY DEF IInv, TypeOK, AllTables
<1>1. /\ users'[u] = IF "USERS" \in ts /\ (req[w].op = "signup" \/ Exists(u)) THEN UserRow(w) ELSE users[u]
      /\ customers'[u] = IF "CUSTOMERS" \in ts /\ (req[w].op = "signup" \/ customers[u] # "none")
                         THEN req[w].grade ELSE customers[u]
      /\ u \in owners' <=> u \in owners \/ ("OWNERS" \in ts /\ req[w].op = "signup")
      /\ u \in stores' <=> u \in stores \/ ("STORES" \in ts /\ req[w].op = "signup")
      /\ TableOK'
  BY <1>0, <1>s, Published
<1>2. Exists(u) => users'[u].role = users[u].role
  BY <1>0, <1>1, RowFacts
<1>3. Concerns(u) /\ (Exists(u)' <=> Exists(u) \/ (req[w].op = "signup" /\ "USERS" \in ts))
  BY <1>0, <1>2, <1>s, PublishedOthers
<1>4. Agrees(u) <=>
         /\ customers[u] # "none" <=> Exists(u) /\ users[u].role = "customer"
         /\ u \in owners <=> Exists(u) /\ users[u].role = "owner"
         /\ u \in stores <=> Exists(u) /\ users[u].role = "owner"
         /\ customers[u] # "none" => customers[u] = users[u].grade
  BY AgreesMeans, TypeParts DEF IInv
<1>5. Agrees(u)' <=>
         /\ customers'[u] # "none" <=> Exists(u)' /\ users'[u].role = "customer"
         /\ u \in owners' <=> Exists(u)' /\ users'[u].role = "owner"
         /\ u \in stores' <=> Exists(u)' /\ users'[u].role = "owner"
         /\ customers'[u] # "none" => customers'[u] = users'[u].grade
  BY <1>1, AgreesMeansNext
<1>6. CASE req[w].op = "signup"
  <2>1. /\ users'[u].role = req[w].role /\ users'[u].grade = "normal" /\ req[w].role \in Roles
        /\ Exists(u)' /\ ~Exists(u)
    BY <1>0, <1>1, <1>3, <1>6, RowFacts
  <2>2. /\ "CUSTOMERS" \in ts <=> req[w].role = "customer"
        /\ "OWNERS" \in ts <=> req[w].role = "owner"
        /\ "STORES" \in ts <=> req[w].role = "owner"
    <3>1. ts = RoleTables(req[w].role) \cup {"USERS"}
      BY <1>0, <1>6 DEF RowsToWrite
    <3>2. CASE req[w].role = "customer"
      BY <3>1, <3>2 DEF RoleTables
    <3>3. CASE req[w].role = "owner"
      BY <3>1, <3>3 DEF RoleTables
    <3>4. CASE req[w].role = "rider"
      BY <3>1, <3>4 DEF RoleTables
    <3> QED
      BY <2>1, <3>2, <3>3, <3>4 DEF Roles
  <2>3. req[w].grade = "normal"
    BY <1>0, <1>6
  <2> HIDE DEF ts
  <2> QED
    BY <1>1, <1>3, <1>4, <1>5, <1>6, <2>1, <2>2, <2>3
<1>7. CASE req[w].op = "grade"
  <2>1. ts = {"USERS", "CUSTOMERS"}
    BY <1>0, <1>7 DEF RowsToWrite
  <2>2. req[w].grade \in Grades /\ "none" \notin Grades
    BY <1>0, RowFacts DEF Grades
  <2>3. Exists(u) => users'[u].grade = req[w].grade /\ users'[u].role = users[u].role
    BY <1>0, <1>1, <1>7, <2>1, RowFacts
  <2>4. Exists(u)' <=> Exists(u)
    BY <1>3, <1>7
  <2>5. customers'[u] = IF customers[u] # "none" THEN req[w].grade ELSE customers[u]
    BY <1>1, <1>7, <2>1
  <2>6. (u \in owners' <=> u \in owners) /\ (u \in stores' <=> u \in stores)
    BY <1>1, <1>7
  <2> HIDE DEF ts
  <2>7. Agrees(u) => Agrees(u)'
    BY <1>4, <1>5, <2>2, <2>3, <2>4, <2>5, <2>6
  <2> QED
    BY <1>3, <1>7, <2>4, <2>7
<1> QED
  BY <1>0, <1>6, <1>7

\* A step without effect on the tables.
LEMMA NothingPublished ==
  ASSUME IInv, UNCHANGED tables
  PROVE  /\ \A u : Concerns(u)
         /\ \A u \in UserIds : (Exists(u)' <=> Exists(u)) /\ (Agrees(u)' <=> Agrees(u))
<1>1. TableOK' /\ Numbers'
  BY TypeParts DEF IInv, tables, TableOK, Numbers, Exists
<1>2. \A u \in UserIds : (Exists(u)' <=> Exists(u)) /\ (Agrees(u)' <=> Agrees(u))
  BY DEF tables, Exists, Agrees, Whole, HasRow
<1>3. \A u \in UserIds : users'[u] = users[u]
  BY DEF tables
<1> QED
  BY <1>1, <1>2, <1>3 DEF Concerns

-----------------------------------------------------------------------------
(* The workers.                                                            *)

\* The other workers go on where they were.
Others(w) ==
  \A v \in Workers \ {w} :
    /\ pc'[v] = pc[v] /\ req'[v] = req[v] /\ mode'[v] = mode[v]
    /\ pending'[v] = pending[v] /\ written'[v] = written[v]
    /\ tried'[v] = tried[v] /\ success'[v] = success[v]

\* Nobody else has inserted the user that a step makes.
Unshared(w, u) ==
  Exists(u)' => \/ Exists(u)
                \/ \A v \in Workers \ {w} : req[v].user = u => "USERS" \notin pending[v]

\* A step of one worker leaves true what is known of the others.
LEMMA OthersWork ==
  ASSUME IInv, NEW w \in Workers, pc[w] # "idle", Others(w),
         NEW u \in UserIds, Concerns(u), Unshared(w, u),
         renewed \subseteq renewed', disturbed \subseteq disturbed',
         NEW v \in Workers, v # w
  PROVE  Work(v)'
<1>1. /\ pc'[v] = pc[v] /\ req'[v] = req[v] /\ mode'[v] = mode[v]
      /\ pending'[v] = pending[v] /\ written'[v] = written[v]
      /\ tried'[v] = tried[v] /\ success'[v] = success[v]
  BY DEF Others
<1>2. Work(v)
  BY DEF IInv
<1>3. pc[v] # "idle" => v \in disturbed
  BY DEF IInv, Alone
<1>4. req[v].user \in UserIds /\ Exists(req[v].user) =>
        Exists(req[v].user)' /\ users'[req[v].user].role = users[req[v].user].role
  BY <1>1 DEF Concerns, Exists
<1>5. pc[v] = "role" /\ req[v].op = "signup" /\ mode[v] = "txn" => ~Exists(req[v].user)'
  <2> SUFFICES ASSUME pc[v] = "role", req[v].op = "signup", mode[v] = "txn"
               PROVE  ~Exists(req[v].user)'
    OBVIOUS
  <2>1. "USERS" \in pending[v] /\ ~Exists(req[v].user) /\ req[v].user \in UserIds
    BY <1>2 DEF Work
  <2>2. CASE req[v].user = u
    BY <1>1, <2>1, <2>2 DEF Unshared, Exists
  <2>3. CASE req[v].user # u
    BY <1>1, <2>1, <2>3 DEF Concerns, Exists
  <2> QED
    BY <2>2, <2>3
<1>6. pc[v] # "idle" => v \in disturbed'
  BY <1>3
<1> QED
  BY <1>1, <1>2, <1>4, <1>5, <1>6 DEF Work, RowsToWrite

\* What a step of one worker has to show.
LEMMA StepKeeps ==
  ASSUME IInv, NEW w \in Workers, pc[w] # "idle", Others(w), TypeOK',
         NEW u \in UserIds, Concerns(u), Unshared(w, u),
         renewed \subseteq renewed', disturbed \subseteq disturbed',
         u \notin renewed' /\ Agrees(u) => Agrees(u)',
         Work(w)',
         "USERS" \in pending'[w] =>
           req'[w].user = req[w].user /\ ("USERS" \in pending[w] \/ ~RowLocked(w, req[w].user, "USERS")),
         Known', AnswersTrue'
  PROVE  IInv'
<1>1. \A v \in Workers : Work(v)'
  BY OthersWork
<1>2. Exclusive'
  <2> SUFFICES ASSUME NEW v \in Workers, NEW x \in Workers, v # x,
                      "USERS" \in pending'[v], "USERS" \in pending'[x], req'[v].user = req'[x].user
               PROVE  FALSE
    BY DEF Exclusive
  <2>1. CASE v # w /\ x # w
    BY <2>1 DEF IInv, Exclusive, Others
  <2>2. CASE v = w
    BY <2>2 DEF IInv, Exclusive, Others, RowLocked
  <2>3. CASE x = w
    BY <2>3 DEF IInv, Exclusive, Others, RowLocked
  <2> QED
    BY <2>1, <2>2, <2>3
<1>3. Alone'
  BY DEF IInv, Alone, Others
<1>4. TablesAgree'
  <2>1. \A v \in UserIds \ renewed : Agrees(v)
    BY TablesAgreeMeans DEF IInv
  <2>2. \A v \in UserIds \ renewed' : Agrees(v)'
    BY <2>1 DEF Concerns
  <2> QED
    BY <2>2 DEF TablesAgree, Agrees
<1>5. Numbers'
  BY DEF Concerns
<1> QED
  BY <1>1, <1>2, <1>3, <1>4, <1>5 DEF IInv

\* Answers given before stay true.
LEMMA AnswersKept ==
  ASSUME IInv, NEW u \in UserIds, Concerns(u), answers' = answers
  PROVE  Known' /\ AnswersTrue'
<1>1. Known'
  BY DEF IInv, Known
<1>2. \A a \in answers : a.op = "signup" => a.user \in UserIds
  BY DEF IInv, Known
<1>3. \A v \in UserIds : Exists(v) => Exists(v)' /\ users'[v].role = users[v].role
  BY DEF Concerns
<1>4. ASSUME NEW a \in answers'
      PROVE  /\ a.op = "signup" /\ a.status = "SUCCESS" => Exists(a.user)' /\ users'[a.user].role = a.role
             /\ a.status = "SUCCESS" => a.missing = {}
             /\ a.op = "signup" /\ a.status = "SERVER_ERROR" /\ a.clean => a.taken
  BY <1>2, <1>3, <1>4 DEF IInv, AnswersTrue
<1> QED
  BY <1>1, <1>4 DEF AnswersTrue, Exists

\* An answer: the worker is idle again.
LEMMA Answered ==
  ASSUME IInv, NEW w \in Workers, NEW status, NEW clean, Answer(w, status, clean),
         pc[w] # "idle", NEW u \in UserIds, u = req[w].user, Concerns(u),
         req[w].op = "signup" /\ status = "SUCCESS" => Exists(u)' /\ users'[u].role = req[w].role,
         status = "SUCCESS" /\ req[w].owner => req[w].parts \subseteq written[w],
         req[w].op = "signup" /\ status = "SERVER_ERROR" /\ clean => PhoneTaken(u, req[w].phone)
  PROVE  /\ Known' /\ AnswersTrue'
         /\ WorkerOK' /\ Others(w) /\ Work(w)' /\ "USERS" \notin pending'[w]
<1> DEFINE new == [op |-> req[w].op, user |-> req[w].user, role |-> req[w].role, status |-> status,
                   clean |-> clean, taken |-> PhoneTaken(req[w].user, req[w].phone),
                   missing |-> IF req[w].owner THEN req[w].parts \ written[w] ELSE {}]
<1>1. answers' = answers \cup {new}
  BY DEF Answer, EndTransaction
<1>2. \A a \in answers : a.op = "signup" => a.user \in UserIds
  BY DEF IInv, Known
<1>3. \A v \in UserIds : Exists(v) => Exists(v)' /\ users'[v].role = users[v].role
  BY DEF Concerns
<1>4. /\ new.op = "signup" /\ new.status = "SUCCESS" => Exists(u)' /\ users'[u].role = new.role
      /\ new.status = "SUCCESS" => new.missing = {}
      /\ new.user = u
  OBVIOUS
<1>5. new.op = "signup" /\ new.status = "SERVER_ERROR" /\ new.clean => new.taken
  BY Zenon
<1>6. \A a \in answers : /\ a.op = "signup" /\ a.status = "SUCCESS" => Exists(a.user) /\ users[a.user].role = a.role
                         /\ a.status = "SUCCESS" => a.missing = {}
                         /\ a.op = "signup" /\ a.status = "SERVER_ERROR" /\ a.clean => a.taken
  BY DEF IInv, AnswersTrue
<1> HIDE DEF new
<1>7. Known'
  BY <1>1, <1>2, <1>4 DEF Known
<1>8. AnswersTrue'
  <2>1. ASSUME NEW a \in answers
        PROVE  a.op = "signup" /\ a.status = "SUCCESS" => Exists(a.user)' /\ users'[a.user].role = a.role
    BY <1>2, <1>3, <1>6, <2>1
  <2>2. \A a \in answers' : a.op = "signup" /\ a.status = "SUCCESS" => users'[a.user] # Absent /\ users'[a.user].role = a.role
    BY <1>1, <1>4, <2>1 DEF Exists
  <2>3. \A a \in answers' : a.status = "SUCCESS" => a.missing = {}
    BY <1>1, <1>4, <1>6
  <2>4. \A a \in answers' : a.op = "signup" /\ a.status = "SERVER_ERROR" /\ a.clean => a.taken
    BY <1>1, <1>5, <1>6, Zenon
  <2> QED
    BY <2>2, <2>3, <2>4, Zenon DEF AnswersTrue, Exists
<1>9. WorkerOK /\ NoRequest \in Requests
  BY TypeParts DEF IInv, NoRequest, Requests, Roles, Grades
<1>10. WorkerOK'
  BY <1>9 DEF Answer, EndTransaction, WorkerOK, Places, AllTables
<1>11. Others(w)
  BY <1>9 DEF Answer, EndTransaction, Others, WorkerOK
<1>12. /\ pc'[w] = "idle" /\ req'[w] = NoRequest /\ mode'[w] = "auto"
       /\ pending'[w] = {} /\ written'[w] = {} /\ tried'[w] = {}
  BY <1>9 DEF Answer, EndTransaction, WorkerOK
<1>13. NoRequest.op = "none" /\ ~NoRequest.owner
  BY DEF NoRequest
<1>14. Work(w)'
  BY <1>12, <1>13 DEF Work, Changing
<1> QED
  BY <1>7, <1>8, <1>10, <1>11, <1>12, <1>14

\* A request that begins, with what its handler has put into it.
LEMMA BeginKeeps ==
  ASSUME IInv, NEW w \in Workers, NEW r \in Requests, NEW first \in {"checkId", "begin", "save"},
         Begin(w, r, first), r.user \in UserIds,
         first = "checkId" => r.op = "signup" /\ r.phone \in Phones /\ r.grade = "normal" /\ ~r.owner,
         first = "begin" => r.op = "grade" /\ ~r.owner,
         first = "save" => r.op = "store" /\ r.phone \in Phones
  PROVE  IInv'
<1>1. /\ pc[w] = "idle" /\ requests < MaxRequests /\ requests' = requests + 1
      /\ req' = [req EXCEPT ![w] = r] /\ pc' = [pc EXCEPT ![w] = first]
      /\ disturbed' = IF Busy = {} THEN disturbed \ {w} ELSE disturbed \cup Busy \cup {w}
      /\ UNCHANGED <<tables, mode, pending, written, update, renewed, answers>>
  BY DEF Begin
<1>2. TableOK /\ WorkerOK /\ requests \in 0..MaxRequests /\ disturbed \subseteq Workers /\ renewed \subseteq UserIds
  BY TypeParts DEF IInv
<1>3. WorkerOK'
  BY <1>1, <1>2 DEF WorkerOK, Places, update
<1>4. requests' \in 0..MaxRequests
  BY <1>1, <1>2, AccountsAssumption
<1>5. disturbed' \subseteq Workers
  BY <1>1, <1>2 DEF Busy
<1>6. PICK u \in UserIds : u = r.user
  OBVIOUS
<1>7. Concerns(u) /\ \A x \in UserIds : (Exists(x)' <=> Exists(x)) /\ (Agrees(x)' <=> Agrees(x))
  BY <1>1, NothingPublished
<1>8. TypeOK'
  <2>1. TableOK'
    BY <1>7 DEF Concerns
  <2> QED
    BY <1>1, <1>2, <1>3, <1>4, <1>5, <2>1 DEF TypeOK, TableOK, WorkerOK, UserRows, Places,
       AllTables
<1>9. Known' /\ AnswersTrue'
  BY <1>1, <1>7, AnswersKept
<1>10. pc'[w] = first /\ req'[w] = r /\ \A v \in Workers \ {w} : pc'[v] = pc[v] /\ req'[v] = req[v]
  BY <1>1, <1>2 DEF WorkerOK
<1>11. \A v \in Workers : pc[v] # "idle" => v \in disturbed'
  BY <1>1 DEF Busy
<1>12. users' = users /\ mode' = mode /\ pending' = pending /\ written' = written /\ tried' = tried
       /\ success' = success /\ renewed' = renewed
  BY <1>1 DEF tables, update
<1>13. Work(w)'
  <2>1. Work(w)
    BY DEF IInv
  <2> QED
    BY <1>1, <1>10, <1>12, <2>1 DEF Work, Changing
<1>14. ASSUME NEW v \in Workers, v # w
       PROVE  Work(v)'
  <2>1. Work(v)
    BY DEF IInv
  <2>2. pc'[v] = pc[v] /\ req'[v] = req[v]
    BY <1>10, <1>14
  <2> QED
    BY <1>11, <1>12, <2>1, <2>2 DEF Work, Changing, RowsToWrite, Exists
<1>15. Exclusive'
  <2>1. pending[w] = {}
    BY <1>1 DEF IInv, Work
  <2> QED
    BY <1>10, <1>12, <2>1 DEF IInv, Exclusive
<1>16. Alone'
  BY <1>1, <1>10, <1>11 DEF Alone, Busy
<1>17. TablesAgree'
  <2>1. \A x \in UserIds \ renewed : Agrees(x)
    BY TablesAgreeMeans DEF IInv
  <2>2. \A x \in UserIds \ renewed' : Agrees(x)'
    BY <1>7, <1>12, <2>1
  <2> QED
    BY <2>2 DEF TablesAgree, Agrees
<1> QED
  BY <1>7, <1>8, <1>9, <1>13, <1>14, <1>15, <1>16, <1>17 DEF IInv, Concerns

\* The requests.
LEMMA HandleKeeps ==
  ASSUME IInv, NEW w \in Workers, Handle(w)
  PROVE  IInv'
<1>0. NoRequest \in Requests /\ NoRequest.grade = "normal" /\ ~NoRequest.owner
  BY DEF NoRequest, Requests, Roles, Grades
<1>1. ASSUME NEW u \in UserIds, NEW p \in Phones, NEW role \in Roles, HandleSignup(w, u, p, role)
      PROVE  IInv'
  <2> DEFINE r == [NoRequest EXCEPT !.op = "signup", !.user = u, !.phone = p, !.role = role]
  <2>1. r \in Requests /\ r.op = "signup" /\ r.user = u /\ r.phone = p /\ r.grade = "normal" /\ ~r.owner
    BY <1>0 DEF Requests, NoRequest
  <2>2. Begin(w, r, "checkId")
    BY <1>1 DEF HandleSignup
  <2> HIDE DEF r
  <2> QED
    BY <2>1, <2>2, BeginKeeps
<1>2. ASSUME NEW u \in UserIds, NEW action \in {1, 2}, HandleGradeUpdate(w, u, action)
      PROVE  IInv'
  <2> DEFINE r == [NoRequest EXCEPT !.op = "grade", !.user = u, !.grade = TargetGrade(action)]
  <2>0. TargetGrade(action) \in Grades
    BY DEF TargetGrade, Grades
  <2>1. r \in Requests /\ r.op = "grade" /\ r.user = u /\ ~r.owner
    BY <1>0, <2>0 DEF Requests, NoRequest
  <2>2. Begin(w, r, "begin")
    BY <1>2 DEF HandleGradeUpdate
  <2> HIDE DEF r
  <2> QED
    BY <2>1, <2>2, BeginKeeps
<1>3. ASSUME NEW u \in UserIds, NEW parts \in SUBSET Parts \ {{}}, NEW p \in Phones,
             HandleStoreInfoUpdateReq(w, u, parts, p)
      PROVE  IInv'
  <2> DEFINE own == Exists(u) /\ u \in owners \cap stores
             r == [NoRequest EXCEPT !.op = "store", !.user = u, !.phone = p, !.parts = parts, !.owner = own]
  <2>0. own \in BOOLEAN
    OBVIOUS
  <2>2. Begin(w, r, "save")
    BY <1>3 DEF HandleStoreInfoUpdateReq
  <2> HIDE DEF own
  <2>1. r \in Requests /\ r.op = "store" /\ r.user = u /\ r.phone = p
    BY <1>0, <2>0 DEF Requests, NoRequest
  <2> HIDE DEF r
  <2> QED
    BY <2>1, <2>2, BeginKeeps
<1> QED
  BY <1>1, <1>2, <1>3 DEF Handle

\* Where a worker is not idle, it works for a user.
LEMMA BusyFacts ==
  ASSUME IInv, NEW w \in Workers, pc[w] # "idle"
  PROVE  /\ req[w].user \in UserIds
         /\ req[w].op \in {"signup", "grade", "store"}
         /\ req[w].op # "store" => ~req[w].owner
         /\ TableOK /\ WorkerOK /\ requests \in 0..MaxRequests
         /\ disturbed \subseteq Workers /\ renewed \subseteq UserIds
         /\ Work(w)
<1>1. Work(w)
  BY DEF IInv
<1>2. req[w] \in Requests
  BY DEF IInv, TypeOK
<1> QED
  BY <1>1, <1>2, TypeParts DEF IInv, Work, Requests

\* A step that ends in an answer.
LEMMA AnswerKeeps ==
  ASSUME IInv, NEW w \in Workers, NEW status, NEW clean, Answer(w, status, clean),
         pc[w] # "idle", NEW u \in UserIds, u = req[w].user, Concerns(u), Unshared(w, u),
         u \notin renewed /\ Agrees(u) => Agrees(u)',
         requests' = requests, renewed' = renewed,
         disturbed \subseteq disturbed', disturbed' \subseteq Workers,
         req[w].op = "signup" /\ status = "SUCCESS" => Exists(u)' /\ users'[u].role = req[w].role,
         status = "SUCCESS" /\ req[w].owner => req[w].parts \subseteq written[w],
         req[w].op = "signup" /\ status = "SERVER_ERROR" /\ clean => PhoneTaken(u, req[w].phone)
  PROVE  IInv'
<1>1. /\ Known' /\ AnswersTrue'
      /\ WorkerOK' /\ Others(w) /\ Work(w)' /\ "USERS" \notin pending'[w]
  BY Answered
<1>2. TableOK'
  BY DEF Concerns
<1>3. requests \in 0..MaxRequests /\ renewed \subseteq UserIds
  BY BusyFacts
<1>4. TypeOK'
  BY <1>1, <1>2, <1>3 DEF TypeOK, TableOK, WorkerOK, UserRows, Places, AllTables
<1> QED
  BY <1>1, <1>4, StepKeeps

\* A step that ends in an answer and leaves the tables alone.
LEMMA RefusalKeeps ==
  ASSUME IInv, NEW w \in Workers, NEW status, NEW clean, Answer(w, status, clean),
         pc[w] # "idle", UNCHANGED <<tables, requests, renewed>>,
         disturbed \subseteq disturbed', disturbed' \subseteq Workers,
         req[w].op = "signup" => status # "SUCCESS",
         status = "SUCCESS" /\ req[w].owner => req[w].parts \subseteq written[w],
         req[w].op = "signup" /\ status = "SERVER_ERROR" /\ clean => PhoneTaken(req[w].user, req[w].phone)
  PROVE  IInv'
<1>1. PICK u \in UserIds : u = req[w].user
  BY BusyFacts
<1>2. UNCHANGED tables
  OBVIOUS
<1>3. Concerns(u) /\ (Exists(u)' <=> Exists(u)) /\ (Agrees(u)' <=> Agrees(u))
  BY <1>2, NothingPublished
<1>4. Unshared(w, u)
  BY <1>3 DEF Unshared
<1>5. PhoneTaken(req[w].user, req[w].phone) <=> PhoneTaken(u, req[w].phone)
  BY <1>1, Zenon
<1>6. req[w].op = "signup" /\ status = "SERVER_ERROR" /\ clean => PhoneTaken(u, req[w].phone)
  BY <1>5, Zenon
<1> QED
  BY <1>1, <1>3, <1>4, <1>6, AnswerKeeps

\* A step within a request.
LEMMA InsideKeeps ==
  ASSUME IInv, NEW w \in Workers, pc[w] # "idle", Others(w), WorkerOK',
         NEW u \in UserIds, u = req[w].user, Concerns(u), Unshared(w, u),
         u \notin renewed' /\ Agrees(u) => Agrees(u)',
         Work(w)', req' = req,
         "USERS" \in pending'[w] => "USERS" \in pending[w] \/ ~RowLocked(w, u, "USERS"),
         requests' = requests, answers' = answers,
         renewed \subseteq renewed', renewed' \subseteq UserIds,
         disturbed \subseteq disturbed', disturbed' \subseteq Workers
  PROVE  IInv'
<1>1. Known' /\ AnswersTrue'
  BY AnswersKept
<1>2. TypeOK'
  <2>1. TableOK' /\ requests' \in 0..MaxRequests
    BY BusyFacts DEF Concerns
  <2> QED
    BY <2>1 DEF TypeOK, TableOK, WorkerOK, UserRows, Places, AllTables
<1>3. "USERS" \in pending'[w] =>
        req'[w].user = req[w].user /\ ("USERS" \in pending[w] \/ ~RowLocked(w, req[w].user, "USERS"))
  OBVIOUS
<1> QED
  BY <1>1, <1>2, <1>3, StepKeeps

\* The checks of a signup.
LEMMA CheckKeeps ==
  ASSUME IInv, NEW w \in Workers, CheckId(w) \/ CheckPhone(w)
  PROVE  IInv'
<1>0. pc[w] \in {"checkId", "checkPhone"} /\ UNCHANGED <<tables, requests, disturbed, renewed>>
  BY DEF CheckId, CheckPhone
<1>1. /\ req[w].user \in UserIds /\ Work(w) /\ req[w].op = "signup" /\ ~req[w].owner
      /\ TableOK /\ WorkerOK /\ disturbed \subseteq Workers /\ renewed \subseteq UserIds
  BY <1>0, BusyFacts DEF Work
<1>2. ASSUME NEW status \in {"DUPLICATE_ID", "DUPLICATE_PHONE"}, Answer(w, status, Undisturbed(w))
      PROVE  IInv'
  BY <1>0, <1>1, <1>2, RefusalKeeps
<1>3. ASSUME NEW next \in {"checkPhone", "begin"}, Goto(w, next),
             next = "checkPhone" => ~Exists(req[w].user), next = "begin" => pc[w] = "checkPhone",
             UNCHANGED <<req, mode, pending, written, update, answers>>
      PROVE  IInv'
  <2>1. PICK u \in UserIds : u = req[w].user
    BY <1>1
  <2>2. UNCHANGED tables
    BY <1>0
  <2>3. Concerns(u) /\ (Exists(u)' <=> Exists(u)) /\ (Agrees(u)' <=> Agrees(u))
    BY <2>2, NothingPublished
  <2>4. /\ WorkerOK' /\ Others(w) /\ pc'[w] = next
    BY <1>1, <1>3 DEF Goto, WorkerOK, Others, update, Places
  <2>5. req' = req /\ mode' = mode /\ pending' = pending /\ written' = written /\ tried' = tried
        /\ success' = success /\ users' = users
    BY <1>0, <1>3 DEF update, tables
  <2>6. Work(w)'
    BY <1>0, <1>1, <1>3, <2>4, <2>5 DEF Work, Changing, Exists
  <2>7. pending[w] = {}
    BY <1>0, <1>1 DEF Work
  <2>8. Unshared(w, u)
    BY <2>3 DEF Unshared
  <2> QED
    BY <1>0, <1>1, <1>3, <2>1, <2>3, <2>4, <2>5, <2>6, <2>7, <2>8, InsideKeeps
<1>4. CASE CheckId(w)
  BY <1>2, <1>3, <1>4 DEF CheckId
<1>5. CASE CheckPhone(w)
  BY <1>2, <1>3, <1>5 DEF CheckPhone
<1> QED
  BY <1>4, <1>5

\* The beginning of a transaction, and the loss of its link.
LEMMA SessionKeeps ==
  ASSUME IInv, NEW w \in Workers, StartTransaction(w) \/ LinkRenewed(w)
  PROVE  IInv'
<1>0. /\ pc[w] \in {"begin", "user"} /\ pc[w] # "idle"
      /\ UNCHANGED <<tables, req, pending, written, update, requests, disturbed, answers>>
  BY DEF StartTransaction, LinkRenewed, history
<1>1. /\ req[w].user \in UserIds /\ Work(w) /\ req[w].op \in {"signup", "grade"}
      /\ TableOK /\ WorkerOK /\ disturbed \subseteq Workers /\ renewed \subseteq UserIds
      /\ pending[w] = {}
  BY <1>0, BusyFacts DEF Work
<1>2. PICK u \in UserIds : u = req[w].user
  BY <1>1
<1>3. UNCHANGED tables
  BY <1>0
<1>4. Concerns(u) /\ (Exists(u)' <=> Exists(u)) /\ (Agrees(u)' <=> Agrees(u))
  BY <1>3, NothingPublished
<1>5. Unshared(w, u)
  BY <1>4 DEF Unshared
<1>6. req' = req /\ pending' = pending /\ written' = written /\ tried' = tried
      /\ success' = success /\ users' = users /\ disturbed' = disturbed
  BY <1>0 DEF update, tables
<1>7. CASE StartTransaction(w)
  <2>1. pc[w] = "begin" /\ pc' = [pc EXCEPT ![w] = "user"] /\ mode' = [mode EXCEPT ![w] = "txn"] /\ renewed' = renewed
    BY <1>7 DEF StartTransaction, BeginTransaction, Goto, history
  <2>2. WorkerOK' /\ Others(w) /\ pc'[w] = "user" /\ mode'[w] = "txn"
    BY <1>1, <1>6, <2>1 DEF WorkerOK, Others, Places
  <2>3. Work(w)'
    BY <1>1, <1>6, <2>1, <2>2 DEF Work, Changing, Exists
  <2> QED
    BY <1>0, <1>1, <1>2, <1>4, <1>5, <1>6, <2>1, <2>2, <2>3, InsideKeeps
<1>8. CASE LinkRenewed(w)
  <2>1. pc[w] = "user" /\ pc' = pc /\ mode' = [mode EXCEPT ![w] = "auto"] /\ renewed' = renewed \cup {u}
    BY <1>2, <1>8 DEF LinkRenewed
  <2>2. WorkerOK' /\ Others(w) /\ pc'[w] = "user" /\ mode'[w] = "auto"
    BY <1>1, <1>6, <2>1 DEF WorkerOK, Others
  <2>3. Work(w)'
    BY <1>1, <1>2, <1>6, <2>1, <2>2 DEF Work, Changing, Exists
  <2> QED
    BY <1>0, <1>1, <1>2, <1>4, <1>5, <1>6, <2>1, <2>2, <2>3, InsideKeeps
<1> QED
  BY <1>7, <1>8

\* A statement on a renewed link is published by itself.
LEMMA RenewedPublished ==
  ASSUME IInv, NEW w \in Workers, pc[w] \in Changing, NEW t \in AllTables, Publish(w, {t}),
         NEW u \in UserIds, u = req[w].user, t = "USERS" /\ req[w].op = "signup" => ~Exists(u)
  PROVE  /\ Concerns(u)
         /\ Exists(u)' <=> Exists(u) \/ (req[w].op = "signup" /\ t = "USERS")
         /\ req[w].op = "signup" /\ t = "USERS" => users'[u].role = req[w].role
<1>0. pc[w] # "idle" /\ Work(w) /\ req[w].op \in {"signup", "grade"}
  BY BusyFacts DEF Changing, Work
<1>1. {t} \in SUBSET AllTables
  OBVIOUS
<1>2. users'[u] = IF "USERS" \in {t} /\ (req[w].op = "signup" \/ Exists(u)) THEN UserRow(w) ELSE users[u]
  BY <1>0, <1>1, Published
<1>3. Exists(u) => users'[u].role = users[u].role
  BY <1>0, <1>2, RowFacts
<1>4. Concerns(u) /\ (Exists(u)' <=> Exists(u) \/ (req[w].op = "signup" /\ "USERS" \in {t}))
  BY <1>0, <1>1, <1>3, PublishedOthers
<1>5. req[w].op = "signup" /\ t = "USERS" => users'[u].role = req[w].role
  BY <1>0, <1>2, RowFacts
<1> QED
  BY <1>4, <1>5

\* The statement on USERS.
LEMMA WriteUserKeeps ==
  ASSUME IInv, NEW w \in Workers, WriteUser(w)
  PROVE  IInv'
<1>0. /\ pc[w] = "user" /\ ~RowLocked(w, req[w].user, "USERS") /\ Write(w, "USERS") /\ Goto(w, "role")
      /\ req[w].op = "signup" => ~Exists(req[w].user)
      /\ UNCHANGED <<req, mode, written, update, requests, history>>
  BY DEF WriteUser, DuplicateKey
<1>1. /\ req[w].user \in UserIds /\ Work(w) /\ req[w].op \in {"signup", "grade"}
      /\ TableOK /\ WorkerOK /\ disturbed \subseteq Workers /\ renewed \subseteq UserIds
      /\ pending[w] = {} /\ written[w] = {} /\ mode[w] \in {"auto", "txn"}
  BY <1>0, BusyFacts DEF Work, WorkerOK
<1>2. PICK u \in UserIds : u = req[w].user
  BY <1>1
<1>3. /\ req' = req /\ mode' = mode /\ written' = written /\ tried' = tried /\ success' = success
      /\ requests' = requests /\ disturbed' = disturbed /\ renewed' = renewed /\ answers' = answers
      /\ pc' = [pc EXCEPT ![w] = "role"]
  BY <1>0 DEF update, history, Goto
<1>4. CASE mode[w] = "auto"
  <2>1. Publish(w, {"USERS"}) /\ pending' = pending
    BY <1>0, <1>4 DEF Write
  <2>2. "USERS" \in AllTables /\ pc[w] \in Changing
    BY <1>0 DEF AllTables, Parts, Changing
  <2>3. /\ Concerns(u) /\ (Exists(u)' <=> Exists(u) \/ req[w].op = "signup")
        /\ req[w].op = "signup" => users'[u].role = req[w].role
    BY <1>0, <1>2, <2>1, <2>2, RenewedPublished
  <2>4. WorkerOK' /\ Others(w) /\ pc'[w] = "role"
    BY <1>1, <1>3, <2>1 DEF WorkerOK, Others, Places
  <2>5. u \in renewed
    BY <1>0, <1>1, <1>2, <1>4 DEF Work, Changing
  <2>6. req[w].op = "signup" => users'[req[w].user] # Absent /\ users'[req[w].user].role = req[w].role
    BY <1>2, <2>3 DEF Exists
  <2>7. Work(w)'
    BY <1>0, <1>1, <1>3, <1>4, <2>1, <2>4, <2>5, <2>6 DEF Work, Changing, Exists
  <2>8. Unshared(w, u)
    BY <1>0, <1>2 DEF Unshared, RowLocked
  <2> QED
    BY <1>0, <1>1, <1>2, <1>3, <2>1, <2>3, <2>4, <2>5, <2>7, <2>8, InsideKeeps
<1>5. CASE mode[w] = "txn"
  <2>1. pending' = [pending EXCEPT ![w] = @ \cup {"USERS"}] /\ UNCHANGED tables
    BY <1>0, <1>5 DEF Write
  <2>2. users' = users
    BY <2>1 DEF tables
  <2>3. Concerns(u) /\ (Exists(u)' <=> Exists(u)) /\ (Agrees(u)' <=> Agrees(u))
    BY <2>1, NothingPublished
  <2>4. WorkerOK' /\ Others(w) /\ pc'[w] = "role" /\ pending'[w] = {"USERS"}
    BY <1>1, <1>3, <2>1 DEF WorkerOK, Others, Places, AllTables, Parts
  <2>5. Work(w)'
    BY <1>0, <1>1, <1>3, <1>5, <2>2, <2>4 DEF Work, Changing, Exists
  <2>6. Unshared(w, u)
    BY <2>3 DEF Unshared
  <2> QED
    BY <1>0, <1>1, <1>2, <1>3, <2>3, <2>4, <2>5, <2>6, InsideKeeps
<1> QED
  BY <1>1, <1>4, <1>5

\* An INSERT refused by a unique key.
LEMMA InsertRefusedKeeps ==
  ASSUME IInv, NEW w \in Workers, InsertRefused(w)
  PROVE  IInv'
<1>0. /\ pc[w] = "user" /\ req[w].op = "signup" /\ DuplicateKey(w)
      /\ Answer(w, "SERVER_ERROR", Undisturbed(w)) /\ UNCHANGED <<tables, requests, disturbed, renewed>>
  BY DEF InsertRefused
<1>1. /\ Work(w) /\ ~req[w].owner /\ disturbed \subseteq Workers
  BY <1>0, BusyFacts
<1>2. Undisturbed(w) => ~Exists(req[w].user)
  BY <1>0, <1>1 DEF Work, Undisturbed
<1>3. Undisturbed(w) => PhoneTaken(req[w].user, req[w].phone)
  BY <1>0, <1>2, Zenon DEF DuplicateKey
<1> QED
  BY <1>0, <1>1, <1>3, RefusalKeeps

\* A statement on a table of the role.
LEMMA WriteRoleKeeps ==
  ASSUME IInv, NEW w \in Workers, NEW t \in RowsToWrite(w), WriteRole(w, t)
  PROVE  IInv'
<1>0. /\ pc[w] = "role" /\ Write(w, t) /\ written' = [written EXCEPT ![w] = @ \cup {t}]
      /\ UNCHANGED <<pc, req, mode, update, requests, history>>
  BY DEF WriteRole
<1>1. /\ req[w].user \in UserIds /\ Work(w) /\ req[w].op \in {"signup", "grade"}
      /\ TableOK /\ WorkerOK /\ disturbed \subseteq Workers /\ renewed \subseteq UserIds
      /\ mode[w] \in {"auto", "txn"} /\ req[w].role \in Roles
  BY <1>0, BusyFacts, RowFacts DEF Work, WorkerOK
<1>2. PICK u \in UserIds : u = req[w].user
  BY <1>1
<1>3. t \in {"CUSTOMERS", "OWNERS", "STORES"}
  <2>1. CASE req[w].role = "customer"
    BY <2>1 DEF RowsToWrite, RoleTables
  <2>2. CASE req[w].role = "owner"
    BY <2>2 DEF RowsToWrite, RoleTables
  <2>3. CASE req[w].role = "rider"
    BY <2>3 DEF RowsToWrite, RoleTables
  <2> QED
    BY <1>1, <2>1, <2>2, <2>3 DEF Roles
<1>4. /\ req' = req /\ mode' = mode /\ pc' = pc /\ tried' = tried /\ success' = success
      /\ requests' = requests /\ disturbed' = disturbed /\ renewed' = renewed /\ answers' = answers
  BY <1>0 DEF update, history
<1>5. written'[w] = written[w] \cup {t} /\ t \in AllTables
  BY <1>0, <1>1, <1>3 DEF WorkerOK, AllTables, Parts
<1>6. CASE mode[w] = "auto"
  <2>1. Publish(w, {t}) /\ pending' = pending
    BY <1>0, <1>6 DEF Write
  <2>3. Concerns(u) /\ (Exists(u)' <=> Exists(u))
    BY <1>0, <1>2, <1>3, <1>5, <2>1, RenewedPublished DEF Changing
  <2>4. WorkerOK' /\ Others(w)
    BY <1>0, <1>1, <1>4, <1>5, <2>1 DEF WorkerOK, Others
  <2>5. u \in renewed
    BY <1>0, <1>1, <1>2, <1>6 DEF Work, Changing
  <2>6. req[w].op = "signup" => users'[req[w].user] # Absent /\ users'[req[w].user].role = req[w].role
    <3>1. req[w].op = "signup" => Exists(u) /\ users[u].role = req[w].role
      BY <1>0, <1>1, <1>2, <1>6 DEF Work
    <3> QED
      BY <1>2, <2>3, <3>1 DEF Concerns, Exists
  <2>7. Work(w)'
    BY <1>0, <1>1, <1>4, <1>5, <1>6, <2>1, <2>5, <2>6 DEF Work, Changing, Exists, RowsToWrite
  <2>8. Unshared(w, u)
    BY <2>3 DEF Unshared
  <2> QED
    BY <1>0, <1>1, <1>2, <1>4, <2>1, <2>3, <2>4, <2>5, <2>7, <2>8, InsideKeeps
<1>7. CASE mode[w] = "txn"
  <2>1. pending' = [pending EXCEPT ![w] = @ \cup {t}] /\ UNCHANGED tables
    BY <1>0, <1>7 DEF Write
  <2>2. users' = users
    BY <2>1 DEF tables
  <2>3. Concerns(u) /\ (Exists(u)' <=> Exists(u)) /\ (Agrees(u)' <=> Agrees(u))
    BY <2>1, NothingPublished
  <2>4. WorkerOK' /\ Others(w) /\ pending'[w] = pending[w] \cup {t}
    BY <1>0, <1>1, <1>4, <1>5, <2>1 DEF WorkerOK, Others
  <2>5. Work(w)'
    BY <1>0, <1>1, <1>4, <1>5, <1>7, <2>2, <2>4 DEF Work, Changing, Exists, RowsToWrite
  <2>6. Unshared(w, u)
    BY <2>3 DEF Unshared
  <2>7. "USERS" \in pending'[w] => "USERS" \in pending[w]
    BY <1>3, <2>4
  <2> QED
    BY <1>0, <1>1, <1>2, <1>4, <2>3, <2>4, <2>5, <2>6, <2>7, InsideKeeps
<1> QED
  BY <1>1, <1>6, <1>7

\* A commit, whose answer may be lost.
LEMMA CommitKeeps ==
  ASSUME IInv, NEW w \in Workers, NEW status \in {"SUCCESS", "SERVER_ERROR"}, NEW clean,
         ReadyToCommit(w), Publish(w, pending[w]), Answer(w, status, clean),
         status = "SERVER_ERROR" => ~clean,
         requests' = requests, renewed' = renewed,
         disturbed \subseteq disturbed', disturbed' \subseteq Workers
  PROVE  IInv'
<1>0. pc[w] = "role" /\ pc[w] # "idle"
  BY DEF ReadyToCommit
<1>1. /\ req[w].user \in UserIds /\ Work(w) /\ req[w].op \in {"signup", "grade"} /\ ~req[w].owner
      /\ mode[w] \in {"auto", "txn"}
  BY <1>0, BusyFacts DEF Work, WorkerOK
<1>2. PICK u \in UserIds : u = req[w].user
  BY <1>1
<1>3. CASE mode[w] = "auto"
  <2>1. pending[w] = {}
    BY <1>0, <1>1, <1>3 DEF Work
  <2>2. UNCHANGED tables
    BY <2>1 DEF Publish, tables
  <2>3. Concerns(u) /\ (Exists(u)' <=> Exists(u)) /\ (Agrees(u)' <=> Agrees(u))
    BY <2>2, NothingPublished
  <2>4. req[w].op = "signup" => Exists(u) /\ users[u].role = req[w].role
    BY <1>0, <1>1, <1>2, <1>3 DEF Work
  <2>5. req[w].op = "signup" => Exists(u)' /\ users'[u].role = req[w].role
    BY <2>2, <2>3, <2>4 DEF tables
  <2>6. Unshared(w, u)
    BY <2>3 DEF Unshared
  <2> QED
    BY <1>0, <1>1, <1>2, <2>3, <2>5, <2>6, AnswerKeeps
<1>4. CASE mode[w] = "txn"
  <2>1. /\ Concerns(u)
        /\ req[w].op = "signup" => Exists(u)' /\ users'[u].role = req[w].role
        /\ req[w].op = "grade" => (Exists(u)' <=> Exists(u))
        /\ Agrees(u) => Agrees(u)'
    BY <1>2, <1>4, CommitPublished
  <2>2. "USERS" \in pending[w]
    BY <1>0, <1>1, <1>4 DEF Work
  <2>3. Unshared(w, u)
    BY <1>2, <2>2 DEF Unshared, IInv, Exclusive
  <2> QED
    BY <1>0, <1>1, <1>2, <2>1, <2>3, AnswerKeeps
<1> QED
  BY <1>1, <1>3, <1>4

\* What the store update writes next is one of its tables.
LEMMA PartOK ==
  ASSUME NEW w \in Workers
  PROVE  Part(w) \in Parts
BY DEF Part, Parts

\* A table of the store update, saved; the flag says so or not.
LEMMA SaveKeeps ==
  ASSUME IInv, NEW w \in Workers, NEW flag \in BOOLEAN, Save(w),
         success' = [success EXCEPT ![w] = flag],
         disturbed \subseteq disturbed', disturbed' \subseteq Workers
  PROVE  IInv'
<1> DEFINE t == Part(w)
<1>0. /\ pc[w] = "save" /\ MayTry(w) /\ tried' = [tried EXCEPT ![w] = @ \cup {t}]
      /\ Publish(w, {t}) /\ written' = [written EXCEPT ![w] = @ \cup {t}]
      /\ UNCHANGED <<pc, req, mode, pending, requests, renewed, answers>>
  BY DEF Save, Trying
<1>1. /\ req[w].user \in UserIds /\ Work(w) /\ req[w].op = "store" /\ WorkerOK
      /\ renewed \subseteq UserIds /\ pending[w] = {}
  BY <1>0, BusyFacts DEF Work
<1>2. PICK u \in UserIds : u = req[w].user
  BY <1>1
<1>3. t \in Parts /\ t \in AllTables
  BY PartOK DEF AllTables
<1> HIDE DEF t
<1>4. Concerns(u) /\ (Exists(u)' <=> Exists(u)) /\ (Agrees(u) => Agrees(u)')
  BY <1>0, <1>1, <1>2, <1>3, StorePublished
<1>5. WorkerOK'
  BY <1>0, <1>1, <1>3 DEF WorkerOK
<1>6. Others(w) /\ tried'[w] = tried[w] \cup {t} /\ written'[w] = written[w] \cup {t}
  BY <1>0, <1>1, <1>3 DEF WorkerOK, Others
<1>7. tried[w] \subseteq written[w]
  BY <1>0, <1>1 DEF Work, MayTry
<1>8. Work(w)'
  BY <1>0, <1>1, <1>6, <1>7 DEF Work, Changing
<1>9. Unshared(w, u)
  BY <1>4 DEF Unshared
<1> QED
  BY <1>0, <1>1, <1>2, <1>4, <1>5, <1>6, <1>8, <1>9, InsideKeeps

\* A table of the store update that is not saved.
LEMMA NotSavedKeeps ==
  ASSUME IInv, NEW w \in Workers, Trying(w), success' = [success EXCEPT ![w] = FALSE],
         UNCHANGED <<tables, pc, req, mode, pending, written, requests, renewed, answers>>,
         disturbed \subseteq disturbed', disturbed' \subseteq Workers
  PROVE  IInv'
<1>0. pc[w] = "save" /\ tried' = [tried EXCEPT ![w] = @ \cup {Part(w)}] /\ Part(w) \in Parts
  BY PartOK DEF Trying
<1>1. /\ req[w].user \in UserIds /\ Work(w) /\ req[w].op = "store" /\ WorkerOK
      /\ renewed \subseteq UserIds /\ pending[w] = {}
  BY <1>0, BusyFacts DEF Work
<1>2. PICK u \in UserIds : u = req[w].user
  BY <1>1
<1>3. UNCHANGED tables
  OBVIOUS
<1>4. Concerns(u) /\ (Exists(u)' <=> Exists(u)) /\ (Agrees(u)' <=> Agrees(u))
  BY <1>3, NothingPublished
<1>5. WorkerOK'
  BY <1>0, <1>1 DEF WorkerOK
<1>6. Others(w) /\ success'[w] = FALSE
  BY <1>0, <1>1 DEF WorkerOK, Others
<1>7. Work(w)'
  BY <1>0, <1>1, <1>6 DEF Work, Changing
<1>8. Unshared(w, u)
  BY <1>4 DEF Unshared
<1> QED
  BY <1>0, <1>1, <1>2, <1>4, <1>5, <1>6, <1>7, <1>8, InsideKeeps

\* The answer to a store update.
LEMMA AnswerUpdateKeeps ==
  ASSUME IInv, NEW w \in Workers, AnswerUpdate(w)
  PROVE  IInv'
<1> DEFINE status == IF success[w] THEN "SUCCESS" ELSE "SERVER_ERROR"
<1>0. /\ pc[w] = "save" /\ ~MayTry(w) /\ Answer(w, status, Undisturbed(w))
      /\ UNCHANGED <<tables, requests, disturbed, renewed>>
  BY DEF AnswerUpdate
<1>1. Work(w) /\ req[w].op = "store" /\ disturbed \subseteq Workers
  BY <1>0, BusyFacts DEF Work
<1>2. status = "SUCCESS" => req[w].parts \subseteq written[w]
  BY <1>0, <1>1 DEF MayTry, Work
<1> HIDE DEF status
<1> QED
  BY <1>0, <1>1, <1>2, RefusalKeeps

\* A statement that throws.
LEMMA StatementFailsKeeps ==
  ASSUME IInv, NEW w \in Workers, StatementFails(w)
  PROVE  IInv'
<1>0. disturbed' = disturbed \cup {w} /\ UNCHANGED <<tables, requests, renewed>>
  BY DEF StatementFails
<1>1. disturbed \subseteq disturbed' /\ disturbed' \subseteq Workers
  BY <1>0, TypeParts DEF IInv
<1>2. CASE pc[w] \in {"checkId", "checkPhone", "begin", "user", "role"} /\ Answer(w, "SERVER_ERROR", FALSE)
  BY <1>0, <1>1, <1>2, RefusalKeeps
<1>3. CASE /\ Trying(w)
           /\ success' = [success EXCEPT ![w] = FALSE]
           /\ UNCHANGED <<pc, req, mode, pending, written, answers>>
  BY <1>0, <1>1, <1>3, NotSavedKeeps
<1> QED
  BY <1>2, <1>3 DEF StatementFails

\* A statement whose outcome the server does not learn.
LEMMA OutcomeLostKeeps ==
  ASSUME IInv, NEW w \in Workers, OutcomeLost(w)
  PROVE  IInv'
<1>1. disturbed \subseteq disturbed' /\ disturbed' \subseteq Workers
  BY TypeParts DEF OutcomeLost, IInv
<1>2. CASE ReadyToCommit(w) /\ Publish(w, pending[w]) /\ Answer(w, "SERVER_ERROR", FALSE) /\ UNCHANGED <<requests, renewed>>
  BY <1>1, <1>2, CommitKeeps
<1>3. CASE Save(w) /\ success' = [success EXCEPT ![w] = FALSE]
  BY <1>1, <1>3, SaveKeeps
<1> QED
  BY <1>2, <1>3 DEF OutcomeLost

\* The statements of the handlers.
LEMMA StepOfWorker ==
  ASSUME IInv, NEW w \in Workers, Step(w)
  PROVE  IInv'
<1>0. disturbed \subseteq Workers
  BY TypeParts DEF IInv
<1>1. CASE CheckId(w) \/ CheckPhone(w)
  BY <1>1, CheckKeeps
<1>2. CASE StartTransaction(w)
  BY <1>2, SessionKeeps
<1>3. CASE WriteUser(w)
  BY <1>3, WriteUserKeeps
<1>4. CASE InsertRefused(w)
  BY <1>4, InsertRefusedKeeps
<1>5. CASE \E t \in RowsToWrite(w) : WriteRole(w, t)
  BY <1>5, WriteRoleKeeps
<1>6. CASE Commit(w)
  <2>1. /\ ReadyToCommit(w) /\ Publish(w, pending[w]) /\ Answer(w, "SUCCESS", Undisturbed(w))
        /\ requests' = requests /\ renewed' = renewed /\ disturbed' = disturbed
    BY <1>6 DEF Commit
  <2> QED
    BY <1>0, <2>1, CommitKeeps
<1>7. CASE SavePart(w)
  BY <1>0, <1>7, SaveKeeps DEF SavePart
<1>8. CASE SaveRefused(w)
  BY <1>0, <1>8, NotSavedKeeps DEF SaveRefused, history
<1>9. CASE AnswerUpdate(w)
  BY <1>9, AnswerUpdateKeeps
<1> QED
  BY <1>1, <1>2, <1>3, <1>4, <1>5, <1>6, <1>7, <1>8, <1>9 DEF Step

\* The server starts with whole accounts and idle workers.
LEMMA Initially ==
  Init => IInv
<1> SUFFICES ASSUME Init PROVE IInv
  OBVIOUS
<1>1. users \in [UserIds -> {Absent} \cup [phone : Phones, role : Roles, grade : {"normal"}]]
  BY DEF Init
<1>2. Absent \in UserRows /\ Absent.phone = NoPhone /\ Absent.grade = "normal"
  BY DEF Absent, UserRows, Roles, Grades
<1>3. \A u \in UserIds : /\ users[u] \in UserRows /\ users[u].grade = "normal"
                         /\ Exists(u) => users[u].phone \in Phones
  BY <1>1, <1>2 DEF UserRows, Grades, Exists
<1>4. TableOK
  <2>1. users \in [UserIds -> UserRows]
    BY <1>1, <1>3
  <2>2. customers \in [UserIds -> Grades \cup {"none"}]
    BY <1>3 DEF Init, UserRows
  <2> QED
    BY <2>1, <2>2 DEF TableOK, Init
<1>5. WorkerOK
  <2>1. NoRequest \in Requests
    BY DEF NoRequest, Requests, Roles, Grades
  <2> QED
    BY <2>1 DEF Init, WorkerOK, Places
<1>6. TypeOK
  BY <1>4, <1>5, TypeParts, AccountsAssumption DEF Init
<1>7. Numbers
  BY <1>3 DEF Numbers
<1>8. \A w \in Workers : Work(w)
  BY DEF Init, Work, Changing, NoRequest
<1>9. Exclusive /\ Alone /\ Known /\ AnswersTrue
  BY DEF Init, Exclusive, Alone, Known, AnswersTrue
<1>10. TablesAgree
  <2> SUFFICES ASSUME NEW u \in UserIds
               PROVE  Agrees(u)
    BY TablesAgreeMeans
  <2>1. customers[u] = IF Exists(u) /\ users[u].role = "customer" THEN users[u].grade ELSE "none"
    BY DEF Init
  <2>2. (u \in owners <=> Exists(u) /\ users[u].role = "owner") /\ (u \in stores <=> u \in owners)
    BY DEF Init
  <2> QED
    BY <1>3, <1>4, <2>1, <2>2, AgreesMeans
<1> QED
  BY <1>6, <1>7, <1>8, <1>9, <1>10 DEF IInv

\* A step that changes nothing.
LEMMA Stuttering ==
  ASSUME IInv, UNCHANGED vars
  PROVE  IInv'
<1>1. /\ users' = users /\ customers' = customers /\ owners' = owners /\ stores' = stores
      /\ pc' = pc /\ req' = req /\ mode' = mode /\ pending' = pending /\ written' = written
      /\ tried' = tried /\ success' = success /\ requests' = requests
      /\ disturbed' = disturbed /\ renewed' = renewed /\ answers' = answers
  BY DEF vars, tables, update, history
<1>2. TypeOK' /\ Numbers' /\ Exclusive' /\ Alone' /\ Known'
  BY <1>1 DEF IInv, TypeOK, Numbers, Exclusive, Alone, Known, Exists
<1>3. ASSUME NEW w \in Workers
      PROVE  Work(w)'
  <2>1. Work(w)
    BY DEF IInv
  <2> QED
    BY <1>1, <2>1 DEF Work, Exists, RowsToWrite
<1>4. TablesAgree'
  BY <1>1 DEF IInv, TablesAgree, Whole, HasRow, Exists
<1>5. AnswersTrue'
  BY <1>1, Zenon DEF IInv, AnswersTrue, Exists
<1> QED
  BY <1>2, <1>3, <1>4, <1>5 DEF IInv

-----------------------------------------------------------------------------
(* Theorems.                                                               *)

\* The inductive invariant holds in every behaviour of the account handlers,
\* on any number of workers and with statements and links failing anywhere.
THEOREM Invariance == Spec => []IInv
<1>1. Init => IInv
  BY Initially
<1>2. IInv /\ [Next]_vars => IInv'
  <2> SUFFICES ASSUME IInv, [Next]_vars
               PROVE  IInv'
    OBVIOUS
  <2>1. CASE UNCHANGED vars
    BY <2>1, Stuttering
  <2>2. CASE Next
    <3>1. PICK w \in Workers : Handle(w) \/ Step(w) \/ LinkRenewed(w) \/ StatementFails(w) \/ OutcomeLost(w)
      BY <2>2 DEF Next
    <3> QED
      BY <3>1, HandleKeeps, StepOfWorker, SessionKeeps, StatementFailsKeeps, OutcomeLostKeeps
  <2> QED
    BY <2>1, <2>2
<1> QED
  BY <1>1, <1>2, PTL DEF Spec

\* The tables and the workers keep their types: in particular no grade but
\* those of the membership is ever stored.
THEOREM TypeCorrect == Spec => []TypeOK
<1>1. IInv => TypeOK
  BY DEF IInv
<1> QED
  BY <1>1, Invariance, PTL

\* UserDAO::insertUser and handleGradeUpdate leave every account whole and its
\* grade the same in USERS and CUSTOMERS, whatever runs beside them and
\* wherever they fail, unless the account was changed on a renewed link.
THEOREM AccountsAgree == Spec => []TablesAgree
<1>1. IInv => TablesAgree
  BY DEF IInv
<1> QED
  BY <1>1, Invariance, PTL

\* What the handlers answer is so: a signup answered with success has made the
\* account, a store update has saved what the owner sent, and an undisturbed
\* signup fails only on a number of another role.
THEOREM AnswersAreTrue == Spec => []AnswersTrue
<1>1. IInv => AnswersTrue
  BY DEF IInv
<1> QED
  BY <1>1, Invariance, PTL

\* A transaction writes USERS first, and the row of a user is held by one
\* transaction at a time: whatever it goes on to write is free, so that nobody
\* who is waited for waits.
THEOREM NoDeadlock == Spec => []HoldersNeverWait
<1>1. IInv => HoldersNeverWait
  <2> SUFFICES ASSUME IInv, NEW w \in Workers, pending[w] # {}
               PROVE  pc[w] # "idle" /\ ~Waits(w)
    BY DEF HoldersNeverWait
  <2>1. \A v \in Workers : /\ pc[v] # "role" => pending[v] = {}
                           /\ pc[v] = "role" =>
                                pending[v] = IF mode[v] = "txn" THEN written[v] \cup {"USERS"} ELSE {}
    BY DEF IInv, Work
  <2>2. \A v \in Workers : pending[v] # {} => "USERS" \in pending[v] /\ pc[v] = "role"
    BY <2>1
  <2>3. \A v \in Workers : pending[v] # {} /\ req[v].user = req[w].user => v = w
    BY <2>2 DEF IInv, Exclusive
  <2>4. \A t : ~RowLocked(w, req[w].user, t)
    BY <2>3 DEF RowLocked
  <2> QED
    BY <2>2, <2>4 DEF Waits
<1> QED
  BY <1>1, Invariance, PTL

-----------------------------------------------------------------------------
(* What no step does to an account.                                        *)

Kept(u) == Exists(u) => Exists(u)' /\ users'[u].role = users[u].role

\* A published row of USERS is a new account or the same one with another grade
\* or phone number.
LEMMA PublishKeeps ==
  ASSUME IInv, NEW w \in Workers, pc[w] # "idle", NEW ts \in SUBSET AllTables, Publish(w, ts),
         req[w].op = "signup" /\ "USERS" \in ts => ~Exists(req[w].user),
         NEW u \in UserIds
  PROVE  Kept(u)
<1> DEFINE me == req[w].user
<1>1. /\ TableOK
      /\ me \in UserIds
      /\ req[w].op \in {"none", "signup", "grade", "store"}
      /\ req[w].op # "none"
      /\ req[w].op = "store" => req[w].phone \in Phones
      /\ req[w].grade \in Grades
      /\ Numbers
  BY TypeParts DEF IInv, Work, WorkerOK, Requests
<1>2. "USERS" \notin {t \in ts : Affects(w, t)} \/ u # me => users'[u] = users[u]
  BY <1>1 DEF Publish, TableOK
<1>3. CASE u = me /\ "USERS" \in {t \in ts : Affects(w, t)} /\ Exists(u)
  <2>1. req[w].op \in {"grade", "store"}
    BY <1>1, <1>3
  <2>2. users' = [users EXCEPT ![me] = UserRow(w)]
    BY <1>3 DEF Publish
  <2>3. users'[u] = UserRow(w)
    BY <1>1, <1>3, <2>2 DEF TableOK
  <2>4. users[u] \in UserRows /\ users[u].phone \in Phones
    BY <1>1, <1>3 DEF TableOK, Numbers
  <2>5. UserRow(w).role = users[u].role /\ UserRow(w).phone \in Phones
    <3>1. CASE req[w].op = "grade"
      BY <1>3, <2>4, <3>1 DEF UserRow, UserRows
    <3>2. CASE req[w].op = "store"
      BY <1>1, <1>3, <2>4, <3>2 DEF UserRow, UserRows
    <3> QED
      BY <2>1, <3>1, <3>2
  <2> QED
    BY <2>3, <2>5, AccountsAssumption DEF Kept, Exists, Absent
<1> QED
  BY <1>2, <1>3 DEF Kept, Exists

LEMMA StepKeepsAccounts ==
  ASSUME IInv, [Next]_vars, NEW u \in UserIds
  PROVE  Kept(u)
<1>0. UNCHANGED users => Kept(u)
  BY DEF Kept, Exists
<1>1. CASE UNCHANGED vars
  BY <1>0, <1>1 DEF vars, tables
<1>2. ASSUME NEW w \in Workers, Handle(w) PROVE Kept(u)
  BY <1>0, <1>2 DEF Handle, HandleSignup, HandleGradeUpdate, HandleStoreInfoUpdateReq, Begin, tables
<1>3. ASSUME NEW w \in Workers, WriteUser(w) PROVE Kept(u)
  <2>1. pc[w] = "user" /\ (req[w].op = "signup" => ~DuplicateKey(w)) /\ Write(w, "USERS")
    BY <1>3 DEF WriteUser
  <2>2. CASE mode[w] = "auto"
    BY <2>1, <2>2, PublishKeeps DEF Write, AllTables, Parts, DuplicateKey
  <2>3. CASE mode[w] # "auto"
    BY <1>0, <2>1, <2>3 DEF Write, tables
  <2> QED
    BY <2>2, <2>3
<1>4. ASSUME NEW w \in Workers, NEW t \in RowsToWrite(w), WriteRole(w, t) PROVE Kept(u)
  <2>1. t \in {"CUSTOMERS", "OWNERS", "STORES"}
    <3>1. req[w].role \in Roles
      BY TypeParts DEF IInv, WorkerOK, Requests
    <3>2. \A role \in Roles : RoleTables(role) \subseteq {"CUSTOMERS", "OWNERS", "STORES"}
      BY DEF Roles, RoleTables
    <3> QED
      BY <1>4, <3>1, <3>2 DEF RowsToWrite
  <2>2. UNCHANGED users
    BY <1>4, <2>1 DEF WriteRole, Write, Publish, tables
  <2> QED
    BY <1>0, <2>2
<1>5. ASSUME NEW w \in Workers, ReadyToCommit(w), Publish(w, pending[w]) PROVE Kept(u)
  <2>1. pc[w] = "role" /\ pending[w] \in SUBSET AllTables
    BY <1>5, TypeParts DEF ReadyToCommit, IInv, WorkerOK
  <2>2. req[w].op = "signup" /\ "USERS" \in pending[w] => ~Exists(req[w].user)
    BY <2>1 DEF IInv, Work
  <2> QED
    BY <1>5, <2>1, <2>2, PublishKeeps
<1>6. ASSUME NEW w \in Workers, Save(w) PROVE Kept(u)
  <2>1. pc[w] = "save" /\ Publish(w, {Part(w)}) /\ Part(w) \in AllTables
    BY <1>6 DEF Save, Trying, Part, AllTables, Parts
  <2>2. req[w].op = "store"
    BY <2>1 DEF IInv, Work
  <2> QED
    BY <2>1, <2>2, PublishKeeps
<1>7. ASSUME NEW w \in Workers, Step(w) PROVE Kept(u)
  <2>1. CASE CheckId(w) \/ CheckPhone(w) \/ StartTransaction(w) \/ InsertRefused(w)
             \/ SaveRefused(w) \/ AnswerUpdate(w)
    BY <1>0, <2>1 DEF CheckId, CheckPhone, StartTransaction, InsertRefused, SaveRefused,
                      AnswerUpdate, tables
  <2>2. CASE Commit(w)
    BY <1>5, <2>2 DEF Commit
  <2>3. CASE SavePart(w)
    BY <1>6, <2>3 DEF SavePart
  <2> QED
    BY <1>3, <1>4, <1>7, <2>1, <2>2, <2>3 DEF Step
<1>8. ASSUME NEW w \in Workers, LinkRenewed(w) \/ StatementFails(w) PROVE Kept(u)
  BY <1>0, <1>8 DEF LinkRenewed, StatementFails, tables
<1>9. ASSUME NEW w \in Workers, OutcomeLost(w) PROVE Kept(u)
  BY <1>5, <1>6, <1>9 DEF OutcomeLost
<1> QED
  BY <1>1, <1>2, <1>7, <1>8, <1>9 DEF Next

\* Whatever step is taken, every account that exists is kept.
AccountsLast == [][\A u \in UserIds : Kept(u)]_vars

\* An account never disappears and never changes its role: no signup, however it
\* races or on whatever link it runs, overwrites the row of another one, and
\* neither a grade change nor a store update of a user does.
THEOREM AccountsAreKept == Spec => AccountsLast
<1>1. IInv /\ [Next]_vars => [\A u \in UserIds : Kept(u)]_vars
  BY StepKeepsAccounts
<1> QED
  BY <1>1, Invariance, PTL DEF Spec, AccountsLast

=============================================================================
