------------------------------ MODULE Accounts ------------------------------
(***************************************************************************)
(* Accounts in USERS, CUSTOMERS, OWNERS and STORES, as the workers change  *)
(* them statement by statement: UserDAO::insertUser (signup),              *)
(* UserHandler::handleGradeUpdate (membership) and                         *)
(* StoreHandler::handleStoreInfoUpdateReq, whose updates of STORES, USERS  *)
(* and OWNERS commit one by one.                                           *)
(*                                                                         *)
(* A transaction publishes its rows at the commit; until then other        *)
(* writers of the same rows, and of the same unique phone number, wait.    *)
(* Reads see what is committed.                                            *)
(*                                                                         *)
(* The connections are opened with OPT_RECONNECT: a link that is lost      *)
(* before a transaction has executed a statement is renewed silently, and  *)
(* the new session commits every statement (mode "auto").                  *)
(***************************************************************************)
EXTENDS Naturals

CONSTANTS UserIds, Phones, Workers,
          NoPhone,
          MaxRequests   \* bound: requests handled in a behaviour

ASSUME AccountsAssumption == NoPhone \notin Phones /\ MaxRequests \in Nat

VARIABLES
  users,      \* USERS: phone_number, role and grade by user_id
  customers,  \* CUSTOMERS: customer_grade by user_id
  owners,     \* user_ids in OWNERS
  stores,     \* owner_ids in STORES
  pc,         \* the statement a worker executes next
  req,        \* its request
  mode,       \* its database session: "auto" or "txn"
  pending,    \* tables its open transaction has written
  written,    \* the tables its request has written
  tried,      \* store update: the tables it is through with
  success,    \* store update: the flag of the same name
  requests,   \* requests begun
  disturbed,  \* history: workers whose request failed or met another one
  renewed,    \* history: users changed by a transaction on a renewed link
  answers     \* history: what clients were answered

tables == <<users, customers, owners, stores>>
update == <<tried, success>>
history == <<disturbed, renewed, answers>>
vars == <<tables, pc, req, mode, pending, written, update, requests, history>>

Roles == {"customer", "owner", "rider"}
Grades == {"normal", "wow"}
Parts == {"STORES", "USERS", "OWNERS"}

Absent == [phone |-> NoPhone, role |-> "rider", grade |-> "normal"]
NoRequest == [op |-> "none", user |-> NoPhone, phone |-> NoPhone, role |-> "rider",
              grade |-> "normal", parts |-> {}, owner |-> FALSE]

\* The tables that hold the accounts of a role, besides USERS.
RoleTables(role) == CASE role = "customer" -> {"CUSTOMERS"}
                      [] role = "owner" -> {"OWNERS", "STORES"}
                      [] role = "rider" -> {}

Exists(u) == users[u] # Absent

\* A customer's row is represented by its grade.
HasRow(u, t) == CASE t = "CUSTOMERS" -> customers[u] # "none"
                  [] t = "OWNERS" -> u \in owners
                  [] t = "STORES" -> u \in stores

\* Accounts made by earlier signups: whole, with distinct phone numbers.
Init ==
  /\ users \in [UserIds -> {Absent} \cup [phone : Phones, role : Roles, grade : {"normal"}]]
  /\ \A u, v \in UserIds : u # v /\ Exists(u) => users[u].phone # users[v].phone
  /\ customers = [u \in UserIds |-> IF Exists(u) /\ users[u].role = "customer"
                                    THEN users[u].grade ELSE "none"]
  /\ owners = {u \in UserIds : Exists(u) /\ users[u].role = "owner"}
  /\ stores = owners
  /\ pc = [w \in Workers |-> "idle"]
  /\ req = [w \in Workers |-> NoRequest]
  /\ mode = [w \in Workers |-> "auto"]
  /\ pending = [w \in Workers |-> {}]
  /\ written = [w \in Workers |-> {}]
  /\ tried = [w \in Workers |-> {}]
  /\ success = [w \in Workers |-> TRUE]
  /\ requests = 0
  /\ disturbed = {}
  /\ renewed = {}
  /\ answers = {}

-----------------------------------------------------------------------------
(* Faulty variants, used by no specification.                              *)

FaultGradeAsSent(action) == IF action = 1 THEN "WOW" ELSE "normal"

FaultNoTransaction(w) == UNCHANGED mode

FaultTryAll(w) == req[w].parts # tried[w]

FaultKeepTransaction(w) ==
  /\ mode' = [mode EXCEPT ![w] = "auto"]
  /\ pending' = pending

-----------------------------------------------------------------------------
(* MariaDB, as the handlers use it.                                        *)

\* Another worker's open transaction holds the row, or the phone number.
RowLocked(w, u, t) == \E v \in Workers \ {w} : req[v].user = u /\ t \in pending[v]
PhoneLocked(w, p) ==
  \E v \in Workers \ {w} : req[v].op = "signup" /\ req[v].phone = p /\ "USERS" \in pending[v]

\* PRIMARY KEY (user_id) and UNIQUE (phone_number) of USERS.
PhoneTaken(u, p) == \E v \in UserIds \ {u} : users[v].phone = p
DuplicateKey(w) == Exists(req[w].user) \/ PhoneTaken(req[w].user, req[w].phone)

UserRow(w) ==
  LET r == req[w]
  IN CASE r.op = "signup" -> [phone |-> r.phone, role |-> r.role, grade |-> "normal"]
       [] r.op = "grade" -> [users[r.user] EXCEPT !.grade = r.grade]
       [] r.op = "store" -> [users[r.user] EXCEPT !.phone = r.phone]

\* An UPDATE of a row that is not there changes nothing and succeeds.
Affects(w, t) ==
  \/ req[w].op = "signup"
  \/ IF t = "USERS" THEN Exists(req[w].user) ELSE HasRow(req[w].user, t)

Publish(w, ts) ==
  LET u == req[w].user
      on == {t \in ts : Affects(w, t)}
  IN /\ users' = IF "USERS" \in on THEN [users EXCEPT ![u] = UserRow(w)] ELSE users
     /\ customers' = IF "CUSTOMERS" \in on THEN [customers EXCEPT ![u] = req[w].grade] ELSE customers
     /\ owners' = IF "OWNERS" \in on THEN owners \cup {u} ELSE owners
     /\ stores' = IF "STORES" \in on THEN stores \cup {u} ELSE stores

\* A statement writes one table: at once, or into the transaction.
Write(w, t) ==
  IF mode[w] = "auto"
  THEN Publish(w, {t}) /\ UNCHANGED pending
  ELSE pending' = [pending EXCEPT ![w] = @ \cup {t}] /\ UNCHANGED tables

-----------------------------------------------------------------------------
(* A worker takes a request and answers it.                                *)

Busy == {w \in Workers : pc[w] # "idle"}

Begin(w, r, first) ==
  /\ pc[w] = "idle"
  /\ requests < MaxRequests
  /\ requests' = requests + 1
  /\ req' = [req EXCEPT ![w] = r]
  /\ pc' = [pc EXCEPT ![w] = first]
  /\ disturbed' = IF Busy = {} THEN disturbed \ {w} ELSE disturbed \cup Busy \cup {w}
  /\ UNCHANGED <<tables, mode, pending, written, update, renewed, answers>>

HandleSignup(w, u, p, role) ==
  Begin(w, [NoRequest EXCEPT !.op = "signup", !.user = u, !.phone = p, !.role = role], "checkId")

\* action 1 joins the membership, any other leaves it.
TargetGrade(action) == IF action = 1 THEN "wow" ELSE "normal"

HandleGradeUpdate(w, u, action) ==
  Begin(w, [NoRequest EXCEPT !.op = "grade", !.user = u, !.grade = TargetGrade(action)], "begin")

\* The session's user saves what the request contains, at least one part.
HandleStoreInfoUpdateReq(w, u, parts, p) ==
  Begin(w, [NoRequest EXCEPT !.op = "store", !.user = u, !.phone = p, !.parts = parts,
                             !.owner = Exists(u) /\ u \in owners \cap stores], "save")

Goto(w, p) == pc' = [pc EXCEPT ![w] = p]

\* commit() or rollback(), and setAutoCommit(true).
EndTransaction(w) ==
  /\ mode' = [mode EXCEPT ![w] = "auto"]
  /\ pending' = [pending EXCEPT ![w] = {}]

\* The answer, after a commit or with the transaction rolled back.
Answer(w, status, clean) ==
  /\ answers' = answers \cup
       {[op |-> req[w].op, user |-> req[w].user, role |-> req[w].role, status |-> status,
         clean |-> clean,
         taken |-> PhoneTaken(req[w].user, req[w].phone),
         missing |-> IF req[w].owner THEN req[w].parts \ written[w] ELSE {}]}
  /\ pc' = [pc EXCEPT ![w] = "idle"]
  /\ req' = [req EXCEPT ![w] = NoRequest]
  /\ EndTransaction(w)
  /\ written' = [written EXCEPT ![w] = {}]
  /\ tried' = [tried EXCEPT ![w] = {}]
  /\ success' = [success EXCEPT ![w] = TRUE]

Undisturbed(w) == w \notin disturbed

-----------------------------------------------------------------------------
(* UserDAO::insertUser.                                                    *)

CheckId(w) ==
  /\ pc[w] = "checkId"
  /\ IF Exists(req[w].user)
     THEN Answer(w, "DUPLICATE_ID", Undisturbed(w))
     ELSE Goto(w, "checkPhone") /\ UNCHANGED <<req, mode, pending, written, update, answers>>
  /\ UNCHANGED <<tables, requests, disturbed, renewed>>

\* The number may be used once in each role.
CheckPhone(w) ==
  /\ pc[w] = "checkPhone"
  /\ IF \E u \in UserIds : users[u].phone = req[w].phone /\ users[u].role = req[w].role
     THEN Answer(w, "DUPLICATE_PHONE", Undisturbed(w))
     ELSE Goto(w, "begin") /\ UNCHANGED <<req, mode, pending, written, update, answers>>
  /\ UNCHANGED <<tables, requests, disturbed, renewed>>

\* setAutoCommit(false)
BeginTransaction(w) == mode' = [mode EXCEPT ![w] = "txn"]

StartTransaction(w) ==
  /\ pc[w] = "begin"
  /\ BeginTransaction(w)
  /\ Goto(w, "user")
  /\ UNCHANGED <<tables, req, pending, written, update, requests, history>>

\* The link is lost before the first statement, which renews it.
LinkRenewed(w) ==
  /\ pc[w] = "user"
  /\ mode[w] = "txn"
  /\ mode' = [mode EXCEPT ![w] = "auto"]
  /\ renewed' = renewed \cup {req[w].user}
  /\ UNCHANGED <<tables, pc, req, pending, written, update, requests, disturbed, answers>>

\* INSERT INTO USERS, or UPDATE USERS SET grade
WriteUser(w) ==
  /\ pc[w] = "user"
  /\ ~RowLocked(w, req[w].user, "USERS")
  /\ req[w].op = "signup" => ~PhoneLocked(w, req[w].phone) /\ ~DuplicateKey(w)
  /\ Write(w, "USERS")
  /\ Goto(w, "role")
  /\ UNCHANGED <<req, mode, written, update, requests, history>>

\* The unique keys refuse the INSERT: rollback, SERVER_ERROR.
InsertRefused(w) ==
  /\ pc[w] = "user"
  /\ req[w].op = "signup"
  /\ ~RowLocked(w, req[w].user, "USERS")
  /\ ~PhoneLocked(w, req[w].phone)
  /\ DuplicateKey(w)
  /\ Answer(w, "SERVER_ERROR", Undisturbed(w))
  /\ UNCHANGED <<tables, requests, disturbed, renewed>>

\* The tables after USERS; handleGradeUpdate goes on to CUSTOMERS for any role.
RowsToWrite(w) == IF req[w].op = "signup" THEN RoleTables(req[w].role) ELSE {"CUSTOMERS"}

\* OWNERS comes before STORES.
WriteRole(w, t) ==
  /\ pc[w] = "role"
  /\ t \in RowsToWrite(w) \ written[w]
  /\ t = "STORES" => "OWNERS" \in written[w]
  /\ ~RowLocked(w, req[w].user, t)
  /\ Write(w, t)
  /\ written' = [written EXCEPT ![w] = @ \cup {t}]
  /\ UNCHANGED <<pc, req, mode, update, requests, history>>

ReadyToCommit(w) == pc[w] = "role" /\ RowsToWrite(w) \subseteq written[w]

Commit(w) ==
  /\ ReadyToCommit(w)
  /\ Publish(w, pending[w])
  /\ Answer(w, "SUCCESS", Undisturbed(w))
  /\ UNCHANGED <<requests, disturbed, renewed>>

-----------------------------------------------------------------------------
(* StoreHandler::handleStoreInfoUpdateReq.                                 *)

\* if (success && !...Clauses.empty())
MayTry(w) == success[w] /\ req[w].parts # tried[w]

\* STORES, USERS, OWNERS
Part(w) ==
  LET left == req[w].parts \ tried[w]
  IN IF "STORES" \in left THEN "STORES" ELSE IF "USERS" \in left THEN "USERS" ELSE "OWNERS"

Trying(w) ==
  /\ pc[w] = "save"
  /\ MayTry(w)
  /\ tried' = [tried EXCEPT ![w] = @ \cup {Part(w)}]

\* executeUpdate: it commits by itself.
Save(w) ==
  /\ Trying(w)
  /\ ~RowLocked(w, req[w].user, Part(w))
  /\ Part(w) = "USERS" /\ Exists(req[w].user) =>
       ~PhoneLocked(w, req[w].phone) /\ ~PhoneTaken(req[w].user, req[w].phone)
  /\ Publish(w, {Part(w)})
  /\ written' = [written EXCEPT ![w] = @ \cup {Part(w)}]
  /\ UNCHANGED <<pc, req, mode, pending, requests, renewed, answers>>

SavePart(w) ==
  /\ Save(w)
  /\ success' = [success EXCEPT ![w] = TRUE]
  /\ UNCHANGED disturbed

\* Another account has the phone number: what was saved before stays saved.
SaveRefused(w) ==
  /\ Trying(w)
  /\ Part(w) = "USERS"
  /\ ~RowLocked(w, req[w].user, "USERS")
  /\ Exists(req[w].user)
  /\ ~PhoneLocked(w, req[w].phone)
  /\ PhoneTaken(req[w].user, req[w].phone)
  /\ success' = [success EXCEPT ![w] = FALSE]
  /\ UNCHANGED <<tables, pc, req, mode, pending, written, requests, history>>

AnswerUpdate(w) ==
  /\ pc[w] = "save"
  /\ ~MayTry(w)
  /\ Answer(w, IF success[w] THEN "SUCCESS" ELSE "SERVER_ERROR", Undisturbed(w))
  /\ UNCHANGED <<tables, requests, disturbed, renewed>>

-----------------------------------------------------------------------------
(* Failures.                                                               *)

\* A statement throws.  insertUser and handleGradeUpdate roll back and answer;
\* executeUpdate returns false.
StatementFails(w) ==
  /\ \/ pc[w] \in {"checkId", "checkPhone", "begin", "user", "role"} /\ Answer(w, "SERVER_ERROR", FALSE)
     \/ /\ Trying(w)
        /\ success' = [success EXCEPT ![w] = FALSE]
        /\ UNCHANGED <<pc, req, mode, pending, written, answers>>
  /\ disturbed' = disturbed \cup {w}
  /\ UNCHANGED <<tables, requests, renewed>>

\* The link is lost when the database has executed the statement already.
OutcomeLost(w) ==
  /\ \/ /\ ReadyToCommit(w)
        /\ Publish(w, pending[w])
        /\ Answer(w, "SERVER_ERROR", FALSE)
        /\ UNCHANGED <<requests, renewed>>
     \/ Save(w) /\ success' = [success EXCEPT ![w] = FALSE]
  /\ disturbed' = disturbed \cup {w}

-----------------------------------------------------------------------------
Handle(w) ==
  \/ \E u \in UserIds, p \in Phones, role \in Roles : HandleSignup(w, u, p, role)
  \/ \E u \in UserIds, action \in {1, 2} : HandleGradeUpdate(w, u, action)
  \/ \E u \in UserIds, parts \in SUBSET Parts \ {{}}, p \in Phones :
       HandleStoreInfoUpdateReq(w, u, parts, p)

Step(w) ==
  \/ CheckId(w)
  \/ CheckPhone(w)
  \/ StartTransaction(w)
  \/ WriteUser(w)
  \/ InsertRefused(w)
  \/ \E t \in RowsToWrite(w) : WriteRole(w, t)
  \/ Commit(w)
  \/ SavePart(w)
  \/ SaveRefused(w)
  \/ AnswerUpdate(w)

Next ==
  \E w \in Workers : Handle(w) \/ Step(w) \/ LinkRenewed(w) \/ StatementFails(w) \/ OutcomeLost(w)

Spec == Init /\ [][Next]_vars

-----------------------------------------------------------------------------
Requests == [op : {"none", "signup", "grade", "store"}, user : UserIds \cup {NoPhone},
             phone : Phones \cup {NoPhone}, role : Roles, grade : Grades,
             parts : SUBSET Parts, owner : BOOLEAN]

TypeOK ==
  /\ users \in [UserIds -> [phone : Phones \cup {NoPhone}, role : Roles, grade : Grades]]
  /\ customers \in [UserIds -> Grades \cup {"none"}]
  /\ owners \subseteq UserIds
  /\ stores \subseteq UserIds
  /\ pc \in [Workers -> {"idle", "checkId", "checkPhone", "begin", "user", "role", "save"}]
  /\ req \in [Workers -> Requests]
  /\ mode \in [Workers -> {"auto", "txn"}]
  /\ pending \in [Workers -> SUBSET (Parts \cup {"CUSTOMERS"})]
  /\ written \in [Workers -> SUBSET (Parts \cup {"CUSTOMERS"})]
  /\ tried \in [Workers -> SUBSET Parts]
  /\ success \in [Workers -> BOOLEAN]
  /\ requests \in 0..MaxRequests
  /\ disturbed \subseteq Workers
  /\ renewed \subseteq UserIds

\* The rows of an account: those of its role, and no others.
Whole(u) ==
  \A t \in {"CUSTOMERS", "OWNERS", "STORES"} :
    HasRow(u, t) <=> Exists(u) /\ t \in RoleTables(users[u].role)

\* Accounts appear whole and the two tables agree on the grade, whichever
\* requests run beside each other and wherever they fail, unless a transaction
\* for the account ran on a link that was renewed behind its back.
TablesAgree ==
  \A u \in UserIds \ renewed :
    /\ Whole(u)
    /\ HasRow(u, "CUSTOMERS") => customers[u] = users[u].grade

\* What clients are told is so.  A signup that succeeded has made the account.
\* An update an owner was told is saved has saved every table it names, in
\* spite of its separate commits.  A signup that nothing disturbed is refused
\* for an internal error only when its number belongs to an account of another
\* role, which the check before it lets pass.
AnswersTrue ==
  \A a \in answers :
    /\ a.op = "signup" /\ a.status = "SUCCESS" => Exists(a.user) /\ users[a.user].role = a.role
    /\ a.status = "SUCCESS" => a.missing = {}
    /\ a.op = "signup" /\ a.status = "SERVER_ERROR" /\ a.clean => a.taken

\* The statement worker w is at meets a row or a number of somebody's open
\* transaction.
Waits(w) ==
  \/ pc[w] = "user" /\ RowLocked(w, req[w].user, "USERS")
  \/ pc[w] = "user" /\ req[w].op = "signup" /\ PhoneLocked(w, req[w].phone)
  \/ pc[w] = "role" /\ \E t \in RowsToWrite(w) \ written[w] : RowLocked(w, req[w].user, t)
  \/ /\ pc[w] = "save"
     /\ MayTry(w)
     /\ \/ RowLocked(w, req[w].user, Part(w))
        \/ Part(w) = "USERS" /\ Exists(req[w].user) /\ PhoneLocked(w, req[w].phone)

\* Signups, grade changes and store updates lock USERS, CUSTOMERS, OWNERS and
\* STORES in different orders, but no circle of waits closes: a worker whose
\* transaction holds anything is busy with its request and waits for nobody.
HoldersNeverWait == \A w \in Workers : pending[w] # {} => pc[w] # "idle" /\ ~Waits(w)
=============================================================================
