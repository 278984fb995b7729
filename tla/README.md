# Its_bedalyo server: a TLA+ verification project

This directory models the delivery-order server under `src/server` (C++, one
epoll thread, a worker pool, MariaDB behind a connection pool), checks the
models with TLC on small instances and proves theorems about them with TLAPS.
Paths below are relative to `src/server/src/` unless they begin with `src/`.

## 1. The system

```
 clients ──TCP──> ItsServer::run (epoll thread)
                    │ accept: SessionManager::createSession, CategoryHandler
                    │ read:   PacketFramer -> Dispatcher::dispatch
                    ▼
                 ThreadPool queue ──> N workers ──> handlers ──> DAOs
                                         │                        │
                    SessionManager <─────┘ sendToUser             ▼
                    (sessionMap, userMap)             DBManager connection pool
                                                                  ▼
                                                               MariaDB
```

| Component | State it keeps | Operations | What makes it correct |
|---|---|---|---|
| Worker pool, process life cycle (`thread/ThreadPool.*`, `src/server/main.cpp`, `network/ItsServer.cpp:99-127`) | task queue, `stop`, `g_running` | `enqueue`, worker loop, destructor, signal handler | no request lost, run twice or overtaken; shutdown drains the queue and ends |
| Connection pool (`database/DbManager.*`) | queue of connections | `init`, `getConnection` with reconnect, deleter | no connection leaked or shared; threads that hold one and want another do not block each other |
| Order life cycle (`handler/OrderHandler.cpp`, `handler/RiderHandler.cpp`) | ORDERS, ORDER_DETAILS, STORES.total_sales | create, accept, change state, reject, cancel, cook time, pickup, complete | orders are whole; acceptance and charge go together, once; clients are told what is committed |
| Sessions and identities (`session/*`, login and logout in `handler/UserHandler.cpp`, `handler/AdminHandler.cpp`) | `sessionMap`, `userMap`, identity of a session, descriptors | accept, disconnect, login, admin init, logout, answers, pushes | a packet reaches the connection it is meant for; users online are reachable, users gone are forgotten |
| Address book (`database/AddressDAO.cpp`, `handler/AddressHandler.cpp`) | USER_ADDRESSES, CUSTOMERS.address | save, delete, set default, update, list | one default address, kept, and shown in CUSTOMERS |
| Framing and sending (`network/PacketFramer.cpp`, `session/ClientSession.h`) | read buffer, write mutex | `onReceiveData`, `sendPacket` | packets are cut out of the stream independently of how it arrives; whole packets are written |
| Chat (`handler/ChatHandler.cpp`, `session/ChatRoomManager.cpp`) | rooms | request, accept, send, close | opening, messages, end are heard in this order; closing tells both sides |
| Accounts and membership (`database/UserDAO.cpp`, `handler/UserHandler.cpp`) | USERS, CUSTOMERS, OWNERS, STORES | signup, grade change | user and role rows appear together; grades agree in two tables |
| Stores, menus (`handler/StoreHandler.cpp`, `handler/MenuHandler.cpp`, DAOs) | STORES, MENUS | queries, updates of several tables | an update of several tables is not seen half done |
| Search, reviews, sales, categories, admin lists | none of their own | queries | - |

Interactions that matter: one epoll thread and N workers share the queue, the
maps and the connection pool; requests of one client may run on several
workers at once and in any order; a worker keeps a session object after its
connection is gone; handlers hold one connection while a DAO takes a second;
the database executes statements one at a time and only some handlers use a
transaction; any statement may throw, and the link may be lost when the
database has already done the work.

`PROJECT.json` lists the hazards line by line, with the properties aimed at
each.

## 2. Modules

| Module | Models | Composes |
|---|---|---|
| `ThreadPool` | queue, workers, main thread from the event loop to the pool's destructor | implements `TaskService` |
| `TaskService` | abstract: accepted requests are served once, in order, and all of them before the end | - |
| `DbPool` | connection pool under workers and event loop, nested checkouts, link loss | implements `ConnectionLease` |
| `ConnectionLease` | abstract: a fixed set of connections is lent, each to one thread, and returned last borrowed first | - |
| `Orders` | order handlers statement by statement on several workers | implements `OrderLedger` |
| `OrderLedger` | abstract: what the order handlers promise of the tables | - |
| `Sessions` | SessionManager, descriptors, login, logout, answers, pushes | - |
| `Addresses` | address DAO statement by statement on several workers | - |
| `Wire` | one connection: event loop and framing inwards, `sendPacket` of several workers outwards, the network in between | the event loop, the session's buffer and the workers' writes |
| `Chat` | rooms under the chat handlers on several workers, users coming and going | - |
| `Accounts` | signup, grade change and store update statement by statement on several workers | - |
| `*Proofs` | theorems and proofs about the module they extend | - |
| `MC*` | the instances TLC checks | - |

Conventions: a variable has the name of the member or column it stands for; one
block under a mutex, or one SQL statement, is one action; `pc` is the next
statement of a worker; variables called *history* record what happened so that
a property can speak of it, and no guard reads them. Operators named `Fault...`
are wrong variants of a step: no specification uses them; each stands for a
plausible bug and shows that a property notices it.

**ThreadPool.** `worker[w]` says where a worker is in its loop: about to lock
(`ready`), blocked in `condition.wait` (`waiting`), inside `task()`, or
returned. `main` says where the main thread is: in `run()`, between the push
and the `notify_one` of `enqueue`, or in the destructor. `wait` may return
spuriously. `LoopCondition` is the `true` of `run()`'s loop. The refinement
takes the tasks submitted so far for the accepted ones and the length of the
history of starts for how many have begun.

**DbPool.** A request takes an outer connection and, while it holds it, up to
`MaxInner` inner ones, one at a time. `Revive` is the validity test at checkout:
a dead link may be renewed or handed out dead. Requests do not run out: a thread
that has answered may begin the next one at once. The pool size is a choice of
`Init`, so that one model covers the size `main()` uses and a safe one. The
refinement forgets the order of the queue, the phases and the links, and keeps
which connections are free and, per thread, the stack of those it holds.

**Orders.** `txn[w]` holds the uncommitted writes of a worker. `Write` publishes
at once or collects, according to the connection's mode; `Publish` is the
commit. Rows written by an open transaction are locked and other workers'
statements on them wait. `StatementFails` is an exception of any statement,
`OutcomeLost` one that comes after the database did the work, and
`OwnerLookupFails` one after the commit. `total_sales` is represented by how
often each order's price was added, which is what the ledger is about.
`handleOrderReject` and `handlePickup` do not look how many rows their UPDATE
changed: for an order that is not stored yet they go on to the answer and the
lookup of the customer (`MayTellCustomer`), and `premature` remembers it.

**Sessions.** `socket` is the kernel's table: which connection owns a
descriptor. `Receiver(s)` is the connection that gets what is written to
session `s`: whoever owns its descriptor number now. `getUserId` reads without
a lock while `authenticate` and `clearAuth` assign: `ReadUserId` lets it return
the old value, the new one, or torn bytes (no key of `userMap`). `NoUser` is the
empty string. It is the identity of a session without login and also an identity
a client may ask for (`Ids`): `handleAdminInit` maps whatever `adminId` it finds,
while `removeSession` and logout take out non-empty identities only. An element
of `Workers` is a request in flight.

**Addresses.** One customer's rows. The transaction of `saveAddress` publishes
at its commit; from its reset on it keeps the rows it found (`demoted[w]`) locked
against other statements and the gap for new rows against other INSERTs. Gap
locks do not exclude each other, so two workers that save the first addresses of
a customer both pass the reset and wait for each other at the INSERT, until
MariaDB rolls one back (`StatementFails`). The statements of the other DAO calls
commit one by one. Texts are modelled by what they are made of: `saveAddress`
copies `address + " " + detail` to CUSTOMERS (`FullText`), `setDefaultAddress`
the address alone (`Selected`), and `updateAddress` changes the detail of a row
and no copy of it (`Edit`).

**Wire.** Bytes are counted, not stored: `stream` is the sequence of frames the
client has sent, each with its offset, and `arrived`, `taken` and `head` are
offsets into it (what has reached the kernel, what was read, where the read
buffer begins). Each action of the event loop is one `epoll_wait`, one `read` or
one round of `processBuffer`'s loop. The event is an edge: it is consumed by
`epoll_wait` and set again by an arrival only. A frame may lack the signature;
after it the framer may stand in the middle of a frame, where some header is
read (`MisreadHeader`). Lengths are computed modulo `Width` (2^32 in the code).
Outwards, `job[w]` is the packet of a worker, `writer` holds `writeMutex`, and
`wire` records which packet the accepted bytes came from. `WriteStops` is the
`break` on EAGAIN or an error; `WriteKills` is SIGPIPE, for which `main()`
installs no handler.

**Chat.** `rooms` and `nextRoomId` are the manager's members. A handler takes
the room object in one step and sends with it in later ones, so that the room
may be gone by then. `online` is abstracted from `Sessions`. Any user may be on
either side of a room, on both, too. The acceptance is answered to the session
that sent it, which need be neither mapped nor logged in; without login the room
is opened for the user "admin" (`AdminId`). `told` records who received what for
which room, `missed` who was not in `userMap` when the end of a room was sent,
and `crossed` the rooms whose opening or closing met another request or which a
user has with himself.

**Accounts.** The rows of each user in four tables. A worker's session is in
mode `auto` or `txn`; `pending` are the tables an open transaction has written
and nobody else sees. The locks are those of the row and of the unique phone
number. A lost link that the connector renews silently (`OPT_RECONNECT`,
`database/DbManager.cpp:20`) puts the session into autocommit mode under the
handler's feet (`LinkRenewed`). A store update is taken to name the store of
the session's user, and a change of the owner's name only to keep the number.

## 3. Runs

| Run | Instance | Shows |
|---|---|---|
| `thread_pool` | 2 workers, 3 tasks | refinement of `TaskService`, wake-ups, liveness |
| `signal` | same, clients keep the loop busy | **finding**: a signal does not end the server |
| `db_pool` | 2 workers + event loop, pools of 2 and 4, 1 inner checkout, 1 dead link, requests without end | refinement of `ConnectionLease`, wake-ups, the sizing rule |
| `db_pool_boot` | same | **finding**: with `main()`'s pool size checkouts deadlock |
| `orders` | 2 workers, 2 orders (two items, none) of one store, 3 requests | the order invariants, no circle of waits, termination, refinement of `OrderLedger` |
| `orders_refused` | same | **finding**: an order answered with failure may exist |
| `sessions` | 3 connections over 2 descriptors, 2 users and the empty identity, 2 requests in flight, 3 requests | who can be reached, and by which races packets go astray |
| `sessions_push` | same | **finding**: a push can reach a stranger |
| `addresses` | 2 workers, up to 2 rows, 3 requests | the default address is unique, kept and shown in CUSTOMERS, and when it is not |
| `wire` | header of 2 bytes, bodies of 0 and 1, reads of 3, sizes modulo 8, socket buffer of 4, 2 workers, 3 frames and packets altogether | framing, whole packets, every packet handed on, every sender returns |
| `chat` | a user, the user "admin" and sessions without login, 2 workers, 3 requests | who hears what of a room, in which order |
| `accounts` | 2 users, 2 numbers, 2 workers, 2 requests, from any consistent accounts | whole accounts, equal grades, true answers, no circle of waits |

Why these bounds: three tasks are one more than the workers, so a task waits
while both are busy. Pools of 2 (`main()`'s choice for two workers) and 4 (one
more than the threads) lie on both sides of the sizing rule; with one inner
checkout every thread can hold one connection and want another. Two workers give
every pair of concurrent requests on one order and a third request before,
between or after them; an order with two items has a state in which half of them
are written, one without items skips the loop. Three connections over two
descriptors let a number be used again while a worker still holds the old
session. With a header of two bytes and reads of three a frame comes in one read
or in several and a read may hold the end of one frame and the beginning of the
next; a stray body size of 7 makes the length wrap around; the socket buffer
holds one packet and a part of the next; `MaxTraffic` bounds the frames and
packets of a behaviour together, so that three frames, three answers and every
mixture are covered. Three chat requests are an acceptance and a message beside
a closing, or two closings, of one room, or two rooms. Two account requests meet
in every combination, on accounts that exist or not; a third one would need a
third worker to overlap with both. `sessions`, `chat` and `accounts` use
symmetry; they check invariants only, so that is sound. Deadlock checking is off
where the model stops because the request bound is used up; `thread_pool` has
none and checks it.

Properties, besides one type invariant per module:

- `ThreadPool`: `NoLostWakeup`; `ServiceSpec`, the refinement (order, exactly
  one worker per task and the drained queue at the end are its parts); under
  fairness `EveryTaskRuns` and `ShutdownCompletes`.
- `DbPool`: `NoLostWakeup`, `NoHoldAndWait` (more connections than threads
  exclude the deadlock); `LeaseSpec`, the refinement (nothing leaked, nothing
  shared); under fairness `CheckoutsGoOn` (with such a pool the server gets on
  under an endless load: while threads wait, connections are checked out again
  and again).
- `Orders`: `SalesLedger`, `AcceptedOnce`, `CompleteOrders`,
  `PushFollowsCommit`, `ConfirmedIsDurable`, `WaitsEnd` (row locks close no
  circle and end with the request); under fairness `RequestsFinish`;
  `LedgerSpec`, the refinement (the identity on the four tables).
- `Sessions`: `ReachableWhileOnline`, `GoneWhenOffline`,
  `AstrayOnlyByRace`, `AnswersReachSender`.
- `Addresses`: `OneDefaultUnlessRaced`, `DefaultKept`, `CustomerInSync`.
- `Wire`: `FramedAsSent` (packets are handed on as sent, however the stream is
  cut), `WholeUnlessCut` (no mixed packets); under fairness
  `EveryPacketDispatched` (although an edge is reported once) and
  `SendersReturn` (although a client receives nothing).
- `Chat`: `BothToldOfEnd`, `OrderedUnlessCrossed`.
- `Accounts`: `TablesAgree`, `AnswersTrue`, `HoldersNeverWait` (a transaction
  that holds a lock waits for none).

Several of these name the exceptions the code has. Such a property does not
catch the hazard it excepts, it shows that the trouble comes from nothing else:
`AcceptedOnce` excepts orders that `handleChangeOrderState` put back by hand,
since that handler looks at no current state (and `SalesLedger` counts
acceptances, so the price of an order cancelled later stays);
`PushFollowsCommit` excepts the cooking that `handleCookTimeSet` announces for
any order, and a rejection or pickup that found no order to change and then, the
order having been stored meanwhile, tells its customer a state the order never
had; `GoneWhenOffline` and `AstrayOnlyByRace` except the entry for the empty
identity, which nothing ever takes out of `userMap`; the session properties
except users who are logged in twice, clients with two requests in flight and
clients that leave with a request in flight; the address properties except a
`setDefaultAddress` that ran beside another request or stopped between its
statements (two of them at once leave two default addresses, against the comment
at `database/AddressDAO.cpp:14`). `CustomerInSync` says of which row the text in
CUSTOMERS is made; its detail may be missing after a `setDefaultAddress` and out
of date after an `updateAddress`. `WholeUnlessCut` excepts packets `sendPacket`
gave up: from then on the client's framing is lost. The liveness of `Wire`
excepts a reset by the client and the end of the process by SIGPIPE, which one
client's reset brings about for all. `OrderedUnlessCrossed` excepts rooms for
which requests crossed: a message can come before the opening or after the end,
and the end twice. `TablesAgree` excepts accounts changed on a renewed link,
where a failure after the first statement leaves half an account. `AnswersTrue`
lets an undisturbed signup end in an internal error when its number belongs to
an account of another role: the check is per role (`database/UserDAO.cpp:69`),
the unique key of USERS is not. A store update that fails has kept what it saved
before; the property only says that it is not reported as saved.

## 4. Fairness

`ThreadPool` and `DbPool`: weak fairness of every thread's own steps, that is, a
runnable thread is scheduled and a handler or database call returns. No fairness
of `poolMutex` or `poolCondVar` among threads is assumed: a woken thread may find
its connection taken by a newcomer for ever, so `CheckoutsGoOn` promises progress
of the pool and not of each thread. Nothing
makes a client send, a signal arrive, a link fail or `wait` return spuriously.
The `signal` run adds that clients keep the event loop busy (`BusySpec`), which
only makes its counterexample stronger: `run()` keeps testing its condition.
`Orders`: weak fairness of each worker's next statement; a statement waiting for
a lock is not enabled, so that locks are released has to be shown, not assumed.
`Wire`: weak fairness of arrivals (TCP delivers while the connection is not
reset), of the event loop and of each sender, and strong fairness of taking
`writeMutex`, which the holder releases again and again: the mutex is assumed
not to starve a thread. Nothing makes the client send, receive or close. That the
event loop goes on leaves out that it takes a connection from the pool when it
accepts a client and may block there; `CheckoutsGoOn` and `db_pool_boot` are about
that wait.
`Sessions`, `Addresses`, `Chat` and `Accounts` are checked for safety only.

## 5. Proofs

All eight `*Proofs` modules are checked by TLAPS without assumptions beyond the
named `ASSUME`s of the modules (non-empty worker set, finite set of workers,
distinct null values, bounds and sizes that are natural numbers, an item count per
order, packets of the client smaller than 2^32),
which TLC evaluates in the runs. The theorems hold for every number of workers,
tasks, connections, orders, users, sessions, descriptors, rooms, frames and
bytes.

The properties are not inductive. What is added:

- `ThreadPoolProofs`: the submitted tasks are distinct (from which a started
  task is in one place only); a worker that has returned implies `stop` and an
  empty queue; `stop` holds exactly in the destructor's phases; when the
  destructor is over every worker has returned. `WakeupNotLost` needs that
  `EnqueuePush` is followed by the notification it owes, and `Graceful` that
  exits happen on an empty queue only. `ImplementsService` maps `EnqueuePush` to
  `Accept`, a pop to `Serve` (the front of the queue is the oldest task nobody
  has begun, by `ArrivalOrder`), a return from the task to `Complete` (nobody
  else has it, by `ExactlyOneWorker`), the last join to `End` (by `Graceful`)
  and the rest to stutters; that a pop meets a free worker is `HandsAreEmpty`.
  `StopIsHeard` is the safety half of `ShutdownCompletes`.
- `DbPoolProofs`: the shape of a thread (which phases hold which connections)
  and the type of the pool. `SizingRule` is a counting argument: were the pool
  empty with every holder waiting, each thread would hold at most one
  connection, and the injection from connections to threads contradicts the
  size. `WakeupNotLost` is preserved by counting the threads at the lock.
  `ImplementsLease` maps the checkout to `Borrow` and the deleter to `Return`;
  it needs `Conservation` (no repetition in the queue, so that its front leaves
  the set of free connections and a returned one was not in it) and the shape
  (a thread about to take holds at most its handler's connection).
- `OrdersProofs`: what `txn`, `autocommit` and `pc` say of each other; an open
  transaction's update was made on a row that was waiting and is still locked;
  two workers never hold the same row; at the commit of a creation all items are
  collected; what is told or confirmed was committed before, the two exceptions
  apart. `ImplementsLedger`
  maps every step to `Place`, `Accept`, `SetStatus` or a stutter and uses the
  invariant for the whole order and for the waiting state at an acceptance.
  `NoDeadlock` follows from the order of the locks: an acceptance takes its
  ORDERS row and then the STORES row, which is taken by nobody before its ORDERS
  row, so that a chain of waits has at most two links. The action property
  `BooksAreKept` is read off the refinement: it is proved of the ledger's steps.
- `SessionsProofs`: a descriptor about to be closed has no session; identities
  and requests in hand come from login requests of an accepted session; one
  request at a time unless the session is in `overlapped`; a session that was
  removed without a request in flight is not connected and gets no request any
  more (`Departed`); an entry of `userMap` belongs to a session that still has
  the identity by which its removal finds the entry, and no logout is about to
  clear it (`Removable`). The four properties about reachability and stray
  packets rest on the last two; that the session found for a descriptor is that
  of its owner (`SessionOfSocket`) is proved on the way. `Monotone` says which of
  the facts the properties assume can only be lost in a step.
  `IdentitiesWereAskedFor` holds without the exceptions of the others, and so
  does the action property `EntriesAreOwned`: whoever is taken out of `userMap`
  or put in, it is done in the name of a session whose client asked to be that
  user (which is not yet to say that it is the session of the entry), and no
  step takes the entry for the empty identity out.
- `AddressesProofs`: which request a place in a DAO function belongs to; an open
  save is the only one and its reset has covered every default but its own new
  row (`Saver`), from which uniqueness at its commit follows; address numbers
  not yet given are in no row; a `setDefaultAddress` that met nobody is alone,
  so that between its statements nothing else changes the defaults.
  `DeadlocksAreFirstSaves` says that the two INSERTs are the only place where
  somebody holds locks and waits: a save that has found a row keeps every other
  save from its reset, and `setDefaultAddress` holds nothing between statements.
- `WireProofs`: the frames lie end to end in the stream (`Layout`), and as long
  as every frame before it has the signature the read buffer begins where the
  next frame begins, with as many packets handed on as there are frames before
  (`Aligned`): that is why the cutting into reads does not matter. Outwards: a
  packet has one owner, what it has sent is what the wire has of it, and only
  the last run of the wire can be of a packet being written (`Jobs`,
  `Current`). `NothingInvented` reads off `Aligned` that dispatching is a prefix
  of sending; `EdgeNotLost` is inductive and the safety half of
  `EveryPacketDispatched`.
- `ChatProofs`: room numbers not yet given are unused and a held room object is
  the room that was opened (`Numbered`, `Held`); a closing that has told a side
  has really told it (`Told`, `Ended`); in a room where nothing crossed, a
  closing is alone and nobody has heard of the end before (`Alone`, `Untold`).
  `ChatsArePrivate` (only members hear of a room, but for a session without login
  that hears the number of the room it opened for "admin") and the action property
  `RoomsAreNotReused` hold for crossed rooms, too; they rest on `Numbered`,
  `Held` and `Untold`.
- `AccountsProofs`: what a worker's place says of its transaction (`Work`); only
  one open transaction has inserted or updated a given user (`Exclusive`), so
  that a committed signup publishes an account that was not there; a request
  that nothing disturbed has the server to itself, so that what it checked is
  still so (`Alone`); a row has a number (`Numbers`). The tables are treated
  apart from the workers: `Concerns(u)` is what a step may do to the accounts,
  and `StepKeeps` reduces each action to it. `NoDeadlock` uses `Exclusive`: who
  has written a user's row in USERS is the only one who can have written the
  user's other rows. The action property `AccountsAreKept` says that no step, not
  even on a renewed link, makes an account disappear or change its role.

Some results of the proofs are no properties of a run: `StartedInArrivalOrder`,
`OneWorkerPerTask`, `GracefulShutdown` and `ConnectionConservation`, which the
two refinements contain and which the inductive invariants need; and the safety
halves and action properties named above.

Only model-checked: the liveness properties `EveryTaskRuns`,
`ShutdownCompletes`, `CheckoutsGoOn`, `RequestsFinish`,
`EveryPacketDispatched` and `SendersReturn` (fairness and ENABLED are beyond the
prover). What safety contributes to them is proved: no wake-up is lost, no edge
is lost, stop is heard, and no circle of lock waits closes.

## 6. Findings

Four places where the code does something else than a comment beside it says
(see `PROJECT.json` for quotations and lines): the termination flag is never
read; the connection pool is as large as the worker pool although handlers hold
two connections; `handleCreateOrder` answers with failure for stored orders when
something fails after the commit; a login that outlives its connection makes
pushes go to strangers. What else the models brought up is named as an exception
in the properties (section 3).

## 7. Not modelled

- The vendored MariaDB connector and `json.hpp`: third-party code, and nine
  tenths of the lines of the repository. MariaDB is modelled from how `src/`
  uses it: row and key locks, transactions, lost outcomes, renewed links.
- Byte order conversion and JSON beyond the header record and the length;
  malformed bodies end a handler in its `catch` without an effect.
- Read-only queries and their formatting (search, sales, categories, lists,
  availability checks) and single-statement writes without state of their own
  (menu edits, review replies, store status): a model would
  restate the statement. Dead code (`OrderDAO::createOrder`, `MembershipDAO`,
  `SafeQueue`, `OrderService`, `ChatRoomManager::getAllRooms`).
- In `Orders` and `Addresses` a lost link is an exception; the silent renewal is
  modelled in `Accounts` only, whose result (half-done transactions) carries
  over to every transaction of the server: the theorems about `Orders` assume
  that no link is renewed under a transaction. A rollback that itself throws is
  taken to have the effect of the rollback.
- The order in which pushes of two workers to one client arrive; how long
  `getConnection` holds the pool's mutex while it reconnects; requests that end
  without an answer (`handleCancel` of an unknown order).
- InnoDB's locks beyond rows and unique keys: gaps are modelled in `Addresses`,
  where a range is reset before an INSERT. `HoldersNeverWait` of `Accounts` and
  `WaitsEnd` of `Orders` are about row and key locks only. USER_ADDRESSES is not
  in the repository's schema; `address_id` is taken for its primary key and
  `user_id` for an index.
- One connection in `Wire`, one customer in `Addresses`: connections and
  customers share nothing but the pools, which `ThreadPool` and `DbPool` model,
  and gaps of an index, at which a save may wait for another customer's.

## 8. Plan

Done, in this order: `ThreadPool`, `DbPool`, `Orders` with `OrderLedger`,
`Sessions`, `Addresses`, `Wire`, `Chat`, `Accounts`; theorems for all of them;
the abstract specifications `TaskService` and `ConnectionLease` with the proofs
that the pools implement them; freedom from deadlock on database locks.

What could follow:

1. `Menus`: menu edits and sold-out marks beside order creation (the copy of the
   name and the price an order keeps).
2. An abstract specification of delivery (a packet for a user reaches one of the
   user's connections) that `Sessions` and `Wire` implement together.
3. The renewed link in `Orders`, with the exceptions it brings to the ledger.
