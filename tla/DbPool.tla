-------------------------------- MODULE DbPool --------------------------------
(***************************************************************************)
(* The database connection pool (server/src/database/DbManager.cpp) under  *)
(* the threads that use it: the workers, and the event-loop thread, which  *)
(* serves CategoryHandler itself when it accepts a client.                 *)
(*                                                                         *)
(* A handler or DAO checks a connection out, works, and gives it back when *)
(* its shared_ptr dies.  Many handlers keep theirs while they call a DAO   *)
(* that checks out a second one (OrderHandler, RiderHandler,               *)
(* CategoryHandler, MenuDAO::getMenusByStoreId): a request is therefore    *)
(* one outer checkout around some number of inner ones, one at a time.     *)
(*                                                                         *)
(* A block guarded by poolMutex is one action.  Connections are numbered   *)
(* in the order init() opened them, and the pool size is chosen by init(). *)
(***************************************************************************)
EXTENDS Naturals, Sequences, FiniteSets

CONSTANTS Workers,      \* the worker threads of ThreadPool
          EventLoop,    \* the thread of ItsServer::run()
          PoolSizes,    \* the pool sizes init() may be called with
          MaxInner,     \* bound: DAO calls inside one request
          MaxLost       \* bound: links that are down at the same time

Threads == Workers \cup {EventLoop}

NoConn == 0

ASSUME ThreadsAssumption == IsFiniteSet(Workers) /\ EventLoop \notin Workers
ASSUME BoundsAssumption ==
  /\ PoolSizes \subseteq Nat \ {0}
  /\ MaxInner \in Nat
  /\ MaxLost \in Nat

VARIABLES
  poolSize,        \* how many connections init() opened
  connectionPool,  \* std::queue of the connections nobody has checked out
  alive,           \* the connections whose link to MariaDB is up
  phase,           \* per thread: "idle", "lock" (about to lock poolMutex in
                   \* getConnection), "wait" (on poolCondVar), "use"
  outer,           \* the connection of the thread's handler
  inner,           \* the connection of the DAO the handler is calling
  left             \* DAO calls the request may still make

vars == <<poolSize, connectionPool, alive, phase, outer, inner, left>>

Opened == 1..poolSize

\* DBManager::init
Init ==
  /\ poolSize \in PoolSizes
  /\ connectionPool = [i \in 1..poolSize |-> i]
  /\ alive = 1..poolSize
  /\ phase = [t \in Threads |-> "idle"]
  /\ outer = [t \in Threads |-> NoConn]
  /\ inner = [t \in Threads |-> NoConn]
  /\ left = [t \in Threads |-> 0]

-----------------------------------------------------------------------------
(* Faulty variants, used by no specification.                              *)

FaultReleaseSilently(t, c) ==
  /\ connectionPool' = Append(connectionPool, c)
  /\ phase' = [phase EXCEPT ![t] = IF inner[t] = c THEN "use" ELSE "idle"]

FaultReleaseDropsDead(t, c) ==
  /\ connectionPool' = IF c \in alive THEN Append(connectionPool, c) ELSE connectionPool
  /\ phase' = [phase EXCEPT ![t] = IF inner[t] = c THEN "use" ELSE "idle"]

FaultReleaseNull(t, c) ==
  /\ connectionPool' = Append(connectionPool, NoConn)
  /\ phase' = [phase EXCEPT ![t] = IF inner[t] = c THEN "use" ELSE "idle"]

-----------------------------------------------------------------------------
\* A worker starts a handler, or the event loop accepts a client; n is how
\* many DAO calls the handler makes at most while it holds its connection.
BeginRequest(t, n) ==
  /\ phase[t] = "idle"
  /\ phase' = [phase EXCEPT ![t] = "lock"]
  /\ left' = [left EXCEPT ![t] = n]
  /\ UNCHANGED <<poolSize, connectionPool, alive, outer, inner>>

\* poolCondVar.wait finds the pool empty: it releases poolMutex and blocks.
BlockOnPool(t) ==
  /\ phase[t] = "lock"
  /\ connectionPool = <<>>
  /\ phase' = [phase EXCEPT ![t] = "wait"]
  /\ UNCHANGED <<poolSize, connectionPool, alive, outer, inner, left>>

SpuriousWakeup(t) ==
  /\ phase[t] = "wait"
  /\ phase' = [phase EXCEPT ![t] = "lock"]
  /\ UNCHANGED <<poolSize, connectionPool, alive, outer, inner, left>>

\* The checked-out connection is tested and, if its link is down, reconnected;
\* when that fails the dead connection is handed out all the same.
Revive(c) == alive' = alive \/ alive' = alive \cup {c}

\* getConnection from the moment the pool is not empty.
GetConnection(t) ==
  /\ phase[t] = "lock"
  /\ connectionPool # <<>>
  /\ connectionPool' = Tail(connectionPool)
  /\ Revive(Head(connectionPool))
  /\ phase' = [phase EXCEPT ![t] = "use"]
  /\ IF outer[t] = NoConn
     THEN outer' = [outer EXCEPT ![t] = Head(connectionPool)] /\ inner' = inner
     ELSE inner' = [inner EXCEPT ![t] = Head(connectionPool)] /\ outer' = outer
  /\ UNCHANGED <<poolSize, left>>

\* The handler calls a DAO while it holds its own connection.
CallDao(t) ==
  /\ phase[t] = "use"
  /\ inner[t] = NoConn
  /\ left[t] > 0
  /\ left' = [left EXCEPT ![t] = @ - 1]
  /\ phase' = [phase EXCEPT ![t] = "lock"]
  /\ UNCHANGED <<poolSize, connectionPool, alive, outer, inner>>

\* notify_one on poolCondVar, by thread t which moves on to phase p.
NotifyOne(t, p) ==
  IF \E w \in Threads : phase[w] = "wait"
  THEN \E w \in Threads : /\ phase[w] = "wait"
                          /\ phase' = [phase EXCEPT ![w] = "lock", ![t] = p]
  ELSE phase' = [phase EXCEPT ![t] = p]

\* The deleter of the shared_ptr: push the connection back and notify.
Release(t, c) ==
  /\ connectionPool' = Append(connectionPool, c)
  /\ NotifyOne(t, IF inner[t] = c THEN "use" ELSE "idle")

\* The DAO returns.
ReturnInner(t) ==
  /\ phase[t] = "use"
  /\ inner[t] # NoConn
  /\ Release(t, inner[t])
  /\ inner' = [inner EXCEPT ![t] = NoConn]
  /\ UNCHANGED <<poolSize, alive, outer, left>>

\* The handler returns, at its end, early, or by an exception.
ReturnOuter(t) ==
  /\ phase[t] = "use"
  /\ inner[t] = NoConn
  /\ Release(t, outer[t])
  /\ outer' = [outer EXCEPT ![t] = NoConn]
  /\ left' = [left EXCEPT ![t] = 0]
  /\ UNCHANGED <<poolSize, alive, inner>>

\* MariaDB drops the link of a connection, idle or in use.
LinkLost(c) ==
  /\ c \in alive
  /\ Cardinality(Opened \ alive) < MaxLost
  /\ alive' = alive \ {c}
  /\ UNCHANGED <<poolSize, connectionPool, phase, outer, inner, left>>

-----------------------------------------------------------------------------
ThreadStep(t) ==
  BlockOnPool(t) \/ GetConnection(t) \/ CallDao(t) \/ ReturnInner(t) \/ ReturnOuter(t)

Next ==
  \/ \E t \in Threads, n \in 0..MaxInner : BeginRequest(t, n)
  \/ \E t \in Threads : ThreadStep(t)
  \/ \E t \in Threads : SpuriousWakeup(t)
  \/ \E c \in Opened : LinkLost(c)

\* A runnable thread is scheduled and a database call returns.  poolMutex and
\* poolCondVar promise no thread its turn: WF of ThreadStep(t) lets a woken
\* thread find the pool emptied by a later one again and again.
Fairness == \A t \in Threads : WF_vars(ThreadStep(t))

Spec == Init /\ [][Next]_vars

FairSpec == Spec /\ Fairness

-----------------------------------------------------------------------------
Phases == {"idle", "lock", "wait", "use"}

TypeOK ==
  /\ poolSize \in Nat \ {0}
  /\ connectionPool \in Seq(Opened)
  /\ alive \in SUBSET Opened
  /\ phase \in [Threads -> Phases]
  /\ outer \in [Threads -> Opened \cup {NoConn}]
  /\ inner \in [Threads -> Opened \cup {NoConn}]
  /\ left \in [Threads -> 0..MaxInner]

\* What thread t holds: its handler's connection, and then its DAO's.
Holds(t) ==
  IF outer[t] = NoConn THEN <<>>
  ELSE IF inner[t] = NoConn THEN <<outer[t]>> ELSE <<outer[t], inner[t]>>

Lease == INSTANCE ConnectionLease
           WITH free <- {connectionPool[i] : i \in 1..Len(connectionPool)},
                held <- [t \in Threads |-> Holds(t)]

\* The queue, its mutex and its condition implement the lending of a fixed set
\* of connections: none is leaked or shared, also after a failed reconnect and
\* however a handler ends, and the DAO's goes back before its handler's.
LeaseSpec == Lease!Spec

\* No lost wake-up: while somebody sleeps on poolCondVar, at most as many
\* connections lie in the pool as threads are on their way to take one.
NoLostWakeup ==
  (\E t \in Threads : phase[t] = "wait")
    => Len(connectionPool) <= Cardinality({t \in Threads : phase[t] = "lock"})

\* Every connection is held by a handler whose thread waits for a second one.
HoldAndWait ==
  /\ connectionPool = <<>>
  /\ \A t \in Threads : outer[t] # NoConn => phase[t] \in {"lock", "wait"}

SafeSize == poolSize > Cardinality(Threads)

\* A pool with more connections than threads never deadlocks: the threads can
\* hold at most one connection each while they wait for their second.
NoHoldAndWait == SafeSize => ~HoldAndWait

Checkout == \E t \in Threads : GetConnection(t)

\* With such a pool the server gets on under an endless load: as long as threads
\* sleep on poolCondVar, connections come back and are checked out, although
\* every holder may be on its way to a second one.  Which thread gets them is
\* left to the mutex: a single thread may starve.
CheckoutsGoOn ==
  SafeSize => []<>(\A t \in Threads : phase[t] # "wait") \/ []<><<Checkout>>_vars

\* main() calls init() with the number of workers.  What the comment on
\* getConnection says of a used connection, for the pool of that size: when all
\* are lent out, one goes back to the pool.
ReturnedAtBootSize ==
  poolSize = Cardinality(Workers) /\ connectionPool = <<>> ~> connectionPool # <<>>
=============================================================================
