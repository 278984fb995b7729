------------------------------ MODULE ThreadPool ------------------------------
(***************************************************************************)
(* The worker pool (server/src/thread/ThreadPool.{h,cpp}) together with    *)
(* the only thread that feeds and destroys it: main(), which runs the      *)
(* epoll loop ItsServer::run() and then lets the pool go out of scope.     *)
(*                                                                         *)
(* Every block guarded by queue_mutex is one action.  A worker that finds  *)
(* its predicate false releases the mutex and blocks in one atomic step,   *)
(* as condition_variable::wait does; notify_one and notify_all come after  *)
(* the mutex has been released, so they are steps of their own.  A request *)
(* accepted by the dispatcher is a task, and a task is run at most once    *)
(* because a request is enqueued once.                                     *)
(***************************************************************************)
EXTENDS Naturals, Sequences

CONSTANTS Workers,   \* the worker threads, hardware_concurrency() of them
          Tasks,     \* the requests the dispatcher may accept
          NoTask     \* the empty std::function a worker starts an iteration with

ASSUME WorkersAssumption == Workers # {}
ASSUME NoTaskAssumption == NoTask \notin Tasks

VARIABLES
  tasks,       \* std::queue of accepted, not yet started tasks
  stop,        \* the pool's stop flag
  worker,      \* per worker: "ready" to lock, "waiting" on the condition,
               \* "running" a task, "exited"
  job,         \* the worker's local variable task
  main,        \* the main thread: at the loop "test" of run(), in the "run"
               \* loop's body, about to "notify" in enqueue, and in
               \* ~ThreadPool "destroy", "notify_all", "join"; "done"
  g_running,   \* main.cpp's termination flag
  submitted,   \* history: tasks in the order they were enqueued
  started,     \* history: tasks in the order they were popped
  finished     \* history: tasks whose handler has returned

vars == <<tasks, stop, worker, job, main, g_running, submitted, started, finished>>

Elements(s) == {s[i] : i \in DOMAIN s}

Init ==
  /\ tasks = <<>>
  /\ stop = FALSE
  /\ worker = [w \in Workers |-> "ready"]
  /\ job = [w \in Workers |-> NoTask]
  /\ main = "test"
  /\ g_running = TRUE
  /\ submitted = <<>>
  /\ started = <<>>
  /\ finished = {}

-----------------------------------------------------------------------------
(* Faulty variants of the steps below.  No specification uses them: each    *)
(* stands for a plausible bug that one of the properties must catch.       *)

FaultNotifyNone == worker' = worker

FaultNotifyOneOnStop ==
  \E w \in Workers : worker' = [worker EXCEPT ![w] = IF @ = "waiting" THEN "ready" ELSE @]

FaultReturnOnStop == stop

FaultTakeUnchecked(w) ==
  LET front == IF tasks = <<>> THEN NoTask ELSE Head(tasks)
  IN  /\ job' = [job EXCEPT ![w] = front]
      /\ tasks' = IF tasks = <<>> THEN tasks ELSE Tail(tasks)
      /\ started' = Append(started, front)

-----------------------------------------------------------------------------
(* The main thread.                                                        *)

Push(t) ==
  /\ tasks' = Append(tasks, t)
  /\ submitted' = Append(submitted, t)

\* ThreadPool::enqueue up to the release of queue_mutex.
EnqueuePush(t) ==
  /\ main = "run"
  /\ t \notin Elements(submitted)
  /\ Push(t)
  /\ main' = "notify"
  /\ UNCHANGED <<stop, worker, job, g_running, started, finished>>

\* notify_one: one waiting worker, any of them, goes back to its predicate.
NotifyOne ==
  IF \E w \in Workers : worker[w] = "waiting"
  THEN \E w \in Workers : /\ worker[w] = "waiting"
                          /\ worker' = [worker EXCEPT ![w] = "ready"]
  ELSE worker' = worker

\* ThreadPool::enqueue after the release of queue_mutex.
EnqueueNotify ==
  /\ main = "notify"
  /\ NotifyOne
  /\ main' = "run"
  /\ UNCHANGED <<tasks, stop, job, g_running, submitted, started, finished>>

\* SIGINT or SIGTERM: the handler clears the flag.
SignalHandler ==
  /\ g_running
  /\ g_running' = FALSE
  /\ UNCHANGED <<tasks, stop, worker, job, main, submitted, started, finished>>

\* One round of run()'s loop is over: the events of epoll_wait are handled, or
\* a signal interrupted the call (EINTR, continue).
RoundEnds ==
  /\ main = "run"
  /\ main' = "test"
  /\ UNCHANGED <<tasks, stop, worker, job, g_running, submitted, started, finished>>

\* while (true)
LoopCondition == TRUE

LoopTest ==
  /\ main = "test"
  /\ main' = IF LoopCondition THEN "run" ELSE "destroy"
  /\ UNCHANGED <<tasks, stop, worker, job, g_running, submitted, started, finished>>

\* run() leaves its loop on an epoll_wait error other than EINTR, or by an
\* exception that unwinds main's try block.
RunReturns ==
  /\ main = "run"
  /\ main' = "destroy"
  /\ UNCHANGED <<tasks, stop, worker, job, g_running, submitted, started, finished>>

\* ~ThreadPool sets stop under the mutex.
DestroySetStop ==
  /\ main = "destroy"
  /\ stop' = TRUE
  /\ main' = "notify_all"
  /\ UNCHANGED <<tasks, worker, job, g_running, submitted, started, finished>>

WakeAll == worker' = [w \in Workers |-> IF worker[w] = "waiting" THEN "ready" ELSE worker[w]]

DestroyNotifyAll ==
  /\ main = "notify_all"
  /\ WakeAll
  /\ main' = "join"
  /\ UNCHANGED <<tasks, stop, job, g_running, submitted, started, finished>>

\* The join loop of ~ThreadPool: over when every worker has returned.
DestroyJoin ==
  /\ main = "join"
  /\ \A w \in Workers : worker[w] = "exited"
  /\ main' = "done"
  /\ UNCHANGED <<tasks, stop, worker, job, g_running, submitted, started, finished>>

-----------------------------------------------------------------------------
(* A worker thread.                                                        *)

MayReturn == stop /\ tasks = <<>>

\* The predicate of condition.wait is false: release the mutex and block.
WorkerWait(w) ==
  /\ worker[w] = "ready"
  /\ ~stop
  /\ tasks = <<>>
  /\ worker' = [worker EXCEPT ![w] = "waiting"]
  /\ UNCHANGED <<tasks, stop, job, main, g_running, submitted, started, finished>>

\* condition_variable::wait may return without a notification.
SpuriousWakeup(w) ==
  /\ worker[w] = "waiting"
  /\ worker' = [worker EXCEPT ![w] = "ready"]
  /\ UNCHANGED <<tasks, stop, job, main, g_running, submitted, started, finished>>

WorkerReturn(w) ==
  /\ worker[w] = "ready"
  /\ MayReturn
  /\ worker' = [worker EXCEPT ![w] = "exited"]
  /\ UNCHANGED <<tasks, stop, job, main, g_running, submitted, started, finished>>

\* task = move(tasks.front()); tasks.pop()
TakeFront(w) ==
  /\ tasks # <<>>
  /\ job' = [job EXCEPT ![w] = Head(tasks)]
  /\ tasks' = Tail(tasks)
  /\ started' = Append(started, Head(tasks))

WorkerPop(w) ==
  /\ worker[w] = "ready"
  /\ TakeFront(w)
  /\ worker' = [worker EXCEPT ![w] = "running"]
  /\ UNCHANGED <<stop, main, g_running, submitted, finished>>

\* task() returns.  The dispatcher's lambda catches every std::exception, so
\* a failing handler returns too.
WorkerFinish(w) ==
  /\ worker[w] = "running"
  /\ finished' = finished \cup {job[w]}
  /\ job' = [job EXCEPT ![w] = NoTask]
  /\ worker' = [worker EXCEPT ![w] = "ready"]
  /\ UNCHANGED <<tasks, stop, main, g_running, submitted, started>>

\* The process is over.
Terminated == main = "done" /\ UNCHANGED vars

-----------------------------------------------------------------------------
WorkerStep(w) == WorkerWait(w) \/ WorkerReturn(w) \/ WorkerPop(w) \/ WorkerFinish(w)

Destroy == DestroySetStop \/ DestroyNotifyAll \/ DestroyJoin

Next ==
  \/ \E t \in Tasks : EnqueuePush(t)
  \/ EnqueueNotify
  \/ SignalHandler
  \/ RoundEnds
  \/ LoopTest
  \/ RunReturns
  \/ Destroy
  \/ \E w \in Workers : WorkerStep(w)
  \/ \E w \in Workers : SpuriousWakeup(w)
  \/ Terminated

\* Every thread keeps running: the scheduler is fair to a runnable thread and
\* a handler returns.  Nothing makes a request, a signal or an epoll error
\* happen.
Fairness ==
  /\ WF_vars(EnqueueNotify)
  /\ WF_vars(LoopTest)
  /\ WF_vars(Destroy)
  /\ \A w \in Workers : WF_vars(WorkerStep(w))

Spec == Init /\ [][Next]_vars

FairSpec == Spec /\ Fairness

\* Besides, clients keep sending, so that epoll_wait keeps returning.
BusySpec == FairSpec /\ WF_vars(RoundEnds)

-----------------------------------------------------------------------------
TypeOK ==
  /\ tasks \in Seq(Tasks)
  /\ stop \in BOOLEAN
  /\ worker \in [Workers -> {"ready", "waiting", "running", "exited"}]
  /\ job \in [Workers -> Tasks \cup {NoTask}]
  /\ main \in {"test", "run", "notify", "destroy", "notify_all", "join", "done"}
  /\ g_running \in BOOLEAN
  /\ submitted \in Seq(Tasks)
  /\ started \in Seq(Tasks)
  /\ finished \in SUBSET Tasks

\* No lost wake-up: while a task is queued and the main thread is not about to
\* call notify_one, some worker is awake.  The mutex around the predicate and
\* the push is what makes this hold, since notify_one comes after the unlock.
NoLostWakeup ==
  tasks # <<>> /\ main # "notify" => \E w \in Workers : worker[w] \in {"ready", "running"}

Service == INSTANCE TaskService
  WITH accepted <- submitted, begun <- Len(started), serving <- job, done <- finished,
       over <- main = "done"

\* Whatever the workers, the notifications and the destructor do in which order,
\* requests are started in the order the dispatcher accepted them, each by one
\* worker and once, none is lost, and when the destructor is over every one has
\* been handled to the end (the graceful shutdown of ~ThreadPool's comment).
ServiceSpec == Service!Spec

\* Every accepted request is eventually handled.
EveryTaskRuns == \A t \in Tasks : t \in Elements(submitted) ~> t \in finished

\* Once run() is over the destructor ends: no worker sleeps through stop.
ShutdownCompletes == main = "destroy" ~> main = "done"

\* What main.cpp's comments promise of SIGINT and SIGTERM: the loop of run()
\* ends by itself and the pool is cleaned up.
SignalEndsServer == ~g_running ~> main = "done"

=============================================================================
