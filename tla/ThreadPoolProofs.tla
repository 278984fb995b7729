-------------------------- MODULE ThreadPoolProofs --------------------------
(***************************************************************************)
(* The safety properties of ThreadPool for every number of workers and     *)
(* every set of requests.  None of them is inductive by itself: that a     *)
(* task is in one place only needs the submitted tasks to be distinct, and *)
(* a graceful shutdown needs to know in which phases of main() stop holds. *)
(***************************************************************************)
EXTENDS ThreadPool, SequenceTheorems, TLAPS

\* Requests are started in the order the dispatcher accepted them, and the
\* queue and the started tasks together are exactly the accepted ones: none is
\* lost or started twice, whichever worker pops it.
StartedInArrivalOrder == submitted = started \o tasks

Running(w) == worker[w] = "running"

\* A started task is in the hands of exactly one worker or has finished, and
\* never both: two workers never run the same handler call.
OneWorkerPerTask ==
  /\ Elements(started) = finished \cup {job[w] : w \in {v \in Workers : Running(v)}}
  /\ \A w \in Workers : Running(w) => job[w] \notin finished
  /\ \A v, w \in Workers : Running(v) /\ Running(w) /\ v # w => job[v] # job[w]

\* Graceful shutdown (the comment on ~ThreadPool): when the destructor is over
\* every request the server had accepted has been handled to the end.
GracefulShutdown == main = "done" => finished = Elements(submitted)

Distinct == \A i, j \in 1..Len(submitted) : submitted[i] = submitted[j] => i = j

ExitOnlyWhenDrained == \A w \in Workers : worker[w] = "exited" => stop /\ tasks = <<>>

StopPhases == stop <=> main \in {"notify_all", "join", "done"}

JoinedAll == main = "done" => \A w \in Workers : worker[w] = "exited"

IInv ==
  /\ TypeOK
  /\ Distinct
  /\ StartedInArrivalOrder
  /\ OneWorkerPerTask
  /\ NoLostWakeup
  /\ ExitOnlyWhenDrained
  /\ StopPhases
  /\ JoinedAll

-----------------------------------------------------------------------------
(* Facts about sequences.                                                  *)

\* Enqueuing at the back of the queue is appending to the submitted tasks.
LEMMA AppendConcat ==
  ASSUME NEW S, NEW a \in Seq(S), NEW b \in Seq(S), NEW e \in S, NEW c \in Seq(S), c = a \o b
  PROVE  Append(c, e) = a \o Append(b, e)
<1>0. /\ Len(c) = Len(a) + Len(b)
      /\ \A i \in 1..Len(c) : c[i] = IF i <= Len(a) THEN a[i] ELSE b[i - Len(a)]
  OBVIOUS
<1>1. Append(c, e) \in Seq(S) /\ a \o Append(b, e) \in Seq(S)
  OBVIOUS
<1>2. Len(Append(c, e)) = Len(a \o Append(b, e))
  BY <1>0
<1>3. ASSUME NEW i \in 1..Len(Append(c, e))
      PROVE  Append(c, e)[i] = (a \o Append(b, e))[i]
  <2>1. i \in 1..Len(c) \/ i = Len(c) + 1
    OBVIOUS
  <2>2. CASE i \in 1..Len(c)
    BY <1>0, <2>2
  <2>3. CASE i = Len(c) + 1
    BY <1>0, <2>3
  <2> QED BY <2>1, <2>2, <2>3
<1> QED BY <1>1, <1>2, <1>3, SeqEqual

\* Moving the front of the queue to the end of the started tasks keeps their
\* concatenation.
LEMMA MoveHead ==
  ASSUME NEW S, NEW a \in Seq(S), NEW b \in Seq(S), b # <<>>
  PROVE  Append(a, Head(b)) \o Tail(b) = a \o b
<1>1. /\ Append(a, Head(b)) \o Tail(b) \in Seq(S)
      /\ a \o b \in Seq(S)
  OBVIOUS
<1>2. Len(Append(a, Head(b)) \o Tail(b)) = Len(a \o b)
  OBVIOUS
<1>3. ASSUME NEW i \in 1..Len(a \o b)
      PROVE  (Append(a, Head(b)) \o Tail(b))[i] = (a \o b)[i]
  OBVIOUS
<1> QED BY <1>1, <1>2, <1>3, SeqEqual

LEMMA ElementsAppend ==
  ASSUME NEW S, NEW a \in Seq(S), NEW e \in S
  PROVE  Elements(Append(a, e)) = Elements(a) \cup {e}
<1>1. ASSUME NEW x \in Elements(Append(a, e)) PROVE x \in Elements(a) \cup {e}
  <2>1. PICK i \in 1..Len(a) + 1 : x = Append(a, e)[i]
    BY DEF Elements
  <2>2. CASE i \in 1..Len(a)
    BY <2>1, <2>2 DEF Elements
  <2>3. CASE i = Len(a) + 1
    BY <2>1, <2>3
  <2> QED BY <2>1, <2>2, <2>3
<1>2. ASSUME NEW x \in Elements(a) PROVE x \in Elements(Append(a, e))
  <2>1. PICK i \in 1..Len(a) : x = a[i]
    BY DEF Elements
  <2>2. i \in DOMAIN Append(a, e) /\ Append(a, e)[i] = x
    BY <2>1
  <2> QED BY <2>2 DEF Elements
<1>3. e \in Elements(Append(a, e))
  <2>1. Len(a) + 1 \in DOMAIN Append(a, e) /\ Append(a, e)[Len(a) + 1] = e
    OBVIOUS
  <2> QED BY <2>1 DEF Elements
<1> QED BY <1>1, <1>2, <1>3

-----------------------------------------------------------------------------
LEMMA InitIInv == Init => IInv
<1> SUFFICES ASSUME Init PROVE IInv
  OBVIOUS
<1> USE DEF Init
<1>1. TypeOK
  <2>1. tasks \in Seq(Tasks) /\ submitted \in Seq(Tasks) /\ started \in Seq(Tasks)
    OBVIOUS
  <2>2. stop \in BOOLEAN /\ g_running \in BOOLEAN /\ finished \in SUBSET Tasks
    OBVIOUS
  <2>3. worker \in [Workers -> {"ready", "waiting", "running", "exited"}]
    OBVIOUS
  <2>4. job \in [Workers -> Tasks \cup {NoTask}]
    OBVIOUS
  <2> QED BY <2>1, <2>2, <2>3, <2>4 DEF TypeOK
<1>2. Distinct /\ StartedInArrivalOrder
  BY DEF Distinct, StartedInArrivalOrder
<1>3. OneWorkerPerTask
  BY DEF OneWorkerPerTask, Running, Elements
<1>4. NoLostWakeup /\ ExitOnlyWhenDrained /\ StopPhases /\ JoinedAll
  BY DEF NoLostWakeup, ExitOnlyWhenDrained, StopPhases, JoinedAll
<1> QED BY <1>1, <1>2, <1>3, <1>4 DEF IInv

\* The tasks a worker pops and the history change in one way only: the steps
\* that leave queue, jobs and histories alone keep the accounting of tasks.
LEMMA AccountingUnchanged ==
  ASSUME IInv, UNCHANGED <<tasks, job, submitted, started, finished>>,
         \A w \in Workers : Running(w)' <=> Running(w)
  PROVE  Distinct' /\ StartedInArrivalOrder' /\ OneWorkerPerTask'
<1>1. Distinct' /\ StartedInArrivalOrder'
  BY DEF IInv, Distinct, StartedInArrivalOrder
<1>2. {v \in Workers : Running(v)}' = {v \in Workers : Running(v)}
  OBVIOUS
<1>3. OneWorkerPerTask'
  BY <1>2 DEF IInv, OneWorkerPerTask, Elements
<1> QED BY <1>1, <1>3

LEMMA StepEnqueuePush ==
  ASSUME IInv, NEW t \in Tasks, EnqueuePush(t) PROVE IInv'
<1> USE DEF EnqueuePush, Push
<1>1. TypeOK'
  BY DEF IInv, TypeOK
<1>2. Distinct'
  <2> SUFFICES ASSUME NEW i \in 1..Len(submitted)', NEW j \in 1..Len(submitted)',
                      submitted'[i] = submitted'[j]
               PROVE  i = j
    BY DEF Distinct
  <2>1. /\ submitted \in Seq(Tasks) /\ submitted' = Append(submitted, t)
        /\ \A k \in 1..Len(submitted) : submitted[k] # t
    BY DEF IInv, TypeOK, Elements
  <2>2. CASE i \in 1..Len(submitted) /\ j \in 1..Len(submitted)
    BY <2>1, <2>2 DEF IInv, Distinct
  <2>3. CASE i = Len(submitted) + 1 \/ j = Len(submitted) + 1
    BY <2>1, <2>3
  <2> QED BY <2>1, <2>2, <2>3
<1>3. StartedInArrivalOrder'
  <2>1. /\ started \in Seq(Tasks) /\ tasks \in Seq(Tasks) /\ submitted \in Seq(Tasks)
        /\ submitted = started \o tasks
    BY DEF IInv, TypeOK, StartedInArrivalOrder
  <2>2. Append(submitted, t) = started \o Append(tasks, t)
    BY ONLY t \in Tasks, <2>1, AppendConcat, ZenonT(20)
  <2> QED BY <2>1, <2>2 DEF StartedInArrivalOrder
<1>4. OneWorkerPerTask'
  BY DEF IInv, OneWorkerPerTask, Running, Elements
<1>5. NoLostWakeup' /\ ExitOnlyWhenDrained' /\ StopPhases' /\ JoinedAll'
  BY DEF IInv, NoLostWakeup, ExitOnlyWhenDrained, StopPhases, JoinedAll
<1> QED BY <1>1, <1>2, <1>3, <1>4, <1>5 DEF IInv

LEMMA StepEnqueueNotify ==
  ASSUME IInv, EnqueueNotify PROVE IInv'
<1> USE DEF EnqueueNotify, NotifyOne
<1>1. TypeOK'
  BY DEF IInv, TypeOK
<1>2. \A w \in Workers : Running(w)' <=> Running(w)
  BY DEF IInv, TypeOK, Running
<1>3. NoLostWakeup'
  <2>1. ~stop
    BY DEF IInv, StopPhases
  <2>2. \A w \in Workers : worker[w] # "exited"
    BY <2>1 DEF IInv, ExitOnlyWhenDrained
  <2>3. CASE \E w \in Workers : worker[w] = "waiting"
    BY <2>3 DEF IInv, TypeOK, NoLostWakeup
  <2>4. CASE ~\E w \in Workers : worker[w] = "waiting"
    BY <2>2, <2>4, WorkersAssumption DEF IInv, TypeOK, NoLostWakeup
  <2> QED BY <2>3, <2>4
<1>4. ExitOnlyWhenDrained' /\ StopPhases' /\ JoinedAll'
  BY DEF IInv, TypeOK, ExitOnlyWhenDrained, StopPhases, JoinedAll
<1> QED BY <1>1, <1>2, <1>3, <1>4, AccountingUnchanged DEF IInv

\* The main thread's steps that touch neither the queue nor a worker.
LEMMA StepMainOnly ==
  ASSUME IInv, SignalHandler \/ RoundEnds \/ LoopTest \/ RunReturns \/ DestroySetStop
               \/ DestroyJoin
  PROVE  IInv'
<1> USE DEF SignalHandler, RoundEnds, LoopTest, LoopCondition, RunReturns, DestroySetStop, DestroyJoin
<1>1. TypeOK'
  BY DEF IInv, TypeOK
<1>2. \A w \in Workers : Running(w)' <=> Running(w)
  BY DEF Running
<1>3. NoLostWakeup' /\ ExitOnlyWhenDrained' /\ StopPhases' /\ JoinedAll'
  BY DEF IInv, TypeOK, NoLostWakeup, ExitOnlyWhenDrained, StopPhases, JoinedAll
<1> QED BY <1>1, <1>2, <1>3, AccountingUnchanged DEF IInv

LEMMA StepDestroyNotifyAll ==
  ASSUME IInv, DestroyNotifyAll PROVE IInv'
<1> USE DEF DestroyNotifyAll, WakeAll
<1>1. TypeOK'
  BY DEF IInv, TypeOK
<1>2. \A w \in Workers : Running(w)' <=> Running(w)
  BY DEF IInv, TypeOK, Running
<1>3. NoLostWakeup' /\ ExitOnlyWhenDrained' /\ StopPhases' /\ JoinedAll'
  BY DEF IInv, TypeOK, NoLostWakeup, ExitOnlyWhenDrained, StopPhases, JoinedAll
<1> QED BY <1>1, <1>2, <1>3, AccountingUnchanged DEF IInv

\* A worker that goes to sleep, wakes up or returns.
LEMMA StepWorkerState ==
  ASSUME IInv, NEW w \in Workers, WorkerWait(w) \/ SpuriousWakeup(w) \/ WorkerReturn(w)
  PROVE  IInv'
<1> USE DEF WorkerWait, SpuriousWakeup, WorkerReturn, MayReturn
<1>1. TypeOK'
  BY DEF IInv, TypeOK
<1>2. \A v \in Workers : Running(v)' <=> Running(v)
  BY DEF IInv, TypeOK, Running
<1>3. NoLostWakeup' /\ ExitOnlyWhenDrained' /\ StopPhases' /\ JoinedAll'
  BY DEF IInv, TypeOK, NoLostWakeup, ExitOnlyWhenDrained, StopPhases, JoinedAll
<1> QED BY <1>1, <1>2, <1>3, AccountingUnchanged DEF IInv

LEMMA StepWorkerPop ==
  ASSUME IInv, NEW w \in Workers, WorkerPop(w) PROVE IInv'
<1> USE DEF WorkerPop, TakeFront
<1>0. TypeOK /\ tasks # <<>> /\ Head(tasks) \in Tasks
  BY DEF IInv, TypeOK
<1>1. TypeOK'
  BY <1>0 DEF TypeOK
<1>2. Distinct'
  BY DEF IInv, Distinct
<1>3. StartedInArrivalOrder'
  BY <1>0, MoveHead DEF IInv, TypeOK, StartedInArrivalOrder
<1>4. Head(tasks) \notin Elements(started)
  <2> SUFFICES ASSUME NEW i \in 1..Len(started), started[i] = Head(tasks) PROVE FALSE
    BY <1>0 DEF TypeOK, Elements
  <2>1. submitted = started \o tasks /\ Len(tasks) > 0
    BY <1>0 DEF IInv, TypeOK, StartedInArrivalOrder
  <2>2. /\ i \in 1..Len(submitted) /\ Len(started) + 1 \in 1..Len(submitted)
        /\ submitted[i] = started[i] /\ submitted[Len(started) + 1] = Head(tasks)
    BY <1>0, <2>1 DEF TypeOK
  <2> QED BY <1>0, <2>2 DEF IInv, Distinct, TypeOK
<1>5. OneWorkerPerTask'
  <2>1. Elements(started)' = Elements(started) \cup {Head(tasks)}
    BY <1>0, ElementsAppend DEF TypeOK
  <2>2. ~Running(w) /\ Running(w)' /\ job'[w] = Head(tasks)
    BY <1>0 DEF TypeOK, Running
  <2>3. \A v \in Workers \ {w} : (Running(v)' <=> Running(v)) /\ job'[v] = job[v]
    BY <1>0 DEF TypeOK, Running
  <2>4. {job[v] : v \in {u \in Workers : Running(u)}}'
          = {job[v] : v \in {u \in Workers : Running(u)}} \cup {Head(tasks)}
    BY <2>2, <2>3
  <2>5. \A v \in Workers : Running(v) => job[v] \in Elements(started)
    BY DEF IInv, OneWorkerPerTask
  <2>6. finished \subseteq Elements(started) /\ finished' = finished
    BY DEF IInv, OneWorkerPerTask
  <2>7. (Elements(started) = finished \cup {job[v] : v \in {u \in Workers : Running(u)}})'
    BY <2>1, <2>4, <2>6 DEF IInv, OneWorkerPerTask
  <2>8. \A v \in Workers : Running(v)' => job'[v] \notin finished'
    BY <1>4, <2>2, <2>3, <2>6 DEF IInv, OneWorkerPerTask
  <2>9. \A u, v \in Workers : Running(u)' /\ Running(v)' /\ u # v => job'[u] # job'[v]
    BY <1>4, <2>2, <2>3, <2>5 DEF IInv, OneWorkerPerTask
  <2> QED BY <2>7, <2>8, <2>9 DEF OneWorkerPerTask
<1>6. NoLostWakeup' /\ ExitOnlyWhenDrained' /\ StopPhases' /\ JoinedAll'
  BY <1>0 DEF IInv, TypeOK, NoLostWakeup, ExitOnlyWhenDrained, StopPhases, JoinedAll
<1> QED BY <1>1, <1>2, <1>3, <1>5, <1>6 DEF IInv

LEMMA StepWorkerFinish ==
  ASSUME IInv, NEW w \in Workers, WorkerFinish(w) PROVE IInv'
<1> USE DEF WorkerFinish
<1>0. TypeOK
  BY DEF IInv
<1>1. TypeOK'
  <2>1. job[w] \in Elements(started) /\ Elements(started) \subseteq Tasks
    BY DEF IInv, OneWorkerPerTask, Running, TypeOK, Elements
  <2> QED BY <1>0, <2>1 DEF TypeOK
<1>2. Distinct' /\ StartedInArrivalOrder'
  BY DEF IInv, Distinct, StartedInArrivalOrder
<1>3. OneWorkerPerTask'
  <2>1. Running(w) /\ ~Running(w)'
    BY <1>0 DEF TypeOK, Running
  <2>2. \A v \in Workers \ {w} : (Running(v)' <=> Running(v)) /\ job'[v] = job[v]
    BY <1>0 DEF TypeOK, Running
  <2>3. Elements(started)' = Elements(started) /\ finished' = finished \cup {job[w]}
    BY DEF Elements
  <2>4. {job[v] : v \in {u \in Workers : Running(u)}}
          = {job[v] : v \in {u \in Workers : Running(u)}}' \cup {job[w]}
    BY <2>1, <2>2
  <2>5. (Elements(started) = finished \cup {job[v] : v \in {u \in Workers : Running(u)}})'
    BY <2>3, <2>4 DEF IInv, OneWorkerPerTask
  <2>6. \A v \in Workers : Running(v)' => job'[v] \notin finished'
    BY <2>1, <2>2, <2>3 DEF IInv, OneWorkerPerTask
  <2>7. \A u, v \in Workers : Running(u)' /\ Running(v)' /\ u # v => job'[u] # job'[v]
    BY <2>1, <2>2 DEF IInv, OneWorkerPerTask
  <2> QED BY <2>5, <2>6, <2>7 DEF OneWorkerPerTask
<1>4. NoLostWakeup' /\ ExitOnlyWhenDrained' /\ StopPhases' /\ JoinedAll'
  BY <1>0 DEF IInv, TypeOK, NoLostWakeup, ExitOnlyWhenDrained, StopPhases, JoinedAll
<1> QED BY <1>1, <1>2, <1>3, <1>4 DEF IInv

\* The inductive invariant: every part of IInv is preserved by every step.
THEOREM Invariance == Spec => []IInv
<1>1. IInv /\ [Next]_vars => IInv'
  <2> SUFFICES ASSUME IInv, [Next]_vars PROVE IInv'
    OBVIOUS
  <2>1. CASE UNCHANGED vars
    BY <2>1 DEF vars, IInv, TypeOK, Distinct, StartedInArrivalOrder, OneWorkerPerTask, Running,
                Elements, NoLostWakeup, ExitOnlyWhenDrained, StopPhases, JoinedAll
  <2>2. ASSUME NEW t \in Tasks, EnqueuePush(t) PROVE IInv'
    BY <2>2, StepEnqueuePush
  <2>3. CASE EnqueueNotify
    BY <2>3, StepEnqueueNotify
  <2>4. CASE SignalHandler \/ RoundEnds \/ LoopTest \/ RunReturns
    BY <2>4, StepMainOnly
  <2>5. CASE Destroy
    BY <2>5, StepMainOnly, StepDestroyNotifyAll DEF Destroy
  <2>6. ASSUME NEW w \in Workers, WorkerStep(w) \/ SpuriousWakeup(w) PROVE IInv'
    BY <2>6, StepWorkerState, StepWorkerPop, StepWorkerFinish DEF WorkerStep
  <2> QED BY <2>1, <2>2, <2>3, <2>4, <2>5, <2>6 DEF Next, Terminated
<1> QED BY <1>1, InitIInv, PTL DEF Spec

\* Every variable keeps its type.
THEOREM TypeCorrect == Spec => []TypeOK
BY Invariance, PTL DEF IInv

\* Requests start in arrival order and none is lost or started twice, for any
\* number of workers.
THEOREM ArrivalOrder == Spec => []StartedInArrivalOrder
BY Invariance, PTL DEF IInv

\* A started request is run by exactly one worker or is finished.
THEOREM ExactlyOneWorker == Spec => []OneWorkerPerTask
BY Invariance, PTL DEF IInv

\* Notifying after the unlock loses no wake-up.
THEOREM WakeupNotLost == Spec => []NoLostWakeup
BY Invariance, PTL DEF IInv

\* Workers return only from an empty queue, with nothing in their hands.
LEMMA AllExitedAllDone ==
  ASSUME IInv, \A w \in Workers : worker[w] = "exited"
  PROVE  finished = Elements(submitted)
<1>1. tasks = <<>>
  BY WorkersAssumption DEF IInv, ExitOnlyWhenDrained
<1>2. submitted = started
  BY <1>1 DEF IInv, StartedInArrivalOrder, TypeOK
<1>3. {v \in Workers : Running(v)} = {}
  BY DEF Running
<1> QED BY <1>2, <1>3 DEF IInv, OneWorkerPerTask, Elements

\* When ~ThreadPool is over, every accepted request has been handled.
THEOREM Graceful == Spec => []GracefulShutdown
<1>1. IInv => GracefulShutdown
  BY AllExitedAllDone DEF IInv, JoinedAll, GracefulShutdown
<1> QED BY <1>1, Invariance, PTL

\* While the destructor joins, and after it, no worker sleeps on the condition.
NobodySleeps == main \in {"join", "done"} => \A w \in Workers : worker[w] # "waiting"

\* The safety half of ShutdownCompletes: once the destructor joins its workers
\* none of them sleeps on the condition or will again, because stop was set under
\* the mutex before the notification.
THEOREM StopIsHeard == Spec => []NobodySleeps
<1>1. Init => NobodySleeps
  BY DEF Init, NobodySleeps
<1>2. IInv /\ NobodySleeps /\ [Next]_vars => NobodySleeps'
  <2> SUFFICES ASSUME IInv, NobodySleeps, [Next]_vars, main' \in {"join", "done"},
                      NEW v \in Workers
               PROVE  worker'[v] # "waiting"
    BY DEF NobodySleeps
  <2> USE DEF NobodySleeps
  <2>0. /\ worker \in [Workers -> {"ready", "waiting", "running", "exited"}]
        /\ stop <=> main \in {"notify_all", "join", "done"}
    BY DEF IInv, TypeOK, StopPhases
  <2>1. CASE UNCHANGED vars
    BY <2>1 DEF vars
  <2>2. ASSUME NEW t \in Tasks, EnqueuePush(t) PROVE FALSE
    BY <2>2 DEF EnqueuePush
  <2>3. CASE EnqueueNotify \/ RoundEnds \/ LoopTest \/ RunReturns
    BY <2>3 DEF EnqueueNotify, RoundEnds, LoopTest, RunReturns
  <2>4. CASE SignalHandler
    BY <2>4 DEF SignalHandler
  <2>5. CASE Destroy
    BY <2>0, <2>5 DEF Destroy, DestroySetStop, DestroyNotifyAll, WakeAll, DestroyJoin
  <2>6. ASSUME NEW w \in Workers, WorkerStep(w) \/ SpuriousWakeup(w)
        PROVE  worker'[v] # "waiting"
    BY <2>0, <2>6 DEF WorkerStep, WorkerWait, WorkerReturn, WorkerPop, TakeFront, WorkerFinish,
                      SpuriousWakeup
  <2> QED BY <2>1, <2>2, <2>3, <2>4, <2>5, <2>6 DEF Next, Terminated
<1> QED BY <1>1, <1>2, Invariance, PTL DEF Spec

-----------------------------------------------------------------------------
(* Refinement.                                                             *)

\* A worker keeps a task in hand only while it runs it.
EmptyHanded == \A w \in Workers : ~Running(w) => job[w] = NoTask

\* A worker that runs no task has dropped the last one.
THEOREM HandsAreEmpty == Spec => []EmptyHanded
<1>1. Init => EmptyHanded
  BY DEF Init, EmptyHanded
<1>2. IInv /\ EmptyHanded /\ [Next]_vars => EmptyHanded'
  <2> SUFFICES ASSUME IInv, EmptyHanded, [Next]_vars, NEW v \in Workers, ~Running(v)'
               PROVE  job'[v] = NoTask
    BY DEF EmptyHanded
  <2> USE DEF EmptyHanded, Running
  <2>0. /\ worker \in [Workers -> {"ready", "waiting", "running", "exited"}]
        /\ job \in [Workers -> Tasks \cup {NoTask}]
    BY DEF IInv, TypeOK
  <2>1. CASE UNCHANGED vars
    BY <2>1 DEF vars
  <2>2. ASSUME NEW t \in Tasks, EnqueuePush(t) PROVE job'[v] = NoTask
    BY <2>2 DEF EnqueuePush
  <2>3. CASE EnqueueNotify
    BY <2>0, <2>3 DEF EnqueueNotify, NotifyOne
  <2>4. CASE SignalHandler \/ RoundEnds \/ LoopTest \/ RunReturns
    BY <2>4 DEF SignalHandler, RoundEnds, LoopTest, RunReturns
  <2>5. CASE Destroy
    BY <2>0, <2>5 DEF Destroy, DestroySetStop, DestroyNotifyAll, WakeAll, DestroyJoin
  <2>6. ASSUME NEW w \in Workers, WorkerStep(w) \/ SpuriousWakeup(w) PROVE job'[v] = NoTask
    BY <2>0, <2>6 DEF WorkerStep, WorkerWait, WorkerReturn, WorkerPop, TakeFront, WorkerFinish,
                      SpuriousWakeup
  <2> QED BY <2>1, <2>2, <2>3, <2>4, <2>5, <2>6 DEF Next, Terminated
<1> QED BY <1>1, <1>2, Invariance, PTL DEF Spec

\* The front of the queue is the oldest submitted task that is not started.
LEMMA FrontIsNext ==
  ASSUME IInv, tasks # <<>>
  PROVE  Len(started) < Len(submitted) /\ Head(tasks) = submitted[Len(started) + 1]
<1>1. tasks \in Seq(Tasks) /\ started \in Seq(Tasks) /\ submitted = started \o tasks
  BY DEF IInv, TypeOK, StartedInArrivalOrder
<1>2. Len(tasks) > 0 /\ Len(submitted) = Len(started) + Len(tasks)
  BY <1>1
<1> QED BY <1>1, <1>2

LEMMA ServiceStep == IInv /\ EmptyHanded /\ [Next]_vars
                       => [Service!Next]_(Service!service)
<1> SUFFICES ASSUME IInv, EmptyHanded, [Next]_vars
             PROVE  Service!Next \/ UNCHANGED Service!service
  OBVIOUS
<1> DEFINE Same == UNCHANGED <<submitted, started, job, finished>> /\ (main' = "done" <=> main = "done")
<1>0. /\ tasks \in Seq(Tasks) /\ started \in Seq(Tasks) /\ submitted \in Seq(Tasks)
      /\ job \in [Workers -> Tasks \cup {NoTask}]
  BY DEF IInv, TypeOK
<1>1. Elements(submitted) = Service!Accepted
  BY <1>0 DEF Elements, Service!Accepted
<1>2. ASSUME Same PROVE UNCHANGED Service!service
  <2>1. Len(started') = Len(started) /\ (main' = "done") = (main = "done")
    BY <1>2
  <2> QED BY <1>2, <2>1 DEF Service!service
<1>3. ASSUME NEW t \in Tasks, EnqueuePush(t) PROVE Service!Accept(t)
  BY <1>1, <1>3 DEF EnqueuePush, Push, Service!Accept
<1>4. ASSUME NEW w \in Workers, WorkerPop(w) PROVE Service!Serve(w)
  <2>1. tasks # <<>> /\ started' = Append(started, Head(tasks)) /\ main' = main
    BY <1>4 DEF WorkerPop, TakeFront
  <2>2. Len(started) < Len(submitted) /\ Head(tasks) = submitted[Len(started) + 1]
    BY <2>1, FrontIsNext
  <2>3. Len(started') = Len(started) + 1
    BY <1>0, <2>1
  <2>4. job[w] = NoTask
    BY <1>4 DEF WorkerPop, EmptyHanded, Running
  <2>5. job' = [job EXCEPT ![w] = submitted[Len(started) + 1]]
    BY <1>4, <2>2 DEF WorkerPop, TakeFront
  <2> QED BY <1>4, <2>1, <2>2, <2>3, <2>4, <2>5 DEF WorkerPop, Service!Serve
<1>5. ASSUME NEW w \in Workers, WorkerFinish(w) PROVE Service!Complete(w)
  <2>1. Running(w)
    BY <1>5 DEF WorkerFinish, Running
  <2>2. job[w] \in Elements(started) /\ job[w] \notin finished
    BY <2>1 DEF IInv, OneWorkerPerTask
  <2>3. job[w] \in Elements(submitted)
    <3>1. PICK i \in 1..Len(started) : job[w] = started[i]
      BY <1>0, <2>2 DEF Elements
    <3>2. submitted = started \o tasks
      BY DEF IInv, StartedInArrivalOrder
    <3>3. i \in DOMAIN submitted /\ submitted[i] = job[w]
      BY <1>0, <3>1, <3>2
    <3> QED BY <3>3 DEF Elements
  <2> QED BY <1>1, <1>5, <2>2, <2>3 DEF WorkerFinish, Service!Complete
<1>6. CASE DestroyJoin
  <2>1. finished = Elements(submitted)
    BY <1>6, AllExitedAllDone DEF DestroyJoin
  <2> QED BY <1>1, <1>6, <2>1 DEF DestroyJoin, Service!Next, Service!End
<1>7. CASE UNCHANGED vars
  BY <1>2, <1>7 DEF vars
<1>8. CASE EnqueueNotify \/ SignalHandler \/ RoundEnds \/ LoopTest \/ RunReturns
  BY <1>2, <1>8 DEF EnqueueNotify, SignalHandler, RoundEnds, LoopTest, RunReturns
<1>9. CASE DestroySetStop \/ DestroyNotifyAll
  BY <1>2, <1>9 DEF DestroySetStop, DestroyNotifyAll
<1>10. ASSUME NEW w \in Workers, WorkerWait(w) \/ WorkerReturn(w) \/ SpuriousWakeup(w) PROVE Same
  BY <1>10 DEF WorkerWait, WorkerReturn, SpuriousWakeup
<1> HIDE DEF Same
<1> QED
  BY <1>2, <1>3, <1>4, <1>5, <1>6, <1>7, <1>8, <1>9, <1>10
     DEF Next, Destroy, WorkerStep, Terminated, Service!Next

\* The pool with its mutex, condition variable and destructor implements the
\* service: whatever it does is accepting, serving in order, completing once,
\* or ending when nothing is left, for any number of workers and requests.
THEOREM ImplementsService == Spec => ServiceSpec
<1>1. Init => Service!Init
  BY DEF Init, Service!Init
<1> QED
  BY <1>1, ServiceStep, Invariance, HandsAreEmpty, PTL DEF Spec, ServiceSpec, Service!Spec
=============================================================================
