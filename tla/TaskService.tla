----------------------------- MODULE TaskService -----------------------------
(***************************************************************************)
(* What the worker pool promises the dispatcher, with no queue, mutex or   *)
(* condition: accepted requests are served in the order of acceptance,     *)
(* each once and by one worker, and the service is over only when every    *)
(* accepted request is done.                                               *)
(***************************************************************************)
EXTENDS Naturals, Sequences

CONSTANTS Workers, Tasks, NoTask

VARIABLES
  accepted,  \* the requests, in the order of acceptance
  begun,     \* how many of them have been begun
  serving,   \* per worker: the request it serves, or NoTask
  done,      \* the requests served to the end
  over       \* the service has ended

service == <<accepted, begun, serving, done, over>>

Accepted == {accepted[i] : i \in 1..Len(accepted)}

Init ==
  /\ accepted = <<>>
  /\ begun = 0
  /\ serving = [w \in Workers |-> NoTask]
  /\ done = {}
  /\ over = FALSE

Accept(t) ==
  /\ ~over
  /\ t \notin Accepted
  /\ accepted' = Append(accepted, t)
  /\ UNCHANGED <<begun, serving, done, over>>

\* The oldest request nobody has begun.
Serve(w) ==
  /\ serving[w] = NoTask
  /\ begun < Len(accepted)
  /\ begun' = begun + 1
  /\ serving' = [serving EXCEPT ![w] = accepted[begun + 1]]
  /\ UNCHANGED <<accepted, done, over>>

Complete(w) ==
  /\ serving[w] \in Accepted \ done
  /\ done' = done \cup {serving[w]}
  /\ serving' = [serving EXCEPT ![w] = NoTask]
  /\ UNCHANGED <<accepted, begun, over>>

End ==
  /\ done = Accepted
  /\ over' = TRUE
  /\ UNCHANGED <<accepted, begun, serving, done>>

Next ==
  \/ \E t \in Tasks : Accept(t)
  \/ \E w \in Workers : Serve(w) \/ Complete(w)
  \/ End

Spec == Init /\ [][Next]_service
=============================================================================
