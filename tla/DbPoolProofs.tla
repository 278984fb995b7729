----------------------------- MODULE DbPoolProofs -----------------------------
(***************************************************************************)
(* The connection pool for every number of workers and every pool size.    *)
(* The main result is the sizing rule: with more connections than threads  *)
(* nested checkouts cannot deadlock.  It rests on the conservation of      *)
(* connections, which in turn needs to know in which phase a thread may    *)
(* hold which connection (PhaseHold).                                      *)
(***************************************************************************)
EXTENDS DbPool, FiniteSetTheorems, TLAPS

\* What a thread holds in each phase of its request.
PhaseHold ==
  \A t \in Threads :
    /\ inner[t] # NoConn => outer[t] # NoConn /\ phase[t] = "use"
    /\ phase[t] = "use" => outer[t] # NoConn
    /\ phase[t] = "idle" => outer[t] = NoConn

\* c stands at position i of the pool, is the handler's or the DAO's of a thread.
InPool(c) == \E i \in 1..Len(connectionPool) : connectionPool[i] = c
HeldOuter(c) == \E t \in Threads : outer[t] = c
HeldInner(c) == \E t \in Threads : inner[t] = c

\* No connection is leaked or shared: each one init() opened is either in the
\* pool, at one position, or held once by one thread, also after a failed
\* reconnect and however a handler ends.
ConnectionConservation ==
  /\ \A c \in Opened : InPool(c) \/ HeldOuter(c) \/ HeldInner(c)
  /\ \A c \in Opened : ~(InPool(c) /\ (HeldOuter(c) \/ HeldInner(c)))
  /\ \A c \in Opened : ~(HeldOuter(c) /\ HeldInner(c))
  /\ \A i, j \in 1..Len(connectionPool) : connectionPool[i] = connectionPool[j] => i = j
  /\ \A s, t \in Threads : s # t /\ outer[s] # NoConn => outer[s] # outer[t]
  /\ \A s, t \in Threads : s # t /\ inner[s] # NoConn => inner[s] # inner[t]

IInv == TypeOK /\ PhaseHold /\ ConnectionConservation /\ NoLostWakeup

-----------------------------------------------------------------------------
(* Facts about the queue of connections.                                   *)

In(s, d) == \E i \in 1..Len(s) : s[i] = d
NoRepeat(s) == \A i, j \in 1..Len(s) : s[i] = s[j] => i = j

\* Taking the front of a queue without repetitions removes that element only.
LEMMA TailQueue ==
  ASSUME NEW S, NEW s \in Seq(S), s # <<>>, NoRepeat(s)
  PROVE  /\ Head(s) \in S /\ In(s, Head(s))
         /\ NoRepeat(Tail(s))
         /\ \A d : In(Tail(s), d) <=> In(s, d) /\ d # Head(s)
<1> USE DEF In, NoRepeat
<1>1. Head(s) = s[1] /\ Len(s) >= 1 /\ Len(Tail(s)) = Len(s) - 1
  OBVIOUS
<1>2. \A i \in 1..Len(Tail(s)) : Tail(s)[i] = s[i + 1]
  OBVIOUS
<1>3. Head(s) \in S /\ In(s, Head(s))
  BY <1>1
<1>4. NoRepeat(Tail(s))
  BY <1>1, <1>2
<1>5. ASSUME NEW d, In(Tail(s), d) PROVE In(s, d) /\ d # Head(s)
  <2>1. PICK i \in 1..Len(Tail(s)) : Tail(s)[i] = d
    BY <1>5
  <2>2. i + 1 \in 1..Len(s) /\ s[i + 1] = d /\ i + 1 # 1 /\ 1 \in 1..Len(s)
    BY <2>1, <1>1, <1>2
  <2> QED BY <2>2, <1>1
<1>6. ASSUME NEW d, In(s, d), d # Head(s) PROVE In(Tail(s), d)
  <2>1. PICK i \in 1..Len(s) : s[i] = d
    BY <1>6
  <2>2. i # 1 /\ i - 1 \in 1..Len(Tail(s)) /\ Tail(s)[i - 1] = d
    BY <2>1, <1>1, <1>2, <1>6
  <2> QED BY <2>2
<1> QED BY <1>3, <1>4, <1>5, <1>6

\* Giving back a connection that is not in the queue adds that element only.
LEMMA AppendQueue ==
  ASSUME NEW S, NEW s \in Seq(S), NEW c \in S, NoRepeat(s), ~In(s, c)
  PROVE  /\ NoRepeat(Append(s, c))
         /\ \A d : In(Append(s, c), d) <=> In(s, d) \/ d = c
<1> USE DEF In, NoRepeat
<1>1. /\ Len(Append(s, c)) = Len(s) + 1
      /\ \A i \in 1..Len(s) : Append(s, c)[i] = s[i]
      /\ Append(s, c)[Len(s) + 1] = c
  OBVIOUS
<1>2. NoRepeat(Append(s, c))
  BY <1>1
<1>3. ASSUME NEW d, In(Append(s, c), d) PROVE In(s, d) \/ d = c
  BY <1>1, <1>3
<1>4. ASSUME NEW d, In(s, d) \/ d = c PROVE In(Append(s, c), d)
  <2>1. CASE In(s, d)
    BY <1>1, <2>1
  <2>2. CASE d = c
    <3>1. Len(s) + 1 \in 1..Len(Append(s, c))
      BY <1>1
    <3> QED BY <1>1, <2>2, <3>1
  <2> QED BY <1>4, <2>1, <2>2
<1> QED BY <1>2, <1>3, <1>4

-----------------------------------------------------------------------------
(* The threads that are on their way to take a connection.                 *)

Taking == {t \in Threads : phase[t] = "lock"}

LEMMA ThreadsFinite == IsFiniteSet(Threads)
BY ThreadsAssumption, FS_AddElement DEF Threads

LEMMA TakingFinite == IsFiniteSet(Taking) /\ Cardinality(Taking) \in Nat
<1>1. Taking \subseteq Threads
  BY DEF Taking
<1> QED BY <1>1, ThreadsFinite, FS_Subset, FS_CardinalityType

LEMMA InitIInv == Init => IInv
<1> SUFFICES ASSUME Init PROVE IInv
  OBVIOUS
<1> USE DEF Init
<1>0. poolSize \in Nat \ {0}
  BY BoundsAssumption
<1>1. TypeOK
  <2>1. connectionPool \in Seq(Opened)
    BY <1>0 DEF Opened
  <2> QED BY <1>0, <2>1, BoundsAssumption DEF TypeOK, Phases, Opened, NoConn
<1>2. PhaseHold
  BY DEF PhaseHold, NoConn
<1>3. ConnectionConservation
  <2>1. Len(connectionPool) = poolSize /\ \A i \in 1..poolSize : connectionPool[i] = i
    BY <1>0
  <2>2. \A c \in Opened : InPool(c) /\ ~HeldOuter(c) /\ ~HeldInner(c)
    BY <1>0, <2>1 DEF Opened, InPool, HeldOuter, HeldInner, NoConn
  <2> QED BY <2>1, <2>2 DEF ConnectionConservation
<1>4. NoLostWakeup
  BY DEF NoLostWakeup
<1> QED BY <1>1, <1>2, <1>3, <1>4 DEF IInv

\* Conservation depends on the queue and on who holds what, nothing else.
LEMMA ConservationUnchanged ==
  ASSUME IInv, UNCHANGED <<poolSize, connectionPool, outer, inner>>
  PROVE  ConnectionConservation'
BY DEF IInv, ConnectionConservation, InPool, HeldOuter, HeldInner, Opened

\* Steps that only move threads towards the pool lose no wake-up.
LEMMA WakeupMonotone ==
  ASSUME IInv, UNCHANGED connectionPool,
         \A t \in Threads : phase'[t] = "wait" => phase[t] = "wait",
         \A t \in Threads : phase[t] = "lock" => phase'[t] = "lock"
  PROVE  NoLostWakeup'
<1>1. Taking \subseteq Taking' /\ Taking' \subseteq Threads
  BY DEF Taking
<1>2. IsFiniteSet(Taking') /\ Cardinality(Taking) <= Cardinality(Taking') /\ Cardinality(Taking') \in Nat
  BY <1>1, ThreadsFinite, FS_Subset, FS_CardinalityType
<1>3. Len(connectionPool) \in Nat
  BY DEF IInv, TypeOK
<1>4. Len(connectionPool') = Len(connectionPool)
  OBVIOUS
<1> QED BY <1>2, <1>3, <1>4, TakingFinite DEF IInv, NoLostWakeup, Taking

LEMMA StepBegin ==
  ASSUME IInv, NEW t \in Threads, NEW n \in 0..MaxInner, BeginRequest(t, n)
  PROVE  IInv'
<1> USE DEF BeginRequest
<1>1. TypeOK'
  BY BoundsAssumption DEF IInv, TypeOK, Phases, Opened
<1>2. PhaseHold'
  BY DEF IInv, TypeOK, PhaseHold
<1>3. NoLostWakeup'
  BY WakeupMonotone DEF IInv, TypeOK
<1> QED BY <1>1, <1>2, <1>3, ConservationUnchanged DEF IInv

LEMMA StepBlock ==
  ASSUME IInv, NEW t \in Threads, BlockOnPool(t) PROVE IInv'
<1> USE DEF BlockOnPool
<1>1. TypeOK'
  BY DEF IInv, TypeOK, Phases, Opened
<1>2. PhaseHold'
  BY DEF IInv, TypeOK, PhaseHold
<1>3. NoLostWakeup'
  <2>1. Len(connectionPool') = 0
    OBVIOUS
  <2>2. Taking' \subseteq Threads
    BY DEF Taking
  <2>3. Cardinality(Taking') \in Nat
    BY <2>2, ThreadsFinite, FS_Subset, FS_CardinalityType
  <2> QED BY <2>1, <2>3 DEF NoLostWakeup, Taking
<1> QED BY <1>1, <1>2, <1>3, ConservationUnchanged DEF IInv

LEMMA StepSpurious ==
  ASSUME IInv, NEW t \in Threads, SpuriousWakeup(t) PROVE IInv'
<1> USE DEF SpuriousWakeup
<1>1. TypeOK'
  BY DEF IInv, TypeOK, Phases, Opened
<1>2. PhaseHold'
  BY DEF IInv, TypeOK, PhaseHold
<1>3. NoLostWakeup'
  BY WakeupMonotone DEF IInv, TypeOK
<1> QED BY <1>1, <1>2, <1>3, ConservationUnchanged DEF IInv

LEMMA StepCallDao ==
  ASSUME IInv, NEW t \in Threads, CallDao(t) PROVE IInv'
<1> USE DEF CallDao
<1>1. TypeOK'
  BY BoundsAssumption DEF IInv, TypeOK, Phases, Opened
<1>2. PhaseHold'
  BY DEF IInv, TypeOK, PhaseHold
<1>3. NoLostWakeup'
  BY WakeupMonotone DEF IInv, TypeOK
<1> QED BY <1>1, <1>2, <1>3, ConservationUnchanged DEF IInv

LEMMA StepLinkLost ==
  ASSUME IInv, NEW c \in Opened, LinkLost(c) PROVE IInv'
<1> USE DEF LinkLost
<1>1. TypeOK'
  BY DEF IInv, TypeOK, Phases, Opened
<1>2. PhaseHold'
  BY DEF IInv, PhaseHold
<1>3. NoLostWakeup'
  BY WakeupMonotone
<1> QED BY <1>1, <1>2, <1>3, ConservationUnchanged DEF IInv

LEMMA StepGetConnection ==
  ASSUME IInv, NEW t \in Threads, GetConnection(t) PROVE IInv'
<1> DEFINE c == Head(connectionPool)
<1>0. TypeOK /\ PhaseHold /\ ConnectionConservation /\ NoRepeat(connectionPool)
  BY DEF IInv, ConnectionConservation, NoRepeat
<1>1. /\ phase[t] = "lock" /\ connectionPool # <<>>
      /\ connectionPool' = Tail(connectionPool)
      /\ phase' = [phase EXCEPT ![t] = "use"]
      /\ poolSize' = poolSize /\ left' = left
      /\ alive' = alive \/ alive' = alive \cup {c}
  BY DEF GetConnection, Revive
<1>2. /\ c \in Opened /\ In(connectionPool, c)
      /\ NoRepeat(connectionPool')
      /\ \A d : In(connectionPool', d) <=> In(connectionPool, d) /\ d # c
  BY <1>0, <1>1, TailQueue DEF TypeOK
<1>3. c # NoConn /\ Opened' = Opened
  BY <1>0, <1>1, <1>2 DEF TypeOK, Opened, NoConn
<1>4. inner[t] = NoConn
  BY <1>0, <1>1 DEF PhaseHold
<1>5. \/ outer[t] = NoConn /\ outer' = [outer EXCEPT ![t] = c] /\ inner' = inner
      \/ outer[t] # NoConn /\ inner' = [inner EXCEPT ![t] = c] /\ outer' = outer
  BY DEF GetConnection
<1>6. ~HeldOuter(c) /\ ~HeldInner(c)
  BY <1>0, <1>2 DEF ConnectionConservation, InPool, In
<1>7. TypeOK'
  <2>1. connectionPool' \in Seq(Opened)
    BY <1>0, <1>1 DEF TypeOK
  <2>2. alive' \in SUBSET Opened
    BY <1>0, <1>1, <1>2 DEF TypeOK
  <2>3. outer' \in [Threads -> Opened \cup {NoConn}] /\ inner' \in [Threads -> Opened \cup {NoConn}]
    BY <1>0, <1>2, <1>5 DEF TypeOK
  <2>4. phase' \in [Threads -> Phases]
    BY <1>0, <1>1 DEF TypeOK, Phases
  <2> QED BY <1>0, <1>1, <1>3, <2>1, <2>2, <2>3, <2>4 DEF TypeOK
<1>8. PhaseHold'
  BY <1>0, <1>1, <1>3, <1>4, <1>5 DEF TypeOK, PhaseHold
<1>9. ConnectionConservation'
  <2>1. \A d \in Opened : InPool(d)' <=> InPool(d) /\ d # c
    BY <1>2 DEF InPool, In
  <2>2. \A d \in Opened : (HeldOuter(d) \/ HeldInner(d))' <=> HeldOuter(d) \/ HeldInner(d) \/ d = c
    <3>1. CASE outer[t] = NoConn /\ outer' = [outer EXCEPT ![t] = c] /\ inner' = inner
      BY <1>0, <1>3, <3>1 DEF HeldOuter, HeldInner, TypeOK, Opened, NoConn
    <3>2. CASE outer[t] # NoConn /\ inner' = [inner EXCEPT ![t] = c] /\ outer' = outer
      BY <1>0, <1>3, <1>4, <3>2 DEF HeldOuter, HeldInner, TypeOK, Opened, NoConn
    <3> QED BY <1>5, <3>1, <3>2
  <2>3. \A d \in Opened : ~(HeldOuter(d)' /\ HeldInner(d)')
    <3>1. CASE outer[t] = NoConn /\ outer' = [outer EXCEPT ![t] = c] /\ inner' = inner
      BY <1>0, <1>6, <3>1 DEF ConnectionConservation, HeldOuter, HeldInner, TypeOK
    <3>2. CASE outer[t] # NoConn /\ inner' = [inner EXCEPT ![t] = c] /\ outer' = outer
      BY <1>0, <1>6, <3>2, SMTT(30) DEF ConnectionConservation, HeldOuter, HeldInner, TypeOK
    <3> QED BY <1>5, <3>1, <3>2
  <2>4. \A u, v \in Threads : u # v /\ outer'[u] # NoConn => outer'[u] # outer'[v]
    <3>1. \A u \in Threads : outer[u] # c
      BY <1>6 DEF HeldOuter
    <3>2. outer' = outer \/ outer' = [outer EXCEPT ![t] = c]
      BY <1>5
    <3>3. \A u, v \in Threads : u # v /\ outer[u] # NoConn => outer[u] # outer[v]
      BY <1>0 DEF ConnectionConservation
    <3>4. outer \in [Threads -> Opened \cup {NoConn}]
      BY <1>0 DEF TypeOK
    <3> HIDE DEF c
    <3> QED BY <3>1, <3>2, <3>3, <3>4
  <2>5. \A u, v \in Threads : u # v /\ inner'[u] # NoConn => inner'[u] # inner'[v]
    <3>1. \A u \in Threads : inner[u] # c
      BY <1>6 DEF HeldInner
    <3>2. inner' = inner \/ inner' = [inner EXCEPT ![t] = c]
      BY <1>5
    <3>3. \A u, v \in Threads : u # v /\ inner[u] # NoConn => inner[u] # inner[v]
      BY <1>0 DEF ConnectionConservation
    <3>4. inner \in [Threads -> Opened \cup {NoConn}]
      BY <1>0 DEF TypeOK
    <3> HIDE DEF c
    <3> QED BY <3>1, <3>2, <3>3, <3>4
  <2>6. \A d \in Opened : InPool(d) \/ HeldOuter(d) \/ HeldInner(d)
    BY <1>0 DEF ConnectionConservation
  <2>7. \A d \in Opened : ~(InPool(d) /\ (HeldOuter(d) \/ HeldInner(d)))
    BY <1>0 DEF ConnectionConservation
  <2>8. \A i, j \in 1..Len(connectionPool') : connectionPool'[i] = connectionPool'[j] => i = j
    BY <1>2 DEF NoRepeat
  <2> QED
    BY <1>3, <2>1, <2>2, <2>3, <2>4, <2>5, <2>6, <2>7, <2>8 DEF ConnectionConservation
<1>10. NoLostWakeup'
  <2>1. Taking' = Taking \ {t} /\ t \in Taking
    BY <1>0, <1>1 DEF Taking, TypeOK
  <2>2. Cardinality(Taking') = Cardinality(Taking) - 1
    BY <2>1, TakingFinite, FS_RemoveElement
  <2>3. Len(connectionPool') = Len(connectionPool) - 1 /\ Len(connectionPool) \in Nat
    BY <1>0, <1>1 DEF TypeOK
  <2>4. (\E u \in Threads : phase'[u] = "wait") => \E u \in Threads : phase[u] = "wait"
    BY <1>0, <1>1 DEF TypeOK
  <2> QED BY <2>2, <2>3, <2>4, TakingFinite DEF IInv, NoLostWakeup, Taking
<1> QED BY <1>7, <1>8, <1>9, <1>10 DEF IInv

\* notify_one wakes a waiter if there is one, so the pushed connection has a
\* taker.
LEMMA ReleaseWakes ==
  ASSUME IInv, NEW t \in Threads, NEW c \in Opened, phase[t] = "use", Release(t, c)
  PROVE  /\ NoLostWakeup'
         /\ phase' \in [Threads -> Phases]
         /\ phase'[t] = IF inner[t] = c THEN "use" ELSE "idle"
         /\ \A u \in Threads \ {t} : phase'[u] = phase[u] \/ (phase[u] = "wait" /\ phase'[u] = "lock")
<1> DEFINE p == IF inner[t] = c THEN "use" ELSE "idle"
<1>0. TypeOK /\ Len(connectionPool) \in Nat
  BY DEF IInv, TypeOK
<1>1. Len(connectionPool') = Len(connectionPool) + 1
  BY <1>0 DEF Release, TypeOK
<1>2. CASE \E w \in Threads : phase[w] = "wait"
  <2>1. PICK w \in Threads : phase[w] = "wait" /\ phase' = [phase EXCEPT ![w] = "lock", ![t] = p]
    BY <1>2 DEF Release, NotifyOne
  <2>2. w # t /\ Taking' = Taking \cup {w} /\ w \notin Taking
    BY <1>0, <2>1 DEF Taking, TypeOK
  <2>3. Cardinality(Taking') = Cardinality(Taking) + 1
    BY <2>2, TakingFinite, FS_AddElement
  <2>4. Len(connectionPool) <= Cardinality(Taking)
    BY <1>2 DEF IInv, NoLostWakeup, Taking
  <2>5. NoLostWakeup'
    BY <1>0, <1>1, <2>3, <2>4, TakingFinite DEF NoLostWakeup, Taking
  <2> QED BY <1>0, <2>1, <2>2, <2>5 DEF TypeOK, Phases
<1>3. CASE ~\E w \in Threads : phase[w] = "wait"
  <2>1. phase' = [phase EXCEPT ![t] = p]
    BY <1>3 DEF Release, NotifyOne
  <2> QED BY <1>0, <1>3, <2>1 DEF TypeOK, Phases, NoLostWakeup
<1> QED BY <1>2, <1>3

LEMMA StepReturnInner ==
  ASSUME IInv, NEW t \in Threads, ReturnInner(t) PROVE IInv'
<1> DEFINE c == inner[t]
<1>0. TypeOK /\ PhaseHold /\ ConnectionConservation /\ NoRepeat(connectionPool)
  BY DEF IInv, ConnectionConservation, NoRepeat
<1>1. /\ phase[t] = "use" /\ c # NoConn /\ Release(t, c)
      /\ connectionPool' = Append(connectionPool, c)
      /\ inner' = [inner EXCEPT ![t] = NoConn]
      /\ UNCHANGED <<poolSize, alive, outer, left>>
  BY DEF ReturnInner, Release
<1>2. c \in Opened /\ Opened' = Opened /\ HeldInner(c)
  BY <1>0, <1>1 DEF TypeOK, Opened, HeldInner
<1>3. ~In(connectionPool, c) /\ ~HeldOuter(c)
  BY <1>0, <1>2 DEF ConnectionConservation, InPool, In
<1>4. NoRepeat(connectionPool') /\ \A d : In(connectionPool', d) <=> In(connectionPool, d) \/ d = c
  BY <1>0, <1>1, <1>2, <1>3, AppendQueue DEF TypeOK
<1>5. /\ NoLostWakeup'
      /\ phase' \in [Threads -> Phases]
      /\ phase'[t] = "use"
      /\ \A u \in Threads \ {t} : phase'[u] = phase[u] \/ (phase[u] = "wait" /\ phase'[u] = "lock")
  BY <1>1, <1>2, ReleaseWakes
<1>6. TypeOK'
  <2>1. connectionPool' \in Seq(Opened)
    BY <1>0, <1>1, <1>2 DEF TypeOK
  <2> QED BY <1>0, <1>1, <1>2, <1>5, <2>1 DEF TypeOK
<1>7. PhaseHold'
  BY <1>0, <1>1, <1>5 DEF TypeOK, PhaseHold
<1>8. ConnectionConservation'
  <2>1. \A d \in Opened : InPool(d)' <=> InPool(d) \/ d = c
    BY <1>4 DEF InPool, In
  <2>2. \A d \in Opened : (HeldOuter(d)' <=> HeldOuter(d)) /\ (HeldInner(d)' <=> HeldInner(d) /\ d # c)
    BY <1>0, <1>1, <1>2 DEF HeldOuter, HeldInner, TypeOK, Opened, NoConn, ConnectionConservation
  <2>3. \A u, v \in Threads : u # v /\ inner'[u] # NoConn => inner'[u] # inner'[v]
    BY <1>0, <1>1 DEF ConnectionConservation, TypeOK
  <2>4. \A i, j \in 1..Len(connectionPool') : connectionPool'[i] = connectionPool'[j] => i = j
    BY <1>4 DEF NoRepeat
  <2>5. \A u, v \in Threads : u # v /\ outer'[u] # NoConn => outer'[u] # outer'[v]
    BY <1>0, <1>1 DEF ConnectionConservation
  <2> QED
    BY <1>0, <1>2, <1>3, <2>1, <2>2, <2>3, <2>4, <2>5 DEF ConnectionConservation
<1> QED BY <1>5, <1>6, <1>7, <1>8 DEF IInv

LEMMA StepReturnOuter ==
  ASSUME IInv, NEW t \in Threads, ReturnOuter(t) PROVE IInv'
<1> DEFINE c == outer[t]
<1>0. TypeOK /\ PhaseHold /\ ConnectionConservation /\ NoRepeat(connectionPool)
  BY DEF IInv, ConnectionConservation, NoRepeat
<1>1. /\ phase[t] = "use" /\ inner[t] = NoConn /\ Release(t, c)
      /\ connectionPool' = Append(connectionPool, c)
      /\ outer' = [outer EXCEPT ![t] = NoConn]
      /\ left' = [left EXCEPT ![t] = 0]
      /\ UNCHANGED <<poolSize, alive, inner>>
  BY DEF ReturnOuter, Release
<1>2. c # NoConn /\ c \in Opened /\ Opened' = Opened /\ HeldOuter(c)
  BY <1>0, <1>1 DEF TypeOK, PhaseHold, Opened, HeldOuter
<1>3. ~In(connectionPool, c) /\ ~HeldInner(c)
  BY <1>0, <1>2 DEF ConnectionConservation, InPool, In
<1>4. NoRepeat(connectionPool') /\ \A d : In(connectionPool', d) <=> In(connectionPool, d) \/ d = c
  BY <1>0, <1>1, <1>2, <1>3, AppendQueue DEF TypeOK
<1>5. /\ NoLostWakeup'
      /\ phase' \in [Threads -> Phases]
      /\ phase'[t] = "idle"
      /\ \A u \in Threads \ {t} : phase'[u] = phase[u] \/ (phase[u] = "wait" /\ phase'[u] = "lock")
  BY <1>1, <1>2, ReleaseWakes
<1>6. TypeOK'
  <2>1. connectionPool' \in Seq(Opened)
    BY <1>0, <1>1, <1>2 DEF TypeOK
  <2>2. left' \in [Threads -> 0..MaxInner]
    BY <1>0, <1>1, BoundsAssumption DEF TypeOK
  <2> QED BY <1>0, <1>1, <1>2, <1>5, <2>1, <2>2 DEF TypeOK
<1>7. PhaseHold'
  BY <1>0, <1>1, <1>5 DEF TypeOK, PhaseHold
<1>8. ConnectionConservation'
  <2>1. \A d \in Opened : InPool(d)' <=> InPool(d) \/ d = c
    BY <1>4 DEF InPool, In
  <2>2. \A d \in Opened : (HeldInner(d)' <=> HeldInner(d)) /\ (HeldOuter(d)' <=> HeldOuter(d) /\ d # c)
    BY <1>0, <1>1, <1>2 DEF HeldOuter, HeldInner, TypeOK, Opened, NoConn, ConnectionConservation
  <2>3. \A u, v \in Threads : u # v /\ outer'[u] # NoConn => outer'[u] # outer'[v]
    BY <1>0, <1>1 DEF ConnectionConservation, TypeOK
  <2>4. \A i, j \in 1..Len(connectionPool') : connectionPool'[i] = connectionPool'[j] => i = j
    BY <1>4 DEF NoRepeat
  <2>5. \A u, v \in Threads : u # v /\ inner'[u] # NoConn => inner'[u] # inner'[v]
    BY <1>0, <1>1 DEF ConnectionConservation
  <2> QED
    BY <1>0, <1>2, <1>3, <2>1, <2>2, <2>3, <2>4, <2>5 DEF ConnectionConservation
<1> QED BY <1>5, <1>6, <1>7, <1>8 DEF IInv

-----------------------------------------------------------------------------
\* The inductive invariant holds in every reachable state.
THEOREM Invariance == Spec => []IInv
<1>1. IInv /\ [Next]_vars => IInv'
  <2> SUFFICES ASSUME IInv, [Next]_vars PROVE IInv'
    OBVIOUS
  <2>1. CASE UNCHANGED vars
    <3>1. TypeOK' /\ PhaseHold'
      BY <2>1 DEF vars, IInv, TypeOK, PhaseHold, Opened
    <3> QED BY <2>1, <3>1, ConservationUnchanged, WakeupMonotone DEF vars, IInv
  <2>2. ASSUME NEW t \in Threads, NEW n \in 0..MaxInner, BeginRequest(t, n) PROVE IInv'
    BY <2>2, StepBegin
  <2>3. ASSUME NEW t \in Threads, ThreadStep(t) PROVE IInv'
    BY <2>3, StepBlock, StepGetConnection, StepCallDao, StepReturnInner, StepReturnOuter
       DEF ThreadStep
  <2>4. ASSUME NEW t \in Threads, SpuriousWakeup(t) PROVE IInv'
    BY <2>4, StepSpurious
  <2>5. ASSUME NEW c \in Opened, LinkLost(c) PROVE IInv'
    BY <2>5, StepLinkLost
  <2> QED BY <2>1, <2>2, <2>3, <2>4, <2>5 DEF Next
<1> QED BY <1>1, InitIInv, PTL DEF Spec

\* Every variable keeps its type.
THEOREM TypeCorrect == Spec => []TypeOK
BY Invariance, PTL DEF IInv

\* Connections are neither leaked nor shared, for every pool size and any
\* number of threads.
THEOREM Conservation == Spec => []ConnectionConservation
BY Invariance, PTL DEF IInv

\* A returned connection always has an awake taker if anybody sleeps.
THEOREM WakeupNotLost == Spec => []NoLostWakeup
BY Invariance, PTL DEF IInv

\* The sizing rule: a pool with more connections than the workers and the
\* event loop together never reaches the state in which every connection is
\* held by a handler waiting for its second one.
THEOREM SizingRule == Spec => []NoHoldAndWait
<1>1. IInv => NoHoldAndWait
  <2> SUFFICES ASSUME IInv, SafeSize, HoldAndWait PROVE FALSE
    BY DEF NoHoldAndWait
  <2>1. \A t \in Threads : inner[t] = NoConn
    BY DEF IInv, PhaseHold, HoldAndWait
  <2>2. \A c \in Opened : \E t \in Threads : outer[t] = c
    <3>1. \A c \in Opened : ~InPool(c)
      BY DEF HoldAndWait, InPool
    <3>2. \A c \in Opened : ~HeldInner(c)
      BY <2>1 DEF HeldInner, Opened, NoConn, IInv, TypeOK
    <3> QED BY <3>1, <3>2 DEF IInv, ConnectionConservation, HeldOuter
  <2> DEFINE holder == [c \in Opened |-> CHOOSE t \in Threads : outer[t] = c]
  <2>3. \A c \in Opened : holder[c] \in Threads /\ outer[holder[c]] = c
    BY <2>2
  <2>4. holder \in Injection(Opened, Threads)
    BY <2>3 DEF Injection, IsInjective
  <2>5. Cardinality(Opened) <= Cardinality(Threads)
    BY <2>4, ThreadsFinite, FS_Injection
  <2>6. Cardinality(Opened) = poolSize
    BY FS_Interval DEF Opened, IInv, TypeOK
  <2>7. Cardinality(Threads) \in Nat /\ poolSize \in Nat
    BY ThreadsFinite, FS_CardinalityType DEF IInv, TypeOK
  <2> QED BY <2>5, <2>6, <2>7 DEF SafeSize
<1> QED BY <1>1, Invariance, PTL
-----------------------------------------------------------------------------
(* The refinement of ConnectionLease.                                      *)

Pooled == {connectionPool[i] : i \in 1..Len(connectionPool)}

LEMMA FirstOfTwo ==
  ASSUME NEW a, NEW b PROVE SubSeq(<<a, b>>, 1, 1) = <<a>>
<1> DEFINE s == <<a, b>>
<1>1. s \in Seq({a, b}) /\ s[1] = a
  OBVIOUS
<1> HIDE DEF s
<1>2. SubSeq(s, 1, 1) = [i \in 1..1 |-> s[i]]
  BY <1>1
<1>3. <<a>> = [i \in 1..1 |-> s[i]]
  <2>1. <<a>> \in [1..1 -> {a}] /\ <<a>>[1] = a
    OBVIOUS
  <2>2. \A i \in 1..1 : i = 1
    OBVIOUS
  <2> QED BY <1>1, <2>1, <2>2
<1>4. SubSeq(s, 1, 1) = <<a>>
  BY <1>2, <1>3
<1> QED BY <1>4 DEF s

\* What Holds(t) is, in the three states of a request.
LEMMA HoldsCases ==
  ASSUME NEW t \in Threads
  PROVE  /\ outer[t] = NoConn => Holds(t) = <<>>
         /\ outer[t] # NoConn /\ inner[t] = NoConn => Holds(t) = <<outer[t]>>
         /\ outer[t] # NoConn /\ inner[t] # NoConn => Holds(t) = <<outer[t], inner[t]>>
BY DEF Holds

LEMMA HoldsCasesNext ==
  ASSUME NEW t \in Threads
  PROVE  /\ outer'[t] = NoConn => Holds(t)' = <<>>
         /\ outer'[t] # NoConn /\ inner'[t] = NoConn => Holds(t)' = <<outer'[t]>>
         /\ outer'[t] # NoConn /\ inner'[t] # NoConn => Holds(t)' = <<outer'[t], inner'[t]>>
BY DEF Holds

\* Steps that touch neither the queue nor what anybody holds.
LEMMA LeaseStutter ==
  ASSUME UNCHANGED <<connectionPool, outer, inner>>
  PROVE  UNCHANGED Lease!lease
BY DEF Lease!lease, Holds

\* What the threads hold after a step that changes it for one of them only.
LEMMA HeldExcept ==
  ASSUME NEW t \in Threads, NEW h, Holds(t)' = h,
         \A u \in Threads \ {t} : outer'[u] = outer[u] /\ inner'[u] = inner[u]
  PROVE  [u \in Threads |-> Holds(u)]' = [[u \in Threads |-> Holds(u)] EXCEPT ![t] = h]
<1>1. \A u \in Threads \ {t} : Holds(u)' = Holds(u)
  BY DEF Holds
<1> QED BY <1>1

\* getConnection lends the front of the queue.
LEMMA LeaseBorrow ==
  ASSUME IInv, NEW t \in Threads, GetConnection(t)
  PROVE  \E c \in Pooled : Lease!Borrow(t, c)
<1> DEFINE c == Head(connectionPool)
<1>0. TypeOK /\ PhaseHold /\ NoRepeat(connectionPool)
  BY DEF IInv, ConnectionConservation, NoRepeat
<1>1. /\ phase[t] = "lock" /\ connectionPool # <<>>
      /\ connectionPool' = Tail(connectionPool)
  BY DEF GetConnection
<1>2. /\ c \in Opened /\ In(connectionPool, c)
      /\ \A d : In(connectionPool', d) <=> In(connectionPool, d) /\ d # c
  BY <1>0, <1>1, TailQueue DEF TypeOK
<1>3. c # NoConn /\ inner[t] = NoConn
  BY <1>0, <1>1, <1>2 DEF TypeOK, PhaseHold, Opened, NoConn
<1>4. c \in Pooled /\ Pooled' = Pooled \ {c}
  BY <1>2 DEF Pooled, In
<1>5. \/ outer[t] = NoConn /\ outer' = [outer EXCEPT ![t] = c] /\ inner' = inner
      \/ outer[t] # NoConn /\ inner' = [inner EXCEPT ![t] = c] /\ outer' = outer
  BY DEF GetConnection
<1> HIDE DEF c
<1>6. Len(Holds(t)) < 2 /\ Holds(t)' = Append(Holds(t), c)
  <2>1. CASE outer[t] = NoConn /\ outer' = [outer EXCEPT ![t] = c] /\ inner' = inner
    <3>1. Holds(t) = <<>>
      BY <2>1, HoldsCases
    <3>2. outer'[t] = c /\ inner'[t] = NoConn
      BY <1>0, <1>3, <2>1 DEF TypeOK
    <3>3. Holds(t)' = <<c>>
      BY <3>2, <1>3, HoldsCasesNext
    <3> QED BY <3>1, <3>3
  <2>2. CASE outer[t] # NoConn /\ inner' = [inner EXCEPT ![t] = c] /\ outer' = outer
    <3>1. Holds(t) = <<outer[t]>>
      BY <1>3, <2>2, HoldsCases
    <3>2. inner'[t] = c /\ outer'[t] = outer[t]
      BY <1>0, <2>2 DEF TypeOK
    <3>3. Holds(t)' = <<outer[t], c>>
      BY <3>2, <2>2, <1>3, HoldsCasesNext
    <3> QED BY <3>1, <3>3
  <2> QED BY <1>5, <2>1, <2>2
<1>7. \A u \in Threads \ {t} : outer'[u] = outer[u] /\ inner'[u] = inner[u]
  BY <1>0, <1>5 DEF TypeOK
<1>8. [u \in Threads |-> Holds(u)]' = [[u \in Threads |-> Holds(u)] EXCEPT ![t] = Append(@, c)]
  BY <1>6, <1>7, HeldExcept
<1>9. Lease!Borrow(t, c)
  BY <1>4, <1>6, <1>8 DEF Lease!Borrow, Lease!Depth, Pooled
<1> QED BY <1>4, <1>9 DEF Lease!Borrow

\* The deleter returns the connection its thread borrowed last.
LEMMA LeaseReturn ==
  ASSUME IInv, NEW t \in Threads, ReturnInner(t) \/ ReturnOuter(t)
  PROVE  Lease!Return(t)
<1> DEFINE c == IF inner[t] # NoConn THEN inner[t] ELSE outer[t]
           n == IF inner[t] # NoConn THEN 2 ELSE 1
           rest == IF inner[t] # NoConn THEN <<outer[t]>> ELSE <<>>
<1>0. TypeOK /\ PhaseHold /\ ConnectionConservation /\ NoRepeat(connectionPool)
  BY DEF IInv, ConnectionConservation, NoRepeat
<1>1. phase[t] = "use" /\ outer[t] # NoConn /\ connectionPool' = Append(connectionPool, c)
  BY <1>0 DEF ReturnInner, ReturnOuter, Release, PhaseHold
<1>2. c \in Opened /\ (HeldOuter(c) \/ HeldInner(c))
  BY <1>0, <1>1 DEF TypeOK, HeldOuter, HeldInner
<1>3. ~In(connectionPool, c)
  BY <1>0, <1>2 DEF ConnectionConservation, InPool, In
<1>4. \A d : In(connectionPool', d) <=> In(connectionPool, d) \/ d = c
  BY <1>0, <1>1, <1>2, <1>3, AppendQueue DEF TypeOK
<1>5. c \notin Pooled /\ Pooled' = Pooled \cup {c}
  <2> HIDE DEF c
  <2> QED BY <1>3, <1>4 DEF Pooled, In
<1>6. /\ Holds(t) # <<>> /\ Len(Holds(t)) = n /\ Holds(t)[n] = c
      /\ SubSeq(Holds(t), 1, n - 1) = rest
  <2>1. CASE inner[t] # NoConn
    <3>1. Holds(t) = <<outer[t], inner[t]>>
      BY <1>1, <2>1, HoldsCases
    <3>2. Len(Holds(t)) = 2 /\ Holds(t)[2] = inner[t]
      BY <3>1
    <3>3. SubSeq(Holds(t), 1, 1) = <<outer[t]>>
      BY <3>1, FirstOfTwo
    <3> QED BY <2>1, <3>1, <3>2, <3>3
  <2>2. CASE inner[t] = NoConn
    <3>1. Holds(t) = <<outer[t]>>
      BY <1>1, <2>2, HoldsCases
    <3> QED BY <2>2, <3>1
  <2> QED BY <2>1, <2>2
<1>7. Holds(t)' = rest
  <2>1. CASE ReturnInner(t)
    <3>1. inner[t] # NoConn /\ inner'[t] = NoConn /\ outer'[t] = outer[t]
      BY <1>0, <2>1 DEF ReturnInner, TypeOK
    <3> QED BY <1>1, <3>1, HoldsCasesNext
  <2>2. CASE ReturnOuter(t)
    <3>1. inner[t] = NoConn /\ outer'[t] = NoConn
      BY <1>0, <2>2 DEF ReturnOuter, TypeOK
    <3> QED BY <3>1, HoldsCasesNext
  <2> QED BY <2>1, <2>2
<1>8. \A u \in Threads \ {t} : outer'[u] = outer[u] /\ inner'[u] = inner[u]
  BY <1>0 DEF TypeOK, ReturnInner, ReturnOuter
<1> HIDE DEF c, n, rest
<1>9. [u \in Threads |-> Holds(u)]'
        = [[u \in Threads |-> Holds(u)] EXCEPT ![t] = SubSeq(@, 1, Len(@) - 1)]
  BY <1>6, <1>7, <1>8, HeldExcept
<1> QED BY <1>5, <1>6, <1>9 DEF Lease!Return, Pooled

\* The pool implements the lending of its connections: it hands out only what
\* is free, to a thread that holds less than two, and takes back only what the
\* thread borrowed last.  The other steps, waiting, waking up and losing a
\* link, are invisible to a borrower.
THEOREM ImplementsLease == Spec => LeaseSpec
<1>1. Init => Lease!Init
  <2> SUFFICES ASSUME Init PROVE Lease!Init
    OBVIOUS
  <2>1. poolSize \in PoolSizes /\ poolSize \in Nat
    BY BoundsAssumption DEF Init
  <2>2. Len(connectionPool) = poolSize /\ \A i \in 1..poolSize : connectionPool[i] = i
    BY <2>1 DEF Init
  <2>3. Pooled = 1..poolSize
    BY <2>2 DEF Pooled
  <2>4. \A t \in Threads : Holds(t) = <<>>
    BY DEF Init, Holds
  <2> QED BY <2>1, <2>3, <2>4 DEF Lease!Init, Pooled
<1>2. IInv /\ [Next]_vars => [Lease!Next]_(Lease!lease)
  <2> SUFFICES ASSUME IInv, [Next]_vars PROVE Lease!Next \/ UNCHANGED Lease!lease
    OBVIOUS
  <2>1. CASE UNCHANGED vars
    BY <2>1, LeaseStutter DEF vars
  <2>2. ASSUME NEW t \in Threads, NEW n \in 0..MaxInner, BeginRequest(t, n)
        PROVE  UNCHANGED Lease!lease
    BY <2>2, LeaseStutter DEF BeginRequest
  <2>3. ASSUME NEW t \in Threads, BlockOnPool(t) \/ CallDao(t) \/ SpuriousWakeup(t)
        PROVE  UNCHANGED Lease!lease
    BY <2>3, LeaseStutter DEF BlockOnPool, CallDao, SpuriousWakeup
  <2>4. ASSUME NEW c \in Opened, LinkLost(c) PROVE UNCHANGED Lease!lease
    BY <2>4, LeaseStutter DEF LinkLost
  <2>5. ASSUME NEW t \in Threads, GetConnection(t) PROVE Lease!Next
    BY <2>5, LeaseBorrow DEF Lease!Next, Pooled
  <2>6. ASSUME NEW t \in Threads, ReturnInner(t) \/ ReturnOuter(t) PROVE Lease!Next
    BY <2>6, LeaseReturn DEF Lease!Next
  <2> QED BY <2>1, <2>2, <2>3, <2>4, <2>5, <2>6 DEF Next, ThreadStep
<1> QED BY <1>1, <1>2, Invariance, PTL DEF Spec, LeaseSpec, Lease!Spec
=============================================================================
