----------------------------- MODULE ChatProofs -----------------------------
(***************************************************************************)
(* The chat rooms for every number of users, workers and requests.  A      *)
(* number is given to one room only (Numbered) and a worker holds the      *)
(* object of the room of that number (Held).  Who has been told what so    *)
(* far follows from where the worker that opens or closes the room is      *)
(* (Untold, Told, Ended), because that worker has the room to itself as    *)
(* long as nothing crossed it (Alone).                                     *)
(***************************************************************************)
EXTENDS Chat, TLAPS

\* Numbers are given out once.
Numbered ==
  /\ nextRoomId <= requests + 1
  /\ \A r \in RoomIds :
       /\ opened[r] # NoRoom <=> r < nextRoomId
       /\ opened[r] # NoRoom => opened[r].roomId = r
       /\ rooms[r] \in {NoRoom, opened[r]}
       /\ opened[r] # NoRoom /\ r \notin crossed => opened[r].customerId # opened[r].adminId

\* A worker's place belongs to its request, and its room object is the one that
\* was opened under its number.
Held ==
  \A w \in Workers :
    /\ job[w].op = "none" <=> pc[w] = "idle"
    /\ job[w].op = "accept" <=> pc[w] \in {"answer", "notify"}
    /\ job[w].op = "close" <=> pc[w] \in {"tellCustomer", "tellAdmin", "remove"}
    /\ pc[w] = "idle" => job[w].room = NoRoom
    /\ pc[w] # "idle" => job[w].room \in ChatRooms /\ job[w].room = opened[job[w].room.roomId]
    /\ pc[w] = "relay" => job[w].target \in Members(job[w].room.roomId)
    /\ pc[w] = "answer" => job[w].room.adminId = AdminId(job[w].target)

\* Who opens or closes an uncrossed room is the only one that has it in hand.
Alone ==
  \A v, w \in Workers :
    /\ pc[v] # "idle"
    /\ job[v].op \in {"accept", "close"}
    /\ job[w].room.roomId = job[v].room.roomId
    /\ job[v].room.roomId \notin crossed
    => v = w

\* Nobody has heard of a room that is not there yet, or is being opened.
Untold ==
  /\ \A r \in RoomIds, u \in Hearers : r >= nextRoomId => told[r][u] = <<>>
  /\ \A w \in Workers : job[w].room.roomId \notin crossed =>
       /\ pc[w] = "answer" => \A u \in Hearers : told[job[w].room.roomId][u] = <<>>
       /\ pc[w] = "notify" => told[job[w].room.roomId][job[w].room.customerId] = <<>>

\* The user has been told that the room is closed, or was away.
Knows(u, r) == Has(u, r, "exit") \/ <<u, r>> \in missed

\* What a worker that closes a room has done.
Told ==
  \A w \in Workers :
    /\ pc[w] \in {"tellAdmin", "remove"} => Knows(job[w].room.customerId, job[w].room.roomId)
    /\ pc[w] = "remove" => Knows(job[w].room.adminId, job[w].room.roomId)

\* A closed room is in nobody's hands, and who knows of the end of one that is
\* there knows it from the worker that closes it.
Ended ==
  \A r \in RoomIds \ crossed :
    /\ opened[r] # NoRoom /\ rooms[r] = NoRoom => \A w \in Workers : job[w].room.roomId # r
    /\ \A u \in Hearers : rooms[r] # NoRoom /\ Has(u, r, "exit") =>
         \E w \in Workers :
           /\ job[w].room.roomId = r
           /\ \/ pc[w] = "remove"
              \/ pc[w] = "tellAdmin" /\ u = job[w].room.customerId

IInv ==
  /\ TypeOK
  /\ Numbered
  /\ Held
  /\ Alone
  /\ Untold
  /\ Told
  /\ Ended
  /\ BothToldOfEnd
  /\ OrderedUnlessCrossed

-----------------------------------------------------------------------------
(* sendToUser.                                                             *)

Kinds == {"opened", "message", "exit"}

\* A packet is heard by a user, or lost; the loss of an end is remembered.
Sends(u, r, kind) ==
  \/ Hear(u, r, kind) /\ missed' = missed
  \/ told' = told /\ missed' = missed \cup (IF kind = "exit" THEN {<<u, r>>} ELSE {})

\* sendToUser and the answer to an acceptance are such packets.
LEMMA SentOrLost ==
  /\ \A u, r, kind : SendToUser(u, r, kind) => Sends(u, r, kind)
  /\ \A w : AnswerAdmin(w) => Sends(job[w].target, job[w].room.roomId, "opened")
BY DEF SendToUser, AnswerAdmin, Sends

\* What appending does to a sequence.
LEMMA Appended ==
  ASSUME NEW S, NEW s \in Seq(S), NEW x \in S
  PROVE  /\ Append(s, x) \in Seq(S)
         /\ Append(s, x) # s
         /\ Len(Append(s, x)) = Len(s) + 1
         /\ Len(s) \in Nat
         /\ Append(s, x)[Len(s) + 1] = x
         /\ \A i \in 1..Len(s) : Append(s, x)[i] = s[i]
OBVIOUS

\* A packet is appended to what one user has heard of one room, or is missed.
LEMMA Heard ==
  ASSUME NEW u \in Hearers, NEW r \in RoomIds, NEW kind \in Kinds, TypeOK, Sends(u, r, kind)
  PROVE  /\ told' \in [RoomIds -> [Hearers -> Seq(Kinds)]]
         /\ missed' \subseteq Hearers \X RoomIds
         /\ missed \subseteq missed'
         /\ told'[r][u] \in {told[r][u], Append(told[r][u], kind)}
         /\ told'[r][u] = told[r][u] /\ kind = "exit" => <<u, r>> \in missed'
         /\ \A q \in RoomIds, v \in Hearers : q # r \/ v # u => told'[q][v] = told[q][v]
<1> USE DEF Kinds, TypeOK
<1>1. CASE Hear(u, r, kind) /\ missed' = missed
  <2>1. told' = [told EXCEPT ![r] = [told[r] EXCEPT ![u] = Append(told[r][u], kind)]] /\ missed' = missed
    BY <1>1 DEF Hear
  <2>2. told[r] \in [Hearers -> Seq(Kinds)] /\ told[r][u] \in Seq(Kinds)
    OBVIOUS
  <2>3. Append(told[r][u], kind) \in Seq(Kinds) /\ Append(told[r][u], kind) # told[r][u]
    BY <2>2, Appended
  <2> QED
    BY <2>1, <2>2, <2>3
<1>2. CASE told' = told /\ missed' = missed \cup (IF kind = "exit" THEN {<<u, r>>} ELSE {})
  BY <1>2
<1> QED
  BY <1>1, <1>2 DEF Sends

\* Nothing that was heard is forgotten, and only the packet is new.
LEMMA HeardBefore ==
  ASSUME NEW u \in Hearers, NEW r \in RoomIds, NEW kind \in Kinds, TypeOK, Sends(u, r, kind),
         NEW v \in Hearers, NEW q \in RoomIds
  PROVE  /\ Has(v, q, "exit") => Has(v, q, "exit")'
         /\ Knows(v, q) => Knows(v, q)'
         /\ Has(v, q, "exit")' => Has(v, q, "exit") \/ (v = u /\ q = r /\ kind = "exit")
         /\ kind = "exit" => Knows(u, r)'
<1> DEFINE s == told[q][v]
<1>0. s \in Seq(Kinds) /\ told[r][u] \in Seq(Kinds)
  BY DEF TypeOK, Kinds
<1>1. missed \subseteq missed'
  BY Heard
<1>4. kind = "exit" => Knows(u, r)'
  <2>1. CASE told'[r][u] = told[r][u]
    BY <2>1, Heard DEF Knows
  <2>2. CASE told'[r][u] = Append(told[r][u], kind)
    <3>1. /\ Len(told'[r][u]) = Len(told[r][u]) + 1 /\ Len(told[r][u]) \in Nat
          /\ told'[r][u][Len(told[r][u]) + 1] = kind
      BY <1>0, <2>2, Appended
    <3>2. Len(told[r][u]) + 1 \in 1..Len(told'[r][u])
      BY <3>1
    <3> QED
      BY <3>1, <3>2 DEF Knows, Has
  <2> QED
    BY <2>1, <2>2, Heard
<1>2. CASE told'[q][v] = s
  <2>1. Has(v, q, "exit")' <=> Has(v, q, "exit")
    BY <1>2 DEF Has
  <2> QED
    BY <1>1, <2>1, <1>4 DEF Knows
<1>3. CASE v = u /\ q = r /\ told'[q][v] = Append(s, kind)
  <2>1. Has(v, q, "exit") => Has(v, q, "exit")'
    BY <1>0, <1>3, Appended DEF Has
  <2>2. Has(v, q, "exit")' => Has(v, q, "exit") \/ kind = "exit"
    BY <1>0, <1>3, Appended DEF Has
  <2> QED
    BY <1>1, <1>3, <1>4, <2>1, <2>2 DEF Knows
<1>5. told'[r][u] \in {told[r][u], Append(told[r][u], kind)}
  BY Heard
<1>6. q # r \/ v # u => told'[q][v] = s
  <2>1. \A p \in RoomIds, x \in Hearers : p # r \/ x # u => told'[p][x] = told[p][x]
    BY Heard
  <2> QED
    BY <2>1
<1> QED
  BY <1>2, <1>3, <1>5, <1>6

\* A packet that may follow what the user has heard keeps the order.
LEMMA OrderKept ==
  ASSUME NEW u \in Hearers, NEW r \in RoomIds, NEW kind \in Kinds, TypeOK, Sends(u, r, kind),
         r \notin crossed, crossed' = crossed,
         \A i \in 1..Len(told[r][u]) : MayFollow(told[r][u][i], kind),
         OrderedUnlessCrossed
  PROVE  OrderedUnlessCrossed'
<1> DEFINE s == told[r][u]
           Ordered(t) == \A i, j \in 1..Len(t) : i < j => MayFollow(t[i], t[j])
<1>0. s \in Seq(Kinds)
  BY DEF TypeOK, Kinds
<1>1. Ordered(s)
  BY DEF OrderedUnlessCrossed
<1>2. Ordered(Append(s, kind))
  <2> SUFFICES ASSUME NEW i \in 1..Len(Append(s, kind)), NEW j \in 1..Len(Append(s, kind)), i < j
               PROVE  MayFollow(Append(s, kind)[i], Append(s, kind)[j])
    OBVIOUS
  <2>1. i \in 1..Len(s) /\ Append(s, kind)[i] = s[i]
    BY <1>0, Appended
  <2>2. CASE j \in 1..Len(s)
    BY <1>0, <1>1, <2>1, <2>2, Appended
  <2>3. CASE j = Len(s) + 1
    BY <1>0, <2>1, <2>3, Appended
  <2> QED
    BY <1>0, <2>2, <2>3, Appended
<1>3. Ordered(told'[r][u])
  <2>1. told'[r][u] \in {s, Append(s, kind)}
    BY Heard
  <2> QED
    BY <1>1, <1>2, <2>1
<1>4. ASSUME NEW q \in RoomIds \ crossed, NEW v \in Hearers, q # r \/ v # u
      PROVE  Ordered(told'[q][v])
  <2>1. \A p \in RoomIds, x \in Hearers : p # r \/ x # u => told'[p][x] = told[p][x]
    BY Heard
  <2>2. told'[q][v] = told[q][v]
    BY <1>4, <2>1
  <2> QED
    BY <2>2 DEF OrderedUnlessCrossed
<1> HIDE DEF Ordered
<1>5. \A q \in RoomIds \ crossed', v \in Hearers : Ordered(told'[q][v])
  BY <1>3, <1>4
<1> QED
  BY <1>5 DEF OrderedUnlessCrossed, Ordered

\* Packets about a crossed room do not matter to the order.
LEMMA OrderOfOthers ==
  ASSUME NEW u \in Hearers, NEW r \in RoomIds, r \in crossed, NEW kind \in Kinds, TypeOK,
         Sends(u, r, kind), crossed' = crossed, OrderedUnlessCrossed
  PROVE  OrderedUnlessCrossed'
<1>1. \A q \in RoomIds, v \in Hearers : q # r \/ v # u => told'[q][v] = told[q][v]
  BY Heard
<1>2. \A q \in RoomIds \ crossed, v \in Hearers : told'[q][v] = told[q][v]
  BY <1>1
<1> QED
  BY <1>2 DEF OrderedUnlessCrossed

\* A step that sends nothing.
LEMMA NothingHeard ==
  ASSUME UNCHANGED <<told, missed>>
  PROVE  \A u, r : /\ Has(u, r, "exit")' <=> Has(u, r, "exit")
                   /\ Knows(u, r)' <=> Knows(u, r)
BY DEF Has, Knows

\* BothToldOfEnd and what a member knows.
LEMMA BothToldMeans ==
  BothToldOfEnd <=>
    \A r \in RoomIds : opened[r] # NoRoom /\ rooms[r] = NoRoom =>
      Knows(opened[r].customerId, r) /\ Knows(opened[r].adminId, r)
BY DEF BothToldOfEnd, Members, Knows

\* Sending takes nothing away from what members know of the end.
LEMMA BothToldKept ==
  ASSUME IInv, NEW u \in Hearers, NEW r \in RoomIds, NEW kind \in Kinds, Sends(u, r, kind),
         UNCHANGED <<rooms, opened>>
  PROVE  BothToldOfEnd'
<1>1. \A q \in RoomIds : opened[q] # NoRoom =>
        opened[q].customerId \in Hearers /\ opened[q].adminId \in Hearers
  BY DEF IInv, TypeOK, ChatRooms, Hearers
<1>2. \A q \in RoomIds, v \in Hearers : Knows(v, q) => Knows(v, q)'
  BY HeardBefore DEF IInv
<1>3. \A q \in RoomIds : opened'[q] # NoRoom /\ rooms'[q] = NoRoom =>
        \A v \in Members(q)' : Knows(v, q)'
  BY <1>1, <1>2, BothToldMeans DEF IInv, Members
<1> QED
  BY <1>3 DEF BothToldOfEnd, Knows

-----------------------------------------------------------------------------
(* Workers.                                                                *)

\* The room in a worker's hands.
LEMMA HeldRoom ==
  ASSUME IInv, NEW w \in Workers, pc[w] # "idle"
  PROVE  /\ job[w].room \in ChatRooms
         /\ job[w].room # NoRoom
         /\ job[w].room.roomId \in RoomIds
         /\ job[w].room.customerId \in Users
         /\ job[w].room.adminId \in Users
         /\ job[w].room.roomId \notin crossed => job[w].room.customerId # job[w].room.adminId
         /\ opened[job[w].room.roomId] = job[w].room
<1>1. job[w].room \in ChatRooms /\ opened[job[w].room.roomId] = job[w].room
  BY DEF IInv, Held
<1> QED
  BY <1>1, ChatAssumption DEF IInv, Numbered, ChatRooms, NoRoom, RoomIds

\* A worker without a request holds no room.
LEMMA HeldNone ==
  ASSUME IInv, NEW w \in Workers, pc[w] = "idle"
  PROVE  job[w].room.roomId = 0 /\ job[w].room.roomId \notin RoomIds
<1>1. job[w].room = NoRoom
  BY DEF IInv, Held
<1> QED
  BY <1>1, ChatAssumption DEF NoRoom, RoomIds

\* The places a worker goes to while it has its request.
Moves == {<<"answer", "notify">>, <<"tellCustomer", "tellAdmin">>, <<"tellAdmin", "remove">>}

\* A worker goes on to its next place, or ends its request.
Going(w, p) ==
  /\ pc' = [pc EXCEPT ![w] = p]
  /\ \/ <<pc[w], p>> \in Moves /\ job' = job
     \/ pc[w] # "idle" /\ p = "idle" /\ job' = [job EXCEPT ![w] = NoJob]

\* Going in terms of the workers' places and rooms.
LEMMA GoingMeans ==
  ASSUME IInv, NEW w \in Workers, NEW p, Going(w, p)
  PROVE  /\ \A v \in Workers : v # w => pc'[v] = pc[v] /\ job'[v] = job[v]
         /\ pc'[w] = p
         /\ pc[w] # "idle" /\ p \in Places
         /\ p # "idle" => job'[w] = job[w] /\ <<pc[w], p>> \in Moves
         /\ p = "idle" => job'[w] = NoJob /\ job'[w].room.roomId = 0
BY DEF IInv, TypeOK, Going, Moves, NoJob, NoRoom, Places

\* What a step that sends and goes on leaves as it was.
LEMMA GoingKeeps ==
  ASSUME IInv, NEW w \in Workers, NEW p, Going(w, p),
         UNCHANGED <<rooms, nextRoomId, online, requests, opened, crossed>>,
         told' \in [RoomIds -> [Hearers -> Seq(Kinds)]], missed' \subseteq Hearers \X RoomIds
  PROVE  TypeOK' /\ Numbered' /\ Held' /\ Alone'
<1>0. /\ \A v \in Workers : v # w => pc'[v] = pc[v] /\ job'[v] = job[v]
      /\ pc'[w] = p
      /\ p # "idle" => job'[w] = job[w] /\ <<pc[w], p>> \in Moves
      /\ p = "idle" => job'[w] = NoJob /\ job'[w].room.roomId = 0
  BY GoingMeans
<1>1. TypeOK'
  <2>1. NoJob \in [op : {"none", "accept", "send", "close"},
                   room : ChatRooms \cup {NoRoom}, target : Hearers]
    BY DEF NoJob, Hearers
  <2>2. pc' \in [Workers -> Places]
    BY GoingMeans DEF IInv, TypeOK, Going
  <2>3. job' \in [Workers -> [op : {"none", "accept", "send", "close"},
                              room : ChatRooms \cup {NoRoom}, target : Hearers]]
    BY <2>1 DEF IInv, TypeOK, Going
  <2> QED
    BY <2>2, <2>3 DEF IInv, TypeOK, Kinds
<1>2. Numbered'
  BY DEF IInv, Numbered
<1>3. Held'
  <2> SUFFICES ASSUME NEW v \in Workers
               PROVE  /\ job'[v].op = "none" <=> pc'[v] = "idle"
                      /\ job'[v].op = "accept" <=> pc'[v] \in {"answer", "notify"}
                      /\ job'[v].op = "close" <=> pc'[v] \in {"tellCustomer", "tellAdmin", "remove"}
                      /\ pc'[v] = "idle" => job'[v].room = NoRoom
                      /\ pc'[v] # "idle" => job'[v].room \in ChatRooms /\ job'[v].room = opened[job'[v].room.roomId]
                      /\ pc'[v] = "relay" => job'[v].target \in Members(job'[v].room.roomId)
                      /\ pc'[v] = "answer" => job'[v].room.adminId = AdminId(job'[v].target)
    BY DEF Held, Members
  <2>1. CASE v # w
    BY <1>0, <2>1 DEF IInv, Held
  <2>2. CASE v = w /\ p = "idle"
    BY <1>0, <2>2 DEF NoJob
  <2>3. CASE v = w /\ p # "idle"
    BY <1>0, <2>3 DEF IInv, Held, Moves
  <2> QED
    BY <2>1, <2>2, <2>3
<1>4. Alone'
  <2>1. \A v \in Workers : pc[v] # "idle" => job[v].room.roomId # 0
    BY HeldRoom, ChatAssumption DEF RoomIds
  <2>2. \A v \in Workers : pc'[v] # "idle" => pc[v] # "idle" /\ job'[v] = job[v]
    BY <1>0 DEF Moves
  <2>3. \A v \in Workers : job'[v].room.roomId # 0 => job'[v].room = job[v].room
    BY <1>0
  <2> QED
    BY <2>1, <2>2, <2>3 DEF IInv, Alone
<1> QED
  BY <1>1, <1>2, <1>3, <1>4

-----------------------------------------------------------------------------
(* Requests.                                                               *)

\* Who is online decides only what is heard from now on.
LEMMA OnlineStep ==
  ASSUME IInv, UNCHANGED <<rooms, nextRoomId, pc, job, requests, opened, told, missed, crossed>>,
         online' \subseteq Users
  PROVE  IInv'
<1>1. TypeOK'
  BY DEF IInv, TypeOK
<1>2. Numbered'
  BY DEF IInv, Numbered
<1>3. Held'
  BY DEF IInv, Held, Members
<1>4. Alone'
  BY DEF IInv, Alone
<1>5. Untold'
  BY DEF IInv, Untold
<1>6. Told'
  BY NothingHeard DEF IInv, Told
<1>7. Ended'
  BY NothingHeard DEF IInv, Ended
<1>8. BothToldOfEnd'
  BY DEF IInv, BothToldOfEnd, Members, Has
<1>9. OrderedUnlessCrossed'
  BY DEF IInv, OrderedUnlessCrossed
<1> QED
  BY <1>1, <1>2, <1>3, <1>4, <1>5, <1>6, <1>7, <1>8, <1>9 DEF IInv

\* A request for a room that does not exist.
LEMMA NothingStep ==
  ASSUME IInv, requests < MaxRequests, requests' = requests + 1,
         UNCHANGED <<rooms, nextRoomId, online, pc, job, opened, told, missed, crossed>>
  PROVE  IInv'
<1>1. TypeOK'
  BY ChatAssumption DEF IInv, TypeOK
<1>2. Numbered'
  BY ChatAssumption DEF IInv, TypeOK, RoomIds, Numbered
<1>3. Held'
  BY DEF IInv, Held, Members
<1>4. Alone'
  BY DEF IInv, Alone
<1>5. Untold'
  BY DEF IInv, Untold
<1>6. Told'
  BY NothingHeard DEF IInv, Told
<1>7. Ended'
  BY NothingHeard DEF IInv, Ended
<1>8. BothToldOfEnd'
  BY DEF IInv, BothToldOfEnd, Members, Has
<1>9. OrderedUnlessCrossed'
  BY DEF IInv, OrderedUnlessCrossed
<1> QED
  BY <1>1, <1>2, <1>3, <1>4, <1>5, <1>6, <1>7, <1>8, <1>9 DEF IInv

\* A new number: nobody holds the room and nobody has heard of it.
LEMMA AcceptStep ==
  ASSUME NEW w \in Workers, NEW c \in Users, NEW a \in Hearers, IInv, HandleChatAccept(w, c, a)
  PROVE  IInv'
<1> DEFINE n == nextRoomId
           room == [roomId |-> n, customerId |-> c, adminId |-> AdminId(a)]
<1>a. /\ n \in RoomIds /\ requests < MaxRequests /\ requests' = requests + 1
      /\ pc[w] = "idle"
      /\ nextRoomId' = n + 1
  BY ChatAssumption DEF IInv, TypeOK, Numbered, HandleChatAccept, Begin, RoomIds
<1>b. opened[n] = NoRoom /\ rooms[n] = NoRoom
  BY <1>a DEF IInv, TypeOK, Numbered
<1>c. /\ room \in ChatRooms /\ room # NoRoom /\ room.roomId = n
      /\ room.customerId = c /\ room.adminId = AdminId(a)
  BY <1>a, ChatAssumption DEF ChatRooms, NoRoom, RoomIds, AdminId, Hearers
<1>d. /\ rooms' = [rooms EXCEPT ![n] = room]
      /\ opened' = [opened EXCEPT ![n] = room]
      /\ job' = [job EXCEPT ![w] = [op |-> "accept", room |-> room, target |-> a]]
      /\ pc' = [pc EXCEPT ![w] = "answer"]
      /\ crossed' = IF c = AdminId(a) THEN crossed \cup {n} ELSE crossed
      /\ UNCHANGED <<online, told, missed>>
  BY <1>a, <1>b DEF HandleChatAccept, NewRoomId, Goto, IInv, TypeOK
<1>e. /\ \A q \in RoomIds : q # n => rooms'[q] = rooms[q] /\ opened'[q] = opened[q]
      /\ rooms'[n] = room /\ opened'[n] = room
      /\ \A v \in Workers : v # w => pc'[v] = pc[v] /\ job'[v] = job[v]
      /\ pc'[w] = "answer" /\ job'[w].op = "accept" /\ job'[w].room = room
      /\ job'[w].target = a
      /\ crossed \subseteq crossed' /\ crossed' \subseteq RoomIds
      /\ \A q \in RoomIds : q # n => (q \in crossed' <=> q \in crossed)
      /\ n \notin crossed' => c # AdminId(a)
  BY <1>a, <1>d DEF IInv, TypeOK
<1>f. \A v \in Workers : job[v].room.roomId # n
  <2> TAKE v \in Workers
  <2>1. CASE pc[v] = "idle"
    BY <1>a, <2>1, HeldNone
  <2>2. CASE pc[v] # "idle"
    BY <1>a, <1>b, <2>2, HeldRoom
  <2> QED
    BY <2>1, <2>2
<1>g. \A u \in Hearers : told[n][u] = <<>> /\ ~Has(u, n, "exit")
  BY <1>a, ChatAssumption DEF IInv, TypeOK, Untold, Has, RoomIds
<1> HIDE DEF n, room
<1>1. TypeOK'
  <2>0. a \in Hearers
    OBVIOUS
  <2>1. job' \in [Workers -> [op : {"none", "accept", "send", "close"},
                              room : ChatRooms \cup {NoRoom}, target : Hearers]]
    BY <1>c, <1>d DEF IInv, TypeOK
  <2>2. /\ rooms' \in [RoomIds -> ChatRooms \cup {NoRoom}]
        /\ opened' \in [RoomIds -> ChatRooms \cup {NoRoom}]
        /\ pc' \in [Workers -> Places]
    BY <1>c, <1>d DEF IInv, TypeOK, Places
  <2>3. nextRoomId' \in 1..(MaxRequests + 1) /\ requests' \in 0..MaxRequests
    BY <1>a, ChatAssumption DEF IInv, TypeOK, n, RoomIds
  <2> QED
    BY <1>d, <1>e, <2>1, <2>2, <2>3 DEF IInv, TypeOK
<1>2. Numbered'
  BY <1>a, <1>c, <1>e, ChatAssumption DEF IInv, TypeOK, Numbered, RoomIds, n
<1>3. Held'
  <2>1. \A v \in Workers : v # w /\ pc[v] # "idle" =>
          /\ job[v].room.roomId \in RoomIds
          /\ opened'[job[v].room.roomId] = opened[job[v].room.roomId]
    BY <1>e, <1>f, HeldRoom
  <2> QED
    BY <1>c, <1>e, <2>1 DEF IInv, Held, Members
<1>4. Alone'
  BY <1>c, <1>d, <1>e, <1>f DEF IInv, Alone
<1>5. Untold'
  <2>1. \A q \in RoomIds, u \in Hearers : q >= nextRoomId' => told'[q][u] = <<>>
    BY <1>a, <1>d, ChatAssumption DEF IInv, TypeOK, Untold, RoomIds, n
  <2>2. \A v \in Workers : v # w /\ job'[v].room.roomId \notin crossed' =>
          /\ pc'[v] = "answer" => \A u \in Hearers : told'[job'[v].room.roomId][u] = <<>>
          /\ pc'[v] = "notify" => told'[job'[v].room.roomId][job'[v].room.customerId] = <<>>
    BY <1>d, <1>e DEF IInv, Untold
  <2>3. pc'[w] = "answer" /\ \A u \in Hearers : told'[job'[w].room.roomId][u] = <<>>
    BY <1>c, <1>d, <1>e, <1>g
  <2> QED
    BY <2>1, <2>2, <2>3 DEF Untold
<1>6. Told'
  BY <1>d, <1>e, NothingHeard DEF IInv, Told
<1>7. Ended'
  <2>1. \A q \in RoomIds \ crossed' : opened'[q] # NoRoom /\ rooms'[q] = NoRoom =>
          \A v \in Workers : job'[v].room.roomId # q
    BY <1>c, <1>d, <1>e DEF IInv, Ended
  <2>2. ASSUME NEW q \in RoomIds \ crossed', NEW u \in Hearers, rooms'[q] # NoRoom, Has(u, q, "exit")'
        PROVE  \E v \in Workers :
                 /\ job'[v].room.roomId = q
                 /\ \/ pc'[v] = "remove"
                    \/ pc'[v] = "tellAdmin" /\ u = job'[v].room.customerId
    <3>1. q # n /\ Has(u, q, "exit")
      BY <1>d, <1>g, <2>2, NothingHeard
    <3>2. PICK v \in Workers : /\ job[v].room.roomId = q
                               /\ \/ pc[v] = "remove"
                                  \/ pc[v] = "tellAdmin" /\ u = job[v].room.customerId
      BY <1>d, <1>e, <2>2, <3>1 DEF IInv, Ended
    <3> QED
      BY <1>a, <1>e, <3>2
  <2> QED
    BY <2>1, <2>2 DEF Ended
<1>8. BothToldOfEnd'
  <2>1. \A r \in RoomIds : opened'[r] # NoRoom /\ rooms'[r] = NoRoom =>
          /\ r # n /\ opened'[r] = opened[r]
          /\ Knows(opened[r].customerId, r) /\ Knows(opened[r].adminId, r)
    BY <1>c, <1>e, BothToldMeans DEF IInv
  <2>2. \A r \in RoomIds : opened'[r] # NoRoom /\ rooms'[r] = NoRoom =>
          \A v \in Members(r)' : Knows(v, r)'
    BY <1>d, <2>1, NothingHeard DEF Members
  <2> QED
    BY <2>2 DEF BothToldOfEnd, Knows
<1>9. OrderedUnlessCrossed'
  BY <1>d, <1>e DEF IInv, OrderedUnlessCrossed
<1> QED
  BY <1>1, <1>2, <1>3, <1>4, <1>5, <1>6, <1>7, <1>8, <1>9 DEF IInv

\* A message for a room that is being opened or closed is a crossing.
LEMMA SendStep ==
  ASSUME NEW w \in Workers, NEW sender \in Users, NEW r \in RoomIds, IInv,
         HandleChatSend(w, sender, r), rooms[r] # NoRoom
  PROVE  IInv'
<1>a. pc[w] = "idle" /\ requests < MaxRequests /\ requests' = requests + 1
  BY DEF HandleChatSend, Begin
<1>b. /\ rooms[r] \in ChatRooms /\ rooms[r] = opened[r] /\ rooms[r].roomId = r
      /\ rooms[r].customerId \in Users /\ rooms[r].adminId \in Users
  BY DEF IInv, TypeOK, Numbered, ChatRooms
<1>c. /\ pc' = [pc EXCEPT ![w] = "relay"]
      /\ job' = [job EXCEPT ![w] = [op |-> "send", room |-> rooms[r],
                                    target |-> Target(sender, rooms[r])]]
      /\ crossed' = IF Crossing("send", r) THEN crossed \cup {r} ELSE crossed
      /\ UNCHANGED <<rooms, nextRoomId, online, opened, told, missed>>
  BY DEF HandleChatSend, Goto
<1>d. /\ \A v \in Workers : v # w => pc'[v] = pc[v] /\ job'[v] = job[v]
      /\ pc'[w] = "relay" /\ job'[w].op = "send" /\ job'[w].room = rooms[r]
      /\ job'[w].target = Target(sender, rooms[r])
  BY <1>c DEF IInv, TypeOK
<1>e. crossed \subseteq crossed' /\ crossed' \subseteq RoomIds
  BY <1>c DEF IInv, TypeOK
<1>f. \A v \in Workers : r \notin crossed' /\ job[v].room.roomId = r =>
        job[v].op \notin {"accept", "close"}
  BY <1>c DEF Crossing
<1>1. TypeOK'
  <2>1. Target(sender, rooms[r]) \in Hearers
    BY <1>b DEF Target, Hearers
  <2>2. job' \in [Workers -> [op : {"none", "accept", "send", "close"},
                              room : ChatRooms \cup {NoRoom}, target : Hearers]]
    BY <1>b, <1>c, <2>1 DEF IInv, TypeOK
  <2>3. requests' \in 0..MaxRequests
    BY <1>a, ChatAssumption DEF IInv, TypeOK
  <2> QED
    BY <1>c, <1>e, <2>2, <2>3 DEF IInv, TypeOK, Places
<1>2. Numbered'
  <2>1. nextRoomId' <= requests' + 1
    BY <1>a, <1>c, ChatAssumption DEF IInv, TypeOK, Numbered
  <2> QED
    BY <1>c, <1>e, <2>1 DEF IInv, Numbered
<1>3. Held'
  BY <1>b, <1>c, <1>d DEF IInv, Held, Members, Target
<1>4. Alone'
  BY <1>b, <1>d, <1>e, <1>f DEF IInv, Alone, Held
<1>5. Untold'
  BY <1>c, <1>d, <1>e DEF IInv, Untold
<1>6. Told'
  BY <1>c, <1>d, NothingHeard DEF IInv, Told
<1>7. Ended'
  <2>1. \A q \in RoomIds \ crossed' : opened'[q] # NoRoom /\ rooms'[q] = NoRoom =>
          \A v \in Workers : job'[v].room.roomId # q
    BY <1>b, <1>c, <1>d, <1>e DEF IInv, Ended
  <2>2. ASSUME NEW q \in RoomIds \ crossed', NEW u \in Hearers, rooms'[q] # NoRoom, Has(u, q, "exit")'
        PROVE  \E v \in Workers :
                 /\ job'[v].room.roomId = q
                 /\ \/ pc'[v] = "remove"
                    \/ pc'[v] = "tellAdmin" /\ u = job'[v].room.customerId
    <3>1. PICK v \in Workers : /\ job[v].room.roomId = q
                               /\ \/ pc[v] = "remove"
                                  \/ pc[v] = "tellAdmin" /\ u = job[v].room.customerId
      BY <1>c, <1>e, <2>2, NothingHeard DEF IInv, Ended
    <3> QED
      BY <1>a, <1>d, <3>1
  <2> QED
    BY <2>1, <2>2 DEF Ended
<1>8. BothToldOfEnd'
  BY <1>c DEF IInv, BothToldOfEnd, Members, Has
<1>9. OrderedUnlessCrossed'
  BY <1>c, <1>e DEF IInv, OrderedUnlessCrossed
<1> QED
  BY <1>1, <1>2, <1>3, <1>4, <1>5, <1>6, <1>7, <1>8, <1>9 DEF IInv

\* A closing of a room that another request is about is a crossing.
LEMMA CloseStep ==
  ASSUME NEW w \in Workers, NEW r \in RoomIds, IInv, HandleChatClose(w, r), rooms[r] # NoRoom
  PROVE  IInv'
<1>a. pc[w] = "idle" /\ requests < MaxRequests /\ requests' = requests + 1
  BY DEF HandleChatClose, Begin
<1>b. /\ rooms[r] \in ChatRooms /\ rooms[r] = opened[r] /\ rooms[r].roomId = r
      /\ rooms[r].customerId \in Users /\ rooms[r].adminId \in Users
  BY DEF IInv, TypeOK, Numbered, ChatRooms
<1>c. /\ pc' = [pc EXCEPT ![w] = "tellCustomer"]
      /\ job' = [job EXCEPT ![w] = [op |-> "close", room |-> rooms[r],
                                    target |-> NoUser]]
      /\ crossed' = IF Crossing("close", r) THEN crossed \cup {r} ELSE crossed
      /\ UNCHANGED <<rooms, nextRoomId, online, opened, told, missed>>
  BY DEF HandleChatClose, Goto
<1>d. /\ \A v \in Workers : v # w => pc'[v] = pc[v] /\ job'[v] = job[v]
      /\ pc'[w] = "tellCustomer" /\ job'[w].op = "close" /\ job'[w].room = rooms[r]
      /\ job'[w].target = NoUser
  BY <1>c DEF IInv, TypeOK
<1>e. crossed \subseteq crossed' /\ crossed' \subseteq RoomIds
  BY <1>c DEF IInv, TypeOK
<1>f. \A v \in Workers : r \notin crossed' /\ job[v].room.roomId = r =>
        FALSE
  BY <1>c DEF Crossing
<1>1. TypeOK'
  <2>1. NoUser \in Hearers
    BY DEF Hearers
  <2>2. job' \in [Workers -> [op : {"none", "accept", "send", "close"},
                              room : ChatRooms \cup {NoRoom}, target : Hearers]]
    BY <1>b, <1>c, <2>1 DEF IInv, TypeOK
  <2>3. requests' \in 0..MaxRequests
    BY <1>a, ChatAssumption DEF IInv, TypeOK
  <2> QED
    BY <1>c, <1>e, <2>2, <2>3 DEF IInv, TypeOK, Places
<1>2. Numbered'
  <2>1. nextRoomId' <= requests' + 1
    BY <1>a, <1>c, ChatAssumption DEF IInv, TypeOK, Numbered
  <2> QED
    BY <1>c, <1>e, <2>1 DEF IInv, Numbered
<1>3. Held'
  BY <1>b, <1>c, <1>d DEF IInv, Held, Members
<1>4. Alone'
  BY <1>b, <1>d, <1>e, <1>f DEF IInv, Alone, Held
<1>5. Untold'
  BY <1>c, <1>d, <1>e DEF IInv, Untold
<1>6. Told'
  BY <1>c, <1>d, NothingHeard DEF IInv, Told
<1>7. Ended'
  <2>1. \A q \in RoomIds \ crossed' : opened'[q] # NoRoom /\ rooms'[q] = NoRoom =>
          \A v \in Workers : job'[v].room.roomId # q
    BY <1>b, <1>c, <1>d, <1>e DEF IInv, Ended
  <2>2. ASSUME NEW q \in RoomIds \ crossed', NEW u \in Hearers, rooms'[q] # NoRoom, Has(u, q, "exit")'
        PROVE  \E v \in Workers :
                 /\ job'[v].room.roomId = q
                 /\ \/ pc'[v] = "remove"
                    \/ pc'[v] = "tellAdmin" /\ u = job'[v].room.customerId
    <3>1. PICK v \in Workers : /\ job[v].room.roomId = q
                               /\ \/ pc[v] = "remove"
                                  \/ pc[v] = "tellAdmin" /\ u = job[v].room.customerId
      BY <1>c, <1>e, <2>2, NothingHeard DEF IInv, Ended
    <3> QED
      BY <1>a, <1>d, <3>1
  <2> QED
    BY <2>1, <2>2 DEF Ended
<1>8. BothToldOfEnd'
  BY <1>c DEF IInv, BothToldOfEnd, Members, Has
<1>9. OrderedUnlessCrossed'
  BY <1>c, <1>e DEF IInv, OrderedUnlessCrossed
<1> QED
  BY <1>1, <1>2, <1>3, <1>4, <1>5, <1>6, <1>7, <1>8, <1>9 DEF IInv

-----------------------------------------------------------------------------
(* Steps.                                                                  *)

\* The administrator hears of the room first.
LEMMA AnswerAdminStep ==
  ASSUME NEW w \in Workers, IInv, AnswerAdmin(w)
  PROVE  IInv'
<1> DEFINE r == job[w].room.roomId
           u == job[w].target
<1>a. /\ pc[w] = "answer" /\ Going(w, "notify")
      /\ UNCHANGED <<rooms, nextRoomId, online, requests, opened, crossed>>
  BY DEF AnswerAdmin, Goto, Going, Moves
<1>b. /\ r \in RoomIds /\ opened[r] = job[w].room /\ opened[r] # NoRoom
      /\ job[w].room.customerId \in Hearers /\ job[w].room.adminId \in Users
      /\ r \notin crossed => job[w].room.customerId # job[w].room.adminId
  BY <1>a, HeldRoom DEF Hearers
<1>j. u \in Hearers /\ (u = NoUser \/ u = job[w].room.adminId)
  BY <1>a DEF IInv, TypeOK, Held, AdminId
<1>c. u \in Hearers /\ "opened" \in Kinds /\ Sends(u, r, "opened")
  BY <1>j, SentOrLost DEF Kinds
<1>d. TypeOK' /\ Numbered' /\ Held' /\ Alone'
  BY <1>a, <1>b, <1>c, Heard, GoingKeeps DEF IInv
<1>e. /\ \A v \in Workers : v # w => pc'[v] = pc[v] /\ job'[v] = job[v]
      /\ pc'[w] = "notify" /\ job'[w] = job[w]
  BY <1>a, GoingMeans
<1>f. \A q \in RoomIds, v \in Hearers :
        /\ Has(v, q, "exit")' => Has(v, q, "exit")
        /\ Knows(v, q) => Knows(v, q)'
  BY <1>b, <1>c, HeardBefore DEF IInv
<1>g. \A q \in RoomIds, v \in Hearers : q # r \/ v # u => told'[q][v] = told[q][v]
  BY <1>b, <1>c, Heard DEF IInv
<1>h. r \notin crossed => \A v \in Workers : v # w => job[v].room.roomId # r
  BY <1>a DEF IInv, Alone, Held
<1>i. \A v \in Workers : pc[v] # "idle" =>
        /\ job[v].room.roomId \in RoomIds
        /\ job[v].room.customerId \in Hearers /\ job[v].room.adminId \in Hearers
        /\ opened[job[v].room.roomId] = job[v].room
  BY HeldRoom DEF Hearers
<1> HIDE DEF r, u
<1>1. Untold'
  <2>1. \A q \in RoomIds, v \in Hearers : q >= nextRoomId' => told'[q][v] = <<>>
    <3>1. r < nextRoomId
      BY <1>b DEF IInv, Numbered
    <3>2. \A q \in RoomIds : q >= nextRoomId => q # r
      BY <3>1, <1>b DEF IInv, TypeOK, RoomIds
    <3> QED
      BY <1>a, <1>g, <3>2 DEF IInv, Untold
  <2>2. ASSUME NEW x \in Workers, x # w, job[x].room.roomId \notin crossed,
               pc[x] \in {"answer", "notify"}
        PROVE  /\ pc'[x] = "answer" => \A v \in Hearers : told'[job'[x].room.roomId][v] = <<>>
               /\ pc'[x] = "notify" => told'[job'[x].room.roomId][job'[x].room.customerId] = <<>>
    <3>1. job[x].room.roomId # r
      BY <1>h, <2>2, <1>a DEF IInv, Alone, Held, r
    <3> QED
      BY <1>e, <1>g, <1>i, <2>2, <3>1 DEF IInv, Untold
  <2>3. r \notin crossed => told'[r][job[w].room.customerId] = <<>>
    <3>1. r \notin crossed => job[w].room.customerId # u
      BY <1>a, <1>b, <1>j, HeldRoom, ChatAssumption
    <3> QED
      BY <1>a, <1>b, <1>g, <3>1 DEF IInv, Untold, r
  <2> QED
    BY <1>a, <1>e, <2>1, <2>2, <2>3 DEF Untold, r
<1>2. Told'
  BY <1>a, <1>b, <1>e, <1>f, <1>i, HeldRoom DEF IInv, Told, r, u
<1>3. Ended'
  <2>1. \A q \in RoomIds \ crossed' : opened'[q] # NoRoom /\ rooms'[q] = NoRoom =>
          \A v \in Workers : job'[v].room.roomId # q
    BY <1>a, <1>e, ChatAssumption DEF IInv, Ended, RoomIds
  <2>2. ASSUME NEW q \in RoomIds \ crossed', NEW x \in Hearers, rooms'[q] # NoRoom, Has(x, q, "exit")'
        PROVE  \E v \in Workers :
                 /\ job'[v].room.roomId = q
                 /\ \/ pc'[v] = "remove"
                    \/ pc'[v] = "tellAdmin" /\ x = job'[v].room.customerId
    <3>1. CASE Has(x, q, "exit")
      <4>1. PICK v \in Workers : /\ job[v].room.roomId = q
                                 /\ \/ pc[v] = "remove"
                                    \/ pc[v] = "tellAdmin" /\ x = job[v].room.customerId
        BY <1>a, <2>2, <3>1 DEF IInv, Ended
      <4> QED
        BY <1>a, <1>e, <4>1
    <3> QED
      BY <1>f, <2>2, <3>1
  <2> QED
    BY <2>1, <2>2 DEF Ended
<1>4. BothToldOfEnd'
  BY <1>a, <1>b, <1>c, BothToldKept
<1>5. OrderedUnlessCrossed'
  <2>1. CASE r \in crossed
    BY <1>a, <1>b, <1>c, <2>1, OrderOfOthers DEF IInv
  <2>2. CASE r \notin crossed
    <3>1. \A i \in 1..Len(told[r][u]) : MayFollow(told[r][u][i], "opened")
      <4>1. told[r][u] = <<>>
        BY <1>a, <1>b, <1>c, <2>2 DEF IInv, Untold, r, u
      <4> QED
        BY <4>1
    <3> QED
      BY <1>a, <1>b, <1>c, <2>2, <3>1, OrderKept DEF IInv
  <2> QED
    BY <2>1, <2>2
<1> QED
  BY <1>d, <1>1, <1>2, <1>3, <1>4, <1>5 DEF IInv

\* Then the customer does.
LEMMA NotifyOpenedStep ==
  ASSUME NEW w \in Workers, IInv, NotifyOpened(w)
  PROVE  IInv'
<1> DEFINE r == job[w].room.roomId
           u == job[w].room.customerId
<1>a. /\ pc[w] = "notify" /\ Going(w, "idle")
      /\ UNCHANGED <<rooms, nextRoomId, online, requests, opened, crossed>>
  BY DEF NotifyOpened, Finish, Going, Moves
<1>b. /\ r \in RoomIds /\ opened[r] = job[w].room /\ opened[r] # NoRoom
      /\ job[w].room.customerId \in Hearers /\ job[w].room.adminId \in Users
      /\ r \notin crossed => job[w].room.customerId # job[w].room.adminId
  BY <1>a, HeldRoom DEF Hearers
<1>c. u \in Hearers /\ "opened" \in Kinds /\ Sends(u, r, "opened")
  BY <1>a, <1>b, HeldRoom, SentOrLost DEF Hearers, Kinds, NotifyOpened
<1>d. TypeOK' /\ Numbered' /\ Held' /\ Alone'
  BY <1>a, <1>b, <1>c, Heard, GoingKeeps DEF IInv
<1>e. /\ \A v \in Workers : v # w => pc'[v] = pc[v] /\ job'[v] = job[v]
      /\ pc'[w] = "idle" /\ job'[w].room.roomId = 0
  BY <1>a, GoingMeans
<1>f. \A q \in RoomIds, v \in Hearers :
        /\ Has(v, q, "exit")' => Has(v, q, "exit")
        /\ Knows(v, q) => Knows(v, q)'
  BY <1>b, <1>c, HeardBefore DEF IInv
<1>g. \A q \in RoomIds, v \in Hearers : q # r \/ v # u => told'[q][v] = told[q][v]
  BY <1>b, <1>c, Heard DEF IInv
<1>h. r \notin crossed => \A v \in Workers : v # w => job[v].room.roomId # r
  BY <1>a DEF IInv, Alone, Held
<1>i. \A v \in Workers : pc[v] # "idle" =>
        /\ job[v].room.roomId \in RoomIds
        /\ job[v].room.customerId \in Hearers /\ job[v].room.adminId \in Hearers
        /\ opened[job[v].room.roomId] = job[v].room
  BY HeldRoom DEF Hearers
<1> HIDE DEF r, u
<1>1. Untold'
  <2>1. \A q \in RoomIds, v \in Hearers : q >= nextRoomId' => told'[q][v] = <<>>
    <3>1. r < nextRoomId
      BY <1>b DEF IInv, Numbered
    <3>2. \A q \in RoomIds : q >= nextRoomId => q # r
      BY <3>1, <1>b DEF IInv, TypeOK, RoomIds
    <3> QED
      BY <1>a, <1>g, <3>2 DEF IInv, Untold
  <2>2. ASSUME NEW x \in Workers, x # w, job[x].room.roomId \notin crossed,
               pc[x] \in {"answer", "notify"}
        PROVE  /\ pc'[x] = "answer" => \A v \in Hearers : told'[job'[x].room.roomId][v] = <<>>
               /\ pc'[x] = "notify" => told'[job'[x].room.roomId][job'[x].room.customerId] = <<>>
    <3>1. job[x].room.roomId # r
      BY <1>h, <2>2, <1>a DEF IInv, Alone, Held, r
    <3> QED
      BY <1>e, <1>g, <1>i, <2>2, <3>1 DEF IInv, Untold
  <2> QED
    BY <1>a, <1>e, <2>1, <2>2 DEF Untold, r
<1>2. Told'
  BY <1>a, <1>b, <1>e, <1>f, <1>i, HeldRoom DEF IInv, Told, r, u
<1>3. Ended'
  <2>1. \A q \in RoomIds \ crossed' : opened'[q] # NoRoom /\ rooms'[q] = NoRoom =>
          \A v \in Workers : job'[v].room.roomId # q
    BY <1>a, <1>e, ChatAssumption DEF IInv, Ended, RoomIds
  <2>2. ASSUME NEW q \in RoomIds \ crossed', NEW x \in Hearers, rooms'[q] # NoRoom, Has(x, q, "exit")'
        PROVE  \E v \in Workers :
                 /\ job'[v].room.roomId = q
                 /\ \/ pc'[v] = "remove"
                    \/ pc'[v] = "tellAdmin" /\ x = job'[v].room.customerId
    <3>1. CASE Has(x, q, "exit")
      <4>1. PICK v \in Workers : /\ job[v].room.roomId = q
                                 /\ \/ pc[v] = "remove"
                                    \/ pc[v] = "tellAdmin" /\ x = job[v].room.customerId
        BY <1>a, <2>2, <3>1 DEF IInv, Ended
      <4> QED
        BY <1>a, <1>e, <4>1
    <3> QED
      BY <1>f, <2>2, <3>1
  <2> QED
    BY <2>1, <2>2 DEF Ended
<1>4. BothToldOfEnd'
  BY <1>a, <1>b, <1>c, BothToldKept
<1>5. OrderedUnlessCrossed'
  <2>1. CASE r \in crossed
    BY <1>a, <1>b, <1>c, <2>1, OrderOfOthers DEF IInv
  <2>2. CASE r \notin crossed
    <3>1. \A i \in 1..Len(told[r][u]) : MayFollow(told[r][u][i], "opened")
      <4>1. told[r][u] = <<>>
        BY <1>a, <1>b, <1>c, <2>2 DEF IInv, Untold, r, u
      <4> QED
        BY <4>1
    <3> QED
      BY <1>a, <1>b, <1>c, <2>2, <3>1, OrderKept DEF IInv
  <2> QED
    BY <2>1, <2>2
<1> QED
  BY <1>d, <1>1, <1>2, <1>3, <1>4, <1>5 DEF IInv

\* A message that crossed no closing does not come after the end.
LEMMA RelayStep ==
  ASSUME NEW w \in Workers, IInv, Relay(w)
  PROVE  IInv'
<1> DEFINE r == job[w].room.roomId
           u == job[w].target
<1>a. /\ pc[w] = "relay" /\ Going(w, "idle")
      /\ UNCHANGED <<rooms, nextRoomId, online, requests, opened, crossed>>
  BY DEF Relay, Finish, Going, Moves
<1>b. /\ r \in RoomIds /\ opened[r] = job[w].room /\ opened[r] # NoRoom
      /\ job[w].room.customerId \in Hearers /\ job[w].room.adminId \in Users
      /\ r \notin crossed => job[w].room.customerId # job[w].room.adminId
  BY <1>a, HeldRoom DEF Hearers
<1>c. u \in Hearers /\ "message" \in Kinds /\ Sends(u, r, "message")
  BY <1>a, <1>b, HeldRoom, SentOrLost DEF Hearers, Kinds, Relay, IInv, Held, Members
<1>d. TypeOK' /\ Numbered' /\ Held' /\ Alone'
  BY <1>a, <1>b, <1>c, Heard, GoingKeeps DEF IInv
<1>e. /\ \A v \in Workers : v # w => pc'[v] = pc[v] /\ job'[v] = job[v]
      /\ pc'[w] = "idle" /\ job'[w].room.roomId = 0
  BY <1>a, GoingMeans
<1>f. \A q \in RoomIds, v \in Hearers :
        /\ Has(v, q, "exit")' => Has(v, q, "exit")
        /\ Knows(v, q) => Knows(v, q)'
  BY <1>b, <1>c, HeardBefore DEF IInv
<1>g. \A q \in RoomIds, v \in Hearers : q # r \/ v # u => told'[q][v] = told[q][v]
  BY <1>b, <1>c, Heard DEF IInv
<1>i. \A v \in Workers : pc[v] # "idle" =>
        /\ job[v].room.roomId \in RoomIds
        /\ job[v].room.customerId \in Hearers /\ job[v].room.adminId \in Hearers
        /\ opened[job[v].room.roomId] = job[v].room
  BY HeldRoom DEF Hearers
<1> HIDE DEF r, u
<1>1. Untold'
  <2>1. \A q \in RoomIds, v \in Hearers : q >= nextRoomId' => told'[q][v] = <<>>
    <3>1. r < nextRoomId
      BY <1>b DEF IInv, Numbered
    <3>2. \A q \in RoomIds : q >= nextRoomId => q # r
      BY <3>1, <1>b DEF IInv, TypeOK, RoomIds
    <3> QED
      BY <1>a, <1>g, <3>2 DEF IInv, Untold
  <2>2. ASSUME NEW x \in Workers, x # w, job[x].room.roomId \notin crossed,
               pc[x] \in {"answer", "notify"}
        PROVE  /\ pc'[x] = "answer" => \A v \in Hearers : told'[job'[x].room.roomId][v] = <<>>
               /\ pc'[x] = "notify" => told'[job'[x].room.roomId][job'[x].room.customerId] = <<>>
    <3>1. job[x].room.roomId # r
      BY <1>a, <2>2 DEF IInv, Alone, Held, r
    <3> QED
      BY <1>e, <1>g, <1>i, <2>2, <3>1 DEF IInv, Untold
  <2> QED
    BY <1>a, <1>e, <2>1, <2>2 DEF Untold, r
<1>2. Told'
  BY <1>a, <1>b, <1>e, <1>f, <1>i, HeldRoom DEF IInv, Told, r, u
<1>3. Ended'
  <2>1. \A q \in RoomIds \ crossed' : opened'[q] # NoRoom /\ rooms'[q] = NoRoom =>
          \A v \in Workers : job'[v].room.roomId # q
    BY <1>a, <1>e, ChatAssumption DEF IInv, Ended, RoomIds
  <2>2. ASSUME NEW q \in RoomIds \ crossed', NEW x \in Hearers, rooms'[q] # NoRoom, Has(x, q, "exit")'
        PROVE  \E v \in Workers :
                 /\ job'[v].room.roomId = q
                 /\ \/ pc'[v] = "remove"
                    \/ pc'[v] = "tellAdmin" /\ x = job'[v].room.customerId
    <3>1. CASE Has(x, q, "exit")
      <4>1. PICK v \in Workers : /\ job[v].room.roomId = q
                                 /\ \/ pc[v] = "remove"
                                    \/ pc[v] = "tellAdmin" /\ x = job[v].room.customerId
        BY <1>a, <2>2, <3>1 DEF IInv, Ended
      <4> QED
        BY <1>a, <1>e, <4>1
    <3> QED
      BY <1>f, <2>2, <3>1
  <2> QED
    BY <2>1, <2>2 DEF Ended
<1>4. BothToldOfEnd'
  BY <1>a, <1>b, <1>c, BothToldKept
<1>5. OrderedUnlessCrossed'
  <2>1. CASE r \in crossed
    BY <1>a, <1>b, <1>c, <2>1, OrderOfOthers DEF IInv
  <2>2. CASE r \notin crossed
    <3>1. \A i \in 1..Len(told[r][u]) : MayFollow(told[r][u][i], "message")
      <4>1. ~Has(u, r, "exit")
        <5>1. rooms[r] # NoRoom
          BY <1>b, <2>2 DEF IInv, Ended, r
        <5>2. SUFFICES ASSUME NEW v \in Workers, job[v].room.roomId = r,
                              pc[v] = "remove" \/ (pc[v] = "tellAdmin" /\ u = job[v].room.customerId)
                       PROVE  FALSE
          BY <1>b, <1>c, <2>2, <5>1 DEF IInv, Ended
        <5>3. job[v].op = "close"
          BY <5>2 DEF IInv, Held
        <5>4. v = w
          BY <2>2, <5>2, <5>3 DEF IInv, Alone, r
        <5> QED
          BY <1>a, <1>b, <5>2, <5>4 DEF u
      <4> QED
        BY <4>1 DEF Has, MayFollow
    <3> QED
      BY <1>a, <1>b, <1>c, <2>2, <3>1, OrderKept DEF IInv
  <2> QED
    BY <2>1, <2>2
<1> QED
  BY <1>d, <1>1, <1>2, <1>3, <1>4, <1>5 DEF IInv

\* The end is told to the customer.
LEMMA TellCustomerStep ==
  ASSUME NEW w \in Workers, IInv, TellCustomer(w)
  PROVE  IInv'
<1> DEFINE r == job[w].room.roomId
           u == job[w].room.customerId
<1>a. /\ pc[w] = "tellCustomer" /\ Going(w, "tellAdmin")
      /\ UNCHANGED <<rooms, nextRoomId, online, requests, opened, crossed>>
  BY DEF TellCustomer, Goto, Going, Moves, AfterCustomer
<1>b. /\ r \in RoomIds /\ opened[r] = job[w].room /\ opened[r] # NoRoom
      /\ job[w].room.customerId \in Hearers /\ job[w].room.adminId \in Users
      /\ r \notin crossed => job[w].room.customerId # job[w].room.adminId
  BY <1>a, HeldRoom DEF Hearers
<1>c. u \in Hearers /\ "exit" \in Kinds /\ Sends(u, r, "exit")
  BY <1>a, <1>b, HeldRoom, SentOrLost DEF Hearers, Kinds, TellCustomer
<1>d. TypeOK' /\ Numbered' /\ Held' /\ Alone'
  BY <1>a, <1>b, <1>c, Heard, GoingKeeps DEF IInv
<1>e. /\ \A v \in Workers : v # w => pc'[v] = pc[v] /\ job'[v] = job[v]
      /\ pc'[w] = "tellAdmin" /\ job'[w] = job[w]
  BY <1>a, GoingMeans
<1>f. \A q \in RoomIds, v \in Hearers :
        /\ Has(v, q, "exit")' => Has(v, q, "exit") \/ (v = u /\ q = r)
        /\ Knows(v, q) => Knows(v, q)'
  BY <1>b, <1>c, HeardBefore DEF IInv
<1>k. \A q \in RoomIds, v \in Hearers : q = r /\ v = u => Knows(v, q)'
  BY <1>b, <1>c, HeardBefore DEF IInv
<1>g. \A q \in RoomIds, v \in Hearers : q # r \/ v # u => told'[q][v] = told[q][v]
  BY <1>b, <1>c, Heard DEF IInv
<1>h. r \notin crossed => \A v \in Workers : v # w => job[v].room.roomId # r
  BY <1>a DEF IInv, Alone, Held
<1>i. \A v \in Workers : pc[v] # "idle" =>
        /\ job[v].room.roomId \in RoomIds
        /\ job[v].room.customerId \in Hearers /\ job[v].room.adminId \in Hearers
        /\ opened[job[v].room.roomId] = job[v].room
  BY HeldRoom DEF Hearers
<1> HIDE DEF r, u
<1>1. Untold'
  <2>1. \A q \in RoomIds, v \in Hearers : q >= nextRoomId' => told'[q][v] = <<>>
    <3>1. r < nextRoomId
      BY <1>b DEF IInv, Numbered
    <3>2. \A q \in RoomIds : q >= nextRoomId => q # r
      BY <3>1, <1>b DEF IInv, TypeOK, RoomIds
    <3> QED
      BY <1>a, <1>g, <3>2 DEF IInv, Untold
  <2>2. ASSUME NEW x \in Workers, x # w, job[x].room.roomId \notin crossed,
               pc[x] \in {"answer", "notify"}
        PROVE  /\ pc'[x] = "answer" => \A v \in Hearers : told'[job'[x].room.roomId][v] = <<>>
               /\ pc'[x] = "notify" => told'[job'[x].room.roomId][job'[x].room.customerId] = <<>>
    <3>1. job[x].room.roomId # r
      BY <1>h, <2>2, <1>a DEF IInv, Alone, Held, r
    <3> QED
      BY <1>e, <1>g, <1>i, <2>2, <3>1 DEF IInv, Untold
  <2> QED
    BY <1>a, <1>e, <2>1, <2>2 DEF Untold, r
<1>2. Told'
  BY <1>a, <1>b, <1>e, <1>f, <1>i, <1>k, HeldRoom DEF IInv, Told, r, u
<1>3. Ended'
  <2>1. \A q \in RoomIds \ crossed' : opened'[q] # NoRoom /\ rooms'[q] = NoRoom =>
          \A v \in Workers : job'[v].room.roomId # q
    BY <1>a, <1>e, ChatAssumption DEF IInv, Ended, RoomIds
  <2>2. ASSUME NEW q \in RoomIds \ crossed', NEW x \in Hearers, rooms'[q] # NoRoom, Has(x, q, "exit")'
        PROVE  \E v \in Workers :
                 /\ job'[v].room.roomId = q
                 /\ \/ pc'[v] = "remove"
                    \/ pc'[v] = "tellAdmin" /\ x = job'[v].room.customerId
    <3>1. CASE Has(x, q, "exit")
      <4>1. PICK v \in Workers : /\ job[v].room.roomId = q
                                 /\ \/ pc[v] = "remove"
                                    \/ pc[v] = "tellAdmin" /\ x = job[v].room.customerId
        BY <1>a, <2>2, <3>1 DEF IInv, Ended
      <4> QED
        BY <1>a, <1>e, <4>1
    <3>2. CASE x = u /\ q = r
      BY <1>a, <1>b, <1>e, <3>2 DEF r, u
    <3> QED
      BY <1>f, <2>2, <3>1, <3>2
  <2> QED
    BY <2>1, <2>2 DEF Ended
<1>4. BothToldOfEnd'
  BY <1>a, <1>b, <1>c, BothToldKept
<1>5. OrderedUnlessCrossed'
  <2>1. CASE r \in crossed
    BY <1>a, <1>b, <1>c, <2>1, OrderOfOthers DEF IInv
  <2>2. CASE r \notin crossed
    <3>1. \A i \in 1..Len(told[r][u]) : MayFollow(told[r][u][i], "exit")
      <4>1. ~Has(u, r, "exit")
        <5>1. rooms[r] # NoRoom
          BY <1>b, <2>2 DEF IInv, Ended, r
        <5>2. SUFFICES ASSUME NEW v \in Workers, job[v].room.roomId = r,
                              pc[v] = "remove" \/ (pc[v] = "tellAdmin" /\ u = job[v].room.customerId)
                       PROVE  FALSE
          BY <1>b, <1>c, <2>2, <5>1 DEF IInv, Ended
        <5>3. job[v].op = "close"
          BY <5>2 DEF IInv, Held
        <5>4. v = w
          BY <2>2, <5>2, <5>3 DEF IInv, Alone, r
        <5> QED
          BY <1>a, <1>b, <5>2, <5>4 DEF u
      <4> QED
        BY <4>1 DEF Has, MayFollow
    <3> QED
      BY <1>a, <1>b, <1>c, <2>2, <3>1, OrderKept DEF IInv
  <2> QED
    BY <2>1, <2>2
<1> QED
  BY <1>d, <1>1, <1>2, <1>3, <1>4, <1>5 DEF IInv

\* Then to the administrator.
LEMMA TellAdminStep ==
  ASSUME NEW w \in Workers, IInv, TellAdmin(w)
  PROVE  IInv'
<1> DEFINE r == job[w].room.roomId
           u == job[w].room.adminId
<1>a. /\ pc[w] = "tellAdmin" /\ Going(w, "remove")
      /\ UNCHANGED <<rooms, nextRoomId, online, requests, opened, crossed>>
  BY DEF TellAdmin, Goto, Going, Moves
<1>b. /\ r \in RoomIds /\ opened[r] = job[w].room /\ opened[r] # NoRoom
      /\ job[w].room.customerId \in Hearers /\ job[w].room.adminId \in Users
      /\ r \notin crossed => job[w].room.customerId # job[w].room.adminId
  BY <1>a, HeldRoom DEF Hearers
<1>c. u \in Hearers /\ "exit" \in Kinds /\ Sends(u, r, "exit")
  BY <1>a, <1>b, HeldRoom, SentOrLost DEF Hearers, Kinds, TellAdmin
<1>d. TypeOK' /\ Numbered' /\ Held' /\ Alone'
  BY <1>a, <1>b, <1>c, Heard, GoingKeeps DEF IInv
<1>e. /\ \A v \in Workers : v # w => pc'[v] = pc[v] /\ job'[v] = job[v]
      /\ pc'[w] = "remove" /\ job'[w] = job[w]
  BY <1>a, GoingMeans
<1>f. \A q \in RoomIds, v \in Hearers :
        /\ Has(v, q, "exit")' => Has(v, q, "exit") \/ (v = u /\ q = r)
        /\ Knows(v, q) => Knows(v, q)'
  BY <1>b, <1>c, HeardBefore DEF IInv
<1>k. \A q \in RoomIds, v \in Hearers : q = r /\ v = u => Knows(v, q)'
  BY <1>b, <1>c, HeardBefore DEF IInv
<1>g. \A q \in RoomIds, v \in Hearers : q # r \/ v # u => told'[q][v] = told[q][v]
  BY <1>b, <1>c, Heard DEF IInv
<1>h. r \notin crossed => \A v \in Workers : v # w => job[v].room.roomId # r
  BY <1>a DEF IInv, Alone, Held
<1>i. \A v \in Workers : pc[v] # "idle" =>
        /\ job[v].room.roomId \in RoomIds
        /\ job[v].room.customerId \in Hearers /\ job[v].room.adminId \in Hearers
        /\ opened[job[v].room.roomId] = job[v].room
  BY HeldRoom DEF Hearers
<1> HIDE DEF r, u
<1>1. Untold'
  <2>1. \A q \in RoomIds, v \in Hearers : q >= nextRoomId' => told'[q][v] = <<>>
    <3>1. r < nextRoomId
      BY <1>b DEF IInv, Numbered
    <3>2. \A q \in RoomIds : q >= nextRoomId => q # r
      BY <3>1, <1>b DEF IInv, TypeOK, RoomIds
    <3> QED
      BY <1>a, <1>g, <3>2 DEF IInv, Untold
  <2>2. ASSUME NEW x \in Workers, x # w, job[x].room.roomId \notin crossed,
               pc[x] \in {"answer", "notify"}
        PROVE  /\ pc'[x] = "answer" => \A v \in Hearers : told'[job'[x].room.roomId][v] = <<>>
               /\ pc'[x] = "notify" => told'[job'[x].room.roomId][job'[x].room.customerId] = <<>>
    <3>1. job[x].room.roomId # r
      BY <1>h, <2>2, <1>a DEF IInv, Alone, Held, r
    <3> QED
      BY <1>e, <1>g, <1>i, <2>2, <3>1 DEF IInv, Untold
  <2> QED
    BY <1>a, <1>e, <2>1, <2>2 DEF Untold, r
<1>2. Told'
  BY <1>a, <1>b, <1>e, <1>f, <1>i, <1>k, HeldRoom DEF IInv, Told, r, u
<1>3. Ended'
  <2>1. \A q \in RoomIds \ crossed' : opened'[q] # NoRoom /\ rooms'[q] = NoRoom =>
          \A v \in Workers : job'[v].room.roomId # q
    BY <1>a, <1>e, ChatAssumption DEF IInv, Ended, RoomIds
  <2>2. ASSUME NEW q \in RoomIds \ crossed', NEW x \in Hearers, rooms'[q] # NoRoom, Has(x, q, "exit")'
        PROVE  \E v \in Workers :
                 /\ job'[v].room.roomId = q
                 /\ \/ pc'[v] = "remove"
                    \/ pc'[v] = "tellAdmin" /\ x = job'[v].room.customerId
    <3>1. CASE Has(x, q, "exit")
      <4>1. PICK v \in Workers : /\ job[v].room.roomId = q
                                 /\ \/ pc[v] = "remove"
                                    \/ pc[v] = "tellAdmin" /\ x = job[v].room.customerId
        BY <1>a, <2>2, <3>1 DEF IInv, Ended
      <4> QED
        BY <1>a, <1>e, <4>1
    <3>2. CASE x = u /\ q = r
      BY <1>a, <1>b, <1>e, <3>2 DEF r, u
    <3> QED
      BY <1>f, <2>2, <3>1, <3>2
  <2> QED
    BY <2>1, <2>2 DEF Ended
<1>4. BothToldOfEnd'
  BY <1>a, <1>b, <1>c, BothToldKept
<1>5. OrderedUnlessCrossed'
  <2>1. CASE r \in crossed
    BY <1>a, <1>b, <1>c, <2>1, OrderOfOthers DEF IInv
  <2>2. CASE r \notin crossed
    <3>1. \A i \in 1..Len(told[r][u]) : MayFollow(told[r][u][i], "exit")
      <4>1. ~Has(u, r, "exit")
        <5>1. rooms[r] # NoRoom
          BY <1>b, <2>2 DEF IInv, Ended, r
        <5>2. SUFFICES ASSUME NEW v \in Workers, job[v].room.roomId = r,
                              pc[v] = "remove" \/ (pc[v] = "tellAdmin" /\ u = job[v].room.customerId)
                       PROVE  FALSE
          BY <1>b, <1>c, <2>2, <5>1 DEF IInv, Ended
        <5>3. job[v].op = "close"
          BY <5>2 DEF IInv, Held
        <5>4. v = w
          BY <2>2, <5>2, <5>3 DEF IInv, Alone, r
        <5> QED
          BY <1>a, <1>b, <2>2, <5>2, <5>4 DEF u
      <4> QED
        BY <4>1 DEF Has, MayFollow
    <3> QED
      BY <1>a, <1>b, <1>c, <2>2, <3>1, OrderKept DEF IInv
  <2> QED
    BY <2>1, <2>2
<1> QED
  BY <1>d, <1>1, <1>2, <1>3, <1>4, <1>5 DEF IInv

\* Both know when the room goes.
LEMMA RemoveStep ==
  ASSUME NEW w \in Workers, IInv, RemoveRoom(w)
  PROVE  IInv'
<1> DEFINE r == job[w].room.roomId
<1>a. /\ pc[w] = "remove" /\ Going(w, "idle") /\ rooms' = [rooms EXCEPT ![r] = NoRoom]
      /\ UNCHANGED <<nextRoomId, online, requests, opened, told, missed, crossed>>
  BY DEF RemoveRoom, Erase, Finish, Going
<1>b. r \in RoomIds /\ opened[r] = job[w].room /\ opened[r] # NoRoom
  BY <1>a, HeldRoom DEF Hearers
<1>c. /\ \A v \in Workers : v # w => pc'[v] = pc[v] /\ job'[v] = job[v]
      /\ pc'[w] = "idle" /\ job'[w] = NoJob /\ job'[w].room.roomId = 0
      /\ \A q \in RoomIds : q # r => rooms'[q] = rooms[q]
      /\ rooms'[r] = NoRoom
  BY <1>a, <1>b, GoingMeans DEF IInv, TypeOK
<1>d. r \notin crossed => \A v \in Workers : v # w => job[v].room.roomId # r
  BY <1>a DEF IInv, Alone, Held
<1> HIDE DEF r
<1>1. TypeOK'
  <2>1. NoJob \in [op : {"none", "accept", "send", "close"},
                   room : ChatRooms \cup {NoRoom}, target : Hearers]
    BY DEF NoJob, Hearers
  <2>2. job' \in [Workers -> [op : {"none", "accept", "send", "close"},
                              room : ChatRooms \cup {NoRoom}, target : Hearers]]
    BY <1>a, <2>1 DEF IInv, TypeOK, Going
  <2> QED
    BY <1>a, <2>2 DEF IInv, TypeOK, Going, Places
<1>2. Numbered'
  BY <1>a, <1>c DEF IInv, Numbered
<1>3. Held'
  BY <1>a, <1>c DEF IInv, Held, NoJob, Members
<1>4. Alone'
  <2>1. \A v \in Workers : pc[v] # "idle" => job[v].room.roomId # 0
    BY HeldRoom, ChatAssumption DEF RoomIds
  <2> QED
    BY <1>a, <1>c, <2>1 DEF IInv, Alone
<1>5. Untold'
  BY <1>a, <1>c DEF IInv, Untold
<1>6. Told'
  BY <1>a, <1>c, NothingHeard DEF IInv, Told
<1>7. Ended'
  <2>1. \A q \in RoomIds \ crossed' : opened'[q] # NoRoom /\ rooms'[q] = NoRoom =>
          \A v \in Workers : job'[v].room.roomId # q
    BY <1>a, <1>c, <1>d, ChatAssumption DEF IInv, Ended, RoomIds
  <2>2. ASSUME NEW q \in RoomIds \ crossed', NEW x \in Hearers, rooms'[q] # NoRoom, Has(x, q, "exit")'
        PROVE  \E v \in Workers :
                 /\ job'[v].room.roomId = q
                 /\ \/ pc'[v] = "remove"
                    \/ pc'[v] = "tellAdmin" /\ x = job'[v].room.customerId
    <3>1. q # r /\ rooms[q] # NoRoom /\ Has(x, q, "exit")
      BY <1>a, <1>c, <2>2, NothingHeard
    <3>2. PICK v \in Workers : /\ job[v].room.roomId = q
                               /\ \/ pc[v] = "remove"
                                  \/ pc[v] = "tellAdmin" /\ x = job[v].room.customerId
      BY <1>a, <2>2, <3>1 DEF IInv, Ended
    <3> QED
      BY <1>c, <3>1, <3>2 DEF r
  <2> QED
    BY <2>1, <2>2 DEF Ended
<1>8. BothToldOfEnd'
  <2>1. Knows(opened[r].customerId, r) /\ Knows(opened[r].adminId, r)
    BY <1>a, <1>b DEF IInv, Told, r
  <2>2. \A q \in RoomIds : opened'[q] # NoRoom /\ rooms'[q] = NoRoom =>
          \A v \in Members(q)' : Knows(v, q)'
    BY <1>a, <1>c, <2>1, NothingHeard, BothToldMeans DEF IInv, Members
  <2> QED
    BY <2>2 DEF BothToldOfEnd, Knows
<1>9. OrderedUnlessCrossed'
  BY <1>a DEF IInv, OrderedUnlessCrossed
<1> QED
  BY <1>1, <1>2, <1>3, <1>4, <1>5, <1>6, <1>7, <1>8, <1>9 DEF IInv

\* Nothing changes.
LEMMA Stuttering ==
  ASSUME IInv, UNCHANGED vars
  PROVE  IInv'
<1> USE DEF vars
<1>1. TypeOK'
  BY DEF IInv, TypeOK
<1>2. Numbered'
  BY DEF IInv, Numbered
<1>3. Held'
  BY DEF IInv, Held, Members
<1>4. Alone'
  BY DEF IInv, Alone
<1>5. Untold'
  BY DEF IInv, Untold
<1>6. Told'
  BY NothingHeard DEF IInv, Told
<1>7. Ended'
  BY NothingHeard DEF IInv, Ended
<1>8. BothToldOfEnd'
  BY DEF IInv, BothToldOfEnd, Members, Has
<1>9. OrderedUnlessCrossed'
  BY DEF IInv, OrderedUnlessCrossed
<1> QED
  BY <1>1, <1>2, <1>3, <1>4, <1>5, <1>6, <1>7, <1>8, <1>9 DEF IInv

-----------------------------------------------------------------------------
(* The invariant and what follows from it.                                 *)

\* The invariant holds when the server starts.
LEMMA Initially ==
  ASSUME Init
  PROVE  IInv
<1> USE ChatAssumption DEF Init, Places, RoomIds, Hearers, ChatRooms, NoRoom, NoJob
<1>1. TypeOK
  BY DEF TypeOK
<1>2. Numbered
  BY DEF Numbered
<1>3. Held
  BY DEF Held, Members
<1>4. Alone
  BY DEF Alone, Held
<1>5. Untold
  BY DEF Untold
<1>6. Told
  BY DEF Told, Knows, Has
<1>7. Ended
  BY DEF Ended, Has
<1>8. BothToldOfEnd
  BY DEF BothToldOfEnd, Members, Knows, Has
<1>9. OrderedUnlessCrossed
  BY DEF OrderedUnlessCrossed
<1> QED
  BY <1>1, <1>2, <1>3, <1>4, <1>5, <1>6, <1>7, <1>8, <1>9 DEF IInv

\* The three requests.
LEMMA HandleStep ==
  ASSUME NEW w \in Workers, IInv, Handle(w)
  PROVE  IInv'
<1>1. CASE \E c \in Users, s \in Hearers : HandleChatAccept(w, c, s)
  BY <1>1, AcceptStep
<1>2. CASE \E u \in Users, r \in RoomIds : HandleChatSend(w, u, r)
  BY <1>2, SendStep, NothingStep DEF HandleChatSend, Begin
<1>3. CASE \E r \in RoomIds : HandleChatClose(w, r)
  BY <1>3, CloseStep, NothingStep DEF HandleChatClose, Begin
<1> QED
  BY <1>1, <1>2, <1>3 DEF Handle

\* The inductive invariant.
THEOREM Invariance == Spec => []IInv
<1>1. Init => IInv
  BY Initially
<1>2. IInv /\ [Next]_vars => IInv'
  <2> SUFFICES ASSUME IInv, [Next]_vars
               PROVE  IInv'
    OBVIOUS
  <2>1. CASE \E u \in Users : ComeOnline(u) \/ GoOffline(u)
    BY <2>1, OnlineStep DEF ComeOnline, GoOffline, IInv, TypeOK
  <2>2. CASE \E w \in Workers : Handle(w)
    BY <2>2, HandleStep
  <2>3. CASE \E w \in Workers : Step(w)
    BY <2>3, AnswerAdminStep, NotifyOpenedStep, RelayStep, TellCustomerStep, TellAdminStep,
       RemoveStep DEF Step
  <2>4. CASE UNCHANGED vars
    BY <2>4, Stuttering
  <2> QED
    BY <2>1, <2>2, <2>3, <2>4 DEF Next
<1> QED
  BY <1>1, <1>2, PTL DEF Spec

\* The rooms, the numbers given to them and the workers' requests keep their types.
THEOREM TypeCorrect == Spec => []TypeOK
<1>1. IInv => TypeOK
  BY DEF IInv
<1> QED
  BY <1>1, Invariance, PTL

\* When a room is gone both members have been sent the end, whatever relays and
\* closings run beside the one that removes it.
THEOREM NobodyLeftBehind == Spec => []BothToldOfEnd
<1>1. IInv => BothToldOfEnd
  BY DEF IInv
<1> QED
  BY <1>1, Invariance, PTL

\* What a member hears of a room is in order, unless requests crossed.
THEOREM OrderIsKept == Spec => []OrderedUnlessCrossed
<1>1. IInv => OrderedUnlessCrossed
  BY DEF IInv
<1> QED
  BY <1>1, Invariance, PTL
-----------------------------------------------------------------------------
(* Who hears of a room, and what becomes of it.                            *)

\* Nobody but the two members a room was opened for ever hears of it, although
\* any client may name any room and a relay may go on after the room is gone;
\* except that a session without identity that opens a room, in the name of
\* "admin", is given its number, and nothing after that.
OnlyMembersHear ==
  \A r \in RoomIds :
    /\ \A u \in Users : told[r][u] # <<>> => u \in Members(r)
    /\ told[r][NoUser] # <<>> => told[r][NoUser] = <<"opened">> /\ opened[r].adminId = DefaultAdmin

\* The members of a room never change, and a room that was removed does not come
\* back under its number, although other workers may still hold its object.
RoomsGoForGood ==
  [][\A r \in RoomIds :
       opened[r] # NoRoom =>
         /\ opened'[r] = opened[r]
         /\ rooms[r] = NoRoom => rooms'[r] = NoRoom]_vars

\* A step that sends to a member leaves the others as they were.
LEMMA SendToMember ==
  ASSUME IInv, OnlyMembersHear, NEW r \in RoomIds, NEW u \in Users, u \in Members(r),
         NEW kind \in Kinds, Sends(u, r, kind), opened' = opened
  PROVE  OnlyMembersHear'
<1>0. u \in Hearers /\ u # NoUser
  BY ChatAssumption DEF Hearers
<1>1. \A q \in RoomIds, v \in Hearers : q # r \/ v # u => told'[q][v] = told[q][v]
  BY <1>0, Heard DEF IInv
<1>2. \A q \in RoomIds : Members(q)' = Members(q)
  BY DEF Members
<1>3. \A q \in RoomIds, v \in Users : told'[q][v] # <<>> => v \in Members(q)'
  BY <1>1, <1>2 DEF OnlyMembersHear, Hearers
<1>4. \A q \in RoomIds : told'[q][NoUser] = told[q][NoUser]
  BY <1>0, <1>1 DEF Hearers
<1> QED BY <1>3, <1>4 DEF OnlyMembersHear

\* Whom a worker sends to while it holds a room: a member, or, once and before
\* all else, the session without identity that opens it for "admin".
LEMMA StepSendsToMember ==
  ASSUME IInv, NEW w \in Workers, Step(w), ~RemoveRoom(w)
  PROVE  /\ opened' = opened /\ rooms' = rooms
         /\ \/ \E r \in RoomIds, u \in Users, kind \in Kinds :
                 u \in Members(r) /\ Sends(u, r, kind)
            \/ /\ pc[w] = "answer" /\ job[w].target = NoUser
               /\ opened[job[w].room.roomId].adminId = DefaultAdmin
               /\ Sends(NoUser, job[w].room.roomId, "opened")
<1> DEFINE r == job[w].room.roomId
<1> USE DEF Kinds
<1>1. pc[w] # "idle" /\ opened' = opened /\ rooms' = rooms
  BY DEF Step, AnswerAdmin, NotifyOpened, Relay, TellCustomer, TellAdmin
<1>2. /\ r \in RoomIds /\ job[w].room.customerId \in Users /\ job[w].room.adminId \in Users
      /\ opened[r] = job[w].room
  BY <1>1, HeldRoom
<1>3. Members(r) = {job[w].room.customerId, job[w].room.adminId} /\ Members(r) \subseteq Users
  BY <1>2 DEF Members
<1>4. \/ pc[w] = "answer" /\ Sends(job[w].target, r, "opened")
      \/ Sends(job[w].room.customerId, r, "opened")
      \/ pc[w] = "relay" /\ Sends(job[w].target, r, "message")
      \/ Sends(job[w].room.customerId, r, "exit")
      \/ Sends(job[w].room.adminId, r, "exit")
  BY SentOrLost DEF Step, AnswerAdmin, NotifyOpened, Relay, TellCustomer, TellAdmin
<1>5. /\ pc[w] = "relay" => job[w].target \in Members(r)
      /\ pc[w] = "answer" => job[w].room.adminId = AdminId(job[w].target)
  BY DEF IInv, Held
<1> HIDE DEF r
<1>6. CASE pc[w] = "answer" /\ job[w].target = NoUser /\ Sends(NoUser, r, "opened")
  BY <1>1, <1>2, <1>5, <1>6 DEF AdminId, r
<1>7. CASE \E u \in Users, kind \in Kinds : u \in Members(r) /\ Sends(u, r, kind)
  BY <1>1, <1>2, <1>7
<1>8. pc[w] = "answer" /\ job[w].target # NoUser => job[w].target \in Members(r)
  BY <1>3, <1>5 DEF AdminId
<1> QED BY <1>2, <1>3, <1>4, <1>5, <1>6, <1>7, <1>8

\* Opening a room uses a number nobody has heard of.
LEMMA AcceptIsFresh ==
  ASSUME IInv, NEW w \in Workers, NEW c \in Users, NEW a \in Hearers, HandleChatAccept(w, c, a)
  PROVE  /\ told' = told
         /\ \A r \in RoomIds : opened[r] # NoRoom => opened'[r] = opened[r] /\ rooms'[r] = rooms[r]
         /\ \A r \in RoomIds, u \in Hearers : told[r][u] # <<>> => opened'[r] = opened[r]
<1>1. /\ told' = told
      /\ \A r \in RoomIds : r # nextRoomId => opened'[r] = opened[r] /\ rooms'[r] = rooms[r]
  BY DEF HandleChatAccept, NewRoomId, IInv, TypeOK
<1>2. \A r \in RoomIds : opened[r] # NoRoom => r # nextRoomId
  BY DEF IInv, Numbered, TypeOK, RoomIds
<1>3. \A r \in RoomIds, u \in Hearers : told[r][u] # <<>> => r # nextRoomId
  BY DEF IInv, Untold, TypeOK, RoomIds
<1> QED BY <1>1, <1>2, <1>3

\* A session without identity has not been answered before it is.
Unanswered ==
  \A w \in Workers : pc[w] = "answer" => told[job[w].room.roomId][NoUser] = <<>>

\* While an acceptance is about to be answered, no other one is about its room.
OneAnswer ==
  \A v, w \in Workers :
    pc[v] = "answer" /\ pc[w] = "answer" /\ job[v].room.roomId = job[w].room.roomId => v = w

\* What a worker that does not accept does to the places before an answer.
LEMMA AnswersOnly ==
  ASSUME IInv, NEW w \in Workers,
         Step(w) \/ (\E u \in Users, r \in RoomIds : HandleChatSend(w, u, r) \/ HandleChatClose(w, r))
  PROVE  \A v \in Workers : pc'[v] = "answer" => v # w /\ pc[v] = "answer" /\ job'[v] = job[v]
BY DEF Step, AnswerAdmin, NotifyOpened, Relay, TellCustomer, TellAdmin, RemoveRoom, AfterCustomer,
   HandleChatSend, HandleChatClose, Begin, Goto, Finish, IInv, TypeOK

\* A new room is in the hands of the worker that opens it.
LEMMA AcceptedAlone ==
  ASSUME IInv, NEW w \in Workers, NEW c \in Users, NEW a \in Hearers, HandleChatAccept(w, c, a)
  PROVE  /\ nextRoomId \in RoomIds /\ told[nextRoomId][NoUser] = <<>>
         /\ job'[w].room.roomId = nextRoomId
         /\ \A v \in Workers : job[v].room.roomId # nextRoomId
         /\ \A v \in Workers : v # w => pc'[v] = pc[v] /\ job'[v] = job[v]
<1>1. nextRoomId \in RoomIds
  BY ChatAssumption DEF IInv, TypeOK, Numbered, HandleChatAccept, Begin, RoomIds
<1>2. opened[nextRoomId] = NoRoom
  BY <1>1 DEF IInv, TypeOK, Numbered
<1>3. \A v \in Workers : job[v].room.roomId # nextRoomId
  <2> TAKE v \in Workers
  <2>1. CASE pc[v] = "idle"
    BY <1>1, <2>1, HeldNone
  <2>2. CASE pc[v] # "idle"
    BY <1>1, <1>2, <2>2, HeldRoom
  <2> QED BY <2>1, <2>2
<1>4. told[nextRoomId][NoUser] = <<>>
  BY <1>1, ChatAssumption DEF IInv, TypeOK, Untold, RoomIds, Hearers
<1> QED BY <1>1, <1>3, <1>4 DEF HandleChatAccept, NewRoomId, Goto, IInv, TypeOK

Quiet == OnlyMembersHear /\ Unanswered /\ OneAnswer

\* A worker sends to a member of its room, or answers a session without identity.
LEMMA QuietStep ==
  ASSUME IInv, Quiet, NEW w \in Workers, Step(w), ~RemoveRoom(w)
  PROVE  Quiet'
<1> DEFINE n == job[w].room.roomId
<1>0. \A v \in Workers : pc'[v] = "answer" => v # w /\ pc[v] = "answer" /\ job'[v] = job[v]
  BY AnswersOnly
<1>1. OneAnswer'
  BY <1>0 DEF Quiet, OneAnswer
<1>2. opened' = opened
  BY StepSendsToMember
<1>3. CASE \E r \in RoomIds, u \in Users, kind \in Kinds : u \in Members(r) /\ Sends(u, r, kind)
  <2>1. PICK r \in RoomIds, u \in Users, kind \in Kinds : u \in Members(r) /\ Sends(u, r, kind)
    BY <1>3
  <2>2. OnlyMembersHear'
    BY <1>2, <2>1, SendToMember DEF Quiet
  <2>3. u \in Hearers /\ NoUser \in Hearers /\ u # NoUser
    BY ChatAssumption DEF Hearers
  <2>4. \A q \in RoomIds : told'[q][NoUser] = told[q][NoUser]
    BY <2>1, <2>3, Heard DEF IInv
  <2>5. \A v \in Workers : pc[v] = "answer" => job[v].room.roomId \in RoomIds
    BY HeldRoom
  <2>6. Unanswered'
    BY <1>0, <2>4, <2>5 DEF Quiet, Unanswered
  <2> QED BY <1>1, <2>2, <2>6 DEF Quiet
<1>4. CASE /\ pc[w] = "answer" /\ job[w].target = NoUser
           /\ opened[n].adminId = DefaultAdmin /\ Sends(NoUser, n, "opened")
  <2>1. n \in RoomIds /\ told[n][NoUser] = <<>> /\ NoUser \in Hearers /\ "opened" \in Kinds
    BY <1>4, HeldRoom DEF Quiet, Unanswered, Hearers, Kinds
  <2> HIDE DEF n
  <2>2. /\ told'[n][NoUser] \in {told[n][NoUser], Append(told[n][NoUser], "opened")}
        /\ \A q \in RoomIds, v \in Hearers : q # n \/ v # NoUser => told'[q][v] = told[q][v]
    BY <1>4, <2>1, Heard DEF IInv
  <2>3. told'[n][NoUser] \in {<<>>, <<"opened">>}
    BY <2>1, <2>2
  <2>4. \A q \in RoomIds, v \in Users : told'[q][v] = told[q][v]
    BY <2>2, ChatAssumption DEF Hearers
  <2>5. \A q \in RoomIds : q # n => told'[q][NoUser] = told[q][NoUser]
    BY <2>1, <2>2
  <2>6. \A q \in RoomIds : Members(q)' = Members(q)
    BY <1>2 DEF Members
  <2>7. \A q \in RoomIds : told'[q][NoUser] # <<>> =>
          told'[q][NoUser] = <<"opened">> /\ opened'[q].adminId = DefaultAdmin
    BY <1>2, <1>4, <2>3, <2>5 DEF Quiet, OnlyMembersHear
  <2>8. OnlyMembersHear'
    BY <2>4, <2>6, <2>7 DEF Quiet, OnlyMembersHear
  <2>9. \A v \in Workers : pc'[v] = "answer" => job[v].room.roomId # n /\ job[v].room.roomId \in RoomIds
    BY <1>0, <1>4, HeldRoom DEF Quiet, OneAnswer, n
  <2>10. Unanswered'
    BY <1>0, <2>5, <2>9 DEF Quiet, Unanswered
  <2> QED BY <1>1, <2>8, <2>10 DEF Quiet
<1> QED BY <1>3, <1>4, StepSendsToMember

\* Steps that send nothing.
LEMMA QuietUnlessSent ==
  ASSUME Quiet, UNCHANGED <<told, opened>>,
         \A v \in Workers : pc'[v] = "answer" => pc[v] = "answer" /\ job'[v] = job[v]
  PROVE  Quiet'
<1>1. OnlyMembersHear'
  BY DEF Quiet, OnlyMembersHear, Members
<1>2. Unanswered' /\ OneAnswer'
  BY DEF Quiet, Unanswered, OneAnswer
<1> QED BY <1>1, <1>2 DEF Quiet

\* Nobody but its members hears what is said in a room, or of its end; of its
\* opening the client that accepts does, also when it has no identity.
THEOREM ChatsArePrivate == Spec => []OnlyMembersHear
<1>1. Init => Quiet
  BY ChatAssumption DEF Init, Quiet, OnlyMembersHear, Unanswered, OneAnswer, Hearers
<1>2. IInv /\ Quiet /\ [Next]_vars => Quiet'
  <2> SUFFICES ASSUME IInv, Quiet, [Next]_vars PROVE Quiet'
    OBVIOUS
  <2>2. CASE \E u \in Users : ComeOnline(u) \/ GoOffline(u)
    BY <2>2, QuietUnlessSent DEF ComeOnline, GoOffline
  <2>3. ASSUME NEW w \in Workers, NEW c \in Users, NEW a \in Hearers, HandleChatAccept(w, c, a)
        PROVE  Quiet'
    <3>1. /\ \A r \in RoomIds, u \in Users : told'[r][u] # <<>> => u \in Members(r)'
          /\ \A r \in RoomIds : told'[r][NoUser] # <<>> =>
               told'[r][NoUser] = <<"opened">> /\ opened'[r].adminId = DefaultAdmin
      BY <2>3, AcceptIsFresh DEF Quiet, OnlyMembersHear, Members, Hearers
    <3>2. OnlyMembersHear'
      BY <3>1 DEF OnlyMembersHear
    <3>3. told' = told
      BY <2>3, AcceptIsFresh
    <3>4. Unanswered' /\ OneAnswer'
      BY <2>3, <3>3, AcceptedAlone DEF Quiet, Unanswered, OneAnswer
    <3> QED BY <3>2, <3>4 DEF Quiet
  <2>4. ASSUME NEW w \in Workers, Step(w), ~RemoveRoom(w) PROVE Quiet'
    BY <2>4, QuietStep
  <2>5. ASSUME NEW w \in Workers, RemoveRoom(w) PROVE Quiet'
    <3>1. UNCHANGED <<told, opened>> /\ Step(w)
      BY <2>5 DEF RemoveRoom, Step
    <3> QED BY <3>1, AnswersOnly, QuietUnlessSent
  <2>6. ASSUME NEW w \in Workers, NEW r \in RoomIds, NEW u \in Users,
               HandleChatClose(w, r) \/ HandleChatSend(w, u, r)
        PROVE  Quiet'
    <3>1. UNCHANGED <<told, opened>>
      BY <2>6 DEF HandleChatClose, HandleChatSend
    <3> QED BY <2>6, <3>1, AnswersOnly, QuietUnlessSent
  <2>7. CASE UNCHANGED vars
    BY <2>7, QuietUnlessSent DEF vars
  <2>8. DefaultAdmin \in Users
    BY ChatAssumption
  <2> QED BY <2>2, <2>3, <2>4, <2>5, <2>6, <2>7, <2>8 DEF Next, Handle
<1>3. Quiet => OnlyMembersHear
  BY DEF Quiet
<1> QED BY <1>1, <1>2, <1>3, Invariance, PTL DEF Spec

\* A room number is used once: members are fixed for good and a removed room
\* stays removed, whatever the other workers hold.
THEOREM RoomsAreNotReused == Spec => RoomsGoForGood
<1> DEFINE Gone == \A r \in RoomIds :
                     opened[r] # NoRoom =>
                       /\ opened'[r] = opened[r]
                       /\ rooms[r] = NoRoom => rooms'[r] = NoRoom
<1>1. IInv /\ [Next]_vars => [Gone]_vars
  <2> SUFFICES ASSUME IInv, Next PROVE Gone
    OBVIOUS
  <2>1. ASSUME UNCHANGED <<rooms, opened>> PROVE Gone
    BY <2>1
  <2>2. CASE \E u \in Users : ComeOnline(u) \/ GoOffline(u)
    BY <2>1, <2>2 DEF ComeOnline, GoOffline
  <2>3. ASSUME NEW w \in Workers, NEW c \in Users, NEW a \in Hearers, HandleChatAccept(w, c, a)
        PROVE  Gone
    BY <2>3, AcceptIsFresh
  <2>4. ASSUME NEW w \in Workers, Step(w), ~RemoveRoom(w) PROVE Gone
    BY <2>1, <2>4, StepSendsToMember
  <2>5. ASSUME NEW w \in Workers, RemoveRoom(w) PROVE Gone
    BY <2>5 DEF RemoveRoom, Erase, IInv, TypeOK
  <2>6. ASSUME NEW w \in Workers, NEW r \in RoomIds, HandleChatClose(w, r) PROVE Gone
    BY <2>1, <2>6 DEF HandleChatClose
  <2>7. ASSUME NEW w \in Workers, NEW r \in RoomIds, NEW u \in Users, HandleChatSend(w, u, r)
        PROVE  Gone
    BY <2>1, <2>7 DEF HandleChatSend
  <2> HIDE DEF Gone
  <2> QED BY <2>2, <2>3, <2>4, <2>5, <2>6, <2>7 DEF Next, Handle
<1> QED BY <1>1, Invariance, PTL DEF Spec, RoomsGoForGood
=============================================================================
