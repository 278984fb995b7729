-------------------------------- MODULE Chat --------------------------------
(***************************************************************************)
(* Chat rooms between a customer or store owner and an administrator:      *)
(* session/ChatRoomManager.cpp under handler/ChatHandler.cpp, on several   *)
(* workers.  A handler takes the room object under roomMutex and goes on   *)
(* with it without the mutex, also when the room has been removed.         *)
(* SessionManager::sendToUser is one step; it reaches users who are in     *)
(* userMap at that moment (see Sessions for who is).                       *)
(*                                                                         *)
(* The handlers ask neither who accepts nor who sends nor who closes: any  *)
(* client may open a room, with anybody, and name any room.                *)
(* handleChatRequest, which passes a request on to the administrators,     *)
(* changes no state and is left out, and so are the answers to the client  *)
(* that sends or closes, which carry nothing of the room.                  *)
(***************************************************************************)
EXTENDS Naturals, Sequences

CONSTANTS Users, Workers,
          DefaultAdmin, \* the user "admin"
          NoUser,       \* the empty identity of a session without login
          MaxRequests   \* bound: requests handled in a behaviour

ASSUME ChatAssumption ==
  /\ DefaultAdmin \in Users
  /\ NoUser \notin Users
  /\ MaxRequests \in Nat

VARIABLES
  rooms,       \* ChatRoomManager::rooms
  nextRoomId,
  online,      \* users sendToUser reaches
  pc,          \* per worker: its next step, "idle" without a request
  job,         \* per worker: its request and the room object it holds
  requests,    \* requests begun
  opened,      \* history: who the members of a room are since its creation
  told,        \* history: per room and user, the packets received, in order
  missed,      \* history: <<user, room>> whose end found nobody
  crossed      \* history: rooms whose opening or closing met another request,
               \* or which a user has with himself

vars == <<rooms, nextRoomId, online, pc, job, requests, opened, told, missed, crossed>>

\* NoUser stands for the sessions without identity.
Hearers == Users \cup {NoUser}
RoomIds == 1..MaxRequests
ChatRooms == [roomId : RoomIds, customerId : Users, adminId : Users]
NoRoom == [roomId |-> 0, customerId |-> NoUser, adminId |-> NoUser]
NoJob == [op |-> "none", room |-> NoRoom, target |-> NoUser]

Init ==
  /\ rooms = [r \in RoomIds |-> NoRoom]
  /\ nextRoomId = 1
  /\ online \in SUBSET Users
  /\ pc = [w \in Workers |-> "idle"]
  /\ job = [w \in Workers |-> NoJob]
  /\ requests = 0
  /\ opened = rooms
  /\ told = [r \in RoomIds |-> [u \in Hearers |-> <<>>]]
  /\ missed = {}
  /\ crossed = {}

-----------------------------------------------------------------------------
(* Faulty variants, used by no specification.                              *)

FaultKeepRoom(r) == rooms

FaultAfterCustomer == "remove"

FaultOneLess == nextRoomId - 1

-----------------------------------------------------------------------------
(* Logins and disconnections.                                              *)

ComeOnline(u) ==
  /\ u \notin online
  /\ online' = online \cup {u}
  /\ UNCHANGED <<rooms, nextRoomId, pc, job, requests, opened, told, missed, crossed>>

\* The rooms of a user who goes are kept.
GoOffline(u) ==
  /\ u \in online
  /\ online' = online \ {u}
  /\ UNCHANGED <<rooms, nextRoomId, pc, job, requests, opened, told, missed, crossed>>

Hear(u, r, kind) == told' = [told EXCEPT ![r][u] = Append(@, kind)]

SendToUser(u, r, kind) ==
  IF u \in online
  THEN Hear(u, r, kind) /\ UNCHANGED missed
  ELSE /\ missed' = missed \cup (IF kind = "exit" THEN {<<u, r>>} ELSE {})
       /\ UNCHANGED told

-----------------------------------------------------------------------------
(* Requests.                                                               *)

Begin(w) ==
  /\ pc[w] = "idle"
  /\ requests < MaxRequests
  /\ requests' = requests + 1

Goto(w, p) == pc' = [pc EXCEPT ![w] = p]

Finish(w) ==
  /\ pc' = [pc EXCEPT ![w] = "idle"]
  /\ job' = [job EXCEPT ![w] = NoJob]

\* A request for a room met one that opens or closes it, or is one itself.
Crossing(op, r) ==
  \E v \in Workers : /\ job[v].room.roomId = r
                     /\ \/ op = "close"
                        \/ job[v].op \in {"accept", "close"}

NewRoomId == nextRoomId

\* An acceptance by a session without identity opens the room for "admin".
AdminId(s) == IF s = NoUser THEN DefaultAdmin ELSE s

\* createRoom, by a session of user s; a refusal does nothing.
HandleChatAccept(w, c, s) ==
  /\ Begin(w)
  /\ LET room == [roomId |-> NewRoomId, customerId |-> c, adminId |-> AdminId(s)]
     IN /\ rooms' = [rooms EXCEPT ![NewRoomId] = room]
        /\ opened' = [opened EXCEPT ![NewRoomId] = IF @ = NoRoom THEN room ELSE @]
        /\ job' = [job EXCEPT ![w] = [op |-> "accept", room |-> room, target |-> s]]
  /\ crossed' = IF c = AdminId(s) THEN crossed \cup {NewRoomId} ELSE crossed
  /\ nextRoomId' = nextRoomId + 1
  /\ Goto(w, "answer")
  /\ UNCHANGED <<online, told, missed>>

\* RES_REQUEST_OK gives the session that has accepted, mapped or not, the number
\* of the room, unless the session is gone.
AnswerAdmin(w) ==
  /\ pc[w] = "answer"
  /\ Hear(job[w].target, job[w].room.roomId, "opened") \/ UNCHANGED told
  /\ UNCHANGED missed
  /\ Goto(w, "notify")
  /\ UNCHANGED <<rooms, nextRoomId, online, job, requests, opened, crossed>>

NotifyOpened(w) ==
  /\ pc[w] = "notify"
  /\ SendToUser(job[w].room.customerId, job[w].room.roomId, "opened")
  /\ Finish(w)
  /\ UNCHANGED <<rooms, nextRoomId, online, requests, opened, crossed>>

\* targetUserId
Target(sender, room) == IF sender = room.adminId THEN room.customerId ELSE room.adminId

\* getRoom; the message of a room that does not exist gets no answer.
HandleChatSend(w, sender, r) ==
  /\ Begin(w)
  /\ IF rooms[r] = NoRoom
     THEN UNCHANGED <<pc, job, crossed>>
     ELSE /\ job' = [job EXCEPT ![w] = [op |-> "send", room |-> rooms[r],
                                        target |-> Target(sender, rooms[r])]]
          /\ Goto(w, "relay")
          /\ crossed' = IF Crossing("send", r) THEN crossed \cup {r} ELSE crossed
  /\ UNCHANGED <<rooms, nextRoomId, online, opened, told, missed>>

Relay(w) ==
  /\ pc[w] = "relay"
  /\ SendToUser(job[w].target, job[w].room.roomId, "message")
  /\ Finish(w)
  /\ UNCHANGED <<rooms, nextRoomId, online, requests, opened, crossed>>

\* getRoom; a room that does not exist is answered with an error.
HandleChatClose(w, r) ==
  /\ Begin(w)
  /\ IF rooms[r] = NoRoom
     THEN UNCHANGED <<pc, job, crossed>>
     ELSE /\ job' = [job EXCEPT ![w] = [op |-> "close", room |-> rooms[r], target |-> NoUser]]
          /\ Goto(w, "tellCustomer")
          /\ crossed' = IF Crossing("close", r) THEN crossed \cup {r} ELSE crossed
  /\ UNCHANGED <<rooms, nextRoomId, online, opened, told, missed>>

AfterCustomer == "tellAdmin"

TellCustomer(w) ==
  /\ pc[w] = "tellCustomer"
  /\ SendToUser(job[w].room.customerId, job[w].room.roomId, "exit")
  /\ Goto(w, AfterCustomer)
  /\ UNCHANGED <<rooms, nextRoomId, online, job, requests, opened, crossed>>

TellAdmin(w) ==
  /\ pc[w] = "tellAdmin"
  /\ SendToUser(job[w].room.adminId, job[w].room.roomId, "exit")
  /\ Goto(w, "remove")
  /\ UNCHANGED <<rooms, nextRoomId, online, job, requests, opened, crossed>>

Erase(r) == [rooms EXCEPT ![r] = NoRoom]

RemoveRoom(w) ==
  /\ pc[w] = "remove"
  /\ rooms' = Erase(job[w].room.roomId)
  /\ Finish(w)
  /\ UNCHANGED <<nextRoomId, online, requests, opened, told, missed, crossed>>

-----------------------------------------------------------------------------
Handle(w) ==
  \/ \E c \in Users, s \in Hearers : HandleChatAccept(w, c, s)
  \/ \E u \in Users, r \in RoomIds : HandleChatSend(w, u, r)
  \/ \E r \in RoomIds : HandleChatClose(w, r)

Step(w) ==
  \/ AnswerAdmin(w)
  \/ NotifyOpened(w)
  \/ Relay(w)
  \/ TellCustomer(w)
  \/ TellAdmin(w)
  \/ RemoveRoom(w)

Next ==
  \/ \E u \in Users : ComeOnline(u) \/ GoOffline(u)
  \/ \E w \in Workers : Handle(w) \/ Step(w)

Spec == Init /\ [][Next]_vars

-----------------------------------------------------------------------------
Places == {"idle", "answer", "notify", "relay", "tellCustomer", "tellAdmin", "remove"}

TypeOK ==
  /\ rooms \in [RoomIds -> ChatRooms \cup {NoRoom}]
  /\ nextRoomId \in 1..(MaxRequests + 1)
  /\ online \subseteq Users
  /\ pc \in [Workers -> Places]
  /\ job \in [Workers -> [op : {"none", "accept", "send", "close"},
                          room : ChatRooms \cup {NoRoom}, target : Hearers]]
  /\ requests \in 0..MaxRequests
  /\ opened \in [RoomIds -> ChatRooms \cup {NoRoom}]
  /\ told \in [RoomIds -> [Hearers -> Seq({"opened", "message", "exit"})]]
  /\ missed \subseteq Hearers \X RoomIds
  /\ crossed \subseteq RoomIds

Members(r) == {opened[r].customerId, opened[r].adminId}

Has(u, r, kind) == \E i \in 1..Len(told[r][u]) : told[r][u][i] = kind

\* Nobody is left in a room that is no longer there: when it is removed each
\* member has heard of its end, or was not in userMap when the end was sent.
BothToldOfEnd ==
  \A r \in RoomIds :
    opened[r] # NoRoom /\ rooms[r] = NoRoom =>
      \A u \in Members(r) : Has(u, r, "exit") \/ <<u, r>> \in missed

\* What must not come after what: the opening is heard first and once, the end
\* last and once.
MayFollow(first, second) == first # "exit" /\ second # "opened"

\* A member hears of the opening, then the messages, then once of the end, as
\* long as no other request for the room was in flight while it was opened or
\* closed, and the two members are not the same user.
OrderedUnlessCrossed ==
  \A r \in RoomIds \ crossed : \A u \in Hearers :
    \A i, j \in 1..Len(told[r][u]) : i < j => MayFollow(told[r][u][i], told[r][u][j])
=============================================================================
