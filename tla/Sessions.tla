------------------------------- MODULE Sessions -------------------------------
(***************************************************************************)
(* Connections and identities: SessionManager's two maps, the identity a   *)
(* ClientSession carries, the event loop that accepts and disconnects      *)
(* (server/src/network/ItsServer.cpp) and the workers that log sessions in *)
(* and out and push packets to users.                                      *)
(*                                                                         *)
(* Workers keep a session object while they handle one of its requests,    *)
(* also after the connection is gone; the object remembers its descriptor  *)
(* number, and the kernel may give that number to a later connection.  A   *)
(* packet goes to whoever owns the descriptor when it is written.  An      *)
(* element of Workers stands for a request in flight, queued or running.   *)
(*                                                                         *)
(* NoUser is the empty string: the identity of a session nobody has logged *)
(* in.  It is also a key of userMap, because handleAdminInit believes the  *)
(* body and an account may have an empty name; but the code that takes     *)
(* entries out again looks at non-empty identities only.                   *)
(*                                                                         *)
(* ClientSession::getUserId takes no lock.  A read while another thread    *)
(* assigns the string may return the old value, the new one or torn bytes; *)
(* torn bytes are no key of userMap and are represented by NoUser as well. *)
(***************************************************************************)
EXTENDS Naturals

CONSTANTS Sessions,     \* session objects, one per accepted connection
          Fds,          \* descriptor numbers
          Users,        \* identities, the empty one not included
          Workers,
          NoSession, NoFd, NoUser,
          MaxRequests   \* bound: login and logout requests in a behaviour

ASSUME SessionsAssumption ==
  /\ NoSession \notin Sessions
  /\ NoFd \notin Fds
  /\ NoUser \notin Users
  /\ MaxRequests \in Nat

VARIABLES
  clientFd,    \* per session: its descriptor, NoFd before it is accepted
  userId,      \* per session: whom it is authenticated as
  sessionMap,  \* SessionManager: fd -> session
  userMap,     \* SessionManager: user -> session
  socket,      \* kernel: the connection that owns a descriptor
  closing,     \* the event loop, between removeSession and close
  pc,          \* per worker: its next step, "idle" without a request
  job,         \* per worker: the session and the user its request is about
  requests,    \* requests dispatched
  tried,       \* history: <<session, user>> of the login requests
  loggedIn,    \* history: <<session, user>> that reached userMap
  loggedOut,   \* history: sessions that asked to log out
  overlapped,  \* history: sessions with two requests in flight at once
  clean,       \* history: sessions removed while no worker had one of their requests
  strayPushes, \* history: <<user, session>>: a push for user reached a session that
               \* had not asked to be user
  strayAnswers \* history: <<sender, session>>: sender's answer reached another session

vars == <<clientFd, userId, sessionMap, userMap, socket, closing, pc, job, requests,
          tried, loggedIn, loggedOut, overlapped, clean, strayPushes, strayAnswers>>

maps == <<sessionMap, userMap>>
history == <<tried, loggedIn, loggedOut, overlapped, clean, strayPushes, strayAnswers>>

\* What a client may say it is.
Ids == Users \cup {NoUser}

NoJob == [session |-> NoSession, user |-> NoUser]

Init ==
  /\ clientFd = [s \in Sessions |-> NoFd]
  /\ userId = [s \in Sessions |-> NoUser]
  /\ sessionMap = [f \in Fds |-> NoSession]
  /\ userMap = [u \in Ids |-> NoSession]
  /\ socket = [f \in Fds |-> NoSession]
  /\ closing = NoFd
  /\ pc = [w \in Workers |-> "idle"]
  /\ job = [w \in Workers |-> NoJob]
  /\ requests = 0
  /\ tried = {}
  /\ loggedIn = {}
  /\ loggedOut = {}
  /\ overlapped = {}
  /\ clean = {}
  /\ strayPushes = {}
  /\ strayAnswers = {}

-----------------------------------------------------------------------------
(* Faulty variants, used by no specification.                              *)

FaultEraseNobody(u) == userMap' = userMap

FaultEraseAll(u) == userMap' = [v \in Ids |-> NoSession]

FaultMapFd(u, s) == userMap' = [userMap EXCEPT ![u] = clientFd[s]]

FaultOnceAccepted(s) == clientFd[s] # NoFd

-----------------------------------------------------------------------------
(* The event loop.                                                         *)

\* Some worker has a request of session s.
InFlight(s) == \E w \in Workers : job[w].session = s

\* The requests about to assign, or assigning, the identity of session s.
Assigning(s, places) == {w \in Workers : pc[w] \in places /\ job[w].session = s}

Assigned(w) == IF pc[w] = "clear" THEN NoUser ELSE job[w].user

\* What getUserId may return while the steps named by places may be under way.
ReadUserId(s, places) ==
  {userId[s]} \cup {Assigned(w) : w \in Assigning(s, places)}
              \cup (IF Assigning(s, places) = {} THEN {} ELSE {NoUser})

\* acceptNewClient: the kernel picks a free descriptor; createSession.
Accept(s, f) ==
  /\ closing = NoFd
  /\ clientFd[s] = NoFd
  /\ socket[f] = NoSession
  /\ clientFd' = [clientFd EXCEPT ![s] = f]
  /\ socket' = [socket EXCEPT ![f] = s]
  /\ sessionMap' = [sessionMap EXCEPT ![f] = s]
  /\ UNCHANGED <<userId, userMap, closing, pc, job, requests, history>>

\* userMap.erase, for an identity that is not empty.
EraseUser(u) == userMap' = IF u = NoUser THEN userMap ELSE [userMap EXCEPT ![u] = NoSession]

\* sessionMap.erase
EraseSession(f) == sessionMap' = [sessionMap EXCEPT ![f] = NoSession]

\* disconnectClient, first step: SessionManager::removeSession.  Its mutex keeps
\* registerUser's assignment out, not authenticate's or clearAuth's.
RemoveSession(f) ==
  LET s == sessionMap[f]
  IN  /\ closing = NoFd
      /\ socket[f] # NoSession
      /\ s # NoSession
      /\ \E u \in ReadUserId(s, {"authenticate", "clear"}) : EraseUser(u)
      /\ EraseSession(f)
      /\ closing' = f
      /\ clean' = IF InFlight(s) THEN clean ELSE clean \cup {s}
      /\ UNCHANGED <<clientFd, userId, socket, pc, job, requests, tried, loggedIn, loggedOut,
                     overlapped, strayPushes, strayAnswers>>

\* Its second step: close(fd).
Close ==
  /\ closing # NoFd
  /\ socket' = [socket EXCEPT ![closing] = NoSession]
  /\ closing' = NoFd
  /\ UNCHANGED <<clientFd, userId, maps, pc, job, requests, history>>

-----------------------------------------------------------------------------
(* The workers.                                                            *)

\* getSession finds s for the descriptor the bytes came from.
Found(s) == clientFd[s] # NoFd /\ sessionMap[clientFd[s]] = s

\* readFromClient and the dispatcher hand a request of a connected session to
\* a worker.
Dispatch(w, s, u, first) ==
  /\ closing = NoFd
  /\ pc[w] = "idle"
  /\ requests < MaxRequests
  /\ Found(s)
  /\ pc' = [pc EXCEPT ![w] = first]
  /\ job' = [job EXCEPT ![w] = [session |-> s, user |-> u]]
  /\ requests' = requests + 1
  /\ overlapped' = IF InFlight(s) THEN overlapped \cup {s} ELSE overlapped
  /\ UNCHANGED <<clientFd, userId, maps, socket, closing, loggedIn, clean, strayPushes,
                 strayAnswers>>

Goto(w, p) == pc' = [pc EXCEPT ![w] = p] /\ job' = job

\* The handler returns and the worker drops the session.
Finish(w) == pc' = [pc EXCEPT ![w] = "idle"] /\ job' = [job EXCEPT ![w] = NoJob]

\* A request of session s to be user u.
Login(w, s, u, first) ==
  /\ Dispatch(w, s, u, first)
  /\ tried' = tried \cup {<<s, u>>}
  /\ UNCHANGED loggedOut

\* validateLogin looks the name up, whatever it is.
HandleLogin(w, s, u) == Login(w, s, u, "validate")

\* handleAdminInit believes the identity in the body, an empty one too; a body
\* that does not parse changes nothing and gets no answer.
HandleAdminInit(w, s, u) == Login(w, s, u, "authenticate")

HandleLogout(w, s) ==
  /\ Dispatch(w, s, NoUser, "identify")
  /\ loggedOut' = loggedOut \cup {s}
  /\ UNCHANGED tried

\* AuthDAO::validateLogin accepts or not; an exception ends the request without
\* an answer.
Validate(w) ==
  /\ pc[w] = "validate"
  /\ \/ Goto(w, "authenticate")
     \/ Goto(w, "reply")
     \/ Finish(w)
  /\ UNCHANGED <<clientFd, userId, maps, socket, closing, requests, history>>

\* session->authenticate(userId, role)
Authenticate(w) ==
  /\ pc[w] = "authenticate"
  /\ userId' = [userId EXCEPT ![job[w].session] = job[w].user]
  /\ Goto(w, "register")
  /\ UNCHANGED <<clientFd, maps, socket, closing, requests, history>>

\* userMap[userId] = session
MapUser(u, s) == userMap' = [userMap EXCEPT ![u] = s]

\* SessionManager::registerUser, under the manager's mutex.
RegisterUser(w) ==
  /\ pc[w] = "register"
  /\ userId' = [userId EXCEPT ![job[w].session] = job[w].user]
  /\ MapUser(job[w].user, job[w].session)
  /\ loggedIn' = loggedIn \cup {<<job[w].session, job[w].user>>}
  /\ Goto(w, "reply")
  /\ UNCHANGED <<clientFd, sessionMap, socket, closing, requests, tried, loggedOut, overlapped,
                 clean, strayPushes, strayAnswers>>

\* handleLogout reads the identity; without one it only replies.  Torn bytes
\* are not empty: removeUser finds no such user and clearAuth follows.
Identify(w) ==
  /\ pc[w] = "identify"
  /\ LET s == job[w].session
         unlocked == {"authenticate", "register", "clear"}
     IN  \E u \in ReadUserId(s, unlocked) :
           /\ job' = [job EXCEPT ![w].user = u]
           /\ \/ u = NoUser /\ pc' = [pc EXCEPT ![w] = "reply"]
              \/ /\ u # NoUser \/ Assigning(s, unlocked) # {}
                 /\ pc' = [pc EXCEPT ![w] = "remove"]
  /\ UNCHANGED <<clientFd, userId, maps, socket, closing, requests, history>>

\* SessionManager::removeUser
RemoveUser(w) ==
  /\ pc[w] = "remove"
  /\ EraseUser(job[w].user)
  /\ Goto(w, "clear")
  /\ UNCHANGED <<clientFd, userId, sessionMap, socket, closing, requests, history>>

\* session->clearAuth()
ClearAuth(w) ==
  /\ pc[w] = "clear"
  /\ userId' = [userId EXCEPT ![job[w].session] = NoUser]
  /\ Goto(w, "reply")
  /\ UNCHANGED <<clientFd, maps, socket, closing, requests, history>>

\* The connection that receives what is written to session s, or NoSession.
Receiver(s) == socket[clientFd[s]]

\* session->sendPacket: the answer.
Reply(w) ==
  LET s == job[w].session
  IN  /\ pc[w] = "reply"
      /\ Finish(w)
      /\ strayAnswers' = IF Receiver(s) \in {NoSession, s} THEN strayAnswers
                         ELSE strayAnswers \cup {<<s, Receiver(s)>>}
      /\ UNCHANGED <<clientFd, userId, maps, socket, closing, requests, tried, loggedIn, loggedOut,
                     overlapped, clean, strayPushes>>

\* sendToUser, or one recipient of broadcastToRole: some handler pushes a
\* packet to user u.
SendToUser(u) ==
  LET s == userMap[u]
  IN  /\ s # NoSession
      /\ strayPushes' = IF Receiver(s) = NoSession \/ <<Receiver(s), u>> \in tried THEN strayPushes
                        ELSE strayPushes \cup {<<u, Receiver(s)>>}
      /\ UNCHANGED <<clientFd, userId, maps, socket, closing, pc, job, requests, tried, loggedIn,
                     loggedOut, overlapped, clean, strayAnswers>>

-----------------------------------------------------------------------------
EventLoop ==
  \/ \E s \in Sessions, f \in Fds : Accept(s, f)
  \/ \E f \in Fds : RemoveSession(f)
  \/ Close

Step(w) ==
  Validate(w) \/ Authenticate(w) \/ RegisterUser(w) \/ Identify(w) \/ RemoveUser(w)
    \/ ClearAuth(w) \/ Reply(w)

Next ==
  \/ EventLoop
  \/ \E w \in Workers, s \in Sessions : HandleLogout(w, s)
  \/ \E w \in Workers, s \in Sessions, u \in Ids :
       HandleLogin(w, s, u) \/ HandleAdminInit(w, s, u)
  \/ \E w \in Workers : Step(w)
  \/ \E u \in Ids : SendToUser(u)

Spec == Init /\ [][Next]_vars

-----------------------------------------------------------------------------
Places == {"idle", "validate", "authenticate", "register", "identify", "remove", "clear", "reply"}

TypeOK ==
  /\ clientFd \in [Sessions -> Fds \cup {NoFd}]
  /\ userId \in [Sessions -> Ids]
  /\ sessionMap \in [Fds -> Sessions \cup {NoSession}]
  /\ userMap \in [Ids -> Sessions \cup {NoSession}]
  /\ socket \in [Fds -> Sessions \cup {NoSession}]
  /\ closing \in Fds \cup {NoFd}
  /\ pc \in [Workers -> Places]
  /\ job \in [Workers -> [session : Sessions \cup {NoSession}, user : Ids]]
  /\ requests \in 0..MaxRequests
  /\ tried \in SUBSET (Sessions \X Ids)
  /\ loggedIn \in SUBSET (Sessions \X Ids)
  /\ loggedOut \in SUBSET Sessions
  /\ overlapped \in SUBSET Sessions
  /\ clean \in SUBSET Sessions
  /\ strayPushes \in SUBSET (Ids \X Sessions)
  /\ strayAnswers \in SUBSET (Sessions \X Sessions)

Connected(s) == \E f \in Fds : sessionMap[f] = s

\* The session found for a descriptor is that of the connection that owns it
\* now, however often the number was used before: bytes read from a socket are
\* never handled under an earlier client's identity.
SessionOfSocket ==
  \A f \in Fds : sessionMap[f] # NoSession
                   => socket[f] = sessionMap[f] /\ clientFd[sessionMap[f]] = f

\* Nobody but s asked to be u, and s asked to be nobody else.
Sole(u, s) == \A r \in Sessions, v \in Ids : <<r, v>> \in tried => (v = u <=> r = s)

\* A user who is logged in on one connection only can be pushed to for as long
\* as it is connected and has not asked to log out: no other client's
\* disconnection, login or logout takes the user out of userMap.
ReachableWhileOnline ==
  \A s \in Sessions, u \in Ids :
    <<s, u>> \in loggedIn /\ Sole(u, s) /\ s \notin loggedOut /\ Connected(s) => userMap[u] = s

\* A disconnection that finds no request of the session in a worker's hands
\* leaves no entry for its user behind, if the client never had two requests in
\* flight at once (a login overtaking a logout keeps the entry and clears the
\* identity that would have removed it).  Only the entry for the empty identity
\* outlives its connection: removeSession skips it.
GoneWhenOffline ==
  \A s \in clean \ overlapped, u \in Ids : Sole(u, s) /\ userMap[u] = s => u = NoUser

\* The session left while one of its requests was in a worker's hands.
LeftInFlight(s) == ~Connected(s) /\ s \notin clean

\* A packet pushed to a user reaches a connection that asked to be that user,
\* unless one of the user's connections left with a request in flight or had two
\* at once, user and connections were not one to one, or a connection asked to be
\* nobody, whose entry is never taken out: these are the only ways in which a
\* stranger who was given a recycled descriptor receives them.
AstrayOnlyByRace ==
  \A u \in Ids, r \in Sessions :
    <<u, r>> \in strayPushes =>
      \E s \in Sessions :
        /\ <<s, u>> \in tried
        /\ LeftInFlight(s) \/ s \in overlapped \/ ~Sole(u, s) \/ u = NoUser

\* An answer reaches another connection than the one that asked only when the
\* asking connection left before its request was done.
AnswersReachSender ==
  \A s, r \in Sessions : <<s, r>> \in strayAnswers => LeftInFlight(s)

\* SessionManager.h on sendToUser: the packet is sent to that user.
PushReachesUser == \A u \in Users, r \in Sessions : <<u, r>> \notin strayPushes
=============================================================================
