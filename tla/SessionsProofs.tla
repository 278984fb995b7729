---------------------------- MODULE SessionsProofs ----------------------------
(***************************************************************************)
(* Connections and identities for every number of clients, users, workers  *)
(* and descriptors.  The properties compare what a session may do with     *)
(* what its client asked for, so the inductive invariant relates the maps  *)
(* and the workers' steps to the requests made (Identities, InHand), says  *)
(* that a session that left cleanly never comes back (Departed), and that  *)
(* an entry of userMap can be taken out again by the session's             *)
(* disconnection (Removable).                                              *)
(***************************************************************************)
EXTENDS Sessions, TLAPS

LoginSteps == {"validate", "authenticate", "register"}
LogoutSteps == {"identify", "remove", "clear"}

\* Between removeSession and close the descriptor has no session.
ClosingUnmapped == closing # NoFd => sessionMap[closing] = NoSession

\* Identities and userMap entries come from login requests of accepted sessions.
Identities ==
  /\ \A s \in Sessions : userId[s] # NoUser => <<s, userId[s]>> \in tried
  /\ \A u \in Ids : userMap[u] # NoSession => <<userMap[u], u>> \in loggedIn
  /\ loggedIn \subseteq tried
  /\ \A s \in Sessions, u \in Ids : <<s, u>> \in tried => clientFd[s] # NoFd

\* What a worker's request may do was asked for by its session; a logout that
\* goes on without an identity has read torn bytes.
InHand ==
  \A w \in Workers :
    /\ pc[w] = "idle" <=> job[w].session = NoSession
    /\ pc[w] # "idle" => clientFd[job[w].session] # NoFd
    /\ pc[w] \in LoginSteps => <<job[w].session, job[w].user>> \in tried
    /\ pc[w] \in LogoutSteps => job[w].session \in loggedOut
    /\ pc[w] = "remove" => IF job[w].user = NoUser THEN job[w].session \in overlapped
                           ELSE <<job[w].session, job[w].user>> \in tried

\* A session without overlapping requests is in one worker's hands at most.
OneAtATime ==
  \A s \in Sessions \ overlapped, v, w \in Workers :
    job[v].session = s /\ job[w].session = s => v = w

\* A session that left cleanly stays away.
Departed ==
  \A s \in clean : clientFd[s] # NoFd /\ ~Connected(s) /\ ~InFlight(s)

\* The session of an entry still has the identity that removes the entry, if it
\* is not empty, and no logout is about to clear it.
Removable ==
  \A s \in Sessions \ overlapped, u \in Ids :
    u # NoUser /\ Sole(u, s) /\ userMap[u] = s =>
      /\ userId[s] = u
      /\ \A w \in Workers : job[w].session = s => pc[w] # "clear"

\* Only accepted sessions have had an answer go astray.
AnsweredAccepted ==
  \A s, r \in Sessions : <<s, r>> \in strayAnswers => clientFd[s] # NoFd

IInv ==
  /\ TypeOK
  /\ SessionOfSocket
  /\ ClosingUnmapped
  /\ Identities
  /\ InHand
  /\ OneAtATime
  /\ Departed
  /\ Removable
  /\ AnsweredAccepted
  /\ ReachableWhileOnline
  /\ GoneWhenOffline
  /\ AnswersReachSender
  /\ AstrayOnlyByRace

-----------------------------------------------------------------------------
(* What holds of every step.                                               *)

\* The empty string is a key like the others.
LEMMA Nobody == NoUser \in Ids
BY DEF Ids

\* What only grows in a step, and what therefore only gets harder to claim.
LEMMA Monotone ==
  ASSUME IInv, Next
  PROVE  /\ \A u \in Ids, s \in Sessions : Sole(u, s)' => Sole(u, s)
         /\ \A s \in Sessions : clientFd[s] # NoFd =>
              clientFd'[s] # NoFd /\ (Connected(s)' => Connected(s))
         /\ \A s \in Sessions : clientFd[s] # NoFd /\ LeftInFlight(s) => LeftInFlight(s)'
         /\ overlapped \subseteq overlapped'
<1> USE SessionsAssumption, Nobody
<1>1. tried \subseteq tried' /\ overlapped \subseteq overlapped'
  BY DEF Next, EventLoop, Step, Accept, RemoveSession, Close, HandleLogin, HandleAdminInit,
     Login, HandleLogout, Dispatch, Validate, Authenticate, RegisterUser, Identify, RemoveUser,
     ClearAuth, Reply, SendToUser, history
<1>2. \A u \in Ids, s \in Sessions : Sole(u, s)' => Sole(u, s)
  BY <1>1 DEF Sole
<1>3. ASSUME NEW s \in Sessions, clientFd[s] # NoFd
      PROVE  clientFd'[s] # NoFd /\ (Connected(s)' => Connected(s))
  <2>1. CASE \E r \in Sessions, f \in Fds : Accept(r, f)
    BY <1>3, <2>1 DEF IInv, TypeOK, Accept, Connected
  <2>2. CASE \E f \in Fds : RemoveSession(f)
    BY <1>3, <2>2 DEF IInv, TypeOK, RemoveSession, EraseSession, Connected
  <2>3. CASE UNCHANGED <<clientFd, sessionMap>>
    BY <1>3, <2>3 DEF Connected
  <2> QED
    BY <2>1, <2>2, <2>3 DEF Next, EventLoop, Step, Close, HandleLogin, HandleAdminInit,
       Login, HandleLogout, Dispatch, Validate, Authenticate, RegisterUser, Identify,
       RemoveUser, ClearAuth, Reply, SendToUser, maps
<1>4. \A s \in Sessions : s \in clean' => s \in clean \/ Connected(s)
  <2>1. CASE \E f \in Fds : RemoveSession(f)
    BY <2>1 DEF IInv, TypeOK, RemoveSession, Connected
  <2>2. CASE UNCHANGED clean
    BY <2>2
  <2> QED
    BY <2>1, <2>2 DEF Next, EventLoop, Step, Accept, Close, HandleLogin, HandleAdminInit,
       Login, HandleLogout, Dispatch, Validate, Authenticate, RegisterUser, Identify,
       RemoveUser, ClearAuth, Reply, SendToUser, history
<1> QED BY <1>1, <1>2, <1>3, <1>4 DEF LeftInFlight

\* The meaning of Sole, for citation without its definition.
LEMMA SoleMeans ==
  \A u, v \in Ids, r, s \in Sessions : Sole(u, s) /\ <<r, v>> \in tried => (v = u <=> r = s)
BY DEF Sole

\* A step that pushes nothing leaves the pushes accounted for.
LEMMA AstrayKept ==
  ASSUME IInv, Next, strayPushes' = strayPushes, tried \subseteq tried'
  PROVE  AstrayOnlyByRace'
<1>1. \A u \in Ids, s \in Sessions : <<s, u>> \in tried => <<s, u>> \in tried' /\ clientFd[s] # NoFd
  BY DEF IInv, Identities
<1> QED
  BY <1>1, Monotone DEF IInv, AstrayOnlyByRace

\* A step that answers nobody leaves the answers accounted for.
LEMMA AnswersKept ==
  ASSUME IInv, Next, strayAnswers' = strayAnswers
  PROVE  AnswersReachSender'
BY Monotone DEF IInv, AnswersReachSender, AnsweredAccepted

\* A step that leaves userMap alone leaves users reachable.
LEMMA ReachableKept ==
  ASSUME IInv, Next, userMap' = userMap, loggedIn' = loggedIn, loggedOut \subseteq loggedOut'
  PROVE  ReachableWhileOnline'
<1>1. \A u \in Ids, s \in Sessions : <<s, u>> \in loggedIn => clientFd[s] # NoFd
  BY DEF IInv, TypeOK, Identities
<1> QED
  BY <1>1, Monotone DEF IInv, ReachableWhileOnline

\* Whatever getUserId returns is nobody or somebody the session asked to be.
LEMMA ReadsWereAskedFor ==
  ASSUME IInv, NEW s \in Sessions, NEW places, NEW u \in ReadUserId(s, places),
         places \subseteq {"authenticate", "register", "clear"}
  PROVE  u = NoUser \/ (u \in Ids /\ <<s, u>> \in tried)
<1>1. CASE u = userId[s]
  BY <1>1 DEF IInv, Identities, TypeOK
<1>2. CASE \E w \in Assigning(s, places) : u = Assigned(w)
  <2>1. PICK w \in Workers : /\ pc[w] \in {"authenticate", "register", "clear"}
                             /\ job[w].session = s /\ u = Assigned(w)
    BY <1>2 DEF Assigning
  <2> QED BY <2>1 DEF Assigned, IInv, TypeOK, InHand, LoginSteps
<1> QED BY <1>1, <1>2 DEF ReadUserId

-----------------------------------------------------------------------------
(* One lemma per action.                                                   *)

\* acceptNewClient.
LEMMA AcceptStep ==
  ASSUME IInv, NEW s \in Sessions, NEW f \in Fds, Accept(s, f)
  PROVE  IInv'
<1> USE SessionsAssumption, Nobody
<1>1. Next
  BY DEF Next, EventLoop
<1>2. TypeOK'
  BY DEF IInv, TypeOK, Accept, history
<1>3. SessionOfSocket'
  BY DEF IInv, TypeOK, SessionOfSocket, Accept
<1>4. Departed'
  BY DEF IInv, Departed, Connected, InFlight, Accept, history
<1>5. ReachableWhileOnline' /\ AnswersReachSender' /\ AstrayOnlyByRace'
  BY <1>1, ReachableKept, AnswersKept, AstrayKept DEF Accept, maps, history
<1>6. ClosingUnmapped' /\ Identities' /\ InHand' /\ OneAtATime' /\ Removable' /\ AnsweredAccepted' /\
     GoneWhenOffline'
  BY <1>1, Monotone DEF IInv, TypeOK, ClosingUnmapped, Identities, InHand, OneAtATime, Removable,
     AnsweredAccepted, GoneWhenOffline, Accept, history
<1> QED
  BY <1>2, <1>3, <1>4, <1>5, <1>6 DEF IInv

\* removeSession.
LEMMA RemoveSessionStep ==
  ASSUME IInv, NEW f \in Fds, RemoveSession(f)
  PROVE  IInv'
<1> USE SessionsAssumption, Nobody
<1>1. Next
  BY DEF Next, EventLoop
<1>2. TypeOK'
  BY DEF IInv, TypeOK, RemoveSession, EraseUser, EraseSession, Assigned
<1>3. SessionOfSocket'
  BY DEF IInv, SessionOfSocket, RemoveSession, EraseSession
<1>4. Identities'
  BY DEF IInv, Identities, RemoveSession, EraseUser
<1>5. Departed'
  BY DEF IInv, TypeOK, Departed, SessionOfSocket, Connected, InFlight, RemoveSession, EraseSession
<1>6. Removable'
  BY Monotone, SoleMeans, <1>1 DEF IInv, Removable, RemoveSession, EraseUser
<1>7. GoneWhenOffline'
  BY Monotone, SoleMeans, <1>1 DEF IInv, TypeOK, GoneWhenOffline, Removable, InFlight,
     RemoveSession, EraseUser, ReadUserId, Assigning
<1>8. ReachableWhileOnline'
  <2> SUFFICES ASSUME NEW s \in Sessions, NEW u \in Ids,
                      <<s, u>> \in loggedIn, Sole(u, s), Connected(s)', s \notin loggedOut
               PROVE  userMap'[u] = s
    BY <1>1, Monotone DEF IInv, TypeOK, Identities, ReachableWhileOnline, RemoveSession
  <2>1. clientFd[s] # NoFd
    BY DEF IInv, TypeOK, Identities
  <2>2. Connected(s) /\ userMap[u] = s
    BY <1>1, <2>1, Monotone DEF IInv, ReachableWhileOnline
  <2>3. sessionMap[f] # s
    BY DEF IInv, TypeOK, SessionOfSocket, RemoveSession, EraseSession, Connected
  <2>4. PICK v \in ReadUserId(sessionMap[f], {"authenticate", "clear"}) : EraseUser(v)
    BY DEF RemoveSession
  <2>5. v # NoUser => <<sessionMap[f], v>> \in tried /\ v \in Ids
    BY DEF IInv, TypeOK, Identities, InHand, LoginSteps, ReadUserId, Assigning, Assigned, RemoveSession
  <2>6. v # NoUser => v # u
    BY <2>3, <2>5, SoleMeans DEF IInv, TypeOK, RemoveSession
  <2> QED
    BY <2>2, <2>4, <2>6 DEF EraseUser, IInv, TypeOK
<1>9. AnswersReachSender' /\ AstrayOnlyByRace'
  BY <1>1, AnswersKept, AstrayKept DEF RemoveSession, maps, history
<1>10. ClosingUnmapped' /\ InHand' /\ OneAtATime' /\ AnsweredAccepted'
  BY DEF IInv, TypeOK, ClosingUnmapped, InHand, OneAtATime, AnsweredAccepted, RemoveSession,
     EraseSession
<1> QED
  BY <1>2, <1>3, <1>4, <1>5, <1>6, <1>7, <1>8, <1>9, <1>10 DEF IInv

\* close.
LEMMA CloseStep ==
  ASSUME IInv, Close
  PROVE  IInv'
<1> USE SessionsAssumption, Nobody
<1>1. Next
  BY DEF Next, EventLoop
<1>2. TypeOK'
  BY DEF IInv, TypeOK, Close, maps, history
<1>3. SessionOfSocket'
  BY DEF IInv, SessionOfSocket, ClosingUnmapped, Close, maps
<1>4. ReachableWhileOnline' /\ AnswersReachSender' /\ AstrayOnlyByRace'
  BY <1>1, ReachableKept, AnswersKept, AstrayKept DEF Close, maps, history
<1>5. ClosingUnmapped' /\ Identities' /\ InHand' /\ OneAtATime' /\ Departed' /\ Removable' /\
     AnsweredAccepted' /\ GoneWhenOffline'
  BY <1>1, Monotone DEF IInv, TypeOK, ClosingUnmapped, Identities, InHand, OneAtATime, Departed,
     InFlight, Removable, AnsweredAccepted, GoneWhenOffline, Close, maps, history
<1> QED
  BY <1>2, <1>3, <1>4, <1>5 DEF IInv

\* A login request, or that of an administrator's client, arrives.
LEMMA LoginStep ==
  ASSUME IInv, NEW w \in Workers, NEW s \in Sessions, NEW u \in Ids,
         NEW first \in {"validate", "authenticate"}, Login(w, s, u, first), Next
  PROVE  IInv'
<1> USE SessionsAssumption, Nobody
<1>1. TypeOK'
  BY DEF IInv, TypeOK, Places, Login, Dispatch, maps
<1>2. Identities'
  BY DEF IInv, Identities, Login, Dispatch, Found, maps
<1>3. InHand'
  BY DEF IInv, TypeOK, InHand, LogoutSteps, Login, Dispatch, Found
<1>4. OneAtATime'
  BY DEF IInv, TypeOK, OneAtATime, InHand, Login, Dispatch, InFlight
<1>5. Departed'
  BY DEF IInv, TypeOK, Departed, Connected, InFlight, Login, Dispatch, Found, maps
<1>6. Removable'
  BY Monotone, SoleMeans DEF IInv, Removable, Login, Dispatch, maps
<1>7. GoneWhenOffline'
  BY Monotone, SoleMeans DEF IInv, TypeOK, GoneWhenOffline, Login, Dispatch, maps
<1>8. ReachableWhileOnline' /\ AnswersReachSender' /\ AstrayOnlyByRace'
  BY ReachableKept, AnswersKept, AstrayKept DEF Login, Dispatch, maps, history
<1>9. SessionOfSocket' /\ ClosingUnmapped' /\ AnsweredAccepted'
  BY DEF IInv, SessionOfSocket, ClosingUnmapped, AnsweredAccepted, Login, Dispatch, maps
<1> QED
  BY <1>1, <1>2, <1>3, <1>4, <1>5, <1>6, <1>7, <1>8, <1>9 DEF IInv

\* A logout request arrives.
LEMMA HandleLogoutStep ==
  ASSUME IInv, NEW w \in Workers, NEW s \in Sessions, HandleLogout(w, s)
  PROVE  IInv'
<1> USE SessionsAssumption, Nobody
<1>1. Next
  BY DEF Next
<1>2. TypeOK'
  BY DEF IInv, TypeOK, Places, HandleLogout, Dispatch, maps
<1>3. InHand'
  BY DEF IInv, TypeOK, InHand, LoginSteps, HandleLogout, Dispatch, Found
<1>4. OneAtATime'
  BY DEF IInv, OneAtATime, HandleLogout, Dispatch, InFlight
<1>5. Departed'
  BY DEF IInv, TypeOK, Departed, Connected, InFlight, HandleLogout, Dispatch, Found, maps
<1>6. Removable'
  BY Monotone, SoleMeans, <1>1 DEF IInv, Removable, HandleLogout, Dispatch, maps
<1>7. GoneWhenOffline'
  BY Monotone, SoleMeans, <1>1 DEF IInv, TypeOK, GoneWhenOffline, HandleLogout, Dispatch, maps
<1>8. ReachableWhileOnline' /\ AnswersReachSender' /\ AstrayOnlyByRace'
  BY <1>1, ReachableKept, AnswersKept, AstrayKept DEF HandleLogout, Dispatch, maps, history
<1>9. SessionOfSocket' /\ ClosingUnmapped' /\ Identities' /\ AnsweredAccepted'
  BY DEF IInv, SessionOfSocket, ClosingUnmapped, Identities, AnsweredAccepted, HandleLogout,
     Dispatch, maps
<1> QED
  BY <1>2, <1>3, <1>4, <1>5, <1>6, <1>7, <1>8, <1>9 DEF IInv

\* validateLogin.
LEMMA ValidateStep ==
  ASSUME IInv, NEW w \in Workers, Validate(w)
  PROVE  IInv'
<1> USE SessionsAssumption, Nobody
<1>1. Next
  BY DEF Next, Step
<1>2. TypeOK'
  BY DEF IInv, TypeOK, Places, Validate, Goto, Finish, NoJob, maps, history
<1>3. InHand'
  BY DEF IInv, TypeOK, InHand, LoginSteps, LogoutSteps, Validate, Goto, Finish, NoJob, history
<1>4. OneAtATime'
  BY DEF IInv, TypeOK, OneAtATime, Validate, Goto, Finish, NoJob, history
<1>5. Departed'
  BY DEF IInv, TypeOK, Departed, Connected, InFlight, Validate, Goto, Finish, NoJob, maps, history
<1>6. Removable'
  BY Monotone, SoleMeans, <1>1 DEF IInv, TypeOK, Removable, Validate, Goto, Finish, maps
<1>7. ReachableWhileOnline' /\ AnswersReachSender' /\ AstrayOnlyByRace'
  BY <1>1, ReachableKept, AnswersKept, AstrayKept DEF Validate, maps, history
<1>8. SessionOfSocket' /\ ClosingUnmapped' /\ Identities' /\ AnsweredAccepted' /\ GoneWhenOffline'
  BY <1>1, Monotone DEF IInv, TypeOK, SessionOfSocket, ClosingUnmapped, Identities,
     AnsweredAccepted, GoneWhenOffline, Validate, maps, history
<1> QED
  BY <1>2, <1>3, <1>4, <1>5, <1>6, <1>7, <1>8 DEF IInv

\* authenticate.
LEMMA AuthenticateStep ==
  ASSUME IInv, NEW w \in Workers, Authenticate(w)
  PROVE  IInv'
<1> USE SessionsAssumption, Nobody
<1>1. Next
  BY DEF Next, Step
<1>2. TypeOK'
  BY DEF IInv, TypeOK, Places, Authenticate, Goto, maps, history
<1>3. Identities'
  BY DEF IInv, TypeOK, Identities, InHand, LoginSteps, LogoutSteps, Authenticate, Goto, maps,
     history
<1>4. InHand'
  BY DEF IInv, InHand, LoginSteps, LogoutSteps, Authenticate, Goto, history
<1>5. OneAtATime'
  BY DEF IInv, OneAtATime, Authenticate, Goto, history
<1>6. Departed'
  BY DEF IInv, Departed, Connected, InFlight, Authenticate, Goto, maps, history
<1>7. Removable'
  <2>1. job[w].session \in Sessions /\ job[w].user \in Ids /\ <<job[w].session, job[w].user>> \in tried
    BY DEF IInv, TypeOK, InHand, LoginSteps, Authenticate
  <2> SUFFICES ASSUME NEW s \in Sessions \ overlapped, NEW u \in Ids, u # NoUser, Sole(u, s),
                      userMap[u] = s
               PROVE  userId'[s] = u /\ \A v \in Workers : job[v].session = s => pc'[v] # "clear"
    BY <1>1, Monotone DEF Removable, Authenticate, Goto, maps, history
  <2>2. userId[s] = u /\ \A v \in Workers : job[v].session = s => pc[v] # "clear"
    BY DEF IInv, Removable
  <2>3. /\ userId' = [userId EXCEPT ![job[w].session] = job[w].user]
        /\ pc' = [pc EXCEPT ![w] = "register"]
    BY DEF Authenticate, Goto
  <2>4. job[w].session = s => job[w].user = u
    BY <2>1, SoleMeans
  <2> QED
    BY <2>2, <2>3, <2>4 DEF IInv, TypeOK
<1>8. ReachableWhileOnline' /\ AnswersReachSender' /\ AstrayOnlyByRace'
  BY <1>1, ReachableKept, AnswersKept, AstrayKept DEF Authenticate, maps, history
<1>9. SessionOfSocket' /\ ClosingUnmapped' /\ AnsweredAccepted' /\ GoneWhenOffline'
  BY <1>1, Monotone DEF IInv, TypeOK, SessionOfSocket, ClosingUnmapped, AnsweredAccepted,
     GoneWhenOffline, Authenticate, maps, history
<1> QED
  BY <1>2, <1>3, <1>4, <1>5, <1>6, <1>7, <1>8, <1>9 DEF IInv

\* registerUser.
LEMMA RegisterUserStep ==
  ASSUME IInv, NEW w \in Workers, RegisterUser(w)
  PROVE  IInv'
<1> USE SessionsAssumption, Nobody
<1>1. Next
  BY DEF Next, Step
<1>2. TypeOK'
  <2>1. job[w].session \in Sessions /\ job[w].user \in Ids /\ <<job[w].session, job[w].user>> \in tried
    BY DEF IInv, TypeOK, InHand, LoginSteps, RegisterUser
  <2> QED
    BY <2>1 DEF IInv, TypeOK, Places, RegisterUser, MapUser, Goto, maps
<1>3. Identities'
  BY DEF IInv, Identities, InHand, LoginSteps, RegisterUser, MapUser
<1>4. InHand'
  BY DEF IInv, InHand, LoginSteps, LogoutSteps, RegisterUser, Goto
<1>5. OneAtATime'
  BY DEF IInv, OneAtATime, RegisterUser, Goto
<1>6. Departed'
  BY DEF IInv, Departed, Connected, InFlight, RegisterUser, Goto
<1>7. Removable'
  <2>1. job[w].session \in Sessions /\ job[w].user \in Ids /\ <<job[w].session, job[w].user>> \in tried
    BY DEF IInv, TypeOK, InHand, LoginSteps, RegisterUser
  <2> SUFFICES ASSUME NEW s \in Sessions \ overlapped, NEW u \in Ids, u # NoUser, Sole(u, s),
                      userMap'[u] = s
               PROVE  userId'[s] = u /\ \A v \in Workers : job[v].session = s => pc'[v] # "clear"
    BY <1>1, Monotone DEF Removable, RegisterUser, Goto
  <2>2. /\ userMap' = [userMap EXCEPT ![job[w].user] = job[w].session]
        /\ userId' = [userId EXCEPT ![job[w].session] = job[w].user]
        /\ pc' = [pc EXCEPT ![w] = "reply"]
        /\ pc[w] = "register"
    BY DEF RegisterUser, MapUser, Goto
  <2>3. CASE job[w].session = s
    <3>1. job[w].user = u
      BY <2>1, <2>3, SoleMeans
    <3>2. \A v \in Workers : job[v].session = s => v = w
      BY <2>3 DEF IInv, OneAtATime
    <3> QED
      BY <2>2, <2>3, <3>1, <3>2 DEF IInv, TypeOK
  <2>4. CASE job[w].session # s
    <3>1. userMap[u] = s
      BY <2>1, <2>2, <2>4 DEF IInv, TypeOK
    <3>2. userId[s] = u /\ \A v \in Workers : job[v].session = s => pc[v] # "clear"
      BY <3>1 DEF IInv, Removable
    <3> QED
      BY <2>2, <2>4, <3>2 DEF IInv, TypeOK
  <2> QED
    BY <2>3, <2>4
<1>8. GoneWhenOffline'
  BY Monotone, SoleMeans, <1>1 DEF IInv, TypeOK, GoneWhenOffline, Departed, InFlight, RegisterUser,
     MapUser
<1>9. ReachableWhileOnline'
  <2>1. job[w].session \in Sessions /\ job[w].user \in Ids /\ <<job[w].session, job[w].user>> \in tried
    BY DEF IInv, TypeOK, InHand, LoginSteps, RegisterUser
  <2> SUFFICES ASSUME NEW s \in Sessions, NEW u \in Ids,
                      <<s, u>> \in loggedIn', Sole(u, s), Connected(s)', s \notin loggedOut
               PROVE  userMap'[u] = s
    BY <1>1, Monotone DEF IInv, ReachableWhileOnline, RegisterUser
  <2>2. userMap' = [userMap EXCEPT ![job[w].user] = job[w].session]
    BY DEF RegisterUser, MapUser
  <2>3. CASE job[w].user = u
    BY <2>1, <2>2, <2>3, SoleMeans DEF IInv, TypeOK
  <2>4. CASE job[w].user # u
    <3>1. <<s, u>> \in loggedIn /\ Connected(s)
      BY <2>4 DEF RegisterUser, Connected
    <3>2. userMap[u] = s
      BY <3>1 DEF IInv, ReachableWhileOnline
    <3> QED
      BY <2>2, <2>4, <3>2 DEF IInv, TypeOK
  <2> QED
    BY <2>3, <2>4
<1>10. AnswersReachSender' /\ AstrayOnlyByRace'
  BY <1>1, AnswersKept, AstrayKept DEF RegisterUser, maps, history
<1>11. SessionOfSocket' /\ ClosingUnmapped' /\ AnsweredAccepted'
  BY DEF IInv, TypeOK, SessionOfSocket, ClosingUnmapped, AnsweredAccepted, RegisterUser, maps,
     history
<1> QED
  BY <1>2, <1>3, <1>4, <1>5, <1>6, <1>7, <1>8, <1>9, <1>10, <1>11 DEF IInv

\* handleLogout reads the identity.
LEMMA IdentifyStep ==
  ASSUME IInv, NEW w \in Workers, Identify(w)
  PROVE  IInv'
<1> DEFINE s == job[w].session
           unlocked == {"authenticate", "register", "clear"}
<1> USE SessionsAssumption, Nobody
<1>1. Next
  BY DEF Next, Step
<1>a. PICK u \in ReadUserId(s, unlocked) :
        /\ job' = [job EXCEPT ![w].user = u]
        /\ \/ u = NoUser /\ pc' = [pc EXCEPT ![w] = "reply"]
           \/ (u # NoUser \/ Assigning(s, unlocked) # {}) /\ pc' = [pc EXCEPT ![w] = "remove"]
  BY DEF Identify
<1>b. /\ pc[w] = "identify" /\ s \in Sessions /\ s \in loggedOut
      /\ UNCHANGED <<clientFd, userId, maps, socket, closing, requests, history>>
  BY DEF IInv, TypeOK, InHand, LogoutSteps, Identify
<1>c. u = NoUser \/ (u \in Ids /\ <<s, u>> \in tried)
  BY <1>b, ReadsWereAskedFor
<1>d. Assigning(s, unlocked) # {} => s \in overlapped
  <2>1. \A v \in Workers : v \in Assigning(s, unlocked) => v # w /\ job[v].session = s
    BY <1>b DEF Assigning
  <2> QED
    BY <1>b, <2>1 DEF IInv, OneAtATime, Assigning
<1>2. TypeOK'
  <2>1. job' \in [Workers -> [session : Sessions \cup {NoSession}, user : Ids]]
    BY <1>a, <1>c DEF IInv, TypeOK
  <2>2. pc' \in [Workers -> Places]
    BY <1>a DEF IInv, TypeOK, Places
  <2> QED
    BY <1>b, <2>1, <2>2 DEF IInv, TypeOK, maps, history
<1>3. InHand'
  <2> SUFFICES ASSUME NEW v \in Workers PROVE InHand!(v)'
    BY DEF InHand
  <2>1. CASE v # w
    BY <1>a, <1>b, <2>1 DEF IInv, TypeOK, InHand, history
  <2>2. CASE v = w
    BY <1>a, <1>b, <1>c, <1>d, <2>2, ZenonT(60) DEF IInv, TypeOK, InHand, LoginSteps, LogoutSteps, history
  <2> QED
    BY <2>1, <2>2
<1>4. OneAtATime'
  BY DEF IInv, OneAtATime, Identify, history
<1>5. Departed'
  BY DEF IInv, Departed, Connected, InFlight, Identify, maps, history
<1>6. Removable'
  BY <1>a, <1>b, <1>1, Monotone DEF IInv, TypeOK, Removable, maps, history
<1>7. ReachableWhileOnline' /\ AnswersReachSender' /\ AstrayOnlyByRace'
  BY <1>1, ReachableKept, AnswersKept, AstrayKept DEF Identify, maps, history
<1>8. SessionOfSocket' /\ ClosingUnmapped' /\ Identities' /\ AnsweredAccepted' /\ GoneWhenOffline'
  BY <1>1, Monotone DEF IInv, TypeOK, SessionOfSocket, ClosingUnmapped, Identities,
     AnsweredAccepted, GoneWhenOffline, Identify, maps, history
<1> QED
  BY <1>2, <1>3, <1>4, <1>5, <1>6, <1>7, <1>8 DEF IInv

\* removeUser.
LEMMA RemoveUserStep ==
  ASSUME IInv, NEW w \in Workers, RemoveUser(w)
  PROVE  IInv'
<1> USE SessionsAssumption, Nobody
<1>1. Next
  BY DEF Next, Step
<1>2. TypeOK'
  BY DEF IInv, TypeOK, Places, RemoveUser, EraseUser, Goto, history
<1>3. Identities'
  BY DEF IInv, Identities, RemoveUser, EraseUser, history
<1>4. InHand'
  BY DEF IInv, TypeOK, InHand, LoginSteps, LogoutSteps, RemoveUser, Goto, history
<1>5. OneAtATime'
  BY DEF IInv, OneAtATime, RemoveUser, Goto, history
<1>6. Departed'
  BY DEF IInv, Departed, Connected, InFlight, RemoveUser, Goto, history
<1>7. Removable'
  <2>1. /\ job[w].session \in Sessions /\ job[w].user \in Ids
        /\ IF job[w].user = NoUser THEN job[w].session \in overlapped
           ELSE <<job[w].session, job[w].user>> \in tried
    BY DEF IInv, TypeOK, InHand, RemoveUser
  <2> SUFFICES ASSUME NEW s \in Sessions \ overlapped, NEW u \in Ids, u # NoUser, Sole(u, s),
                      userMap'[u] = s
               PROVE  userId[s] = u /\ \A v \in Workers : job[v].session = s => pc'[v] # "clear"
    BY <1>1, Monotone DEF Removable, RemoveUser, Goto, history
  <2>2. pc' = [pc EXCEPT ![w] = "clear"]
    BY DEF RemoveUser, Goto
  <2>3. userMap[u] = s /\ job[w].user # u
    BY <2>1 DEF IInv, TypeOK, RemoveUser, EraseUser
  <2>4. userId[s] = u /\ \A v \in Workers : job[v].session = s => pc[v] # "clear"
    BY <2>3 DEF IInv, Removable
  <2>5. job[w].session # s
    BY <2>1, <2>3, SoleMeans
  <2> QED
    BY <2>2, <2>4, <2>5 DEF IInv, TypeOK
<1>8. GoneWhenOffline'
  BY Monotone, SoleMeans, <1>1 DEF IInv, TypeOK, GoneWhenOffline, RemoveUser, EraseUser, history
<1>9. ReachableWhileOnline'
  <2>1. /\ job[w].session \in Sessions /\ job[w].user \in Ids /\ job[w].session \in loggedOut
        /\ job[w].user # NoUser => <<job[w].session, job[w].user>> \in tried
    BY DEF IInv, TypeOK, InHand, LogoutSteps, RemoveUser
  <2> SUFFICES ASSUME NEW s \in Sessions, NEW u \in Ids,
                      <<s, u>> \in loggedIn, Sole(u, s), Connected(s)', s \notin loggedOut
               PROVE  userMap'[u] = s
    BY <1>1, Monotone DEF ReachableWhileOnline, RemoveUser, history
  <2>2. Connected(s)
    BY DEF RemoveUser, Connected
  <2>3. userMap[u] = s
    BY <2>2 DEF IInv, ReachableWhileOnline
  <2>4. job[w].user # NoUser => job[w].user # u
    BY <2>1, SoleMeans
  <2> QED
    BY <2>1, <2>3, <2>4 DEF IInv, TypeOK, RemoveUser, EraseUser
<1>10. AnswersReachSender' /\ AstrayOnlyByRace'
  BY <1>1, AnswersKept, AstrayKept DEF RemoveUser, maps, history
<1>11. SessionOfSocket' /\ ClosingUnmapped' /\ AnsweredAccepted'
  BY DEF IInv, SessionOfSocket, ClosingUnmapped, AnsweredAccepted, RemoveUser, history
<1> QED
  BY <1>2, <1>3, <1>4, <1>5, <1>6, <1>7, <1>8, <1>9, <1>10, <1>11 DEF IInv

\* clearAuth.
LEMMA ClearAuthStep ==
  ASSUME IInv, NEW w \in Workers, ClearAuth(w)
  PROVE  IInv'
<1> USE SessionsAssumption, Nobody
<1>1. Next
  BY DEF Next, Step
<1>2. TypeOK'
  BY DEF IInv, TypeOK, Places, ClearAuth, Goto, maps, history
<1>3. Identities'
  BY DEF IInv, Identities, ClearAuth, maps, history
<1>4. InHand'
  BY DEF IInv, InHand, LoginSteps, LogoutSteps, ClearAuth, Goto, history
<1>5. OneAtATime'
  BY DEF IInv, OneAtATime, ClearAuth, Goto, history
<1>6. Departed'
  BY DEF IInv, Departed, Connected, InFlight, ClearAuth, Goto, maps, history
<1>7. Removable'
  BY Monotone, SoleMeans, <1>1 DEF IInv, Removable, ClearAuth, Goto, maps
<1>8. ReachableWhileOnline' /\ AnswersReachSender' /\ AstrayOnlyByRace'
  BY <1>1, ReachableKept, AnswersKept, AstrayKept DEF ClearAuth, maps, history
<1>9. SessionOfSocket' /\ ClosingUnmapped' /\ AnsweredAccepted' /\ GoneWhenOffline'
  BY <1>1, Monotone DEF IInv, TypeOK, SessionOfSocket, ClosingUnmapped, AnsweredAccepted,
     GoneWhenOffline, ClearAuth, maps, history
<1> QED
  BY <1>2, <1>3, <1>4, <1>5, <1>6, <1>7, <1>8, <1>9 DEF IInv

\* The answer.
LEMMA ReplyStep ==
  ASSUME IInv, NEW w \in Workers, Reply(w)
  PROVE  IInv'
<1> USE SessionsAssumption, Nobody
<1>1. Next
  BY DEF Next, Step
<1>2. TypeOK'
  <2>1. job[w].session \in Sessions /\ clientFd[job[w].session] \in Fds
    BY DEF IInv, TypeOK, InHand, Reply
  <2>2. Receiver(job[w].session) \in Sessions \cup {NoSession}
    BY <2>1 DEF IInv, TypeOK, Receiver
  <2>3. strayAnswers' \in SUBSET (Sessions \X Sessions)
    BY <2>1, <2>2 DEF IInv, TypeOK, Reply
  <2> QED
    BY <2>3 DEF IInv, TypeOK, Places, Reply, Finish, NoJob, maps
<1>3. InHand'
  BY DEF IInv, TypeOK, InHand, LoginSteps, LogoutSteps, Reply, Finish, NoJob
<1>4. OneAtATime'
  BY DEF IInv, OneAtATime, Reply, Finish, NoJob
<1>5. Departed'
  BY DEF IInv, TypeOK, Departed, Connected, InFlight, Reply, Finish, NoJob, maps
<1>6. Removable'
  BY Monotone, SoleMeans, <1>1 DEF IInv, Removable, Reply, Finish, maps
<1>7. AnsweredAccepted'
  BY DEF IInv, AnsweredAccepted, InHand, Reply
<1>8. AnswersReachSender'
  <2>1. job[w].session \in Sessions /\ clientFd[job[w].session] \in Fds
    BY DEF IInv, TypeOK, InHand, Reply
  <2>2. Connected(job[w].session) => Receiver(job[w].session) = job[w].session
    BY <2>1 DEF IInv, SessionOfSocket, Connected, Receiver
  <2>3. job[w].session \notin clean
    BY DEF IInv, Departed, InFlight
  <2>4. Receiver(job[w].session) = job[w].session \/ LeftInFlight(job[w].session)
    BY <2>2, <2>3 DEF LeftInFlight
  <2>5. \A s \in Sessions : clientFd[s] # NoFd /\ LeftInFlight(s) => LeftInFlight(s)'
    BY <1>1, Monotone
  <2>6. ASSUME NEW s \in Sessions, NEW r \in Sessions, <<s, r>> \in strayAnswers'
        PROVE  LeftInFlight(s)'
    <3>1. CASE <<s, r>> \in strayAnswers
      BY <2>5, <3>1 DEF IInv, AnswersReachSender, AnsweredAccepted
    <3>2. CASE s = job[w].session /\ Receiver(s) # s
      BY <2>1, <2>4, <2>5, <3>2
    <3> QED
      BY <2>6, <3>1, <3>2 DEF Reply
  <2> QED
    BY <2>6 DEF AnswersReachSender
<1>9. ReachableWhileOnline' /\ AstrayOnlyByRace'
  BY <1>1, ReachableKept, AstrayKept DEF Reply, maps, history
<1>10. SessionOfSocket' /\ ClosingUnmapped' /\ Identities' /\ GoneWhenOffline'
  BY <1>1, Monotone DEF IInv, TypeOK, SessionOfSocket, ClosingUnmapped, Identities, GoneWhenOffline,
     Reply, maps
<1> QED
  BY <1>2, <1>3, <1>4, <1>5, <1>6, <1>7, <1>8, <1>9, <1>10 DEF IInv

\* sendToUser.
LEMMA SendToUserStep ==
  ASSUME IInv, NEW u \in Ids, SendToUser(u)
  PROVE  IInv'
<1> USE SessionsAssumption, Nobody
<1>1. Next
  BY DEF Next
<1>2. TypeOK'
  <2>1. userMap[u] \in Sessions /\ clientFd[userMap[u]] \in Fds
    BY ZenonT(60) DEF IInv, TypeOK, Identities, SendToUser
  <2>2. Receiver(userMap[u]) \in Sessions \cup {NoSession}
    BY <2>1 DEF IInv, TypeOK, Receiver
  <2>3. strayPushes' \in SUBSET (Ids \X Sessions)
    BY <2>2 DEF IInv, TypeOK, SendToUser
  <2> QED
    BY <2>3 DEF IInv, TypeOK, SendToUser, maps
<1>3. AstrayOnlyByRace'
  <2> DEFINE s == userMap[u]
  <2>1. s \in Sessions /\ clientFd[s] \in Fds /\ <<s, u>> \in tried
    BY DEF IInv, TypeOK, Identities, SendToUser
  <2>2. Connected(s) => Receiver(s) = s
    BY <2>1 DEF IInv, SessionOfSocket, Connected, Receiver
  <2>3. ~Connected(s) => LeftInFlight(s) \/ s \in overlapped \/ ~Sole(u, s) \/ u = NoUser
    BY <2>1 DEF IInv, GoneWhenOffline, LeftInFlight
  <2>4. UNCHANGED <<tried, overlapped, sessionMap, clean>>
    BY DEF SendToUser, maps
  <2>5. \A r \in Sessions, v \in Ids :
          (LeftInFlight(r)' <=> LeftInFlight(r)) /\ (Sole(v, r)' <=> Sole(v, r))
    BY <2>4 DEF LeftInFlight, Connected, Sole
  <2>6. ASSUME NEW v \in Ids, NEW r \in Sessions, <<v, r>> \in strayPushes'
        PROVE  \E q \in Sessions : /\ <<q, v>> \in tried
                                   /\ \/ LeftInFlight(q) \/ q \in overlapped
                                      \/ ~Sole(v, q) \/ v = NoUser
    <3>1. CASE <<v, r>> \in strayPushes
      BY <3>1 DEF IInv, AstrayOnlyByRace
    <3>2. CASE v = u /\ <<Receiver(s), u>> \notin tried
      BY <2>1, <2>2, <2>3, <3>2
    <3> QED
      BY <2>6, <3>1, <3>2 DEF SendToUser
  <2> QED
    BY <2>4, <2>5, <2>6 DEF AstrayOnlyByRace
<1>4. ReachableWhileOnline' /\ AnswersReachSender'
  BY <1>1, ReachableKept, AnswersKept DEF SendToUser, maps, history
<1>5. SessionOfSocket' /\ ClosingUnmapped' /\ Identities' /\ InHand' /\ OneAtATime' /\ Departed' /\
     Removable' /\ AnsweredAccepted' /\ GoneWhenOffline'
  BY <1>1, Monotone DEF IInv, TypeOK, SessionOfSocket, ClosingUnmapped, Identities, InHand,
     OneAtATime, Departed, InFlight, Removable, AnsweredAccepted, GoneWhenOffline, SendToUser, maps
<1> QED
  BY <1>2, <1>3, <1>4, <1>5 DEF IInv

-----------------------------------------------------------------------------
(* The invariants.                                                         *)

\* Before the first connection.
LEMMA Initially == Init => IInv
<1> SUFFICES ASSUME Init PROVE IInv
  OBVIOUS
<1> USE SessionsAssumption, Nobody DEF Init
<1>1. TypeOK
  BY DEF TypeOK, Places, NoJob
<1>2. SessionOfSocket /\ ClosingUnmapped /\ Identities /\ AnsweredAccepted
  BY DEF SessionOfSocket, ClosingUnmapped, Identities, AnsweredAccepted
<1>3. InHand /\ OneAtATime
  BY DEF InHand, OneAtATime, NoJob, LoginSteps, LogoutSteps
<1>4. Departed /\ Removable /\ GoneWhenOffline
  BY DEF Departed, Removable, GoneWhenOffline
<1>5. ReachableWhileOnline /\ AnswersReachSender /\ AstrayOnlyByRace
  BY DEF ReachableWhileOnline, AnswersReachSender, AstrayOnlyByRace
<1> QED
  BY <1>1, <1>2, <1>3, <1>4, <1>5 DEF IInv

\* A step that changes nothing.
LEMMA Stuttering ==
  ASSUME IInv, UNCHANGED vars
  PROVE  IInv'
<1> USE DEF vars
<1>1. \A s \in Sessions : (Connected(s)' <=> Connected(s)) /\ (InFlight(s)' <=> InFlight(s))
  BY DEF Connected, InFlight
<1>2. /\ \A s \in Sessions, u \in Ids : Sole(u, s)' <=> Sole(u, s)
      /\ \A s \in Sessions : LeftInFlight(s)' <=> LeftInFlight(s)
  BY <1>1 DEF Sole, LeftInFlight
<1>3. TypeOK' /\ SessionOfSocket' /\ ClosingUnmapped' /\ AnsweredAccepted'
  BY DEF IInv, TypeOK, SessionOfSocket, ClosingUnmapped, AnsweredAccepted
<1>4. Identities' /\ InHand' /\ OneAtATime' /\ Departed'
  BY <1>1 DEF IInv, TypeOK, Identities, InHand, OneAtATime, Departed
<1>5. Removable' /\ GoneWhenOffline' /\ ReachableWhileOnline'
  BY <1>1, <1>2 DEF IInv, TypeOK, Removable, GoneWhenOffline, ReachableWhileOnline
<1>6. AnswersReachSender' /\ AstrayOnlyByRace'
  BY <1>2 DEF IInv, AnswersReachSender, AstrayOnlyByRace
<1> QED
  BY <1>3, <1>4, <1>5, <1>6 DEF IInv

\* IInv is an invariant of the connections, the maps and the workers.
THEOREM Invariance == Spec => []IInv
<1>1. Init => IInv
  BY Initially
<1>2. IInv /\ [Next]_vars => IInv'
  <2> SUFFICES ASSUME IInv, [Next]_vars PROVE IInv'
    OBVIOUS
  <2>1. CASE \E s \in Sessions, f \in Fds : Accept(s, f)
    BY <2>1, AcceptStep
  <2>2. CASE \E f \in Fds : RemoveSession(f)
    BY <2>2, RemoveSessionStep
  <2>3. CASE Close
    BY <2>3, CloseStep
  <2>4. CASE \E w \in Workers, s \in Sessions, u \in Ids :
                HandleLogin(w, s, u) \/ HandleAdminInit(w, s, u)
    BY <2>4, LoginStep DEF Next, HandleLogin, HandleAdminInit
  <2>5. CASE \E w \in Workers, s \in Sessions : HandleLogout(w, s)
    BY <2>5, HandleLogoutStep
  <2>6. CASE \E w \in Workers : Step(w)
    BY <2>6, ValidateStep, AuthenticateStep, RegisterUserStep, IdentifyStep, RemoveUserStep,
       ClearAuthStep, ReplyStep DEF Step
  <2>7. CASE \E u \in Ids : SendToUser(u)
    BY <2>7, SendToUserStep
  <2>8. CASE UNCHANGED vars
    BY <2>8, Stuttering
  <2> QED
    BY <2>1, <2>2, <2>3, <2>4, <2>5, <2>6, <2>7, <2>8 DEF Next, EventLoop
<1> QED
  BY <1>1, <1>2, PTL DEF Spec

\* The two maps, the identities, the descriptors and the workers keep their types.
THEOREM TypeCorrect == Spec => []TypeOK
<1>1. IInv => TypeOK
  BY DEF IInv
<1> QED
  BY <1>1, Invariance, PTL

\* The session getSession finds for a descriptor is that of the connection that
\* owns the descriptor now.
THEOREM RightSession == Spec => []SessionOfSocket
<1>1. IInv => SessionOfSocket
  BY DEF IInv
<1> QED
  BY <1>1, Invariance, PTL

\* Nothing other clients do takes a user with one connection out of userMap.
THEOREM OnlineIsReachable == Spec => []ReachableWhileOnline
<1>1. IInv => ReachableWhileOnline
  BY DEF IInv
<1> QED
  BY <1>1, Invariance, PTL

\* A disconnection without requests in flight leaves no entry behind, but that of
\* the empty identity.
THEOREM OfflineIsGone == Spec => []GoneWhenOffline
<1>1. IInv => GoneWhenOffline
  BY DEF IInv
<1> QED
  BY <1>1, Invariance, PTL

\* Answers go to the connection that asked unless it left before they were written.
THEOREM AnswersAddressed == Spec => []AnswersReachSender
<1>1. IInv => AnswersReachSender
  BY DEF IInv
<1> QED
  BY <1>1, Invariance, PTL

\* The races named by AstrayOnlyByRace are the only ways for a push to reach a
\* stranger.
THEOREM PushesGoAstrayOnlyByRace == Spec => []AstrayOnlyByRace
<1>1. IInv => AstrayOnlyByRace
  BY DEF IInv
<1> QED
  BY <1>1, Invariance, PTL

\* A session is only ever authenticated, and a user only ever mapped to a
\* session, as its own client asked: torn reads, recycled descriptors and
\* requests that outlive their connection give nobody an identity.
THEOREM IdentitiesWereAskedFor == Spec => []Identities
<1>1. IInv => Identities
  BY DEF IInv
<1> QED
  BY <1>1, Invariance, PTL

-----------------------------------------------------------------------------
(* Who may change an entry of userMap.                                     *)

\* An entry for a user is made only for a session whose client asked to be that
\* user, and taken out only in the name of such a session: because it asked to
\* log out, or in the step that disconnects it.  The entry for the empty identity
\* is never taken out.
EntriesChangeByOwner ==
  [][\A u \in Ids : userMap'[u] # userMap[u] =>
       \E s \in Sessions :
         /\ <<s, u>> \in tried
         /\ \/ userMap'[u] = s
            \/ /\ userMap'[u] = NoSession
               /\ u # NoUser
               /\ s \in loggedOut \/ (Connected(s) /\ ~Connected(s)')]_vars

\* The disconnected session is in the map no longer.
LEMMA RemovedIsGone ==
  ASSUME IInv, NEW f \in Fds, RemoveSession(f)
  PROVE  /\ sessionMap[f] \in Sessions
         /\ Connected(sessionMap[f])
         /\ \A g \in Fds : sessionMap'[g] # sessionMap[f]
<1>1. sessionMap[f] \in Sessions /\ sessionMap' = [sessionMap EXCEPT ![f] = NoSession]
  BY DEF IInv, TypeOK, RemoveSession, EraseSession
<1>2. \A g \in Fds : sessionMap[g] = sessionMap[f] => g = f
  BY <1>1, SessionsAssumption DEF IInv, SessionOfSocket
<1> QED BY <1>1, <1>2, SessionsAssumption DEF Connected, IInv, TypeOK

\* Every change of userMap is made in the name of a session that asked to be
\* the user, and the empty identity stays mapped.
THEOREM EntriesAreOwned == Spec => EntriesChangeByOwner
<1> DEFINE Owned == \A u \in Ids : userMap'[u] # userMap[u] =>
             \E s \in Sessions :
               /\ <<s, u>> \in tried
               /\ \/ userMap'[u] = s
                  \/ /\ userMap'[u] = NoSession
                     /\ u # NoUser
                     /\ s \in loggedOut \/ (Connected(s) /\ ~Connected(s)')
<1>1. IInv /\ [Next]_vars => [Owned]_vars
  <2> SUFFICES ASSUME IInv, Next PROVE Owned
    OBVIOUS
  <2>1. CASE userMap' = userMap
    BY <2>1
  <2>2. ASSUME NEW w \in Workers, RegisterUser(w) PROVE Owned
    <3>1. /\ job[w].session \in Sessions /\ job[w].user \in Ids
          /\ <<job[w].session, job[w].user>> \in tried
          /\ userMap' = [userMap EXCEPT ![job[w].user] = job[w].session]
      BY <2>2 DEF IInv, TypeOK, InHand, LoginSteps, RegisterUser, MapUser
    <3>2. \A u \in Ids : userMap'[u] # userMap[u] =>
            u = job[w].user /\ userMap'[u] = job[w].session
      BY <3>1 DEF IInv, TypeOK
    <3> QED BY <3>1, <3>2
  <2>3. ASSUME NEW w \in Workers, RemoveUser(w) PROVE Owned
    <3>1. /\ job[w].session \in Sessions /\ job[w].session \in loggedOut
          /\ job[w].user # NoUser => <<job[w].session, job[w].user>> \in tried
          /\ EraseUser(job[w].user)
      BY <2>3 DEF IInv, TypeOK, InHand, LogoutSteps, RemoveUser
    <3>2. \A u \in Ids : userMap'[u] # userMap[u] =>
            u = job[w].user /\ u # NoUser /\ userMap'[u] = NoSession
      BY <3>1 DEF EraseUser, IInv, TypeOK
    <3> QED BY <3>1, <3>2
  <2>4. ASSUME NEW f \in Fds, RemoveSession(f) PROVE Owned
    <3> DEFINE s == sessionMap[f]
    <3>1. s \in Sessions /\ Connected(s) /\ \A g \in Fds : sessionMap'[g] # s
      BY <2>4, RemovedIsGone
    <3>2. PICK v \in ReadUserId(s, {"authenticate", "clear"}) : EraseUser(v)
      BY <2>4 DEF RemoveSession
    <3> HIDE DEF s
    <3>3. v = NoUser \/ (v \in Ids /\ <<s, v>> \in tried)
      BY <3>1, <3>2, ReadsWereAskedFor
    <3>4. \A u \in Ids : userMap'[u] # userMap[u] =>
            u = v /\ v # NoUser /\ userMap'[u] = NoSession
      BY <3>2, <3>3 DEF EraseUser, IInv, TypeOK
    <3>5. ~(\E g \in Fds : sessionMap'[g] = s)
      BY <3>1
    <3>6. ASSUME NEW u \in Ids, userMap'[u] # userMap[u]
          PROVE  <<s, u>> \in tried /\ userMap'[u] = NoSession /\ u # NoUser
      BY <3>3, <3>4, <3>6
    <3> QED BY <3>1, <3>5, <3>6 DEF Connected
  <2> HIDE DEF Owned
  <2> QED
    BY <2>1, <2>2, <2>3, <2>4 DEF Next, EventLoop, Step, Accept, Close, HandleLogin,
       HandleAdminInit, Login, HandleLogout, Dispatch, Validate, Authenticate, Identify,
       ClearAuth, Reply, SendToUser, maps
<1> QED BY <1>1, Invariance, PTL DEF Spec, EntriesChangeByOwner
=============================================================================
