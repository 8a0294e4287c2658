--------------------------- MODULE SessionsProofs ---------------------------
(***************************************************************************)
(* Proofs about sessions: that the handlers and the cleanup implement the  *)
(* life of a session, however they interleave, fail and crash, that a      *)
(* request is served as the owner of its session, and that only logouts    *)
(* exhaust the pool of connections.                                        *)
(***************************************************************************)
EXTENDS Sessions, FiniteSetTheorems, TLAPS

-----------------------------------------------------------------------------
(* The life of a session.                                                  *)

(* The events tell the session's life. *)
LifeInv == Life!TypeOK /\ Life!EventsTellLife

LEMMA LifeInit == Life!Init => LifeInv
BY DEF LifeInv, Life!Init, Life!NoEvents, Life!TypeOK, Life!EventsTellLife

(* What happens to one session. *)
LEMMA SessionStep ==
  ASSUME LifeInv, NEW s \in SessionId,
         (\E u \in User : Life!Open(s, u)) \/ Life!Expire(s) \/ Life!End(s) \/ Life!Record(s)
  PROVE  LifeInv'
<1>1. \A z \in SessionId : z # s => state'[z] = state[z] /\ events'[z] = events[z]
  BY DEF LifeInv, Life!Open, Life!Expire, Life!End, Life!Record, Life!TypeOK
<1>2. ASSUME NEW u \in User, Life!Open(s, u) PROVE LifeInv'
  <2>1. events' = [events EXCEPT ![s] = [events[s] EXCEPT !.created = 1]]
    BY <1>2 DEF LifeInv, Life!Open, Life!TypeOK
  <2>2. [events[s] EXCEPT !.created = 1] \in [created : Nat, loggedOut : Nat]
    BY DEF LifeInv, Life!TypeOK
  <2>3. events'[s].created = 1 /\ events'[s].loggedOut = events[s].loggedOut /\ state'[s] = "live"
    BY <1>2, <2>1, <2>2 DEF LifeInv, Life!Open, Life!TypeOK
  <2>4. events[s].loggedOut = 0
    BY <1>2 DEF LifeInv, Life!Open, Life!EventsTellLife
  <2>5. Life!TypeOK'
    BY <1>2, <2>1, <2>2 DEF LifeInv, Life!Open, Life!TypeOK
  <2> QED
    BY <1>1, <2>3, <2>4, <2>5 DEF LifeInv, Life!EventsTellLife
<1>3. CASE Life!Expire(s) \/ Life!End(s)
  <2>1. events[s].created = 1 /\ events[s].loggedOut = 0
    BY <1>3 DEF LifeInv, Life!Expire, Life!End, Life!EventsTellLife
  <2>2. events' = events /\ state'[s] \in {"expired", "ended"}
    BY <1>3 DEF LifeInv, Life!Expire, Life!End, Life!TypeOK
  <2>3. Life!TypeOK'
    BY <1>3 DEF LifeInv, Life!Expire, Life!End, Life!TypeOK
  <2> QED
    BY <1>1, <2>1, <2>2, <2>3 DEF LifeInv, Life!EventsTellLife
<1>4. CASE Life!Record(s)
  <2>1. events' = [events EXCEPT ![s] = [events[s] EXCEPT !.loggedOut = 1]]
    BY <1>4 DEF LifeInv, Life!Record, Life!TypeOK
  <2>2. [events[s] EXCEPT !.loggedOut = 1] \in [created : Nat, loggedOut : Nat]
    BY DEF LifeInv, Life!TypeOK
  <2>3. events'[s].loggedOut = 1 /\ events'[s].created = events[s].created
        /\ state'[s] = "ended" /\ state[s] = "ended"
    BY <1>4, <2>1, <2>2 DEF LifeInv, Life!Record, Life!TypeOK
  <2>4. Life!TypeOK'
    BY <1>4, <2>1, <2>2 DEF LifeInv, Life!Record, Life!TypeOK
  <2> QED
    BY <1>1, <2>3, <2>4 DEF LifeInv, Life!EventsTellLife
<1> QED
  BY <1>2, <1>3, <1>4

(* A round of the cleanup leaves the events alone, and what it removes had *)
(* not been logged out.                                                    *)
LEMMA RemoveStep ==
  ASSUME LifeInv, NEW S \in SUBSET SessionId, Life!Remove(S)
  PROVE  LifeInv'
<1>1. events' = events
      /\ \A z \in SessionId : state'[z] = IF z \in S THEN "removed" ELSE state[z]
  BY DEF Life!Remove
<1>2. \A z \in S : state[z] = "expired" /\ events[z].created = 1 /\ events[z].loggedOut = 0
  BY DEF LifeInv, Life!Remove, Life!EventsTellLife
<1>3. Life!TypeOK'
  BY DEF LifeInv, Life!Remove, Life!TypeOK
<1> QED
  BY <1>1, <1>2, <1>3 DEF LifeInv, Life!EventsTellLife

LEMMA LifeStep == LifeInv /\ [Life!Next]_(Life!vars) => LifeInv'
<1> SUFFICES ASSUME LifeInv, [Life!Next]_(Life!vars) PROVE LifeInv'
  OBVIOUS
<1>1. ASSUME NEW s \in SessionId,
             (\E u \in User : Life!Open(s, u)) \/ Life!Expire(s) \/ Life!End(s) \/ Life!Record(s)
      PROVE  LifeInv'
  BY <1>1, SessionStep
<1>2. ASSUME NEW S \in SUBSET SessionId, Life!Remove(S) PROVE LifeInv'
  BY <1>2, RemoveStep
<1>3. CASE UNCHANGED Life!vars
  BY <1>3 DEF LifeInv, Life!vars, Life!TypeOK, Life!EventsTellLife
<1> QED
  BY <1>1, <1>2, <1>3 DEF Life!Next

(* One "created" as long as there is or was a session, "logged_out" at most*)
(* once and only of an ended one.                                          *)
THEOREM LifeEventsTell == Life!Spec => []Life!EventsTellLife
<1>1. LifeInv => Life!EventsTellLife
  BY DEF LifeInv
<1> QED
  BY <1>1, LifeInit, LifeStep, PTL DEF Life!Spec

-----------------------------------------------------------------------------
(* The handlers.                                                           *)

PC == {"idle", "check"} \cup LoggingIn \cup LoggingOut \cup Voting \cup Answering

Task == [pc : PC, browser : Browser \cup {NoBrowser}, session : SessionId \cup {NoSession},
         user : User \cup {Anonymous}]

(* A login that has inserted its session and not committed it. *)
Opening == {"createdEvent", "loginCommit"}

(* A handler's session has a row or had one, unless the handler is about to*)
(* commit it; a logout that has deleted the row has yet to record it, or   *)
(* has; and who a request is served as is the owner of its session.        *)
TaskOK(t) ==
  /\ t.pc \in LoggingIn => t.user \in User
  /\ t.pc \in Opening \cup LoggingOut \cup {"goodbye"} => t.session # NoSession
  /\ t.session # NoSession => (state[t.session] = "none" <=> t.pc \in Opening)
  /\ t.pc = "loggedOutEvent" => state[t.session] = "ended" /\ events[t.session].loggedOut = 0
  /\ t.pc \in {"logoutCommit", "goodbye"} =>
       state[t.session] = "ended" /\ events[t.session].loggedOut = 1
  /\ t.pc = "check" => t.user = Anonymous
  /\ t.pc \in {"serve"} \cup Voting /\ t.user # Anonymous =>
       t.session # NoSession /\ owner[t.session] = t.user

(* A session about to be committed is nobody else's, and of the logouts of *)
(* one session one at most gets to record it.                              *)
Apart(t, u) ==
  t.session # NoSession /\ t.session = u.session =>
    /\ t.pc \notin Opening /\ u.pc \notin Opening
    /\ ~(t.pc = "loggedOutEvent" /\ u.pc = "loggedOutEvent")

(* The inductive invariant. *)
IInv ==
  /\ LifeInv
  /\ cookie \in [Browser -> SessionId \cup {NoSession}]
  /\ task \in [Request -> Task]
  /\ \A b \in Browser : cookie[b] # NoSession => state[cookie[b]] # "none"
  /\ \A r \in Request : TaskOK(task[r])
  /\ \A q, r \in Request : q # r => Apart(task[q], task[r])

-----------------------------------------------------------------------------
(* Steps of one handler that leave the tables alone.                       *)

LEMMA Blank ==
  /\ Idle \in Task /\ TaskOK(Idle) /\ Idle.session = NoSession /\ Idle.pc = "idle"
  /\ \A t : Apart(Idle, t) /\ Apart(t, Idle)
BY DEF Idle, Task, PC, TaskOK, Apart, LoggingIn, LoginTx, LoggingOut, LogoutTx, Voting, VoteTx,
       Answering, Opening

(* The handlers' states, told apart.                                       *)
LEMMA States ==
  /\ Opening \subseteq LoggingIn /\ LoggingIn \subseteq PC /\ LoggingOut \subseteq PC
  /\ Voting \subseteq PC /\ Answering \subseteq PC
  /\ LoggingIn \cap (LoggingOut \cup Voting \cup Answering \cup {"check", "idle"}) = {}
  /\ Voting \cap (LoggingOut \cup Answering \cup {"check", "idle"}) = {}
BY DEF PC, LoggingIn, LoginTx, LoggingOut, LogoutTx, Voting, VoteTx, Answering, Opening

LEMMA TaskStep ==
  ASSUME IInv, NEW r \in Request, NEW t \in Task, TaskOK(t), UNCHANGED tables,
         task' = [task EXCEPT ![r] = t],
         \A q \in Request \ {r} : Apart(t, task[q]),
         cookie' \in [Browser -> SessionId \cup {NoSession}],
         \A b \in Browser : cookie'[b] # NoSession => state[cookie'[b]] # "none"
  PROVE  IInv'
<1>1. task' \in [Request -> Task]
  BY DEF IInv
<1>2. task'[r] = t /\ \A q \in Request \ {r} : task'[q] = task[q]
  BY DEF IInv
<1>3. \A q \in Request : TaskOK(task'[q])
  BY <1>2 DEF IInv
<1>4. \A q \in Request : TaskOK(task[q])'
  BY <1>3 DEF TaskOK, tables
<1>5. \A p, q \in Request : p # q => Apart(task'[p], task'[q])
  <2> SUFFICES ASSUME NEW p \in Request, NEW q \in Request, p # q
               PROVE  Apart(task'[p], task'[q])
    OBVIOUS
  <2>1. CASE p = r
    BY <1>2, <2>1
  <2>2. CASE q = r
    <3>1. Apart(t, task[p])
      BY <2>2
    <3> QED
      BY <1>2, <2>2, <3>1 DEF Apart
  <2>3. CASE p # r /\ q # r
    BY <1>2, <2>3 DEF IInv
  <2> QED
    BY <2>1, <2>2, <2>3
<1>6. LifeInv'
  BY DEF IInv, LifeInv, tables, Life!TypeOK, Life!EventsTellLife
<1>7. \A b \in Browser : cookie'[b] # NoSession => state'[cookie'[b]] # "none"
  BY DEF tables
<1>8. \A p, q \in Request : p # q => (Apart(task[p], task[q]))'
  BY <1>5 DEF Apart
<1> QED
  BY <1>1, <1>6, <1>4, <1>7, <1>8 DEF IInv

(* A handler ends, whatever it was doing.                                  *)
LEMMA EndsStep ==
  ASSUME IInv, NEW r \in Request, task' = [task EXCEPT ![r] = Idle], UNCHANGED tables,
         cookie' = cookie
  PROVE  IInv'
BY TaskStep, Blank DEF IInv

(* A handler goes on with what it has.                                     *)
LEMMA GoToStep ==
  ASSUME IInv, NEW r \in Request, NEW p \in PC, GoTo(r, p), UNCHANGED tables, cookie' = cookie,
         TaskOK([task[r] EXCEPT !.pc = p]),
         p \in Opening => task[r].pc \in Opening, p # "loggedOutEvent"
  PROVE  IInv'
<1> DEFINE t == [task[r] EXCEPT !.pc = p]
<1>1. task[r] \in Task
  BY DEF IInv
<1>2. t \in Task /\ t.session = task[r].session /\ t.pc = p
  BY <1>1 DEF Task
<1>3. task' = [task EXCEPT ![r] = t]
  BY DEF GoTo
<1>4. \A q \in Request \ {r} : Apart(t, task[q])
  BY <1>2 DEF IInv, Apart
<1> HIDE DEF t
<1>5. cookie' \in [Browser -> SessionId \cup {NoSession}]
      /\ \A b \in Browser : cookie'[b] # NoSession => state[cookie'[b]] # "none"
  BY DEF IInv
<1> QED
  BY <1>2, <1>3, <1>4, <1>5, TaskStep DEF t

LEMMA ArriveStep ==
  ASSUME IInv, NEW r \in Request, Arrive(r)
  PROVE  IInv'
<1>1. ASSUME NEW b \in Browser, NEW u \in User, Callback(r, b, u) PROVE IInv'
  <2> DEFINE t == [Idle EXCEPT !.browser = b, !.pc = "loginBegin", !.user = u]
  <2>1. /\ t \in Task /\ t.session = NoSession /\ TaskOK(t)
    BY DEF Task, Idle, PC, LoggingIn, LoginTx, TaskOK, LoggingOut, LogoutTx, Voting, VoteTx, Opening
  <2>2. \A q \in Request \ {r} : Apart(t, task[q])
    BY <2>1 DEF Apart
  <2>3. task' = [task EXCEPT ![r] = t] /\ UNCHANGED <<tables, cookie>>
    BY <1>1 DEF Callback
  <2> HIDE DEF t
  <2> QED
    BY <2>1, <2>2, <2>3, TaskStep DEF IInv
<1>2. ASSUME NEW b \in Browser, Logout(r, b) \/ Page(r, b) PROVE IInv'
  <2> DEFINE T(p) == [Idle EXCEPT !.browser = b, !.pc = p, !.session = cookie[b]]
  <2>1. PICK p \in {"lookUp", "check"} :
          /\ task' = [task EXCEPT ![r] = T(p)] /\ UNCHANGED <<tables, cookie>>
          /\ p = "lookUp" => cookie[b] # NoSession
    BY <1>2 DEF Logout, Page
  <2>2. /\ cookie[b] \in SessionId \cup {NoSession}
        /\ cookie[b] # NoSession => state[cookie[b]] # "none"
    BY DEF IInv
  <2>3. T(p) \in Task
    BY <2>2 DEF Task, Idle, PC, LoggingOut
  <2>4. TaskOK(T(p)) /\ T(p).session = cookie[b] /\ T(p).pc = p
    BY <2>1, <2>2 DEF Idle, TaskOK, LoggingIn, LoginTx, LoggingOut, LogoutTx, Voting, VoteTx,
       Opening
  <2>5. ASSUME NEW q \in Request \ {r} PROVE Apart(T(p), task[q])
    <3> HIDE DEF T
    <3>1. TaskOK(task[q])
      BY DEF IInv
    <3> QED
      BY <2>2, <2>4, <3>1 DEF Apart, TaskOK, Opening
  <2> HIDE DEF T
  <2> QED
    BY <2>1, <2>3, <2>4, <2>5, TaskStep DEF IInv
<1> QED
  BY <1>1, <1>2 DEF Arrive

LEMMA LoginSteps ==
  ASSUME IInv, NEW r \in Request,
         BeginLogin(r) \/ UpsertUser(r) \/ GetUserInfo(r) \/ InsertCreatedEvent(r)
  PROVE  IInv'
<1>1. task[r] \in Task /\ TaskOK(task[r])
  BY DEF IInv
<1>2. ASSUME NEW p \in LoggingIn, GoTo(r, p), task[r].pc \in LoggingIn,
             p \in Opening <=> task[r].pc \in Opening, UNCHANGED <<tables, cookie>>
      PROVE  IInv'
  <2>1. TaskOK([task[r] EXCEPT !.pc = p])
    BY <1>1, <1>2 DEF TaskOK, Task, LoggingIn, LoginTx, LoggingOut, LogoutTx, Voting, VoteTx,
       Opening
  <2>2. p # "loggedOutEvent" /\ p \in PC
    BY <1>2 DEF PC, LoggingIn, LoginTx
  <2> QED
    BY <1>2, <2>1, <2>2, GoToStep
<1> QED
  BY <1>2 DEF BeginLogin, UpsertUser, GetUserInfo, InsertCreatedEvent, LoggingIn, LoginTx, Opening

LEMMA InsertSessionStep ==
  ASSUME IInv, NEW r \in Request, InsertSession(r)
  PROVE  IInv'
<1>1. PICK s \in SessionId :
        /\ state[s] = "none" /\ \A q \in Request : task[q].session # s
        /\ task' = [task EXCEPT ![r].pc = "createdEvent", ![r].session = s]
  BY DEF InsertSession
<1> DEFINE t == [task[r] EXCEPT !.pc = "createdEvent", !.session = s]
<1>2. task[r] \in Task /\ TaskOK(task[r]) /\ task[r].pc = "insertSession" /\ s # NoSession
  BY SessionsAssumption DEF IInv, InsertSession, SessionsAssumption
<1>3. t \in Task /\ t.session = s /\ t.pc = "createdEvent" /\ t.user = task[r].user
  BY <1>2 DEF Task, PC, LoggingIn, LoginTx
<1>4. task' = [task EXCEPT ![r] = t]
  BY <1>1, <1>2 DEF IInv
<1> HIDE DEF t
<1>5. TaskOK(t)
  BY <1>1, <1>2, <1>3 DEF TaskOK, LoggingIn, LoginTx, Opening, Voting, VoteTx, LoggingOut
<1>6. \A q \in Request \ {r} : Apart(t, task[q])
  BY <1>1, <1>3 DEF Apart
<1> QED
  BY <1>3, <1>4, <1>5, <1>6, TaskStep DEF InsertSession, IInv

LEMMA WelcomeStep ==
  ASSUME IInv, NEW r \in Request, Welcome(r) \/ Goodbye(r)
  PROVE  IInv'
<1> DEFINE c == IF Welcome(r) THEN task[r].session ELSE NoSession
<1>1. /\ cookie' = [cookie EXCEPT ![task[r].browser] = c]
      /\ task' = [task EXCEPT ![r] = Idle] /\ UNCHANGED tables
  BY DEF Welcome, Goodbye
<1>2. c \in SessionId \cup {NoSession} /\ (c # NoSession => state[c] # "none")
  <2>1. task[r] \in Task /\ TaskOK(task[r])
    BY DEF IInv
  <2> QED
    BY <2>1 DEF Welcome, TaskOK, Task, Opening
<1> HIDE DEF c
<1>3. /\ cookie' \in [Browser -> SessionId \cup {NoSession}]
      /\ \A b \in Browser : cookie'[b] # NoSession => state[cookie'[b]] # "none"
  BY <1>1, <1>2 DEF IInv
<1> QED
  BY <1>1, <1>3, Blank, TaskStep

LEMMA LogoutSteps ==
  ASSUME IInv, NEW r \in Request, LookUp(r) \/ BeginLogout(r) \/ FindUser(r) \/ CommitLogout(r)
  PROVE  IInv'
<1>1. task[r] \in Task /\ TaskOK(task[r])
  BY DEF IInv
<1>2. ASSUME NEW p \in {"logoutBegin", "findUser", "deleteSession", "goodbye"}, GoTo(r, p),
             task[r].pc \in LoggingOut, p = "goodbye" => task[r].pc = "logoutCommit",
             UNCHANGED <<tables, cookie>>
      PROVE  IInv'
  <2>1. TaskOK([task[r] EXCEPT !.pc = p])
    BY <1>1, <1>2 DEF TaskOK, Task, LoggingIn, LoginTx, LoggingOut, LogoutTx, Voting, VoteTx,
       Opening
  <2>2. p # "loggedOutEvent" /\ p \in PC /\ p \notin Opening
    BY <1>2 DEF PC, LoggingOut, LogoutTx, Answering, Opening
  <2> QED
    BY <1>2, <2>1, <2>2, GoToStep
<1>3. CASE LookUp(r)
  <2>1. CASE state[task[r].session] = "live"
    <3>1. GoTo(r, "logoutBegin")
      BY <1>3, <2>1 DEF LookUp, GoTo
    <3> QED
      BY <1>2, <1>3, <3>1 DEF LookUp, LoggingOut
  <2>2. CASE state[task[r].session] # "live"
    BY <1>3, <2>2, EndsStep DEF LookUp
  <2> QED
    BY <2>1, <2>2
<1> QED
  BY <1>2, <1>3 DEF BeginLogout, FindUser, CommitLogout, LoggingOut, LogoutTx

LEMMA PageSteps ==
  ASSUME IInv, NEW r \in Request,
         CheckSession(r) \/ CheckFindsNothing(r) \/ NoCookie(r) \/ CastVote(r)
         \/ BeginVote(r) \/ InsertVote(r)
  PROVE  IInv'
<1>1. task[r] \in Task /\ TaskOK(task[r])
  BY DEF IInv
<1>2. ASSUME NEW t \in Task, task' = [task EXCEPT ![r] = t], TaskOK(t),
             UNCHANGED <<tables, cookie>>, t.session = task[r].session \/ t.session = NoSession,
             t.pc \in {"serve"} \cup Voting
      PROVE  IInv'
  <2>1. \A q \in Request \ {r} : Apart(t, task[q])
    BY <1>2 DEF IInv, Apart, Opening, Voting, VoteTx
  <2> QED
    BY <1>2, <2>1, TaskStep DEF IInv
<1>3. CASE CheckSession(r)
  <2> DEFINE t == [task[r] EXCEPT !.pc = "serve", !.user = owner[task[r].session]]
  <2>1. task[r].session \in SessionId /\ owner[task[r].session] \in User \cup {Anonymous}
    BY <1>1, <1>3 DEF CheckSession, Task, IInv, LifeInv, Life!TypeOK
  <2>2. t \in Task /\ TaskOK(t) /\ t.session = task[r].session /\ t.pc = "serve"
    BY <1>1, <1>3, <2>1 DEF CheckSession, Task, PC, Answering, TaskOK, LoggingIn, LoginTx,
       LoggingOut, LogoutTx, Voting, VoteTx, Opening
  <2>3. task' = [task EXCEPT ![r] = t]
    BY <1>3 DEF CheckSession, IInv
  <2> QED
    BY <1>2, <1>3, <2>2, <2>3 DEF CheckSession
<1>4. CASE CheckFindsNothing(r)
  <2> DEFINE t == [task[r] EXCEPT !.pc = "serve", !.session = NoSession]
  <2>1. t \in Task /\ TaskOK(t) /\ t.session = NoSession /\ t.pc = "serve"
    BY <1>1, <1>4 DEF CheckFindsNothing, Task, PC, Answering, TaskOK, LoggingIn, LoginTx,
       LoggingOut, LogoutTx, Voting, VoteTx, Opening
  <2>2. task' = [task EXCEPT ![r] = t]
    BY <1>4 DEF CheckFindsNothing, IInv
  <2> QED
    BY <1>2, <1>4, <2>1, <2>2 DEF CheckFindsNothing
<1>5. CASE CastVote(r)
  <2> DEFINE t == [task[r] EXCEPT !.pc = "voteBegin", !.browser = NoBrowser]
  <2>1. t \in Task /\ TaskOK(t) /\ t.session = task[r].session /\ t.pc = "voteBegin"
    BY <1>1, <1>5 DEF CastVote, Task, PC, Answering, TaskOK, LoggingIn, LoginTx, LoggingOut,
       LogoutTx, Voting, VoteTx, Opening
  <2>2. task' = [task EXCEPT ![r] = t]
    BY <1>5 DEF CastVote, IInv
  <2> QED
    BY <1>2, <1>5, <2>1, <2>2 DEF CastVote, Voting
<1>6. CASE NoCookie(r) \/ BeginVote(r) \/ InsertVote(r)
  <2>1. PICK p \in {"serve"} \cup VoteTx :
          /\ GoTo(r, p) /\ UNCHANGED <<tables, cookie>>
          /\ task[r].pc \in Voting \/ (task[r].pc = "check" /\ p = "serve")
    BY <1>6 DEF NoCookie, BeginVote, InsertVote, Voting, VoteTx
  <2> DEFINE t == [task[r] EXCEPT !.pc = p]
  <2>3. t \in Task /\ TaskOK(t) /\ t.session = task[r].session /\ t.pc = p
    BY <1>1, <2>1 DEF Task, PC, Answering, TaskOK, LoggingIn, LoginTx, LoggingOut,
       LogoutTx, Voting, VoteTx, Opening
  <2>2. task' = [task EXCEPT ![r] = t]
    BY <2>1 DEF GoTo, IInv
  <2> QED
    BY <1>2, <2>1, <2>2, <2>3 DEF Voting
<1> QED
  BY <1>3, <1>4, <1>5, <1>6

(* What ends a handler: its answer, a failure, nothing to do.              *)
LEMMA HandlerEnds ==
  ASSUME IInv, NEW r \in Request,
         \/ Failure(r) /\ ~CommitLoginUnheard(r)
         \/ SessionNotFound(r) \/ Serve(r) \/ CommitVote(r)
  PROVE  IInv'
BY EndsStep DEF Failure, LoginFails, LogoutFails, AnswerLost, VoteFails, SessionNotFound, Serve,
   CommitVote

-----------------------------------------------------------------------------
(* Steps that change the tables, each a step of the life of a session.     *)

LEMMA CommitOpens ==
  ASSUME IInv, NEW r \in Request, task[r].pc = "loginCommit",
         PublishSession(task[r].session, task[r].user)
  PROVE  task[r].session \in SessionId /\ Life!Open(task[r].session, task[r].user) /\ Life!Next
<1>1. task[r] \in Task /\ TaskOK(task[r])
  BY DEF IInv
<1>2. /\ task[r].session \in SessionId /\ task[r].user \in User
      /\ state[task[r].session] = "none"
  BY <1>1 DEF Task, TaskOK, LoggingIn, LoginTx, Opening
<1>3. events[task[r].session].created = 0
  BY <1>2 DEF IInv, LifeInv, Life!EventsTellLife
<1>4. Life!Open(task[r].session, task[r].user)
  BY <1>2, <1>3 DEF PublishSession, Life!Open
<1> QED
  BY <1>2, <1>4 DEF Life!Next

LEMMA DeleteEnds ==
  ASSUME IInv, NEW r \in Request, DeleteSession(r)
  PROVE  task[r].session \in SessionId /\ Life!End(task[r].session) /\ Life!Next
<1>1. task[r].session \in SessionId
  BY DEF DeleteSession, IInv, Task, TaskOK, LoggingOut, LogoutTx
<1>2. Life!End(task[r].session)
  BY DEF DeleteSession, Life!End
<1> QED
  BY <1>1, <1>2 DEF Life!Next

LEMMA EventRecords ==
  ASSUME IInv, NEW r \in Request, InsertLoggedOutEvent(r)
  PROVE  task[r].session \in SessionId /\ Life!Record(task[r].session) /\ Life!Next
<1>1. /\ task[r].session \in SessionId /\ state[task[r].session] = "ended"
      /\ events[task[r].session].loggedOut = 0
  BY DEF InsertLoggedOutEvent, IInv, Task, TaskOK, LoggingOut, LogoutTx
<1>2. Life!Record(task[r].session)
  BY <1>1 DEF InsertLoggedOutEvent, Life!Record
<1> QED
  BY <1>1, <1>2 DEF Life!Next

LEMMA CleanupRemoves ==
  ASSUME CleanupRound
  PROVE  \E S \in SUBSET SessionId : Life!Remove(S)
BY DEF CleanupRound, RemoveSessions, Expired, Life!Remove

(* Every other step leaves the tables alone.                               *)
LEMMA TablesStay ==
  ASSUME [Next]_vars,
         ~\E r \in Request : CommitLogin(r) \/ CommitLoginUnheard(r) \/ DeleteSession(r)
                             \/ InsertLoggedOutEvent(r),
         ~\E s \in SessionId : Expire(s), ~CleanupRound
  PROVE  UNCHANGED tables
<1>1. ASSUME NEW r \in Request, Arrive(r) PROVE UNCHANGED tables
  BY <1>1 DEF Arrive, Callback, Logout, Page
<1>2. ASSUME NEW r \in Request, Step(r) PROVE UNCHANGED tables
  BY <1>2 DEF Step, LoginStep, LogoutStep, PageStep, VoteStep, BeginLogin, UpsertUser, GetUserInfo,
     InsertSession, InsertCreatedEvent, Welcome, LookUp, BeginLogout, FindUser, SessionNotFound,
     CommitLogout, Goodbye, CheckSession, CheckFindsNothing, NoCookie, Serve, BeginVote, InsertVote,
     CommitVote
<1>3. ASSUME NEW r \in Request, CastVote(r) \/ Failure(r) PROVE UNCHANGED tables
  BY <1>3 DEF CastVote, Failure, LoginFails, LogoutFails, AnswerLost, VoteFails
<1>4. CASE Tick \/ CleanupDone \/ CleanupFails \/ Crash
  BY <1>4 DEF Tick, CleanupDone, CleanupFails, Crash
<1>5. CASE UNCHANGED vars
  BY <1>5 DEF vars
<1> QED
  BY <1>1, <1>2, <1>3, <1>4, <1>5 DEF Next

LEMMA LifeNext == IInv /\ [Next]_vars => [Life!Next]_(Life!vars)
<1> SUFFICES ASSUME IInv, [Next]_vars PROVE Life!Next \/ UNCHANGED tables
  BY DEF tables, Life!vars
<1>1. ASSUME NEW r \in Request,
             CommitLogin(r) \/ CommitLoginUnheard(r) \/ DeleteSession(r) \/ InsertLoggedOutEvent(r)
      PROVE  Life!Next
  BY <1>1, CommitOpens, DeleteEnds, EventRecords DEF CommitLogin, CommitLoginUnheard
<1>2. ASSUME NEW s \in SessionId, Expire(s) PROVE Life!Next
  BY <1>2 DEF Expire, Life!Expire, Life!Next
<1>3. CASE CleanupRound
  BY <1>3, CleanupRemoves DEF Life!Next
<1> QED
  BY <1>1, <1>2, <1>3, TablesStay

(* What a step of the life of session s needs to leave alone for a handler *)
(* that does not take it.                                                  *)
LEMMA KeptTask ==
  ASSUME NEW q \in Request, task[q] \in Task, TaskOK(task[q]), task'[q] = task[q],
         LET s == task[q].session
         IN  s # NoSession => /\ (state'[s] = "none" <=> state[s] = "none")
                              /\ state[s] = "ended" => state'[s] = "ended"
                              /\ owner'[s] = owner[s]
                              /\ \/ events'[s].loggedOut = events[s].loggedOut
                                 \/ task[q].pc \notin {"loggedOutEvent", "logoutCommit", "goodbye"}
  PROVE  TaskOK(task[q])'
<1> DEFINE s == task[q].session
<1>1. CASE s = NoSession
  <2>1. task[q].pc \notin {"loggedOutEvent", "logoutCommit", "goodbye"}
    BY <1>1 DEF TaskOK, LoggingOut, LogoutTx
  <2> QED
    BY <1>1, <2>1 DEF TaskOK
<1>2. CASE s # NoSession
  <2>1. /\ state'[s] = "none" <=> state[s] = "none"
        /\ state[s] = "ended" => state'[s] = "ended"
        /\ owner'[s] = owner[s]
        /\ \/ events'[s].loggedOut = events[s].loggedOut
           \/ task[q].pc \notin {"loggedOutEvent", "logoutCommit", "goodbye"}
    BY <1>2
  <2> QED
    BY <2>1 DEF TaskOK
<1> QED
  BY <1>1, <1>2

(* Sessions once opened stay so, and so cookies stay those of sessions.    *)
LEMMA OpenedStays ==
  ASSUME IInv, [Life!Next]_(Life!vars)
  PROVE  \A s \in SessionId : state[s] # "none" =>
           /\ state'[s] # "none" /\ owner'[s] = owner[s]
           /\ state[s] = "ended" => state'[s] = "ended"
<1>0. Life!TypeOK
  BY DEF IInv, LifeInv
<1>1. ASSUME NEW z \in SessionId,
             (\E u \in User : Life!Open(z, u)) \/ Life!Expire(z) \/ Life!End(z) \/ Life!Record(z)
      PROVE  \A s \in SessionId : state[s] # "none" =>
               /\ state'[s] # "none" /\ owner'[s] = owner[s]
               /\ state[s] = "ended" => state'[s] = "ended"
  BY <1>0, <1>1 DEF Life!Open, Life!Expire, Life!End, Life!Record, Life!TypeOK
<1>2. ASSUME NEW S \in SUBSET SessionId, Life!Remove(S)
      PROVE  \A s \in SessionId : state[s] # "none" =>
               /\ state'[s] # "none" /\ owner'[s] = owner[s]
               /\ state[s] = "ended" => state'[s] = "ended"
  BY <1>0, <1>2 DEF Life!Remove
<1> QED
  BY <1>1, <1>2 DEF Life!Next, Life!vars

LEMMA TableStep ==
  ASSUME IInv, [Life!Next]_(Life!vars), cookie' = cookie, task' \in [Request -> Task],
         \A q \in Request : TaskOK(task[q])',
         \A p, q \in Request : p # q => Apart(task'[p], task'[q])
  PROVE  IInv'
<1>1. LifeInv'
  BY LifeStep DEF IInv
<1>2. (\A b \in Browser : cookie[b] # NoSession => state[cookie[b]] # "none")'
  <2> SUFFICES ASSUME NEW b \in Browser, cookie[b] # NoSession PROVE state'[cookie[b]] # "none"
    OBVIOUS
  <2>1. cookie[b] \in SessionId /\ state[cookie[b]] # "none"
    BY DEF IInv
  <2> QED
    BY <2>1, OpenedStays
<1>3. (\A p, q \in Request : p # q => Apart(task[p], task[q]))'
  BY DEF Apart
<1> QED
  BY <1>1, <1>2, <1>3 DEF IInv

(* The handler that takes the step, and the others.                        *)
LEMMA OneHandler ==
  ASSUME IInv, [Life!Next]_(Life!vars), cookie' = cookie, NEW r \in Request,
         task'[r] \in Task, task' = [task EXCEPT ![r] = task'[r]], TaskOK(task[r])',
         \A q \in Request \ {r} : task'[q] = task[q] => TaskOK(task[q])',
         \A q \in Request \ {r} : Apart(task'[r], task[q])
  PROVE  IInv'
<1>1. task' \in [Request -> Task] /\ \A q \in Request \ {r} : task'[q] = task[q]
  BY DEF IInv
<1>2. \A q \in Request : TaskOK(task[q])'
  BY <1>1
<1>3. ASSUME NEW p \in Request, NEW q \in Request, p # q PROVE Apart(task'[p], task'[q])
  <2>1. CASE p = r
    BY <1>1, <1>3, <2>1
  <2>2. CASE q = r
    <3>1. Apart(task'[r], task[p])
      BY <1>3, <2>2
    <3> QED
      BY <1>1, <1>3, <2>2, <3>1 DEF Apart
  <2>3. CASE p # r /\ q # r
    BY <1>1, <1>3, <2>3 DEF IInv
  <2> QED
    BY <2>1, <2>2, <2>3
<1> QED
  BY <1>1, <1>2, <1>3, TableStep

LEMMA CommitLoginStep ==
  ASSUME IInv, NEW r \in Request, CommitLogin(r) \/ CommitLoginUnheard(r)
  PROVE  IInv'
<1> DEFINE s == task[r].session
<1>1. task[r].pc = "loginCommit" /\ PublishSession(s, task[r].user) /\ cookie' = cookie
  BY DEF CommitLogin, CommitLoginUnheard
<1>2. s \in SessionId /\ Life!Open(s, task[r].user) /\ Life!Next
  BY <1>1, CommitOpens
<1>3. task[r] \in Task /\ TaskOK(task[r]) /\ Life!TypeOK /\ s # NoSession
  BY <1>2, SessionsAssumption DEF IInv, LifeInv, SessionsAssumption
<1>4. \A q \in Request \ {r} : task[q].session # s
  BY <1>1, <1>3 DEF IInv, Apart, Opening
<1>5. state'[s] = "live" /\ \A z \in SessionId \ {s} :
        state'[z] = state[z] /\ owner'[z] = owner[z] /\ events'[z] = events[z]
  BY <1>2, <1>3 DEF Life!Open, Life!TypeOK
<1>6. ASSUME NEW q \in Request \ {r}, task'[q] = task[q] PROVE TaskOK(task[q])'
  <2>1. task[q] \in Task /\ TaskOK(task[q])
    BY DEF IInv
  <2>2. task[q].session # NoSession => task[q].session \in SessionId \ {s}
    BY <1>4, <2>1 DEF Task
  <2> QED
    BY <1>5, <1>6, <2>1, <2>2, KeptTask
<1>7. task'[r] \in Task /\ task' = [task EXCEPT ![r] = task'[r]] /\ TaskOK(task[r])'
  <2>1. CASE task' = [task EXCEPT ![r] = Idle]
    <3>1. task'[r] = Idle
      BY <2>1 DEF IInv
    <3> QED
      BY <2>1, <3>1, Blank DEF TaskOK
  <2>2. CASE GoTo(r, "welcome")
    <3>1. task'[r] = [task[r] EXCEPT !.pc = "welcome"]
      BY <2>2 DEF GoTo, IInv
    <3>2. task'[r] \in Task /\ task'[r].pc = "welcome" /\ task'[r].session = s
      BY <1>3, <3>1 DEF Task, PC, Answering
    <3>3. TaskOK(task[r])'
      BY <1>5, <3>2 DEF TaskOK, LoggingIn, LoginTx, LoggingOut, LogoutTx, Voting, VoteTx, Opening
    <3> QED
      BY <2>2, <3>1, <3>2, <3>3 DEF GoTo
  <2> QED
    BY <2>1, <2>2 DEF CommitLogin, CommitLoginUnheard
<1>8. \A q \in Request \ {r} : Apart(task'[r], task[q])
  <2>1. task'[r].session \in {s, NoSession}
    BY <1>3 DEF CommitLogin, CommitLoginUnheard, GoTo, IInv, Idle, Task
  <2> QED
    BY <1>4, <2>1 DEF Apart
<1> QED
  BY <1>1, <1>2, <1>6, <1>7, <1>8, OneHandler

LEMMA DeleteSessionStep ==
  ASSUME IInv, NEW r \in Request, DeleteSession(r)
  PROVE  IInv'
<1> DEFINE s == task[r].session
<1>1. s \in SessionId /\ Life!End(s) /\ Life!Next /\ cookie' = cookie
  BY DeleteEnds DEF DeleteSession
<1>2. task[r] \in Task /\ TaskOK(task[r]) /\ Life!TypeOK /\ s # NoSession
  BY <1>1, SessionsAssumption DEF IInv, LifeInv, SessionsAssumption
<1>3. state'[s] = "ended" /\ \A z \in SessionId \ {s} : state'[z] = state[z]
  BY <1>1, <1>2 DEF Life!End, Life!TypeOK
<1>4. /\ state[s] \in {"live", "expired"} /\ events[s].loggedOut = 0
      /\ owner' = owner /\ events' = events
  BY <1>1 DEF Life!End, IInv, LifeInv, Life!EventsTellLife
<1>5. ASSUME NEW q \in Request \ {r}, task'[q] = task[q] PROVE TaskOK(task[q])'
  <2>1. task[q] \in Task /\ TaskOK(task[q])
    BY DEF IInv
  <2>2. task[q].session # NoSession => task[q].session \in SessionId
    BY <2>1 DEF Task
  <2> QED
    BY <1>3, <1>4, <1>5, <2>1, <2>2, KeptTask
<1>6. task' = [task EXCEPT ![r] = [task[r] EXCEPT !.pc = "loggedOutEvent"]]
  BY DEF DeleteSession, GoTo
<1>7. /\ task'[r] \in Task /\ task' = [task EXCEPT ![r] = task'[r]]
      /\ task'[r].pc = "loggedOutEvent" /\ task'[r].session = s
  BY <1>2, <1>6 DEF IInv, Task, PC, LoggingOut, LogoutTx
<1>8. TaskOK(task[r])'
  BY <1>2, <1>3, <1>4, <1>7 DEF TaskOK, LoggingIn, LoginTx, Voting, VoteTx, Opening
<1>9. ASSUME NEW q \in Request \ {r} PROVE Apart(task'[r], task[q])
  <2>1. TaskOK(task[q])
    BY DEF IInv
  <2> QED
    BY <1>4, <1>7, <2>1 DEF Apart, TaskOK, Opening
<1> QED
  BY <1>1, <1>5, <1>7, <1>8, <1>9, OneHandler

LEMMA LoggedOutEventStep ==
  ASSUME IInv, NEW r \in Request, InsertLoggedOutEvent(r)
  PROVE  IInv'
<1> DEFINE s == task[r].session
<1>1. s \in SessionId /\ Life!Record(s) /\ Life!Next /\ cookie' = cookie
      /\ task[r].pc = "loggedOutEvent"
  BY EventRecords DEF InsertLoggedOutEvent
<1>2. task[r] \in Task /\ TaskOK(task[r]) /\ Life!TypeOK /\ s # NoSession
  BY <1>1, SessionsAssumption DEF IInv, LifeInv, SessionsAssumption
<1>3. /\ state[s] = "ended" /\ events[s].loggedOut = 0 /\ owner' = owner /\ state' = state
      /\ events'[s].loggedOut = 1 /\ \A z \in SessionId \ {s} : events'[z] = events[z]
  BY <1>1, <1>2 DEF Life!Record, Life!TypeOK
<1>4. ASSUME NEW q \in Request \ {r} PROVE Apart(task[r], task[q])
  BY DEF IInv
<1>5. ASSUME NEW q \in Request \ {r}, task'[q] = task[q] PROVE TaskOK(task[q])'
  <2>1. task[q] \in Task /\ TaskOK(task[q])
    BY DEF IInv
  <2>2. task[q].session # NoSession => task[q].session \in SessionId
    BY <2>1 DEF Task
  <2>3. task[q].session = s => task[q].pc \notin {"loggedOutEvent", "logoutCommit", "goodbye"}
    BY <1>1, <1>2, <1>3, <1>4, <2>1 DEF Apart, TaskOK
  <2> QED
    BY <1>3, <1>5, <2>1, <2>2, <2>3, KeptTask
<1>6. task' = [task EXCEPT ![r] = [task[r] EXCEPT !.pc = "logoutCommit"]]
  BY DEF InsertLoggedOutEvent, GoTo
<1>7. /\ task'[r] \in Task /\ task' = [task EXCEPT ![r] = task'[r]]
      /\ task'[r].pc = "logoutCommit" /\ task'[r].session = s
  BY <1>2, <1>6 DEF IInv, Task, PC, LoggingOut, LogoutTx
<1>8. TaskOK(task[r])'
  BY <1>2, <1>3, <1>7 DEF TaskOK, LoggingIn, LoginTx, Voting, VoteTx, Opening
<1>9. \A q \in Request \ {r} : Apart(task'[r], task[q])
  BY <1>4, <1>7 DEF Apart, Opening
<1> QED
  BY <1>1, <1>5, <1>7, <1>8, <1>9, OneHandler

(* A session expires, or expired ones are removed. *)
LEMMA TimeStep ==
  ASSUME IInv, (\E s \in SessionId : Expire(s)) \/ CleanupRound
  PROVE  IInv'
<1>1. Life!Next
  BY CleanupRemoves DEF Expire, Life!Expire, Life!Next
<1>2. /\ \A z \in SessionId :
           \/ state'[z] = state[z]
           \/ state[z] \in {"live", "expired"} /\ state'[z] \in {"expired", "removed"}
      /\ owner' = owner /\ events' = events /\ cookie' = cookie /\ task' = task
  BY DEF Expire, CleanupRound, RemoveSessions, Expired, IInv, LifeInv, Life!TypeOK
<1>3. ASSUME NEW q \in Request PROVE TaskOK(task[q])'
  <2>1. task[q] \in Task /\ TaskOK(task[q]) /\ task'[q] = task[q]
    BY <1>2 DEF IInv
  <2>2. task[q].session # NoSession => task[q].session \in SessionId
    BY <2>1 DEF Task
  <2> QED
    BY <1>2, <2>1, <2>2, KeptTask
<1>4. task' \in [Request -> Task] /\ \A p, q \in Request : p # q => Apart(task'[p], task'[q])
  BY <1>2 DEF IInv
<1> QED
  BY <1>1, <1>2, <1>3, <1>4, TableStep

(* The job, a crash, and steps in which nothing of this changes.           *)
LEMMA QuietStep ==
  ASSUME IInv, Tick \/ CleanupDone \/ CleanupFails \/ Crash \/ UNCHANGED vars
  PROVE  IInv'
<1>1. UNCHANGED tables /\ cookie' = cookie
  BY DEF Tick, CleanupDone, CleanupFails, Crash, vars
<1>2. task' = task \/ task' = [r \in Request |-> Idle]
  BY DEF Tick, CleanupDone, CleanupFails, Crash, vars
<1>3. task' \in [Request -> Task]
  BY <1>2, Blank DEF IInv
<1>4. ASSUME NEW q \in Request PROVE TaskOK(task[q])'
  <2>1. TaskOK(task'[q])
    BY <1>2, Blank DEF IInv
  <2> QED
    BY <1>1, <2>1 DEF TaskOK, tables
<1>5. \A p, q \in Request : p # q => Apart(task'[p], task'[q])
  BY <1>2, Blank DEF IInv
<1>6. [Life!Next]_(Life!vars)
  BY <1>1 DEF tables, Life!vars
<1> QED
  BY <1>1, <1>3, <1>4, <1>5, <1>6, TableStep

LEMMA SessionsInv == IInv /\ [Next]_vars => IInv'
<1> SUFFICES ASSUME IInv, [Next]_vars PROVE IInv'
  OBVIOUS
<1>1. ASSUME NEW r \in Request, Step(r) PROVE IInv'
  BY <1>1, LoginSteps, InsertSessionStep, CommitLoginStep, WelcomeStep, LogoutSteps,
     DeleteSessionStep, LoggedOutEventStep, PageSteps, HandlerEnds
     DEF Step, LoginStep, LogoutStep, PageStep, VoteStep
<1>2. ASSUME NEW r \in Request, Arrive(r) \/ CastVote(r) \/ Failure(r) PROVE IInv'
  BY <1>2, ArriveStep, PageSteps, HandlerEnds, CommitLoginStep
<1>3. CASE (\E s \in SessionId : Expire(s)) \/ CleanupRound
  BY <1>3, TimeStep
<1>4. CASE Tick \/ CleanupDone \/ CleanupFails \/ Crash \/ UNCHANGED vars
  BY <1>4, QuietStep
<1> QED
  BY <1>1, <1>2, <1>3, <1>4 DEF Next

LEMMA SessionsInit == Init => IInv
<1> SUFFICES ASSUME Init PROVE IInv
  OBVIOUS
<1>1. LifeInv
  BY LifeInit DEF Init
<1>2. task \in [Request -> Task] /\ \A r \in Request : task[r] = Idle
  BY Blank DEF Init
<1>3. \A r \in Request : TaskOK(task[r])
  BY <1>2, Blank
<1>4. \A q, r \in Request : q # r => Apart(task[q], task[r])
  BY <1>2, Blank
<1> QED
  BY <1>1, <1>2, <1>3, <1>4 DEF Init, IInv

LEMMA SessionsInvariant == Spec => []IInv
BY SessionsInit, SessionsInv, PTL DEF Spec

-----------------------------------------------------------------------------
(* What follows.                                                           *)

(* A logout that is answered with the redirect has ended its session, or   *)
(* another has, and the logout is in session_events exactly once.          *)
THEOREM SessionsGoodbyeMeansGone == Spec => []GoodbyeMeansGone
<1>1. IInv => GoodbyeMeansGone
  BY DEF IInv, TaskOK, GoodbyeMeansGone
<1> QED
  BY <1>1, SessionsInvariant, PTL

(* Whatever has become of the session meanwhile, a request and the vote it *)
(* leaves behind are those of the owner of the session the browser had.    *)
THEOREM SessionsVotesOfOwner == Spec => []VotesOfOwner
<1>1. IInv => VotesOfOwner
  <2> SUFFICES ASSUME IInv, NEW r \in Request, task[r].pc \in {"serve"} \cup Voting,
                      task[r].user # Anonymous
               PROVE  state[task[r].session] # "none" /\ owner[task[r].session] = task[r].user
    BY DEF VotesOfOwner
  <2>1. TaskOK(task[r]) /\ task[r].pc \notin Opening
    BY DEF IInv, Voting, VoteTx, Opening
  <2> QED
    BY <2>1 DEF TaskOK
<1> QED
  BY <1>1, SessionsInvariant, PTL

(* The handlers and the cleanup implement the life of a session: it appears*)
(* with its event, ends once, and is recorded as logged out at most once.  *)
THEOREM SessionsImplementSessionLife == Spec => ImplementsSessionLife
<1>1. Init => Life!Init
  BY DEF Init
<1> QED
  BY <1>1, LifeNext, SessionsInvariant, PTL DEF Spec, Life!Spec, ImplementsSessionLife

(* And so the events of the server tell the lives of its sessions. *)
THEOREM SessionsEventsTellLife == Spec => []Life!EventsTellLife
BY SessionsImplementSessionLife, LifeEventsTell DEF ImplementsSessionLife

-----------------------------------------------------------------------------
(* The pool.                                                               *)

(* Every login in flight still finds an id of its own.                     *)
LogsIn == {q \in Request : task[q].pc \in LoggingIn}

Unused == {s \in SessionId : state[s] = "none"}

Room == Cardinality(LogsIn) <= Cardinality(Unused)

(* What a transaction that has a connection may have to wait for: another  *)
(* connection (logouts), the row of its user (logins and votes), an id.    *)
Waits(r) ==
  \/ task[r].pc \in LogoutTx \ {"logoutCommit"} /\ ~FreeConnection
  \/ /\ task[r].pc = "upsert"
     /\ \E q \in Request : HoldsUserRow(q, task[r].user) \/ SharesUserRow(q, task[r].user)
  \/ /\ task[r].pc = "insertVote" /\ task[r].user # Anonymous
     /\ \E q \in Request : HoldsUserRow(q, task[r].user)
  \/ task[r].pc = "insertSession" /\ \A s \in Unused : \E q \in Request : task[q].session = s

LEMMA RoomFrame ==
  ASSUME Room, LogsIn' \subseteq LogsIn, Unused \subseteq Unused'
  PROVE  Room'
<1>1. IsFiniteSet(LogsIn) /\ IsFiniteSet(Unused') /\ IsFiniteSet(LogsIn') /\ IsFiniteSet(Unused)
  BY SessionsAssumption, FS_Subset DEF SessionsAssumption, LogsIn, Unused
<1>2. /\ Cardinality(LogsIn') <= Cardinality(LogsIn)
      /\ Cardinality(Unused) <= Cardinality(Unused')
  BY <1>1, FS_Subset
<1>3. /\ Cardinality(LogsIn') \in Nat /\ Cardinality(LogsIn) \in Nat
      /\ Cardinality(Unused) \in Nat /\ Cardinality(Unused') \in Nat
  BY <1>1, FS_CardinalityType
<1> QED
  BY <1>2, <1>3 DEF Room

(* A handler on its way stays a login or a logout if it is one, and does   *)
(* not become one.                                                         *)
Neither == Answering \cup Voting \cup {"check", "idle"}

LEMMA HandlerMoves ==
  ASSUME IInv, NEW r \in Request,
         Step(r) \/ CastVote(r) \/ Failure(r) \/ \E b \in Browser : Page(r, b)
  PROVE  \E t : /\ task' = [task EXCEPT ![r] = t]
                /\ \/ t.pc \in Neither
                   \/ {task[r].pc, t.pc} \subseteq LoggingIn
                   \/ {task[r].pc, t.pc} \subseteq LoggingOut
<1> DEFINE Kept(t) == \/ t.pc \in Neither
                      \/ {task[r].pc, t.pc} \subseteq LoggingIn
                      \/ {task[r].pc, t.pc} \subseteq LoggingOut
           Moves == \E t : task' = [task EXCEPT ![r] = t] /\ Kept(t)
<1>0. task \in [Request -> Task] /\ task[r] \in Task
  BY DEF IInv
<1>1. ASSUME task' = [task EXCEPT ![r] = Idle] PROVE Moves
  BY <1>1, Blank DEF Neither
<1>2. ASSUME NEW pc, GoTo(r, pc),
             pc \in Neither \/ {task[r].pc, pc} \subseteq LoggingIn
               \/ {task[r].pc, pc} \subseteq LoggingOut
      PROVE  Moves
  <2>1. [task[r] EXCEPT !.pc = pc].pc = pc
    BY <1>0 DEF Task
  <2> QED
    BY <1>2, <2>1 DEF GoTo
<1>3. CASE Failure(r) \/ Welcome(r) \/ SessionNotFound(r) \/ Goodbye(r) \/ Serve(r) \/ CommitVote(r)
  <2>1. CASE CommitLoginUnheard(r)
    BY <1>1, <2>1 DEF CommitLoginUnheard
  <2> QED
    BY <1>1, <1>3, <2>1 DEF Failure, LoginFails, LogoutFails, AnswerLost, VoteFails, Welcome,
       SessionNotFound, Goodbye, Serve, CommitVote
<1>4. CASE BeginLogin(r) \/ UpsertUser(r) \/ GetUserInfo(r) \/ InsertCreatedEvent(r)
           \/ CommitLogin(r)
  <2>1. PICK pc \in {"upsert", "userInfo", "insertSession", "loginCommit", "welcome"} :
          GoTo(r, pc) /\ task[r].pc \in LoggingIn
    BY <1>4 DEF BeginLogin, UpsertUser, GetUserInfo, InsertCreatedEvent, CommitLogin, LoggingIn,
                LoginTx
  <2>2. pc \in Neither \/ pc \in LoggingIn
    BY DEF Neither, Answering, LoggingIn, LoginTx
  <2> QED
    BY <1>2, <2>1, <2>2
<1>5. CASE InsertSession(r)
  <2>1. PICK s \in SessionId : task' = [task EXCEPT ![r].pc = "createdEvent", ![r].session = s]
    BY <1>5 DEF InsertSession
  <2>2. task' = [task EXCEPT ![r] = [task[r] EXCEPT !.pc = "createdEvent", !.session = s]]
    BY <1>0, <2>1
  <2> QED
    BY <1>0, <1>5, <2>2 DEF InsertSession, LoggingIn, LoginTx, Task
<1>6. CASE LookUp(r)
  <2>1. \/ task' = [task EXCEPT ![r] = [task[r] EXCEPT !.pc = "logoutBegin"]]
        \/ task' = [task EXCEPT ![r] = Idle]
    BY <1>6 DEF LookUp
  <2>2. [task[r] EXCEPT !.pc = "logoutBegin"].pc = "logoutBegin"
    BY <1>0 DEF Task
  <2>3. {task[r].pc, "logoutBegin"} \subseteq LoggingOut
    BY <1>6 DEF LookUp, LoggingOut
  <2> QED
    BY <1>1, <2>1, <2>2, <2>3
<1>7. CASE BeginLogout(r) \/ FindUser(r) \/ DeleteSession(r) \/ InsertLoggedOutEvent(r)
           \/ CommitLogout(r)
  <2>1. PICK pc \in {"findUser", "deleteSession", "loggedOutEvent", "logoutCommit", "goodbye"} :
          GoTo(r, pc) /\ task[r].pc \in LoggingOut
    BY <1>7 DEF BeginLogout, FindUser, DeleteSession, InsertLoggedOutEvent, CommitLogout,
                LoggingOut, LogoutTx
  <2>2. pc \in Neither \/ pc \in LoggingOut
    BY DEF Neither, Answering, LoggingOut, LogoutTx
  <2> QED
    BY <1>2, <2>1, <2>2
<1>8. CASE NoCookie(r) \/ BeginVote(r) \/ InsertVote(r)
  <2>1. PICK pc \in {"serve", "insertVote", "voteCommit"} : GoTo(r, pc)
    BY <1>8 DEF NoCookie, BeginVote, InsertVote
  <2>2. pc \in Neither
    BY DEF Neither, Answering, Voting, VoteTx
  <2> QED
    BY <1>2, <2>1, <2>2
<1>9. CASE CheckSession(r) \/ CheckFindsNothing(r) \/ CastVote(r) \/ \E b \in Browser : Page(r, b)
  <2>1. "serve" \in Neither /\ "voteBegin" \in Neither /\ "check" \in Neither
    BY DEF Neither, Answering, Voting, VoteTx
  <2>2. CASE CheckSession(r)
    <3>1. task' = [task EXCEPT ![r] = [task[r] EXCEPT !.pc = "serve",
                                                     !.user = owner[task[r].session]]]
      BY <1>0, <2>2 DEF CheckSession
    <3>2. [task[r] EXCEPT !.pc = "serve", !.user = owner[task[r].session]].pc = "serve"
      BY <1>0 DEF Task
    <3> QED
      BY <2>1, <3>1, <3>2
  <2>3. CASE CheckFindsNothing(r)
    <3>1. task' = [task EXCEPT ![r] = [task[r] EXCEPT !.pc = "serve", !.session = NoSession]]
      BY <1>0, <2>3 DEF CheckFindsNothing
    <3>2. [task[r] EXCEPT !.pc = "serve", !.session = NoSession].pc = "serve"
      BY <1>0 DEF Task
    <3> QED
      BY <2>1, <3>1, <3>2
  <2>4. CASE CastVote(r)
    <3>1. task' = [task EXCEPT ![r] = [task[r] EXCEPT !.pc = "voteBegin", !.browser = NoBrowser]]
      BY <1>0, <2>4 DEF CastVote
    <3>2. [task[r] EXCEPT !.pc = "voteBegin", !.browser = NoBrowser].pc = "voteBegin"
      BY <1>0 DEF Task
    <3> QED
      BY <2>1, <3>1, <3>2
  <2>5. CASE \E b \in Browser : Page(r, b)
    <3>1. PICK b \in Browser : task' = [task EXCEPT ![r] =
                      [Idle EXCEPT !.browser = b, !.pc = "check", !.session = cookie[b]]]
      BY <2>5 DEF Page
    <3>2. [Idle EXCEPT !.browser = b, !.pc = "check", !.session = cookie[b]].pc = "check"
      BY DEF Idle
    <3> QED
      BY <2>1, <3>1, <3>2
  <2> QED
    BY <1>9, <2>2, <2>3, <2>4, <2>5
<1> QED
  BY <1>3, <1>4, <1>5, <1>6, <1>7, <1>8, <1>9 DEF Step, LoginStep, LogoutStep, PageStep, VoteStep

(* So of the logins in flight, and of the logouts, there are more only     *)
(* where one arrives.                                                      *)
LEMMA KindShrinks ==
  ASSUME IInv, [Next]_vars, NEW K \in {LoggingIn, LoggingOut},
         K = LoggingIn =>
           ~\E r \in Request, b \in Browser, u \in User : Callback(r, b, u),
         K = LoggingOut => ~\E r \in Request, b \in Browser : Logout(r, b)
  PROVE  {q \in Request : task'[q].pc \in K} \subseteq {q \in Request : task[q].pc \in K}
<1> DEFINE Shrinks ==
             {q \in Request : task'[q].pc \in K} \subseteq {q \in Request : task[q].pc \in K}
<1>0. task \in [Request -> Task]
  BY DEF IInv
<1>1. K \cap Neither = {} /\ LoggingIn \cap LoggingOut = {} /\ Idle.pc \in Neither
  BY DEF Neither, LoggingIn, LoginTx, LoggingOut, LogoutTx, Answering, Voting, VoteTx, Idle
<1>2. ASSUME NEW r \in Request, NEW t, task' = [task EXCEPT ![r] = t],
             t.pc \in K => task[r].pc \in K
      PROVE  Shrinks
  BY <1>0, <1>2
<1>3. ASSUME NEW r \in Request,
             Step(r) \/ CastVote(r) \/ Failure(r) \/ \E b \in Browser : Page(r, b)
      PROVE  Shrinks
  <2>1. PICK t : /\ task' = [task EXCEPT ![r] = t]
                 /\ \/ t.pc \in Neither
                    \/ {task[r].pc, t.pc} \subseteq LoggingIn
                    \/ {task[r].pc, t.pc} \subseteq LoggingOut
    BY <1>3, HandlerMoves
  <2>2. t.pc \in K => task[r].pc \in K
    BY <1>1, <2>1
  <2> QED
    BY <1>2, <2>1, <2>2
<1>4. ASSUME NEW r \in Request, NEW b \in Browser, NEW u \in User, Callback(r, b, u)
      PROVE  Shrinks
  <2>1. [Idle EXCEPT !.browser = b, !.pc = "loginBegin", !.user = u].pc \notin LoggingOut
    BY DEF Idle, LoggingOut, LogoutTx
  <2>2. task' = [task EXCEPT ![r] = [Idle EXCEPT !.browser = b, !.pc = "loginBegin", !.user = u]]
    BY <1>4 DEF Callback
  <2> QED
    BY <1>2, <1>4, <2>1, <2>2
<1>5. ASSUME NEW r \in Request, NEW b \in Browser, Logout(r, b) PROVE Shrinks
  <2>1. [Idle EXCEPT !.browser = b, !.pc = "lookUp", !.session = cookie[b]].pc \notin LoggingIn
    BY DEF Idle, LoggingIn, LoginTx
  <2>2. task' = [task EXCEPT ![r] = [Idle EXCEPT !.browser = b, !.pc = "lookUp",
                                                  !.session = cookie[b]]]
    BY <1>5 DEF Logout
  <2> QED
    BY <1>2, <1>5, <2>1, <2>2
<1>6. CASE \/ \E s \in SessionId : Expire(s)
           \/ Tick \/ CleanupRound \/ CleanupDone \/ CleanupFails \/ Crash
           \/ UNCHANGED vars
  <2>1. task' = task \/ task' = [r \in Request |-> Idle]
    BY <1>6 DEF Expire, Tick, CleanupRound, CleanupDone, CleanupFails, Crash, vars
  <2> QED
    BY <1>1, <2>1
<1> QED
  BY <1>3, <1>4, <1>5, <1>6 DEF Next, Arrive

LEMMA LogsInShrinks ==
  ASSUME IInv, [Next]_vars, ~\E r \in Request, b \in Browser, u \in User : Callback(r, b, u)
  PROVE  LogsIn' \subseteq LogsIn
<1>1. LoggingIn # LoggingOut
  BY DEF LoggingIn, LoggingOut, LogoutTx, LoginTx
<1> QED
  BY <1>1, KindShrinks DEF LogsIn

(* Only a login that commits uses up an id.                                *)
LEMMA UnusedStays ==
  ASSUME IInv, [Next]_vars,
         ~\E r \in Request : CommitLogin(r) \/ CommitLoginUnheard(r)
  PROVE  Unused' = Unused
<1>0. state \in [SessionId -> {"none", "live", "expired", "ended", "removed"}]
  BY DEF IInv, LifeInv, Life!TypeOK
<1>1. ASSUME NEW r \in Request, DeleteSession(r) PROVE Unused' = Unused
  <2>1. task[r].session \in SessionId
    BY <1>1, DeleteEnds
  <2> QED
    BY <1>0, <1>1, <2>1 DEF DeleteSession, Unused
<1>2. ASSUME NEW r \in Request, InsertLoggedOutEvent(r) PROVE Unused' = Unused
  BY <1>2 DEF InsertLoggedOutEvent, Unused
<1>3. ASSUME NEW s \in SessionId, Expire(s) PROVE Unused' = Unused
  BY <1>0, <1>3 DEF Expire, Unused
<1>4. CASE CleanupRound
  <2>1. PICK S \in SUBSET Expired : RemoveSessions(S)
    BY <1>4 DEF CleanupRound
  <2> QED
    BY <1>0, <2>1 DEF RemoveSessions, Expired, Unused
<1>5. CASE UNCHANGED tables
  BY <1>5 DEF tables, Unused
<1> QED
  BY <1>1, <1>2, <1>3, <1>4, <1>5, TablesStay

LEMMA RoomStep == IInv /\ Room /\ [Next]_vars => Room'
<1> SUFFICES ASSUME IInv, Room, [Next]_vars PROVE Room'
  OBVIOUS
<1>0. /\ IsFiniteSet(LogsIn) /\ IsFiniteSet(Unused)
      /\ Cardinality(LogsIn) \in Nat /\ Cardinality(Unused) \in Nat
  <2>1. IsFiniteSet(LogsIn) /\ IsFiniteSet(Unused)
    BY SessionsAssumption, FS_Subset DEF SessionsAssumption, LogsIn, Unused
  <2> QED
    BY <2>1, FS_CardinalityType
<1>1. ASSUME NEW r \in Request, NEW b \in Browser, NEW u \in User, Callback(r, b, u)
      PROVE  Room'
  <2>1. Cardinality(LogsIn) < Cardinality(Unused) /\ UNCHANGED state
    BY <1>1 DEF Callback, LogsIn, Unused, tables
  <2>2. Unused' = Unused
    BY <2>1 DEF Unused
  <2>3. LogsIn' \subseteq LogsIn \cup {r}
    BY <1>1 DEF Callback, LogsIn, IInv
  <2>4. /\ IsFiniteSet(LogsIn \cup {r})
        /\ Cardinality(LogsIn \cup {r}) <= Cardinality(LogsIn) + 1
    <3>1. /\ IsFiniteSet(LogsIn \cup {r})
          /\ Cardinality(LogsIn \cup {r}) =
               IF r \in LogsIn THEN Cardinality(LogsIn) ELSE Cardinality(LogsIn) + 1
      BY <1>0, FS_AddElement
    <3> QED
      BY <1>0, <3>1
  <2>5. Cardinality(LogsIn') <= Cardinality(LogsIn \cup {r})
    BY <2>3, <2>4, FS_Subset
  <2>6. Cardinality(LogsIn') \in Nat /\ Cardinality(LogsIn \cup {r}) \in Nat
    BY <2>3, <2>4, FS_Subset, FS_CardinalityType
  <2> QED
    BY <1>0, <2>1, <2>2, <2>4, <2>5, <2>6 DEF Room
<1>2. ASSUME NEW r \in Request, CommitLogin(r) \/ CommitLoginUnheard(r)
      PROVE  Room'
  <2> DEFINE s == task[r].session
  <2>1. task[r].pc = "loginCommit" /\ PublishSession(s, task[r].user) /\ task[r] \in Task
    BY <1>2 DEF CommitLogin, CommitLoginUnheard, IInv
  <2>2. s \in SessionId /\ Life!Open(s, task[r].user)
    BY <2>1, CommitOpens
  <2>3. Unused' = Unused \ {s} /\ s \in Unused
    BY <2>2 DEF Life!Open, Unused, IInv, LifeInv, Life!TypeOK
  <2>4. r \in LogsIn
    BY <2>1 DEF LogsIn, LoggingIn, LoginTx
  <2>5. task'[r].pc \in {"welcome", "idle"} /\ \A q \in Request \ {r} : task'[q] = task[q]
    BY <1>2, <2>1 DEF CommitLogin, CommitLoginUnheard, GoTo, Idle, IInv, Task
  <2>6. LogsIn' \subseteq LogsIn \ {r}
    <3>1. "welcome" \notin LoggingIn /\ "idle" \notin LoggingIn
      BY DEF LoggingIn, LoginTx
    <3> QED
      BY <2>5, <3>1 DEF LogsIn
  <2>7. /\ Cardinality(LogsIn \ {r}) = Cardinality(LogsIn) - 1
        /\ Cardinality(Unused') = Cardinality(Unused) - 1
        /\ IsFiniteSet(LogsIn \ {r})
    BY <1>0, <2>3, <2>4, FS_RemoveElement
  <2>8. Cardinality(LogsIn') <= Cardinality(LogsIn \ {r}) /\ Cardinality(LogsIn') \in Nat
    BY <2>6, <2>7, FS_Subset, FS_CardinalityType
  <2> QED
    BY <1>0, <2>7, <2>8 DEF Room
<1>3. ASSUME ~\E r \in Request : CommitLogin(r) \/ CommitLoginUnheard(r),
             ~\E r \in Request, b \in Browser, u \in User : Callback(r, b, u)
      PROVE  Room'
  BY <1>3, LogsInShrinks, UnusedStays, RoomFrame
<1> QED
  BY <1>1, <1>2, <1>3

LEMMA SessionsRoom == Spec => []Room
<1>1. Init => Room
  <2> SUFFICES ASSUME Init PROVE Room
    OBVIOUS
  <2>1. LogsIn = {}
    BY Blank DEF Init, LogsIn, LoggingIn, LoginTx
  <2>2. IsFiniteSet(Unused)
    BY SessionsAssumption, FS_Subset DEF SessionsAssumption, Unused
  <2>3. Cardinality(LogsIn) = 0 /\ Cardinality(Unused) \in Nat
    BY <2>1, <2>2, FS_EmptySet, FS_CardinalityType
  <2> QED
    BY <2>3 DEF Room
<1> QED
  BY <1>1, RoomStep, SessionsInvariant, PTL DEF Spec

(* So a login always finds an id that no other login has taken.            *)
LEMMA FreeId ==
  ASSUME IInv, Room, NEW r \in Request, task[r].pc = "insertSession"
  PROVE  \E s \in Unused : \A q \in Request : task[q].session # s
<1> DEFINE Open == {q \in Request : task[q].pc \in Opening}
           Taken == {task[q].session : q \in Open}
<1>1. IsFiniteSet(LogsIn) /\ IsFiniteSet(Unused)
  BY SessionsAssumption, FS_Subset DEF SessionsAssumption, LogsIn, Unused
<1>2. Open \subseteq LogsIn \ {r} /\ r \in LogsIn
  BY DEF LogsIn, Opening, LoggingIn, LoginTx
<1>3. IsFiniteSet(LogsIn \ {r}) /\ Cardinality(LogsIn \ {r}) = Cardinality(LogsIn) - 1
  BY <1>1, <1>2, FS_RemoveElement
<1>4. IsFiniteSet(Open) /\ Cardinality(Open) <= Cardinality(LogsIn) - 1
  BY <1>2, <1>3, FS_Subset
<1>5. IsFiniteSet(Taken) /\ Cardinality(Taken) <= Cardinality(Open)
  <2> DEFINE f == [q \in Open |-> task[q].session]
  <2>1. f \in Surjection(Open, Taken)
    BY DEF Surjection
  <2> HIDE DEF f, Open, Taken
  <2> QED
    BY <1>4, <2>1, FS_Surjection
<1>6. /\ Cardinality(Taken) \in Nat /\ Cardinality(Open) \in Nat
      /\ Cardinality(LogsIn) \in Nat /\ Cardinality(Unused) \in Nat
  BY <1>1, <1>4, <1>5, FS_CardinalityType
<1>7. ~(Unused \subseteq Taken)
  <2>1. Unused \subseteq Taken => Cardinality(Unused) <= Cardinality(Taken)
    BY <1>5, FS_Subset
  <2> HIDE DEF Taken, Open
  <2> QED
    BY <1>4, <1>5, <1>6, <2>1 DEF Room
<1>8. PICK s \in Unused : s \notin Taken
  BY <1>7
<1>9. ASSUME NEW q \in Request, task[q].session = s PROVE FALSE
  <2>1. s \in SessionId /\ state[s] = "none" /\ s # NoSession
    BY SessionsAssumption DEF SessionsAssumption, Unused
  <2>2. TaskOK(task[q])
    BY DEF IInv
  <2>3. task[q].pc \in Opening
    BY <1>9, <2>1, <2>2 DEF TaskOK
  <2> QED
    BY <1>8, <1>9, <2>3
<1> QED
  BY <1>9

(* If every transaction that has a connection has to wait, all of them are *)
(* logouts, which wait only while the pool is empty.  Logins, for all the  *)
(* provider's answer between their statements, and votes never wait for    *)
(* each other in a circle.  PoolStuckOnlyByLogouts says so with ENABLED.   *)
THEOREM SessionsOnlyLogoutsExhaust ==
  Spec => []((\A r \in Busy : Waits(r)) => (\A r \in Busy : task[r].pc \in LogoutTx))
<1>1. ASSUME IInv, Room, \A r \in Busy : Waits(r)
      PROVE  \A r \in Busy : task[r].pc \in LogoutTx
  <2>1. \A r \in Request : ~(task[r].pc \in LoginTx \ {"upsert"})
    <3> SUFFICES ASSUME NEW r \in Request, task[r].pc \in LoginTx \ {"upsert"} PROVE FALSE
      OBVIOUS
    <3>1. Waits(r)
      BY <1>1 DEF Busy
    <3>2. task[r].pc = "insertSession"
          /\ \A s \in Unused : \E q \in Request : task[q].session = s
      BY <3>1 DEF Waits, LoginTx, LogoutTx
    <3> QED
      BY <1>1, <3>2, FreeId
  <2>2. \A r \in Request : task[r].pc # "voteCommit"
    <3> SUFFICES ASSUME NEW r \in Request, task[r].pc = "voteCommit" PROVE FALSE
      OBVIOUS
    <3>1. Waits(r)
      BY <1>1 DEF Busy, VoteTx
    <3> QED
      BY <3>1 DEF Waits, LogoutTx
  <2>3. \A q \in Request, u \in User \cup {Anonymous} : ~HoldsUserRow(q, u) /\ ~SharesUserRow(q, u)
    BY <2>1, <2>2 DEF HoldsUserRow, SharesUserRow
  <2> SUFFICES ASSUME NEW r \in Busy PROVE task[r].pc \in LogoutTx
    OBVIOUS
  <2>4. Waits(r) /\ r \in Request /\ task[r].user \in User \cup {Anonymous}
    BY <1>1 DEF Busy, IInv, Task
  <2> QED
    BY <2>1, <2>3, <2>4 DEF Waits, LoginTx
<1> QED
  BY <1>1, SessionsInvariant, SessionsRoom, PTL

-----------------------------------------------------------------------------
(* Logouts in flight are those that were let in.                           *)
LogsOut == {q \in Request : task[q].pc \in LoggingOut}

LEMMA LogoutsBounded == Spec => [](Cardinality(LogsOut) <= LogoutsAtOnce)
<1> DEFINE Few == Cardinality(LogsOut) <= LogoutsAtOnce
<1>1. Init => Few
  <2> SUFFICES ASSUME Init PROVE Few
    OBVIOUS
  <2>1. LogsOut = {}
    BY Blank DEF Init, LogsOut, LoggingOut, LogoutTx
  <2> QED
    BY <2>1, FS_EmptySet, SessionsAssumption DEF SessionsAssumption
<1>2. IInv /\ Few /\ [Next]_vars => Few'
  <2> SUFFICES ASSUME IInv, Few, [Next]_vars PROVE Few'
    OBVIOUS
  <2>0. /\ IsFiniteSet(LogsOut) /\ IsFiniteSet(LogsOut')
        /\ Cardinality(LogsOut) \in Nat /\ Cardinality(LogsOut') \in Nat /\ LogoutsAtOnce \in Nat
    BY SessionsAssumption, FS_Subset, FS_CardinalityType DEF SessionsAssumption, LogsOut
  <2>1. ASSUME NEW r \in Request, NEW b \in Browser, Logout(r, b) PROVE Few'
    <3>1. Cardinality(LogsOut) < LogoutsAtOnce
      BY <2>1 DEF Logout, LogsOut
    <3>2. LogsOut' \subseteq LogsOut \cup {r}
      BY <2>1 DEF Logout, LogsOut, IInv
    <3>3. /\ IsFiniteSet(LogsOut \cup {r})
          /\ Cardinality(LogsOut \cup {r}) \in {Cardinality(LogsOut), Cardinality(LogsOut) + 1}
      BY <2>0, FS_AddElement
    <3>4. Cardinality(LogsOut') <= Cardinality(LogsOut \cup {r})
      BY <3>2, <3>3, FS_Subset
    <3> QED
      BY <2>0, <3>1, <3>3, <3>4
  <2>2. ASSUME ~\E r \in Request, b \in Browser : Logout(r, b) PROVE Few'
    <3>1. LoggingIn # LoggingOut
      BY DEF LoggingIn, LoggingOut, LogoutTx, LoginTx
    <3>2. LogsOut' \subseteq LogsOut
      BY <2>2, <3>1, KindShrinks DEF LogsOut
    <3>3. Cardinality(LogsOut') <= Cardinality(LogsOut)
      BY <2>0, <3>2, FS_Subset
    <3> QED
      BY <2>0, <3>3
  <2> QED
    BY <2>1, <2>2
<1> QED
  BY <1>1, <1>2, SessionsInvariant, PTL DEF Spec

(* With fewer logouts at a time than the pool has connections, the pool is *)
(* never stuck: of the transactions that hold its connections one at least *)
(* waits for nothing, whatever logins, logouts and votes are in flight and *)
(* wherever each of them is.                                               *)
THEOREM SessionsPoolNeverStuck ==
  Spec => [](LogoutsAtOnce < PoolSize /\ Busy # {} => \E r \in Busy : ~Waits(r))
<1>1. ASSUME LogoutsAtOnce < PoolSize, Cardinality(LogsOut) <= LogoutsAtOnce,
             NEW r \in Busy, \A q \in Busy : Waits(q),
             (\A q \in Busy : Waits(q)) => (\A q \in Busy : task[q].pc \in LogoutTx)
      PROVE  FALSE
  <2>1. \A q \in Busy : task[q].pc \in LogoutTx
    BY <1>1
  <2>2. ~FreeConnection
    BY <1>1, <2>1 DEF Waits, LogoutTx
  <2>3. Busy \subseteq LogsOut /\ IsFiniteSet(LogsOut)
    BY <2>1, SessionsAssumption, FS_Subset DEF SessionsAssumption, LogsOut, Busy, LoggingOut
  <2>4. /\ Cardinality(Busy) <= Cardinality(LogsOut) /\ IsFiniteSet(Busy)
        /\ Cardinality(Busy) \in Nat /\ Cardinality(LogsOut) \in Nat
    BY <2>3, FS_Subset, FS_CardinalityType
  <2> QED
    BY <1>1, <2>2, <2>4, SessionsAssumption DEF SessionsAssumption, FreeConnection
<1>2. /\ Cardinality(LogsOut) <= LogoutsAtOnce
      /\ (\A r \in Busy : Waits(r)) => (\A r \in Busy : task[r].pc \in LogoutTx)
      => (LogoutsAtOnce < PoolSize /\ Busy # {} => \E r \in Busy : ~Waits(r))
  BY <1>1
<1>3. Spec => [](Cardinality(LogsOut) <= LogoutsAtOnce)
  BY LogoutsBounded
<1>4. Spec => []((\A r \in Busy : Waits(r)) => (\A r \in Busy : task[r].pc \in LogoutTx))
  BY SessionsOnlyLogoutsExhaust
<1> QED
  BY <1>2, <1>3, <1>4, PTL

-----------------------------------------------------------------------------
(* A session once gone stays gone, one that has expired is never live      *)
(* again, and none changes hands or loses an event.                        *)
LivesOnce ==
  \A s \in SessionId :
    /\ state[s] \in {"ended", "removed"} => state'[s] = state[s]
    /\ state[s] = "expired" => state'[s] \in {"expired", "ended", "removed"}
    /\ state[s] # "none" => state'[s] # "none" /\ owner'[s] = owner[s]
    /\ events'[s].created >= events[s].created
    /\ events'[s].loggedOut >= events[s].loggedOut

(* No race of logouts, the cleanup, a crash and a login that commits late  *)
(* brings a session back or hands it to another user: a session id names   *)
(* the same session of the same user for ever.                             *)
THEOREM SessionsLiveOnce == Spec => [][LivesOnce]_vars
<1>1. ASSUME LifeInv, [Life!Next]_(Life!vars) PROVE LivesOnce
  <2> SUFFICES ASSUME NEW s \in SessionId
               PROVE  /\ state[s] \in {"ended", "removed"} => state'[s] = state[s]
                      /\ state[s] = "expired" => state'[s] \in {"expired", "ended", "removed"}
                      /\ state[s] # "none" => state'[s] # "none" /\ owner'[s] = owner[s]
                      /\ events'[s].created >= events[s].created
                      /\ events'[s].loggedOut >= events[s].loggedOut
    BY DEF LivesOnce
  <2>0. /\ Life!TypeOK /\ events[s].created \in Nat /\ events[s].loggedOut \in Nat
        /\ events[s] \in [created : Nat, loggedOut : Nat]
        /\ state[s] = "none" => events[s].created = 0
    BY <1>1 DEF LifeInv, Life!TypeOK, Life!EventsTellLife
  <2>1. ASSUME NEW z \in SessionId, NEW u \in User, Life!Open(z, u)
        PROVE  /\ state' = [state EXCEPT ![z] = "live"] /\ owner' = [owner EXCEPT ![z] = u]
               /\ events' = [events EXCEPT ![z].created = 1] /\ state[z] = "none"
    BY <2>1 DEF Life!Open
  <2>2. CASE \E z \in SessionId, u \in User : Life!Open(z, u)
    BY <2>0, <2>1, <2>2 DEF Life!TypeOK
  <2>3. CASE \E z \in SessionId : Life!Expire(z) \/ Life!End(z)
    BY <2>0, <2>3 DEF Life!Expire, Life!End, Life!TypeOK
  <2>4. CASE \E z \in SessionId : Life!Record(z)
    BY <2>0, <2>4 DEF Life!Record, Life!TypeOK
  <2>5. CASE \E S \in SUBSET SessionId : Life!Remove(S)
    BY <2>0, <2>5 DEF Life!Remove
  <2>6. CASE UNCHANGED Life!vars
    BY <2>0, <2>6 DEF Life!vars
  <2> QED
    BY <1>1, <2>2, <2>3, <2>4, <2>5, <2>6 DEF Life!Next
<1>2. IInv /\ [Next]_vars => [LivesOnce]_vars
  BY <1>1, LifeNext DEF IInv
<1> QED
  BY <1>2, SessionsInvariant, PTL DEF Spec
=============================================================================
