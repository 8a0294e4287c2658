------------------------------ MODULE Sessions ------------------------------
(***************************************************************************)
(* Sessions on the server: the callback of a login (InitSession), logout   *)
(* (EndSession), the middleware that reads a session, the votes cast by the*)
(* requests it lets through, the job that cleans up expired sessions, and  *)
(* the pool of database connections they share.                            *)
(*                                                                         *)
(* InitSession runs in one transaction, on one connection.  EndSession     *)
(* opens a transaction too, but hands ctx, not txCtx, to its statements: the *)
(* transaction stays empty and holds a connection, while each statement    *)
(* takes another from the pool and commits by itself.                      *)
(***************************************************************************)
EXTENDS Naturals, FiniteSets

CONSTANTS
  Request,         \* requests in flight at one time (a slot is used again)
  Browser,
  User,
  Anonymous,       \* who a request without a usable session is served as
  SessionId,       \* sessions.id, standing for the token as well
  NoSession,       \* no session cookie
  NoBrowser,       \* browser of a slot without a request
  PoolSize,        \* connections of the pool
  CleanupBatch,    \* LIMIT of DeleteExpiredSessions
  LogoutsAtOnce,   \* bound: logouts in flight at one time
  MaxCrashes       \* bound: crashes of the server

ASSUME SessionsAssumption ==
  /\ NoSession \notin SessionId /\ Anonymous \notin User
  /\ IsFiniteSet(Request) /\ IsFiniteSet(SessionId)
  /\ PoolSize \in Nat \ {0} /\ CleanupBatch \in Nat \ {0}
  /\ LogoutsAtOnce \in Nat /\ MaxCrashes \in Nat

VARIABLES
  state, owner, events,   \* sessions and session_events, as in SessionLife
  cookie,                 \* [Browser -> the session cookie]
  task,                   \* [Request -> the handler that runs]
  job,                    \* DeleteExpiredSessionsJob
  crashes

tables == <<state, owner, events>>
vars == <<tables, cookie, task, job, crashes>>

Life == INSTANCE SessionLife WITH state <- state, owner <- owner, events <- events

-----------------------------------------------------------------------------
(* Handlers, by the step they are about to take.                           *)
LoginTx == {"upsert", "userInfo", "insertSession", "createdEvent", "loginCommit"}
LogoutTx == {"findUser", "deleteSession", "loggedOutEvent", "logoutCommit"}
LoggingIn == {"loginBegin"} \cup LoginTx
LoggingOut == {"lookUp", "logoutBegin"} \cup LogoutTx
VoteTx == {"insertVote", "voteCommit"}
Voting == {"voteBegin"} \cup VoteTx
Answering == {"welcome", "goodbye", "serve"}

Idle == [pc |-> "idle", browser |-> NoBrowser, session |-> NoSession, user |-> Anonymous]

(* Connections held by open transactions of the handlers here; anything    *)
(* else needs a free one.  The creations of duels and the catalogue's pages*)
(* take one each from the same pool and never a second: PoolSize is what   *)
(* they leave, and is back at its full value when they end.                *)
Busy == {r \in Request : task[r].pc \in LoginTx \cup LogoutTx \cup VoteTx}

FreeConnection == Cardinality(Busy) < PoolSize

(* UpsertUser updates the unique column idp_sub: the row of the user stays *)
(* locked until the login's transaction ends.                              *)
HoldsUserRow(r, u) == task[r].pc \in LoginTx \ {"upsert"} /\ task[r].user = u

(* The foreign key of an inserted vote holds it FOR KEY SHARE. *)
SharesUserRow(r, u) == task[r].pc = "voteCommit" /\ task[r].user = u

GoTo(r, pc) == task' = [task EXCEPT ![r].pc = pc]

Init ==
  /\ Life!Init
  /\ cookie = [b \in Browser |-> NoSession]
  /\ task = [r \in Request |-> Idle]
  /\ job = "waiting"
  /\ crashes = 0

-----------------------------------------------------------------------------
(* CallbackHandler, once the provider has answered with u's tokens.        *)

(* Bound: SessionId has an id left for every login in flight. *)
Callback(r, b, u) ==
  /\ task[r].pc = "idle"
  /\ Cardinality({q \in Request : task[q].pc \in LoggingIn})
       < Cardinality({s \in SessionId : state[s] = "none"})
  /\ task' = [task EXCEPT ![r] = [Idle EXCEPT !.browser = b, !.pc = "loginBegin", !.user = u]]
  /\ UNCHANGED <<tables, cookie, job, crashes>>

BeginLogin(r) ==
  /\ task[r].pc = "loginBegin" /\ FreeConnection
  /\ GoTo(r, "upsert")
  /\ UNCHANGED <<tables, cookie, job, crashes>>

UpsertUser(r) ==
  /\ task[r].pc = "upsert"
  /\ \A q \in Request : ~HoldsUserRow(q, task[r].user) /\ ~SharesUserRow(q, task[r].user)
  /\ GoTo(r, "userInfo")
  /\ UNCHANGED <<tables, cookie, job, crashes>>

(* A call to the provider inside the transaction. *)
GetUserInfo(r) ==
  /\ task[r].pc = "userInfo"
  /\ GoTo(r, "insertSession")
  /\ UNCHANGED <<tables, cookie, job, crashes>>

InsertSession(r) ==
  /\ task[r].pc = "insertSession"
  /\ \E s \in SessionId :
       /\ state[s] = "none" /\ \A q \in Request : task[q].session # s
       /\ task' = [task EXCEPT ![r].pc = "createdEvent", ![r].session = s]
  /\ UNCHANGED <<tables, cookie, job, crashes>>

(* The event by itself, as EndSession does it. *)
InsertCreatedEventOutside(r) ==
  /\ task[r].pc = "createdEvent" /\ FreeConnection
  /\ GoTo(r, "loginCommit")
  /\ events' = [events EXCEPT ![task[r].session].created = @ + 1]
  /\ UNCHANGED <<state, owner, cookie, job, crashes>>

InsertCreatedEvent(r) ==
  /\ task[r].pc = "createdEvent"
  /\ GoTo(r, "loginCommit")
  /\ UNCHANGED <<tables, cookie, job, crashes>>

(* COMMIT: the session and its event appear together. *)
PublishSession(s, u) ==
  /\ state' = [state EXCEPT ![s] = "live"]
  /\ owner' = [owner EXCEPT ![s] = u]
  /\ events' = [events EXCEPT ![s].created = @ + 1]

CommitLogin(r) ==
  /\ task[r].pc = "loginCommit"
  /\ PublishSession(task[r].session, task[r].user)
  /\ GoTo(r, "welcome")
  /\ UNCHANGED <<cookie, job, crashes>>

(* Committed, but the server does not hear of it: answered with 500. *)
CommitLoginUnheard(r) ==
  /\ task[r].pc = "loginCommit"
  /\ PublishSession(task[r].session, task[r].user)
  /\ task' = [task EXCEPT ![r] = Idle]
  /\ UNCHANGED <<cookie, job, crashes>>

(* The answer, with SetSessionCookie. *)
Welcome(r) ==
  /\ task[r].pc = "welcome"
  /\ cookie' = [cookie EXCEPT ![task[r].browser] = task[r].session]
  /\ task' = [task EXCEPT ![r] = Idle]
  /\ UNCHANGED <<tables, job, crashes>>

(* A statement or the provider fails, or the client goes away: ExecTx rolls*)
(* back, and the answer is 500.                                            *)
LoginFails(r) ==
  /\ task[r].pc \in LoggingIn
  /\ task' = [task EXCEPT ![r] = Idle]
  /\ UNCHANGED <<tables, cookie, job, crashes>>

-----------------------------------------------------------------------------
(* LogoutHandler.  Without a cookie it only redirects.                     *)
Logout(r, b) ==
  /\ task[r].pc = "idle" /\ cookie[b] # NoSession
  /\ Cardinality({q \in Request : task[q].pc \in LoggingOut}) < LogoutsAtOnce
  /\ task' = [task EXCEPT ![r] = [Idle EXCEPT !.browser = b, !.pc = "lookUp", !.session = cookie[b]]]
  /\ UNCHANGED <<tables, cookie, job, crashes>>

(* GetByTokenHash finds a session that has not expired. *)
LookUp(r) ==
  /\ task[r].pc = "lookUp" /\ FreeConnection
  /\ task' = [task EXCEPT ![r] = IF state[task[r].session] = "live"
                                 THEN [@ EXCEPT !.pc = "logoutBegin"] ELSE Idle]
  /\ UNCHANGED <<tables, cookie, job, crashes>>

BeginLogout(r) ==
  /\ task[r].pc = "logoutBegin" /\ FreeConnection
  /\ GoTo(r, "findUser")
  /\ UNCHANGED <<tables, cookie, job, crashes>>

FindUser(r) ==
  /\ task[r].pc = "findUser" /\ FreeConnection
  /\ GoTo(r, "deleteSession")
  /\ UNCHANGED <<tables, cookie, job, crashes>>

(* DeleteByTokenHash commits by itself.  The row may have expired meanwhile, *)
(* or be gone: no rows affected, ErrSessionNotFound.                       *)
DeleteSessionUnchecked(r) ==
  /\ task[r].pc = "deleteSession" /\ FreeConnection
  /\ state' = [state EXCEPT ![task[r].session] = "ended"]
  /\ GoTo(r, "loggedOutEvent")
  /\ UNCHANGED <<owner, events, cookie, job, crashes>>

DeleteSession(r) ==
  /\ task[r].pc = "deleteSession" /\ FreeConnection
  /\ state[task[r].session] \in {"live", "expired"}
  /\ state' = [state EXCEPT ![task[r].session] = "ended"]
  /\ GoTo(r, "loggedOutEvent")
  /\ UNCHANGED <<owner, events, cookie, job, crashes>>

SessionNotFound(r) ==
  /\ task[r].pc = "deleteSession" /\ FreeConnection
  /\ state[task[r].session] \in {"ended", "removed"}
  /\ task' = [task EXCEPT ![r] = Idle]
  /\ UNCHANGED <<tables, cookie, job, crashes>>

(* InsertEvent commits by itself as well. *)
InsertLoggedOutEvent(r) ==
  /\ task[r].pc = "loggedOutEvent" /\ FreeConnection
  /\ events' = [events EXCEPT ![task[r].session].loggedOut = @ + 1]
  /\ GoTo(r, "logoutCommit")
  /\ UNCHANGED <<state, owner, cookie, job, crashes>>

(* The empty transaction commits. *)
CommitLogout(r) ==
  /\ task[r].pc = "logoutCommit"
  /\ GoTo(r, "goodbye")
  /\ UNCHANGED <<tables, cookie, job, crashes>>

(* The answer drops whatever session cookie the browser has by now. *)
Goodbye(r) ==
  /\ task[r].pc = "goodbye"
  /\ cookie' = [cookie EXCEPT ![task[r].browser] = NoSession]
  /\ task' = [task EXCEPT ![r] = Idle]
  /\ UNCHANGED <<tables, job, crashes>>

(* Answered with the redirect all the same. *)
LogoutFailsSaidDone(r) ==
  /\ task[r].pc \in LoggingOut
  /\ GoTo(r, "goodbye")
  /\ UNCHANGED <<tables, cookie, job, crashes>>

(* A statement fails, the client goes away, or the url of the provider does*)
(* not parse once all is done: ExecTx rolls back, which undoes none of the *)
(* statements, and the answer is 500; the cookie stays.                    *)
LogoutFails(r) ==
  /\ task[r].pc \in LoggingOut
  /\ task' = [task EXCEPT ![r] = Idle]
  /\ UNCHANGED <<tables, cookie, job, crashes>>

-----------------------------------------------------------------------------
(* Any other page, through SessionMiddleware or SessionCtx.                *)
Page(r, b) ==
  /\ task[r].pc = "idle"
  /\ task' = [task EXCEPT ![r] = [Idle EXCEPT !.browser = b, !.pc = "check", !.session = cookie[b]]]
  /\ UNCHANGED <<tables, cookie, job, crashes>>

(* A live session makes its owner known to the handler.  No cookie, no such*)
(* session or no answer from the database leave the request anonymous.     *)
CheckSession(r) ==
  /\ task[r].pc = "check" /\ FreeConnection
  /\ task[r].session # NoSession /\ state[task[r].session] = "live"
  /\ task' = [task EXCEPT ![r].pc = "serve", ![r].user = owner[task[r].session]]
  /\ UNCHANGED <<tables, cookie, job, crashes>>

CheckFindsNothing(r) ==
  /\ task[r].pc = "check" /\ task[r].session # NoSession /\ FreeConnection
  /\ task' = [task EXCEPT ![r].pc = "serve", ![r].session = NoSession]
  /\ UNCHANGED <<tables, cookie, job, crashes>>

NoCookie(r) ==
  /\ task[r].pc = "check" /\ task[r].session = NoSession
  /\ GoTo(r, "serve")
  /\ UNCHANGED <<tables, cookie, job, crashes>>

Serve(r) ==
  /\ task[r].pc = "serve"
  /\ task' = [task EXCEPT ![r] = Idle]
  /\ UNCHANGED <<tables, cookie, job, crashes>>

(* The client goes away before it has the answer. *)
AnswerLost(r) ==
  /\ task[r].pc \in Answering \cup {"check"}
  /\ task' = [task EXCEPT ![r] = Idle]
  /\ UNCHANGED <<tables, cookie, job, crashes>>

-----------------------------------------------------------------------------
(* The goroutine of a vote; what the request is answered with, the next    *)
(* duel, has nothing to do with the session.                               *)

(* RegisterVote takes the user from the session the middleware has found,  *)
(* which may have ended since.                                             *)
CastVoteByCookie(r) ==
  /\ task[r].pc = "serve"
  /\ task' = [task EXCEPT ![r].pc = "voteBegin", ![r].session = cookie[task[r].browser], ![r].browser = NoBrowser]
  /\ UNCHANGED <<tables, cookie, job, crashes>>

CastVote(r) ==
  /\ task[r].pc = "serve"
  /\ task' = [task EXCEPT ![r].pc = "voteBegin", ![r].browser = NoBrowser]
  /\ UNCHANGED <<tables, cookie, job, crashes>>

BeginVote(r) ==
  /\ task[r].pc = "voteBegin" /\ FreeConnection
  /\ GoTo(r, "insertVote")
  /\ UNCHANGED <<tables, cookie, job, crashes>>

(* The foreign key waits for a login of the same user. *)
InsertVote(r) ==
  /\ task[r].pc = "insertVote"
  /\ \A q \in Request : task[r].user # Anonymous => ~HoldsUserRow(q, task[r].user)
  /\ GoTo(r, "voteCommit")
  /\ UNCHANGED <<tables, cookie, job, crashes>>

CommitVote(r) ==
  /\ task[r].pc = "voteCommit"
  /\ task' = [task EXCEPT ![r] = Idle]
  /\ UNCHANGED <<tables, cookie, job, crashes>>

(* A statement fails, or the five seconds are over: whether the client     *)
(* waits for its answer makes no difference.                               *)
VoteFails(r) ==
  /\ task[r].pc \in Voting
  /\ task' = [task EXCEPT ![r] = Idle]
  /\ UNCHANGED <<tables, cookie, job, crashes>>

-----------------------------------------------------------------------------
(* Time, and DeleteExpiredSessionsJob.                                     *)
Expire(s) ==
  /\ state[s] = "live"
  /\ state' = [state EXCEPT ![s] = "expired"]
  /\ UNCHANGED <<owner, events, cookie, task, job, crashes>>

Expired == {s \in SessionId : state[s] = "expired"}

Tick ==
  /\ job = "waiting"
  /\ job' = "cleaning"
  /\ UNCHANGED <<tables, cookie, task, crashes>>

Batch(S) == Cardinality(S) = IF Cardinality(Expired) < CleanupBatch THEN Cardinality(Expired)
                             ELSE CleanupBatch

RemoveSessions(S) == state' = [s \in SessionId |-> IF s \in S THEN "removed" ELSE state[s]]

(* The job stops at the first round that is not full. *)
CleanupRoundOnlyFull ==
  /\ job = "cleaning" /\ FreeConnection /\ Cardinality(Expired) > CleanupBatch
  /\ \E S \in SUBSET Expired : Batch(S) /\ RemoveSessions(S)
  /\ UNCHANGED <<owner, events, cookie, task, job, crashes>>

(* A round deletes as many expired sessions as its LIMIT allows; the job   *)
(* goes on until a round finds none.                                       *)
CleanupRound ==
  /\ job = "cleaning" /\ FreeConnection /\ Expired # {}
  /\ \E S \in SUBSET Expired : Batch(S) /\ RemoveSessions(S)
  /\ UNCHANGED <<owner, events, cookie, task, job, crashes>>

CleanupDone ==
  /\ job = "cleaning" /\ FreeConnection /\ Expired = {}
  /\ job' = "waiting"
  /\ UNCHANGED <<tables, cookie, task, crashes>>

(* Logged; the next tick tries again. *)
CleanupFails ==
  /\ job = "cleaning" /\ FreeConnection
  /\ job' = "waiting"
  /\ UNCHANGED <<tables, cookie, task, crashes>>

(* The server dies: open transactions roll back, cookies stay.             *)
Crash ==
  /\ crashes < MaxCrashes
  /\ crashes' = crashes + 1
  /\ task' = [r \in Request |-> Idle]
  /\ job' = "waiting"
  /\ UNCHANGED <<tables, cookie>>

-----------------------------------------------------------------------------
Arrive(r) ==
  \E b \in Browser : (\E u \in User : Callback(r, b, u)) \/ Logout(r, b) \/ Page(r, b)

LoginStep(r) ==
  \/ BeginLogin(r) \/ UpsertUser(r) \/ GetUserInfo(r) \/ InsertSession(r)
  \/ InsertCreatedEvent(r) \/ CommitLogin(r) \/ Welcome(r)

LogoutStep(r) ==
  \/ LookUp(r) \/ BeginLogout(r) \/ FindUser(r) \/ DeleteSession(r) \/ SessionNotFound(r)
  \/ InsertLoggedOutEvent(r) \/ CommitLogout(r) \/ Goodbye(r)

PageStep(r) == CheckSession(r) \/ CheckFindsNothing(r) \/ NoCookie(r) \/ Serve(r)

VoteStep(r) == BeginVote(r) \/ InsertVote(r) \/ CommitVote(r)

Step(r) == LoginStep(r) \/ LogoutStep(r) \/ PageStep(r) \/ VoteStep(r)

Failure(r) ==
  LoginFails(r) \/ CommitLoginUnheard(r) \/ LogoutFails(r) \/ AnswerLost(r) \/ VoteFails(r)

Next ==
  \/ \E r \in Request : Arrive(r) \/ Step(r) \/ CastVote(r) \/ Failure(r)
  \/ \E s \in SessionId : Expire(s)
  \/ Tick \/ CleanupRound \/ CleanupDone \/ CleanupFails \/ Crash

Spec == Init /\ [][Next]_vars

(* A handler that can go on does; one that waits for a connection or a row *)
(* is queued, and the provider, asked for the user without a timeout       *)
(* (GetUserInfo), answers or fails at last.  The ticker ticks, and the     *)
(* database does not fail every cleanup.                                   *)
Fairness ==
  /\ \A r \in Request : SF_vars(Step(r))
  /\ WF_vars(Tick) /\ SF_vars(CleanupRound)

FairSpec == Spec /\ Fairness

-----------------------------------------------------------------------------
(* Properties.                                                             *)
(* A logout that is answered with the redirect has ended its session, or   *)
(* another logout has, and it has been recorded.                           *)
GoodbyeMeansGone ==
  \A r \in Request :
    task[r].pc \in {"logoutCommit", "goodbye"} =>
      state[task[r].session] = "ended" /\ events[task[r].session].loggedOut = 1

(* When every connection is held by a transaction, one of them can go on,  *)
(* unless all are logouts: logins and votes that wait for each other over  *)
(* the row of a user, and a login over the call to the provider, never     *)
(* exhaust the pool.                                                       *)
PoolStuckOnlyByLogouts ==
  ~FreeConnection /\ (\A r \in Busy : ~ENABLED Step(r))
    => \A r \in Busy : task[r].pc \in LogoutTx

(* A request, and the vote it leaves behind, are those of the owner of the *)
(* session the browser had when it asked: the session may expire, be ended *)
(* or be removed meanwhile, and the browser log in as somebody else.  So   *)
(* the user a vote refers to always has a row.                             *)
VotesOfOwner ==
  \A r \in Request :
    task[r].pc \in {"serve"} \cup Voting /\ task[r].user # Anonymous =>
      state[task[r].session] # "none" /\ owner[task[r].session] = task[r].user

(* The handlers and the job implement the life of a session, with all it   *)
(* promises of the events (SessionsProofs), however many logouts of a      *)
(* session race each other, the cleanup and a crash.                       *)
ImplementsSessionLife == Life!Spec

(* Every request is answered, and every vote registered or given up, as    *)
(* long as fewer logouts run at a time than the pool has connections and   *)
(* the provider answers or fails, however late: neither a deadline nor a   *)
(* client that gives up is needed for it.                                  *)
RequestsAnswered == \A r \in Request : task[r].pc # "idle" ~> task[r].pc = "idle"

(* Expired sessions leave the table, whatever the size of a round. *)
ExpiredSessionsGo ==
  \A s \in SessionId : state[s] = "expired" ~> state[s] \in {"ended", "removed"}

(* README: "Session events are audit-logged".  A session a logout has ended*)
(* has its event, once no logout of it is running.                         *)
EndedSessionsLogged ==
  \A s \in SessionId :
    state[s] = "ended" /\ (\A r \in Request : task[r].session # s) => events[s].loggedOut = 1
=============================================================================
