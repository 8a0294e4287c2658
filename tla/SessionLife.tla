---------------------------- MODULE SessionLife ----------------------------
(***************************************************************************)
(* What the sessions and session_events tables promise of one session: it  *)
(* is opened together with its "created" event, may expire, and goes once, *)
(* by a logout or by the cleanup of expired sessions; a logout is recorded *)
(* once, and only after it has happened.  Sessions implements this.        *)
(***************************************************************************)
EXTENDS Naturals

CONSTANTS
  User,
  Anonymous,   \* owner of a session that was never opened
  SessionId

VARIABLES
  state,   \* "none", then a row "live" or "expired", then "ended" or "removed"
  owner,   \* sessions.user_id
  events   \* how many events of each kind the session has

vars == <<state, owner, events>>

NoEvents == [created |-> 0, loggedOut |-> 0]

Init ==
  /\ state = [s \in SessionId |-> "none"]
  /\ owner = [s \in SessionId |-> Anonymous]
  /\ events = [s \in SessionId |-> NoEvents]

Open(s, u) ==
  /\ state[s] = "none"
  /\ state' = [state EXCEPT ![s] = "live"]
  /\ owner' = [owner EXCEPT ![s] = u]
  /\ events' = [events EXCEPT ![s].created = 1]

Expire(s) ==
  /\ state[s] = "live"
  /\ state' = [state EXCEPT ![s] = "expired"]
  /\ UNCHANGED <<owner, events>>

End(s) ==
  /\ state[s] \in {"live", "expired"}
  /\ state' = [state EXCEPT ![s] = "ended"]
  /\ UNCHANGED <<owner, events>>

Record(s) ==
  /\ state[s] = "ended" /\ events[s].loggedOut = 0
  /\ events' = [events EXCEPT ![s].loggedOut = 1]
  /\ UNCHANGED <<state, owner>>

(* The cleanup takes any number of expired sessions at a time. *)
Remove(S) ==
  /\ \A s \in S : state[s] = "expired"
  /\ state' = [s \in SessionId |-> IF s \in S THEN "removed" ELSE state[s]]
  /\ UNCHANGED <<owner, events>>

Next ==
  \/ \E s \in SessionId : (\E u \in User : Open(s, u)) \/ Expire(s) \/ End(s) \/ Record(s)
  \/ \E S \in SUBSET SessionId : Remove(S)

Spec == Init /\ [][Next]_vars

-----------------------------------------------------------------------------
TypeOK ==
  /\ state \in [SessionId -> {"none", "live", "expired", "ended", "removed"}]
  /\ owner \in [SessionId -> User \cup {Anonymous}]
  /\ events \in [SessionId -> [created : Nat, loggedOut : Nat]]

(* The events tell the session's life: created once, with it; logged out at*)
(* most once, after it has ended.                                          *)
EventsTellLife ==
  \A s \in SessionId :
    /\ events[s].created = IF state[s] = "none" THEN 0 ELSE 1
    /\ events[s].loggedOut = 0 \/ (events[s].loggedOut = 1 /\ state[s] = "ended")
=============================================================================
