---------------------------- MODULE MachineToken ----------------------------
(***************************************************************************)
(* MachineTokenSource: the access token with which the server asks the     *)
(* identity provider about its users.  The token is cached, and one mutex  *)
(* guards the cache; it is held over the HTTP request that renews it, and  *)
(* Lock, unlike that request, does not give up when the client is gone.    *)
(***************************************************************************)
EXTENDS Naturals

CONSTANTS
  Fetch,       \* calls of FetchAuthorizations in flight (a slot is used again)
  None,        \* no token; nobody
  Skew,        \* tokenRefreshSkew
  Lifetimes,   \* expires_in of the tokens the provider issues
  MaxDelay,    \* how long the provider takes, one way, at most
  MaxTime      \* bound: the clock stops here

(* tokenRefreshSkew is a minute.  http.DefaultClient has no timeout, so    *)
(* that an answer takes less than half of it is the provider's doing; and  *)
(* no token is issued that would not survive the way here and back.        *)
ASSUME TokenAssumption ==
  /\ None \notin Fetch
  /\ Skew \in Nat /\ MaxDelay \in Nat /\ MaxTime \in Nat
  /\ 2 * MaxDelay <= Skew
  /\ Lifetimes \subseteq Nat /\ \A life \in Lifetimes : life > 2 * MaxDelay

VARIABLES
  now,      \* the clock
  mutex,    \* the call that holds mts.mu
  cache,    \* accessToken and expiry, with the provider's own idea of it
  call      \* [Fetch -> the call]

tokenVars == <<now, mutex, cache, call>>

(***************************************************************************)
(* A token is until when the server believes in it (expiry: counted from   *)
(* its receipt) and when it really expires (counted from its issue).       *)
(***************************************************************************)
Token == [expiry : Nat, expires : Nat]

Quiet == [pc |-> "idle", sent |-> 0, life |-> 0, token |-> None]

FreshNoSkew == cache # None /\ now < cache.expiry

Fresh == cache # None /\ now + Skew < cache.expiry

TokenInit ==
  /\ now = 0 /\ mutex = None /\ cache = None
  /\ call = [r \in Fetch |-> Quiet]

(* FetchAuthorizations asks FetchAccessToken for a token. *)
Ask(r) ==
  /\ call[r].pc = "idle"
  /\ call' = [call EXCEPT ![r].pc = "lock"]
  /\ UNCHANGED <<now, mutex, cache>>

(* The ListAuthorizations request leaves with token t. *)
CallWith(r, t) == call' = [call EXCEPT ![r] = [Quiet EXCEPT !.pc = "call", !.sent = now, !.token = t]]

UseCached(r) ==
  /\ call[r].pc = "lock" /\ mutex = None
  /\ Fresh
  /\ CallWith(r, cache)
  /\ UNCHANGED <<now, mutex, cache>>

(* As if the expiry had been looked at before waiting for the mutex. *)
BeginRenewalUnchecked(r) ==
  /\ call[r].pc = "lock" /\ mutex = None
  /\ mutex' = r
  /\ call' = [call EXCEPT ![r].pc = "renew", ![r].sent = now]
  /\ UNCHANGED <<now, cache>>

BeginRenewal(r) ==
  /\ call[r].pc = "lock" /\ mutex = None
  /\ ~Fresh
  /\ mutex' = r
  /\ call' = [call EXCEPT ![r].pc = "renew", ![r].sent = now]
  /\ UNCHANGED <<now, cache>>

(* The provider issues a token; its answer is on the way.                  *)
Issue(r, life) ==
  /\ call[r].pc = "renew"
  /\ call' = [call EXCEPT ![r] =
       [pc |-> "issued", sent |-> now, life |-> life,
        token |-> [expiry |-> 0, expires |-> now + life]]]
  /\ UNCHANGED <<now, mutex, cache>>

(* expiry counts from the receipt of the answer, not from the issue.       *)
RenewalDone(r) ==
  /\ call[r].pc = "issued"
  /\ LET t == [call[r].token EXCEPT !.expiry = now + call[r].life]
     IN  cache' = t /\ CallWith(r, t)
  /\ mutex' = None
  /\ UNCHANGED now

RenewalFailsLocked(r) ==
  /\ call[r].pc \in {"renew", "issued"}
  /\ call' = [call EXCEPT ![r] = [Quiet EXCEPT !.pc = "failed"]]
  /\ UNCHANGED <<now, mutex, cache>>

(* The provider refuses or cannot be reached, or the client, whose context *)
(* the request carries, has gone: the deferred Unlock runs, the cache stays. *)
RenewalFails(r) ==
  /\ call[r].pc \in {"renew", "issued"}
  /\ mutex' = None
  /\ call' = [call EXCEPT ![r] = [Quiet EXCEPT !.pc = "failed"]]
  /\ UNCHANGED <<now, cache>>

(* The provider answers with the authorizations, or the call fails.        *)
Authorized(r) ==
  /\ call[r].pc = "call"
  /\ call' = [call EXCEPT ![r] = [Quiet EXCEPT !.pc = "done"]]
  /\ UNCHANGED <<now, mutex, cache>>

CallFails(r) ==
  /\ call[r].pc = "call"
  /\ call' = [call EXCEPT ![r] = [Quiet EXCEPT !.pc = "failed"]]
  /\ UNCHANGED <<now, mutex, cache>>

(* The caller has its answer. *)
Taken(r) ==
  /\ call[r].pc \in {"done", "failed"}
  /\ call' = [call EXCEPT ![r] = Quiet]
  /\ UNCHANGED <<now, mutex, cache>>

(* Time passes, but no request is on its way for longer than MaxDelay.     *)
Tick ==
  /\ now < MaxTime
  /\ \A r \in Fetch : call[r].pc \in {"renew", "issued", "call"} => now < call[r].sent + MaxDelay
  /\ now' = now + 1
  /\ UNCHANGED <<mutex, cache, call>>

Step(r) ==
  \/ UseCached(r) \/ BeginRenewal(r) \/ (\E life \in Lifetimes : Issue(r, life))
  \/ RenewalDone(r) \/ RenewalFails(r) \/ Authorized(r) \/ CallFails(r)

TokenNext == (\E r \in Fetch : Ask(r) \/ Step(r) \/ Taken(r)) \/ Tick

TokenSpec == TokenInit /\ [][TokenNext]_tokenVars

-----------------------------------------------------------------------------
Call == [pc : {"idle", "lock", "renew", "issued", "call", "done", "failed"},
         sent : Nat, life : Nat, token : Token \cup {None}]

(* Type invariant. *)
TokenTypeOK ==
  /\ now \in Nat
  /\ mutex \in Fetch \cup {None}
  /\ cache \in Token \cup {None}
  /\ call \in [Fetch -> Call]

(* No request reaches the provider with a token it has let expire, although*)
(* the server starts its clock only when it receives the token: the minute *)
(* of tokenRefreshSkew makes up for both ways.                             *)
CallsWithLiveToken ==
  \A r \in Fetch : call[r].pc = "call" => now < call[r].token.expires

(* One call renews at a time, and only while the cache is stale: those that*)
(* waited for the mutex meanwhile use what it brought.                     *)
RenewsOnlyWhenStale ==
  \A r \in Fetch : call[r].pc \in {"renew", "issued"} => mutex = r /\ ~Fresh
=============================================================================
