-------------------------- MODULE AdminUsersProofs --------------------------
(***************************************************************************)
(* Proofs about the users table and the token it asks the provider with:   *)
(* for any number of calls, any skew of at least twice the delay and any   *)
(* lifetimes longer than that, no call uses an expired token; the table    *)
(* uses the token as MachineToken says, and misses no voter, for any       *)
(* number of users, tabs and page sizes.                                   *)
(***************************************************************************)
EXTENDS AdminUsers, FiniteSetTheorems, NaturalsInduction, WellFoundedInduction, TLAPS

-----------------------------------------------------------------------------
(* The machine token.                                                      *)

InFlight == {"renew", "issued", "call"}

(***************************************************************************)
(* The inductive invariant: no request is on its way for longer than       *)
(* MaxDelay; the server's expiry is at most that much too late; a renewal  *)
(* has the mutex and finds the cache stale.                                *)
(***************************************************************************)
CallInv(r) ==
  /\ call[r].pc \in InFlight => call[r].sent <= now /\ now <= call[r].sent + MaxDelay
  /\ call[r].pc = "issued" => /\ call[r].life \in Lifetimes /\ call[r].token \in Token
                              /\ call[r].token.expires = call[r].sent + call[r].life
  /\ call[r].pc = "call" => /\ call[r].token \in Token
                            /\ call[r].sent + MaxDelay < call[r].token.expires
  /\ call[r].pc \in {"renew", "issued"} => mutex = r /\ ~Fresh

CacheInv == cache # None => cache.expiry <= cache.expires + MaxDelay

TokenInv == TokenTypeOK /\ CacheInv /\ \A r \in Fetch : CallInv(r)

(* The assumptions on the numbers, as the provers want them.               *)
LEMMA TokenNumbers ==
  /\ Skew \in Nat /\ MaxDelay \in Nat /\ 2 * MaxDelay <= Skew
  /\ \A life \in Lifetimes : life \in Nat /\ life > 2 * MaxDelay
  /\ None \notin Fetch
BY TokenAssumption DEF TokenAssumption

(* A call that a step leaves alone keeps its part of the invariant, when   *)
(* the clock, the mutex and the cache stay.                                *)
LEMMA CallUntouched ==
  ASSUME NEW r \in Fetch, CallInv(r), call'[r] = call[r], now' = now,
         call[r].pc \in {"renew", "issued"} => mutex' = mutex /\ cache' = cache
  PROVE  CallInv(r)'
BY DEF CallInv, InFlight, Fresh

LEMMA TokenInit_Inv == TokenInit => TokenInv
BY DEF TokenInit, TokenInv, TokenTypeOK, CacheInv, CallInv, InFlight, Quiet, Call, Token

LEMMA TokenStepInv == TokenInv /\ [TokenNext]_tokenVars => TokenInv'
<1> SUFFICES ASSUME TokenInv, [TokenNext]_tokenVars PROVE TokenInv'
  OBVIOUS
<1>0. /\ now \in Nat /\ mutex \in Fetch \cup {None} /\ cache \in Token \cup {None}
      /\ call \in [Fetch -> Call] /\ CacheInv /\ \A r \in Fetch : CallInv(r)
  BY DEF TokenInv, TokenTypeOK
<1>1. \A q, r \in Fetch :
        call[q].pc \in {"renew", "issued"} /\ call[r].pc \in {"renew", "issued"} => q = r
  BY <1>0 DEF CallInv
<1>2. \A r \in Fetch : mutex = None => call[r].pc \notin {"renew", "issued"}
  BY <1>0, TokenNumbers DEF CallInv
<1> USE TokenNumbers
<1>3. ASSUME NEW r \in Fetch, Ask(r) PROVE TokenInv'
  <2>1. /\ UNCHANGED <<now, mutex, cache>>
        /\ call' = [call EXCEPT ![r] = [call[r] EXCEPT !.pc = "lock"]]
    BY <1>3 DEF Ask
  <2>2. call'[r] \in Call /\ call'[r].pc = "lock" /\ \A q \in Fetch \ {r} : call'[q] = call[q]
    BY <1>0, <2>1 DEF Call
  <2>3. CallInv(r)'
    BY <2>2 DEF CallInv, InFlight
  <2>4. \A q \in Fetch \ {r} : CallInv(q)'
    BY <1>0, <2>1, <2>2, CallUntouched
  <2> QED
    BY <1>0, <2>1, <2>2, <2>3, <2>4 DEF TokenInv, TokenTypeOK, CacheInv
<1>4. ASSUME NEW r \in Fetch, UseCached(r) PROVE TokenInv'
  <2> DEFINE new == [Quiet EXCEPT !.pc = "call", !.sent = now, !.token = cache]
  <2>1. UNCHANGED <<now, mutex, cache>> /\ call' = [call EXCEPT ![r] = new] /\ Fresh
    BY <1>4 DEF UseCached, CallWith
  <2>2. cache \in Token /\ cache.expiry \in Nat /\ cache.expires \in Nat
    BY <1>0, <2>1 DEF Fresh, Token
  <2>3. new \in Call /\ new.pc = "call" /\ new.sent = now /\ new.token = cache
    BY <1>0, <2>2 DEF Call, Quiet
  <2>4. now + MaxDelay < cache.expires
    BY <1>0, <2>1, <2>2 DEF CacheInv, Fresh
  <2> HIDE DEF new
  <2>5. call'[r] = new /\ \A q \in Fetch \ {r} : call'[q] = call[q]
    BY <1>0, <2>1
  <2>6. CallInv(r)'
    BY <1>0, <2>1, <2>2, <2>3, <2>4, <2>5 DEF CallInv, InFlight
  <2>7. \A q \in Fetch \ {r} : CallInv(q)'
    BY <1>0, <2>1, <2>5, CallUntouched
  <2> QED
    BY <1>0, <2>1, <2>3, <2>6, <2>7 DEF TokenInv, TokenTypeOK, CacheInv
<1>5. ASSUME NEW r \in Fetch, BeginRenewal(r) PROVE TokenInv'
  <2>1. /\ UNCHANGED <<now, cache>> /\ mutex = None /\ mutex' = r /\ ~Fresh
        /\ call' = [call EXCEPT ![r] = [call[r] EXCEPT !.pc = "renew", !.sent = now]]
    BY <1>5 DEF BeginRenewal
  <2>2. /\ call'[r] \in Call /\ call'[r].pc = "renew" /\ call'[r].sent = now
        /\ \A q \in Fetch \ {r} : call'[q] = call[q]
    BY <1>0, <2>1 DEF Call
  <2>3. CallInv(r)'
    BY <1>0, <2>1, <2>2 DEF CallInv, InFlight, Fresh
  <2>4. \A q \in Fetch \ {r} : CallInv(q)'
    BY <1>0, <1>2, <2>1, <2>2, CallUntouched
  <2> QED
    BY <1>0, <2>1, <2>2, <2>3, <2>4 DEF TokenInv, TokenTypeOK, CacheInv
<1>6. ASSUME NEW r \in Fetch, NEW life \in Lifetimes, Issue(r, life) PROVE TokenInv'
  <2> DEFINE new == [pc |-> "issued", sent |-> now, life |-> life,
                     token |-> [expiry |-> 0, expires |-> now + life]]
  <2>1. /\ UNCHANGED <<now, mutex, cache>> /\ call[r].pc = "renew"
        /\ call' = [call EXCEPT ![r] = new]
    BY <1>6 DEF Issue
  <2>2. /\ new \in Call /\ new.pc = "issued" /\ new.sent = now /\ new.life = life
        /\ new.token \in Token /\ new.token.expires = now + life
    BY <1>0 DEF Call, Token
  <2> HIDE DEF new
  <2>3. call'[r] = new /\ \A q \in Fetch \ {r} : call'[q] = call[q]
    BY <1>0, <2>1
  <2>4. CallInv(r)'
    BY <1>0, <2>1, <2>2, <2>3 DEF CallInv, InFlight, Fresh
  <2>5. \A q \in Fetch \ {r} : CallInv(q)'
    BY <1>0, <2>1, <2>3, CallUntouched
  <2> QED
    BY <1>0, <2>1, <2>2, <2>4, <2>5 DEF TokenInv, TokenTypeOK, CacheInv
<1>7. ASSUME NEW r \in Fetch, RenewalDone(r) PROVE TokenInv'
  <2> DEFINE t == [call[r].token EXCEPT !.expiry = now + call[r].life]
             new == [Quiet EXCEPT !.pc = "call", !.sent = now, !.token = t]
  <2>1. /\ now' = now /\ mutex' = None /\ cache' = t /\ call[r].pc = "issued"
        /\ call' = [call EXCEPT ![r] = new]
    BY <1>7 DEF RenewalDone, CallWith
  <2>2. /\ call[r].life \in Nat /\ call[r].life > 2 * MaxDelay /\ call[r].token \in Token
        /\ call[r].token.expires = call[r].sent + call[r].life
        /\ call[r].sent \in Nat /\ call[r].sent <= now /\ now <= call[r].sent + MaxDelay
    BY <1>0, <2>1 DEF CallInv, InFlight, Call
  <2>3. /\ t \in Token /\ t.expiry = now + call[r].life
        /\ t.expires = call[r].sent + call[r].life
    BY <1>0, <2>2 DEF Token
  <2>4. new \in Call /\ new.pc = "call" /\ new.sent = now /\ new.token = t
    BY <1>0, <2>3 DEF Call, Quiet
  <2>5. t.expiry <= t.expires + MaxDelay /\ now + MaxDelay < t.expires
    BY <1>0, <2>2, <2>3
  <2> HIDE DEF t, new
  <2>6. call'[r] = new /\ \A q \in Fetch \ {r} : call'[q] = call[q]
    BY <1>0, <2>1
  <2>7. CallInv(r)'
    BY <1>0, <2>1, <2>3, <2>4, <2>5, <2>6 DEF CallInv, InFlight
  <2>8. \A q \in Fetch \ {r} : CallInv(q)'
    BY <1>0, <1>1, <2>1, <2>6, CallUntouched
  <2> QED
    BY <1>0, <2>1, <2>3, <2>4, <2>5, <2>7, <2>8 DEF TokenInv, TokenTypeOK, CacheInv
<1>8. ASSUME NEW r \in Fetch, NEW pc \in {"done", "failed"},
             now' = now, cache' = cache, mutex' \in {mutex, None},
             mutex' # mutex => call[r].pc \in {"renew", "issued"},
             \/ call' = [call EXCEPT ![r] = [Quiet EXCEPT !.pc = pc]]
             \/ call' = [call EXCEPT ![r] = Quiet]
      PROVE  TokenInv'
  <2>1. /\ call'[r] \in Call /\ call'[r].pc \in {"done", "failed", "idle"}
        /\ \A q \in Fetch \ {r} : call'[q] = call[q]
        /\ call' \in [Fetch -> Call]
    BY <1>0, <1>8 DEF Call, Quiet
  <2>2. CallInv(r)'
    BY <2>1 DEF CallInv, InFlight
  <2>3. \A q \in Fetch \ {r} : CallInv(q)'
    BY <1>0, <1>1, <1>8, <2>1, CallUntouched
  <2> QED
    BY <1>0, <1>8, <2>1, <2>2, <2>3 DEF TokenInv, TokenTypeOK, CacheInv
<1>9. ASSUME NEW r \in Fetch, RenewalFails(r) \/ Authorized(r) \/ CallFails(r) \/ Taken(r)
      PROVE  TokenInv'
  BY <1>8, <1>9 DEF RenewalFails, Authorized, CallFails, Taken
<1>10. CASE Tick
  <2>1. /\ UNCHANGED <<mutex, cache, call>> /\ now' = now + 1
        /\ \A r \in Fetch : call[r].pc \in InFlight => now < call[r].sent + MaxDelay
    BY <1>10 DEF Tick, InFlight
  <2>2. ~Fresh => ~Fresh'
    <3>1. cache # None => cache.expiry \in Nat
      BY <1>0 DEF Token
    <3> QED
      BY <1>0, <2>1, <3>1 DEF Fresh
  <2>3. \A r \in Fetch : call[r].sent \in Nat
    BY <1>0 DEF Call
  <2>4. ASSUME NEW r \in Fetch PROVE CallInv(r)'
    BY <1>0, <2>1, <2>2, <2>3 DEF CallInv, InFlight
  <2> QED
    BY <1>0, <2>1, <2>4 DEF TokenInv, TokenTypeOK, CacheInv
<1>11. CASE UNCHANGED tokenVars
  <2>1. \A r \in Fetch : CallInv(r)'
    BY <1>0, <1>11, CallUntouched DEF tokenVars
  <2> QED
    BY <1>0, <1>11, <2>1 DEF tokenVars, TokenInv, TokenTypeOK, CacheInv
<1> QED
  BY <1>3, <1>4, <1>5, <1>6, <1>7, <1>9, <1>10, <1>11 DEF TokenNext, Step

LEMMA TokenInvariant == TokenSpec => []TokenInv
BY TokenInit_Inv, TokenStepInv, PTL DEF TokenSpec

(* Type correctness of the machine token.                                  *)
THEOREM TokenTyping == TokenSpec => []TokenTypeOK
<1>1. TokenInv => TokenTypeOK
  BY DEF TokenInv
<1> QED
  BY <1>1, TokenInvariant, PTL

(* No call reaches the provider with an expired token.                     *)
THEOREM TokenCallsLive == TokenSpec => []CallsWithLiveToken
<1>1. TokenInv => CallsWithLiveToken
  <2> SUFFICES ASSUME TokenInv, NEW r \in Fetch, call[r].pc = "call"
               PROVE  now < call[r].token.expires
    BY DEF CallsWithLiveToken
  <2>1. /\ now <= call[r].sent + MaxDelay /\ call[r].sent + MaxDelay < call[r].token.expires
        /\ call[r].token \in Token
    BY DEF TokenInv, CallInv, InFlight
  <2>2. now \in Nat /\ call[r].sent \in Nat /\ MaxDelay \in Nat /\ call[r].token.expires \in Nat
    BY <2>1, TokenNumbers DEF TokenInv, TokenTypeOK, Call, Token
  <2> QED
    BY <2>1, <2>2
<1> QED
  BY <1>1, TokenInvariant, PTL

(* One call renews at a time, and only while the cache is stale.           *)
THEOREM TokenRenewsWhenStale == TokenSpec => []RenewsOnlyWhenStale
<1>1. TokenInv => RenewsOnlyWhenStale
  BY DEF TokenInv, CallInv, RenewsOnlyWhenStale
<1> QED
  BY <1>1, TokenInvariant, PTL

(* The mutex moves on.  Whoever holds it is renewing the token, and its    *)
(* request is on its way for no longer than MaxDelay: nobody holds the     *)
(* mutex while waiting for it, idle, or with an answer in hand.            *)
MutexMoves ==
  mutex # None => /\ mutex \in Fetch /\ call[mutex].pc \in {"renew", "issued"}
                  /\ now <= call[mutex].sent + MaxDelay

Renewing == mutex # None => mutex \in Fetch /\ call[mutex].pc \in {"renew", "issued"}

LEMMA RenewingStep == TokenInv /\ Renewing /\ [TokenNext]_tokenVars => Renewing'
<1> SUFFICES ASSUME TokenInv, Renewing, [TokenNext]_tokenVars PROVE Renewing'
  OBVIOUS
<1>0. call \in [Fetch -> Call] /\ \A r \in Fetch : CallInv(r)
  BY DEF TokenInv, TokenTypeOK
<1>1. ASSUME NEW r \in Fetch, mutex' = mutex, call' = [call EXCEPT ![r] = call'[r]],
             call[r].pc \in {"renew", "issued"} => call'[r].pc \in {"renew", "issued"}
      PROVE  Renewing'
  BY <1>0, <1>1 DEF Renewing
<1>2. ASSUME NEW r \in Fetch, Ask(r) PROVE Renewing'
  BY <1>0, <1>1, <1>2 DEF Ask
<1>3. ASSUME NEW r \in Fetch, Taken(r) \/ UseCached(r) \/ Authorized(r) \/ CallFails(r)
      PROVE  Renewing'
  BY <1>0, <1>1, <1>3 DEF Taken, UseCached, CallWith, Authorized, CallFails
<1>4. ASSUME NEW r \in Fetch, BeginRenewal(r) PROVE Renewing'
  BY <1>0, <1>4 DEF BeginRenewal, Renewing, Call
<1>5. ASSUME NEW r \in Fetch, NEW life \in Lifetimes, Issue(r, life) PROVE Renewing'
  BY <1>0, <1>1, <1>5 DEF Issue
<1>6. ASSUME NEW r \in Fetch, RenewalDone(r) \/ RenewalFails(r) PROVE Renewing'
  BY <1>6 DEF RenewalDone, RenewalFails, Renewing
<1>7. CASE Tick \/ UNCHANGED tokenVars
  BY <1>7 DEF Tick, tokenVars, Renewing
<1> QED
  BY <1>2, <1>3, <1>4, <1>5, <1>6, <1>7 DEF TokenNext, Step

(* No call waits for a mutex that nobody will give back: FetchAccessToken  *)
(* unlocks on every path, and a renewal is always in the provider's hands. *)
THEOREM TokenMutexMoves == TokenSpec => []MutexMoves
<1>1. TokenInit => Renewing
  BY DEF TokenInit, Renewing
<1>2. TokenInv /\ Renewing => MutexMoves
  BY DEF TokenInv, CallInv, InFlight, Renewing, MutexMoves
<1> QED
  BY <1>1, <1>2, RenewingStep, TokenInvariant, PTL DEF TokenSpec

-----------------------------------------------------------------------------
(* The users table.                                                        *)

(* Whatever the tables do to the calls is a step of MachineToken or none.  *)
THEOREM UsersKeepToken == Spec => TokenSpec
<1>1. Init => TokenInit
  BY DEF Init
<1>2. [Next]_vars => [TokenNext]_tokenVars
  BY DEF Next, vars, TokenNext, OpenTable, ScrollOn, GetUsersPaginated, PageShown, PageLost,
         FirstVote
<1> QED
  BY <1>1, <1>2, PTL DEF Spec, TokenSpec

(* Every page is asked for with a token the provider still accepts.        *)
THEOREM UsersCallsLive == Spec => []CallsWithLiveToken
BY UsersKeepToken, TokenCallsLive, PTL

(***************************************************************************)
(* The inductive invariant: up to the cursor everyone who had voted is     *)
(* shown, beyond it nobody; a page being made holds the next of them.      *)
(***************************************************************************)
UpToCursor(t) ==
  /\ t.size \in Nat \ {0}
  /\ t.from \subseteq voters
  /\ \A u \in t.from : u <= t.cursor => u \in t.shown
  /\ \A u \in t.shown : u <= t.cursor

TableInv(r) ==
  /\ table[r].pc \in {"asking", "scrolling"} => UpToCursor(table[r])
  /\ table[r].pc # "asking" => table[r].page = {}
  /\ \A u \in table[r].page : u > table[r].cursor
  /\ \A u \in table[r].from, p \in table[r].page :
       u > table[r].cursor => u \in table[r].page \/ p < u
  /\ table[r].pc = "ended" => table[r].from \subseteq table[r].shown

Inv == voters \subseteq User /\ table \in [Fetch -> Table] /\ \A r \in Fetch : TableInv(r)

LEMMA UserNumbers ==
  /\ User \subseteq Nat /\ 0 \notin User /\ IsFiniteSet(User)
  /\ InitialVoters \subseteq User /\ Sizes \subseteq Nat \ {0}
BY UsersAssumption DEF UsersAssumption

LEMMA TableUntouched ==
  ASSUME NEW r \in Fetch, TableInv(r), table'[r] = table[r], voters \subseteq voters'
  PROVE  TableInv(r)'
BY DEF TableInv, UpToCursor

(* A page asked for from a table that is right up to its cursor.           *)
LEMMA PageGood ==
  ASSUME Inv, NEW r \in Fetch, NEW t \in Table, UpToCursor(t), GetUsersPaginated(r, t)
  PROVE  Inv'
<1>1. PICK page \in SUBSET voters :
        /\ IsPage(page, t.cursor, t.size)
        /\ table' = [table EXCEPT ![r] =
             [t EXCEPT !.page = page, !.pc = IF page = {} THEN "ended" ELSE "asking"]]
        /\ voters' = voters
  BY DEF GetUsersPaginated
<1> DEFINE new == [t EXCEPT !.page = page, !.pc = IF page = {} THEN "ended" ELSE "asking"]
           beyond == {u \in voters : u > t.cursor}
<1>2. voters \subseteq User /\ table \in [Fetch -> Table]
  BY DEF Inv
<1>3. /\ new \in Table /\ new.page = page /\ new.cursor = t.cursor /\ new.size = t.size
      /\ new.shown = t.shown /\ new.from = t.from
      /\ new.pc = IF page = {} THEN "ended" ELSE "asking"
  BY <1>1, <1>2 DEF Table
<1>4. table' = [table EXCEPT ![r] = new]
  BY <1>1
<1>5. /\ page \subseteq beyond /\ (\A u \in page, v \in beyond \ page : u < v)
      /\ Cardinality(page) = IF Cardinality(beyond) < t.size THEN Cardinality(beyond) ELSE t.size
  BY <1>1 DEF IsPage
<1>6. page = {} => beyond = {}
  <2>1. IsFiniteSet(beyond)
    <3>1. beyond \in SUBSET User
      BY <1>2
    <3> QED
      BY <3>1, UserNumbers, FS_Subset
  <2> HIDE DEF beyond
  <2> SUFFICES ASSUME page = {} PROVE beyond = {}
    OBVIOUS
  <2>2. Cardinality(page) = 0 /\ Cardinality(beyond) \in Nat /\ t.size \in Nat \ {0}
    BY <2>1, FS_EmptySet, FS_CardinalityType DEF UpToCursor
  <2>3. Cardinality(beyond) = 0
    BY <1>5, <2>2
  <2> QED
    BY <2>1, <2>3, FS_EmptySet
<1> HIDE DEF new
<1>7. table'[r] = new /\ \A q \in Fetch \ {r} : table'[q] = table[q]
  BY <1>2, <1>4
<1>8. TableInv(r)'
  <2>1. t.cursor \in Nat /\ \A u \in voters : u \in Nat
    BY <1>2, UserNumbers DEF Table
  <2>2. \A u \in t.from : u > t.cursor => u \in beyond
    BY DEF UpToCursor
  <2>3. page = {} => t.from \subseteq t.shown
    BY <1>6, <2>1, <2>2 DEF UpToCursor
  <2>4. \A u \in page : u > t.cursor
    BY <1>5
  <2>5. \A u \in t.from, p \in page : u > t.cursor => u \in page \/ p < u
    BY <1>5, <2>2
  <2>6. UpToCursor(new)'
    BY <1>1, <1>3 DEF UpToCursor
  <2> HIDE DEF beyond
  <2>7. /\ new.pc \in {"asking", "scrolling"} => UpToCursor(new)'
        /\ new.pc # "asking" => new.page = {}
        /\ new.pc = "ended" => new.from \subseteq new.shown
    BY <1>3, <2>3, <2>6
  <2> QED
    BY <1>1, <1>3, <1>7, <2>4, <2>5, <2>6, <2>7 DEF TableInv, UpToCursor
<1>9. \A q \in Fetch \ {r} : TableInv(q)'
  BY <1>1, <1>7, TableUntouched DEF Inv
<1> QED
  BY <1>1, <1>2, <1>3, <1>4, <1>8, <1>9 DEF Inv

LEMMA InvInit == Init => Inv
<1> SUFFICES ASSUME Init PROVE Inv
  OBVIOUS
<1>1. voters \subseteq User /\ table = [r \in Fetch |-> NoTable]
  BY UserNumbers DEF Init
<1>2. NoTable \in Table
  BY DEF NoTable, Table
<1>3. ASSUME NEW r \in Fetch PROVE TableInv(r)
  BY <1>1 DEF TableInv, NoTable
<1> QED
  BY <1>1, <1>2, <1>3 DEF Inv

LEMMA InvStep == Inv /\ [Next]_vars => Inv'
<1> SUFFICES ASSUME Inv, [Next]_vars PROVE Inv'
  OBVIOUS
<1>0. voters \subseteq User /\ table \in [Fetch -> Table] /\ \A r \in Fetch : TableInv(r)
  BY DEF Inv
<1>1. ASSUME NEW r \in Fetch, NEW size \in Sizes, OpenTable(r, size) PROVE Inv'
  <2> DEFINE t == [NoTable EXCEPT !.size = size, !.from = voters]
  <2>1. GetUsersPaginated(r, t)
    BY <1>1 DEF OpenTable
  <2>2. /\ t \in Table /\ t.size = size /\ t.from = voters /\ t.cursor = 0 /\ t.shown = {}
        /\ size \in Nat \ {0}
    BY <1>0, UserNumbers DEF NoTable, Table
  <2>3. \A u \in voters : ~(u <= 0)
    BY <1>0, UserNumbers
  <2>4. UpToCursor(t)
    BY <2>2, <2>3 DEF UpToCursor
  <2> HIDE DEF t
  <2> QED
    BY <2>1, <2>2, <2>4, PageGood
<1>2. ASSUME NEW r \in Fetch, ScrollOn(r) PROVE Inv'
  <2>1. GetUsersPaginated(r, table[r]) /\ table[r] \in Table /\ UpToCursor(table[r])
    BY <1>0, <1>2 DEF ScrollOn, TableInv
  <2> QED
    BY <2>1, PageGood
<1>3. ASSUME NEW r \in Fetch, PageShown(r) PROVE Inv'
  <2>1. PICK last \in table[r].page :
          /\ \A u \in table[r].page : u <= last
          /\ table' = [table EXCEPT ![r] =
               [table[r] EXCEPT !.pc = "scrolling", !.cursor = last, !.page = {},
                                !.shown = @ \cup table[r].page]]
          /\ voters' = voters
    BY <1>3 DEF PageShown
  <2> DEFINE old == table[r]
             new == [table[r] EXCEPT !.pc = "scrolling", !.cursor = last, !.page = {},
                                     !.shown = @ \cup table[r].page]
  <2>2. old \in Table
    BY <1>0
  <2>3. last \in Nat /\ old.page \subseteq User /\ old.cursor \in Nat /\ old.from \subseteq User
        /\ old.shown \subseteq User
    BY <2>1, <2>2, UserNumbers DEF Table
  <2>4. /\ new \in Table /\ new.pc = "scrolling" /\ new.cursor = last /\ new.page = {}
        /\ new.shown = old.shown \cup old.page /\ new.from = old.from /\ new.size = old.size
    BY <2>2, <2>3 DEF Table
  <2>5. table' = [table EXCEPT ![r] = new]
    BY <2>1
  <2>6. old.pc = "asking" /\ UpToCursor(old)
        /\ (\A u \in old.page : u > old.cursor)
        /\ \A u \in old.from, p \in old.page : u > old.cursor => u \in old.page \/ p < u
    BY <1>0, <2>1 DEF TableInv
  <2> HIDE DEF new
  <2>7. table'[r] = new /\ \A q \in Fetch \ {r} : table'[q] = table[q]
    BY <1>0, <2>5
  <2>8. UpToCursor(new)
    <3>1. last > old.cursor /\ \A u \in User : u \in Nat
      BY <2>1, <2>6, UserNumbers
    <3>2. \A u \in old.from : u <= last => u \in old.shown \cup old.page
      BY <2>1, <2>3, <2>6, <3>1 DEF UpToCursor
    <3>3. \A u \in old.shown \cup old.page : u <= last
      BY <2>1, <2>3, <2>6, <3>1 DEF UpToCursor
    <3> QED
      BY <2>1, <2>4, <2>6, <3>2, <3>3 DEF UpToCursor
  <2>9. TableInv(r)'
    BY <2>1, <2>4, <2>7, <2>8 DEF TableInv, UpToCursor
  <2>10. \A q \in Fetch \ {r} : TableInv(q)'
    BY <1>0, <2>1, <2>7, TableUntouched
  <2> QED
    BY <1>0, <2>1, <2>4, <2>5, <2>9, <2>10 DEF Inv
<1>4. ASSUME NEW r \in Fetch, PageLost(r) PROVE Inv'
  <2> DEFINE new == [[table[r] EXCEPT !.pc = "broken"] EXCEPT !.page = {}]
  <2>1. table' = [table EXCEPT ![r] = new] /\ voters' = voters
    BY <1>0, <1>4 DEF PageLost
  <2>2. new \in Table /\ new.pc = "broken" /\ new.page = {}
    BY <1>0 DEF Table
  <2> HIDE DEF new
  <2>3. table'[r] = new /\ \A q \in Fetch \ {r} : table'[q] = table[q]
    BY <1>0, <2>1
  <2>4. TableInv(r)'
    BY <2>2, <2>3 DEF TableInv
  <2>5. \A q \in Fetch \ {r} : TableInv(q)'
    BY <1>0, <2>1, <2>3, TableUntouched
  <2> QED
    BY <1>0, <2>1, <2>2, <2>4, <2>5 DEF Inv
<1>5. ASSUME table' = table, voters \subseteq voters', voters' \subseteq User PROVE Inv'
  BY <1>0, <1>5, TableUntouched DEF Inv
<1>6. ASSUME NEW u \in User, FirstVote(u) PROVE Inv'
  BY <1>0, <1>5, <1>6 DEF FirstVote
<1>7. CASE UNCHANGED <<voters, table>>
  BY <1>0, <1>5, <1>7
<1> QED
  BY <1>1, <1>2, <1>3, <1>4, <1>6, <1>7 DEF Next, vars

LEMMA UsersInvariant == Spec => []Inv
BY InvInit, InvStep, PTL DEF Spec

(* A table read to its end shows everyone who had voted when it was opened,*)
(* and no page repeats a user.                                             *)
THEOREM UsersEveryVoterListed == Spec => []EveryVoterListed
<1>1. Inv => EveryVoterListed
  <2> SUFFICES ASSUME Inv, NEW r \in Fetch
               PROVE  /\ table[r].pc = "ended" => table[r].from \subseteq table[r].shown
                      /\ table[r].page \cap table[r].shown = {}
    BY DEF EveryVoterListed
  <2>1. TableInv(r) /\ table[r] \in Table
    BY DEF Inv
  <2>2. ASSUME NEW u \in table[r].page, u \in table[r].shown PROVE FALSE
    <3>1. u \in Nat /\ table[r].cursor \in Nat
      BY <2>1, UserNumbers DEF Table
    <3>2. u > table[r].cursor /\ u <= table[r].cursor
      BY <2>1, <2>2 DEF TableInv, UpToCursor
    <3> QED
      BY <3>1, <3>2
  <2> QED
    BY <2>1, <2>2 DEF TableInv
<1> QED
  BY <1>1, UsersInvariant, PTL

-----------------------------------------------------------------------------
(* A page that is asked for.                                               *)
(* It has a call of the provider under way, and users to show.             *)
Asking ==
  \A r \in Fetch : /\ table[r].pc = "asking" <=> call[r].pc # "idle"
                   /\ table[r].pc = "asking" => table[r].page # {}

LEMMA AskingPage ==
  ASSUME Inv, TokenInv, Asking, NEW r \in Fetch, NEW t \in Table, table[r].pc # "asking",
         GetUsersPaginated(r, t)
  PROVE  Asking'
<1>0. /\ table \in [Fetch -> Table] /\ call \in [Fetch -> Call]
      /\ \A q \in Fetch : table[q].pc = "asking" <=> call[q].pc # "idle"
      /\ \A q \in Fetch : table[q].pc = "asking" => table[q].page # {}
  BY DEF Inv, TokenInv, TokenTypeOK, Asking
<1>1. PICK page \in SUBSET voters :
        /\ table' = [table EXCEPT ![r] =
             [t EXCEPT !.page = page, !.pc = IF page = {} THEN "ended" ELSE "asking"]]
        /\ IF page = {} THEN UNCHANGED tokenVars ELSE Ask(r)
  BY DEF GetUsersPaginated
<1>2. /\ table'[r].page = page /\ (table'[r].pc = "asking" <=> page # {})
      /\ \A q \in Fetch \ {r} : table'[q] = table[q]
  BY <1>0, <1>1 DEF Table
<1>3. CASE page = {}
  <2>1. call' = call
    BY <1>1, <1>3 DEF tokenVars
  <2> QED
    BY <1>0, <1>2, <1>3, <2>1 DEF Asking
<1>4. CASE page # {}
  <2>1. call' = [call EXCEPT ![r] = [call[r] EXCEPT !.pc = "lock"]]
    BY <1>1, <1>4 DEF Ask
  <2>2. call'[r].pc = "lock" /\ \A q \in Fetch \ {r} : call'[q] = call[q]
    BY <1>0, <2>1 DEF Call
  <2> QED
    BY <1>0, <1>2, <1>4, <2>2 DEF Asking
<1> QED
  BY <1>3, <1>4

LEMMA AskingStep == Inv /\ TokenInv /\ Asking /\ [Next]_vars => Asking'
<1> SUFFICES ASSUME Inv, TokenInv, Asking, [Next]_vars PROVE Asking'
  OBVIOUS
<1>0. /\ table \in [Fetch -> Table] /\ call \in [Fetch -> Call] /\ voters \subseteq User
      /\ \A q \in Fetch : table[q].pc = "asking" <=> call[q].pc # "idle"
      /\ \A q \in Fetch : table[q].pc = "asking" => table[q].page # {}
      /\ Quiet.pc = "idle"
  BY DEF Inv, TokenInv, TokenTypeOK, Asking, Quiet
<1>1. ASSUME NEW r \in Fetch, NEW size \in Sizes, OpenTable(r, size) PROVE Asking'
  <2> DEFINE t == [NoTable EXCEPT !.size = size, !.from = voters]
  <2>1. t \in Table
    BY <1>0, UserNumbers DEF NoTable, Table
  <2> HIDE DEF t
  <2> QED
    BY <1>1, <2>1, AskingPage DEF OpenTable, t
<1>2. ASSUME NEW r \in Fetch, ScrollOn(r) PROVE Asking'
  BY <1>0, <1>2, AskingPage DEF ScrollOn
<1>3. ASSUME NEW r \in Fetch, PageShown(r) \/ PageLost(r) PROVE Asking'
  <2>1. call' = [call EXCEPT ![r] = Quiet]
    BY <1>3 DEF PageShown, PageLost, Taken
  <2>2. table'[r].pc # "asking" /\ \A q \in Fetch \ {r} : table'[q] = table[q]
    <3>1. CASE PageShown(r)
      BY <1>0, <3>1 DEF PageShown, Table
    <3>2. CASE PageLost(r)
      BY <1>0, <3>2 DEF PageLost, Table
    <3> QED
      BY <1>3, <3>1, <3>2
  <2> QED
    BY <1>0, <2>1, <2>2 DEF Asking
<1>4. ASSUME NEW r \in Fetch, Step(r), UNCHANGED <<voters, table>> PROVE Asking'
  <2>1. call[r].pc # "idle"
    BY <1>4 DEF Step, UseCached, BeginRenewal, Issue, RenewalDone, RenewalFails, Authorized,
                CallFails
  <2>2. /\ \A q \in Fetch \ {r} : call'[q] = call[q]
        /\ call'[r].pc # "idle"
    <3>1. CASE UseCached(r) \/ RenewalDone(r)
      BY <1>0, <3>1 DEF UseCached, RenewalDone, CallWith, Quiet
    <3>2. CASE BeginRenewal(r)
      BY <1>0, <3>2 DEF BeginRenewal, Call
    <3>3. ASSUME NEW life \in Lifetimes, Issue(r, life)
          PROVE  call'[r].pc # "idle" /\ \A q \in Fetch \ {r} : call'[q] = call[q]
      BY <1>0, <3>3 DEF Issue
    <3>4. CASE RenewalFails(r) \/ Authorized(r) \/ CallFails(r)
      BY <1>0, <3>4 DEF RenewalFails, Authorized, CallFails, Quiet
    <3> QED
      BY <1>4, <3>1, <3>2, <3>3, <3>4 DEF Step
  <2> QED
    BY <1>0, <1>4, <2>1, <2>2 DEF Asking
<1>5. ASSUME call' = call, table' = table PROVE Asking'
  BY <1>0, <1>5 DEF Asking
<1> QED
  BY <1>1, <1>2, <1>3, <1>4, <1>5 DEF Next, vars, tokenVars, Tick, FirstVote

(* A page has a last user.                                                 *)
LEMMA LastUser ==
  ASSUME NEW P \in SUBSET User, P # {}
  PROVE  \E last \in P : \A u \in P : u <= last
<1> DEFINE Above(u) == {v \in User : u < v}
           T == {Cardinality(Above(u)) : u \in P}
           R == OpToRel(<, Nat)
<1>1. \A u \in P : IsFiniteSet(Above(u)) /\ Cardinality(Above(u)) \in Nat
  BY UserNumbers, FS_Subset, FS_CardinalityType
<1>2. PICK last \in P : \A u \in P : ~(Cardinality(Above(u)) < Cardinality(Above(last)))
  <2>1. IsWellFoundedOn(R, Nat) /\ T \in SUBSET Nat /\ T # {}
    BY <1>1, NatLessThanWellFounded
  <2>2. \A x, y \in Nat : y < x => <<y, x>> \in R
    BY Zenon DEF OpToRel
  <2> HIDE DEF T, R
  <2>3. PICK x \in T : \A y \in T : <<y, x>> \notin R
    BY <2>1, WFMin, Zenon
  <2>4. \A y \in T : ~(y < x)
    BY <2>1, <2>2, <2>3
  <2> HIDE DEF Above
  <2>5. PICK last \in P : x = Cardinality(Above(last))
    BY DEF T
  <2>6. \A u \in P : Cardinality(Above(u)) \in T
    BY DEF T
  <2> QED
    BY <2>4, <2>5, <2>6
<1>3. ASSUME NEW u \in P, last < u PROVE FALSE
  <2>0. last \in Nat /\ u \in Nat /\ u \in User
    BY UserNumbers
  <2>1. Above(u) \subseteq Above(last)
    <3>1. \A v \in User : u < v => last < v
      BY <1>3, <2>0, UserNumbers
    <3> QED
      BY <3>1
  <2>2. u \in Above(last) /\ u \notin Above(u)
    BY <1>3, <2>0
  <2> HIDE DEF Above
  <2>3. /\ Cardinality(Above(u)) <= Cardinality(Above(last))
        /\ Cardinality(Above(u)) # Cardinality(Above(last))
    BY <1>1, <2>1, <2>2, FS_Subset
  <2>4. Cardinality(Above(u)) < Cardinality(Above(last))
    BY <1>1, <2>3
  <2> QED
    BY <1>2, <2>4
<1>4. \A u \in P : u <= last
  <2>1. \A u \in P : u \in Nat /\ last \in Nat
    BY UserNumbers
  <2> QED
    BY <1>3, <2>1
<1> QED
  BY <1>4

(* A page that is waited for: its answer is here, and can be shown or      *)
(* given up; or a request of its own is on its way, for no longer than     *)
(* MaxDelay; or it is the mutex's turn, which moves (MutexMoves).          *)
PagesGoOn ==
  \A r \in Fetch : table[r].pc = "asking" =>
    \/ /\ call[r].pc \in {"done", "failed"}
       /\ \E last \in table[r].page : \A u \in table[r].page : u <= last
    \/ call[r].pc \in InFlight /\ now <= call[r].sent + MaxDelay
    \/ call[r].pc = "lock" /\ MutexMoves

(* No tab is stuck: neither the mutex nor an unanswered call outlives the  *)
(* page it was for, and an answered page can be shown.  PagesAnswered      *)
(* needs no more than that every request is answered and the mutex fair.   *)
THEOREM UsersPagesGoOn == Spec => []PagesGoOn
<1>1. Init => Asking
  <2> SUFFICES ASSUME Init, NEW r \in Fetch
               PROVE  table[r].pc = "closed" /\ call[r].pc = "idle"
    BY DEF Asking
  <2> QED
    BY DEF Init, TokenInit, NoTable, Quiet
<1>2. Inv /\ TokenInv /\ Asking /\ MutexMoves => PagesGoOn
  <2> SUFFICES ASSUME Inv, TokenInv, Asking, MutexMoves, NEW r \in Fetch, table[r].pc = "asking"
               PROVE  \/ /\ call[r].pc \in {"done", "failed"}
                         /\ \E last \in table[r].page : \A u \in table[r].page : u <= last
                      \/ call[r].pc \in InFlight /\ now <= call[r].sent + MaxDelay
                      \/ call[r].pc = "lock" /\ MutexMoves
    BY DEF PagesGoOn
  <2>1. call[r] \in Call /\ call[r].pc # "idle" /\ CallInv(r)
    BY DEF TokenInv, TokenTypeOK, Asking
  <2>2. \E last \in table[r].page : \A u \in table[r].page : u <= last
    <3>1. table[r].page \in SUBSET User /\ table[r].page # {}
      BY DEF Inv, Table, Asking
    <3> QED
      BY <3>1, LastUser
  <2> QED
    BY <2>1, <2>2 DEF Call, CallInv, InFlight
<1>3. TokenSpec => []TokenInv
  BY TokenInvariant
<1> QED
  BY <1>1, <1>2, <1>3, AskingStep, UsersInvariant, UsersKeepToken, TokenMutexMoves, PTL DEF Spec
=============================================================================
