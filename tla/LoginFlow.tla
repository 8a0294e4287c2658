----------------------------- MODULE LoginFlow ------------------------------
(***************************************************************************)
(* Logging in through the identity provider.  The server keeps nothing of a*)
(* login under way: its challenge (state, nonce and PKCE verifier) travels *)
(* in a cookie of the browser, sealed with the server's key, and comes back*)
(* with the callback.  All tabs of a browser share that cookie, and the    *)
(* cookie that says where to go after the login.                           *)
(*                                                                         *)
(* The provider gives a code for a challenge and takes it once, with its   *)
(* verifier.  What InitSession does with the database is in Sessions.      *)
(***************************************************************************)
EXTENDS Naturals, FiniteSets

CONSTANTS
  Browser,
  Challenge,      \* one for every call of NewLoginChallenge
  Request,        \* callbacks in flight at one time (a slot is used again)
  Page,           \* where a login may return to
  DefaultPage,    \* defaultReturnToPath
  NoBrowser,
  None,           \* no challenge: no cookie
  EphemeralKey,   \* AES_KEY is not set
  MaxRestarts     \* bound: restarts of the server

ASSUME LoginFlowAssumption ==
  /\ None \notin Challenge /\ NoBrowser \notin Browser
  /\ DefaultPage \in Page /\ None \notin Page
  /\ EphemeralKey \in BOOLEAN /\ MaxRestarts \in Nat

VARIABLES
  login,      \* [Challenge -> who began it, from which page, sealed with which key, and its code]
  old,        \* challenges whose five minutes are over
  flow,       \* [Browser -> the challenge in its __Host-oidc_flow cookie]
  returnTo,   \* [Browser -> its return_to cookie]
  session,    \* [Browser -> the challenge that opened the session of its cookie]
  opened,     \* [Challenge -> how many sessions it has opened]
  latest,     \* [Browser -> the challenge it has begun last]
  task,       \* [Request -> CallbackHandler]
  restarts

cookies == <<flow, returnTo, session>>
vars == <<login, old, cookies, opened, latest, task, restarts>>

NotBegun == [browser |-> NoBrowser, next |-> DefaultPage, key |-> 0, code |-> "none"]

(* A callback's url names a challenge by its state and its code; flow and  *)
(* next are the cookies it was sent with.                                  *)
Idle == [pc |-> "idle", browser |-> NoBrowser, url |-> None, flow |-> None, next |-> None]

Init ==
  /\ login = [c \in Challenge |-> NotBegun]
  /\ old = {}
  /\ flow = [b \in Browser |-> None]
  /\ returnTo = [b \in Browser |-> None]
  /\ session = [b \in Browser |-> None]
  /\ opened = [c \in Challenge |-> 0]
  /\ latest = [b \in Browser |-> None]
  /\ task = [r \in Request |-> Idle]
  /\ restarts = 0

(* loadAESKey: without AES_KEY every start of the server makes a new one. *)
Key == IF EphemeralKey THEN restarts ELSE 0

GoTo(r, pc) == task' = [task EXCEPT ![r].pc = pc]

(* The handler has answered with an error; the cookies stay as they are. *)
Refuse(r) == task' = [task EXCEPT ![r] = Idle]

-----------------------------------------------------------------------------
(* The browser and the provider.                                           *)

(* Mutants: one challenge for all logins; no cookie for the default page.  *)
LoginWithAnyChallenge(b, p) ==
  /\ \E c \in Challenge :
       /\ login' = [login EXCEPT ![c] = [browser |-> b, next |-> p, key |-> Key, code |-> "none"]]
       /\ flow' = [flow EXCEPT ![b] = c]
       /\ latest' = [latest EXCEPT ![b] = c]
  /\ returnTo' = [returnTo EXCEPT ![b] = p]
  /\ UNCHANGED <<old, session, opened, task, restarts>>

LoginLeavingReturnTo(b, p) ==
  /\ \E c \in Challenge :
       /\ login[c] = NotBegun
       /\ login' = [login EXCEPT ![c] = [browser |-> b, next |-> p, key |-> Key, code |-> "none"]]
       /\ flow' = [flow EXCEPT ![b] = c]
       /\ latest' = [latest EXCEPT ![b] = c]
  /\ returnTo' = IF p = DefaultPage THEN returnTo ELSE [returnTo EXCEPT ![b] = p]
  /\ UNCHANGED <<old, session, opened, task, restarts>>

(* The answer of LoginHandler reaches the browser: both cookies are set, over *)
(* those of a login in another tab.                                        *)
Login(b, p) ==
  /\ \E c \in Challenge :
       /\ login[c] = NotBegun
       /\ login' = [login EXCEPT ![c] = [browser |-> b, next |-> p, key |-> Key, code |-> "none"]]
       /\ flow' = [flow EXCEPT ![b] = c]
       /\ latest' = [latest EXCEPT ![b] = c]
  /\ returnTo' = [returnTo EXCEPT ![b] = p]
  /\ UNCHANGED <<old, session, opened, task, restarts>>

(* The user logs in at the provider, which makes a code for the challenge. *)
Authorize(c) ==
  /\ login[c].browser # NoBrowser /\ login[c].code = "none"
  /\ login' = [login EXCEPT ![c].code = "valid"]
  /\ UNCHANGED <<old, cookies, opened, latest, task, restarts>>

(* Both cookies have a Max-Age of five minutes, and the sealed one says so *)
(* inside as well.                                                         *)
GrowOld(c) ==
  /\ login[c].browser # NoBrowser /\ c \notin old
  /\ old' = old \cup {c}
  /\ flow' = [b \in Browser |-> IF flow[b] = c THEN None ELSE flow[b]]
  /\ returnTo' = [b \in Browser |-> IF flow[b] = c THEN None ELSE returnTo[b]]
  /\ UNCHANGED <<login, session, opened, latest, task, restarts>>

(* A browser opens a callback url: redirected, reloaded, or handed it by   *)
(* somebody else.                                                          *)
Callback(r, b, c) ==
  /\ task[r].pc = "idle" /\ login[c].code # "none"
  /\ task' = [task EXCEPT ![r] = [pc |-> "check", browser |-> b, url |-> c,
                                  flow |-> flow[b], next |-> returnTo[b]]]
  /\ UNCHANGED <<login, old, cookies, opened, latest, restarts>>

-----------------------------------------------------------------------------
(* CallbackHandler.                                                        *)

(* ReadCookie: there is one, it opens with the key and has not run out. *)
Readable(c) == c # None /\ login[c].key = Key /\ c \notin old

CheckFlow(r) ==
  /\ task[r].pc = "check"
  /\ Readable(task[r].flow) /\ task[r].flow = task[r].url
  /\ GoTo(r, "exchange")
  /\ UNCHANGED <<login, old, cookies, opened, latest, restarts>>

(* The cookie goes with the error. *)
FlowRefusedClearing(r) ==
  /\ task[r].pc = "check"
  /\ ~Readable(task[r].flow) \/ task[r].flow # task[r].url
  /\ Refuse(r)
  /\ flow' = [flow EXCEPT ![task[r].browser] = None]
  /\ UNCHANGED <<login, old, returnTo, session, opened, latest, restarts>>

FlowRefused(r) ==
  /\ task[r].pc = "check"
  /\ ~Readable(task[r].flow) \/ task[r].flow # task[r].url
  /\ Refuse(r)
  /\ UNCHANGED <<login, old, cookies, opened, latest, restarts>>

(* The provider takes a code once, with the verifier of its challenge; the *)
(* nonce in the ID token is that challenge's.                              *)
Accepts(r) == login[task[r].url].code = "valid" /\ task[r].flow = task[r].url

SpendCode(r) == login' = [login EXCEPT ![task[r].url].code = "spent"]

Exchange(r) ==
  /\ task[r].pc = "exchange" /\ Accepts(r)
  /\ SpendCode(r)
  /\ GoTo(r, "initSession")
  /\ UNCHANGED <<old, cookies, opened, latest, restarts>>

(* The provider has spent the code, but no usable answer arrives. *)
ExchangeLost(r) ==
  /\ task[r].pc = "exchange" /\ Accepts(r)
  /\ SpendCode(r)
  /\ Refuse(r)
  /\ UNCHANGED <<old, cookies, opened, latest, restarts>>

(* Mutants: the handler goes on after an error; it never answers. *)
ExchangeErrorIgnored(r) ==
  /\ task[r].pc = "exchange"
  /\ GoTo(r, "initSession")
  /\ UNCHANGED <<login, old, cookies, opened, latest, restarts>>

ExchangeErrorUnanswered(r) ==
  /\ task[r].pc = "exchange"
  /\ GoTo(r, "failed")
  /\ UNCHANGED <<login, old, cookies, opened, latest, restarts>>

(* The code has been spent or the provider cannot be reached. *)
ExchangeFails(r) ==
  /\ task[r].pc = "exchange"
  /\ Refuse(r)
  /\ UNCHANGED <<login, old, cookies, opened, latest, restarts>>

InitSession(r) ==
  /\ task[r].pc = "initSession"
  /\ opened' = [opened EXCEPT ![task[r].url] = @ + 1]
  /\ GoTo(r, "answer")
  /\ UNCHANGED <<login, old, cookies, latest, restarts>>

(* Answered with 500: the code is gone, and the flow cookie stays. *)
InitSessionFails(r) ==
  /\ task[r].pc = "initSession"
  /\ Refuse(r)
  /\ UNCHANGED <<login, old, cookies, opened, latest, restarts>>

(* The redirect a successful callback is answered with. *)
Destination(r) == IF task[r].next = None THEN DefaultPage ELSE task[r].next

(* Sets the session cookie and drops the two others, whatever they hold by *)
(* now: the browser may have begun another login since it sent the request.*)
Answer(r) ==
  /\ task[r].pc = "answer"
  /\ LET b == task[r].browser
     IN  /\ session' = [session EXCEPT ![b] = task[r].url]
         /\ flow' = [flow EXCEPT ![b] = None]
         /\ returnTo' = [returnTo EXCEPT ![b] = None]
  /\ task' = [task EXCEPT ![r] = Idle]
  /\ UNCHANGED <<login, old, opened, latest, restarts>>

(* The client goes away; the handler's work so far stays done. *)
AnswerLost(r) ==
  /\ task[r].pc # "idle"
  /\ Refuse(r)
  /\ UNCHANGED <<login, old, cookies, opened, latest, restarts>>

Restart ==
  /\ restarts < MaxRestarts
  /\ restarts' = restarts + 1
  /\ task' = [r \in Request |-> Idle]
  /\ UNCHANGED <<login, old, cookies, opened, latest>>

-----------------------------------------------------------------------------
Proceed(r) == CheckFlow(r) \/ FlowRefused(r) \/ Exchange(r) \/ InitSession(r) \/ Answer(r)

GoesWrong(r) == ExchangeLost(r) \/ ExchangeFails(r) \/ InitSessionFails(r) \/ AnswerLost(r)

Next ==
  \/ \E b \in Browser, p \in Page : Login(b, p)
  \/ \E c \in Challenge : Authorize(c) \/ GrowOld(c)
  \/ \E r \in Request, b \in Browser, c \in Challenge : Callback(r, b, c)
  \/ \E r \in Request : Proceed(r) \/ GoesWrong(r)
  \/ Restart

Spec == Init /\ [][Next]_vars

-----------------------------------------------------------------------------
(* Properties.                                                             *)
LoginRecord == [browser : Browser \cup {NoBrowser}, next : Page, key : 0..MaxRestarts,
                code : {"none", "valid", "spent"}]

Task == [pc : {"idle", "check", "exchange", "initSession", "answer"},
         browser : Browser \cup {NoBrowser}, url : Challenge \cup {None},
         flow : Challenge \cup {None}, next : Page \cup {None}]

(* Type invariant. *)
TypeOK ==
  /\ login \in [Challenge -> LoginRecord] /\ old \subseteq Challenge
  /\ flow \in [Browser -> Challenge \cup {None}]
  /\ returnTo \in [Browser -> Page \cup {None}]
  /\ session \in [Browser -> Challenge \cup {None}]
  /\ latest \in [Browser -> Challenge \cup {None}]
  /\ opened \in [Challenge -> Nat]
  /\ task \in [Request -> Task]
  /\ restarts \in 0..MaxRestarts

(* A browser's session comes of a login that browser has begun, whoever    *)
(* opens which callback url.                                               *)
SessionOfOwnLogin ==
  \A b \in Browser : session[b] # None => login[session[b]].browser = b

(* A login opens one session, however often its callback is reloaded and   *)
(* however the reloads overlap.                                            *)
OneSessionPerLogin == \A c \in Challenge : opened[c] <= 1

(* The login a browser has begun last keeps its flow cookie for five       *)
(* minutes, unless the browser has got a session: no refused or failed     *)
(* callback, of this tab or another, takes it away.  With AES_KEY set the  *)
(* server can read the cookie all the time, across restarts.               *)
LatestLoginKept ==
  \A b \in Browser :
    LET c == latest[b]
    IN  c # None /\ c \notin old =>
          \/ flow[b] = c /\ (EphemeralKey \/ Readable(c))
          \/ session[b] # None

(* A login returns to the page it was begun from: the two cookies of a     *)
(* callback that succeeds are of the same login, though tabs overwrite both*)
(* and the answer to one drops both, whosever they are by then.            *)
ReturnsWhereItBegan ==
  \A r \in Request : task[r].pc = "answer" => Destination(r) = login[task[r].url].next
=============================================================================
