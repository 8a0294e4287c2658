-------------------------- MODULE LoginFlowProofs ---------------------------
(***************************************************************************)
(* The safety of LoginFlow for any number of browsers, logins, callbacks   *)
(* and restarts.                                                           *)
(***************************************************************************)
EXTENDS LoginFlow, TLAPS

(* The flow cookie of a browser is of a login it has begun itself, and the *)
(* return_to cookie beside it is of the same login.                        *)
CookiesAgree ==
  \A b \in Browser :
    flow[b] # None => /\ login[flow[b]].browser = b
                      /\ returnTo[b] = login[flow[b]].next

(* So are the cookies a callback was sent with. *)
CallbacksAgree ==
  \A r \in Request :
    task[r].pc # "idle" => /\ task[r].browser \in Browser /\ task[r].url \in Challenge
                           /\ task[r].flow # None =>
                                /\ login[task[r].flow].browser = task[r].browser
                                /\ task[r].next = login[task[r].flow].next

(* Past the comparison of the states, the url is of the cookie's login. *)
PastTheCheck ==
  \A r \in Request :
    task[r].pc \in {"exchange", "initSession", "answer"} => task[r].flow = task[r].url

(* Of all the callbacks of a login, one at most holds its tokens, and none *)
(* does before the code is spent or after the session is open.             *)
TokensOnce ==
  /\ \A c \in Challenge : login[c].code # "spent" => opened[c] = 0
  /\ \A r \in Request :
       task[r].pc = "initSession" => /\ login[task[r].url].code = "spent"
                                     /\ opened[task[r].url] = 0
  /\ \A r, q \in Request :
       task[r].pc = "initSession" /\ task[q].pc = "initSession"
         /\ task[r].url = task[q].url => r = q

(* Without AES_KEY a restart changes the key; with it, nothing does. *)
KeyStays == ~EphemeralKey => \A c \in Challenge : login[c].key = 0

(* The cookie of the latest login is there, or there is a session. *)
LatestFlow ==
  \A b \in Browser :
    latest[b] # None /\ latest[b] \notin old => flow[b] = latest[b] \/ session[b] # None

(* The inductive invariant. *)
IInv ==
  /\ TypeOK /\ KeyStays
  /\ CookiesAgree /\ CallbacksAgree /\ PastTheCheck /\ TokensOnce
  /\ SessionOfOwnLogin /\ OneSessionPerLogin /\ LatestFlow
-----------------------------------------------------------------------------
(* The invariant holds at the start. *)
LEMMA InvariantInit == Init => IInv
<1> SUFFICES ASSUME Init PROVE IInv
  OBVIOUS
<1>1. TypeOK
  BY LoginFlowAssumption DEF LoginFlowAssumption, Init, TypeOK, NotBegun, Idle, LoginRecord, Task
<1>2. KeyStays /\ CookiesAgree /\ CallbacksAgree /\ PastTheCheck /\ TokensOnce
  BY DEF KeyStays, Init, NotBegun, Idle, CookiesAgree, CallbacksAgree, PastTheCheck, TokensOnce
<1>3. SessionOfOwnLogin /\ OneSessionPerLogin /\ LatestFlow
  BY DEF Init, KeyStays, SessionOfOwnLogin, OneSessionPerLogin, LatestFlow
<1> QED
  BY <1>1, <1>2, <1>3 DEF IInv

(* A login begins with a challenge nobody holds yet. *)
LEMMA LoginKeeps ==
  ASSUME IInv, NEW b \in Browser, NEW p \in Page, Login(b, p)
  PROVE  IInv'
<1> USE DEF IInv
<1>0. PICK c \in Challenge :
        /\ login[c] = NotBegun
        /\ login' = [login EXCEPT ![c] = [browser |-> b, next |-> p, key |-> Key, code |-> "none"]]
        /\ flow' = [flow EXCEPT ![b] = c]
        /\ latest' = [latest EXCEPT ![b] = c]
  BY DEF Login
<1>1. /\ returnTo' = [returnTo EXCEPT ![b] = p]
      /\ UNCHANGED <<old, session, opened, task, restarts>>
  BY DEF Login
<1>2. Key \in 0..MaxRestarts
  BY LoginFlowAssumption DEF LoginFlowAssumption, Key, TypeOK
<1>3. TypeOK'
  BY <1>0, <1>1, <1>2 DEF TypeOK, LoginRecord
<1>4. \A e \in Challenge : e # c => login'[e] = login[e]
  BY <1>0 DEF TypeOK
<1>5. login'[c].browser = b /\ login'[c].next = p /\ login'[c].code = "none"
      /\ login[c].browser = NoBrowser /\ login[c].code = "none"
  BY <1>0 DEF TypeOK, NotBegun
<1>6. NoBrowser \notin Browser /\ None \notin Challenge
  BY LoginFlowAssumption DEF LoginFlowAssumption
<1>7. CookiesAgree'
  BY <1>0, <1>1, <1>4, <1>5, <1>6 DEF CookiesAgree, TypeOK
<1>8. CallbacksAgree'
  BY <1>1, <1>4, <1>5, <1>6 DEF CallbacksAgree, TypeOK, Task
<1>9. PastTheCheck'
  BY <1>1 DEF PastTheCheck
<1>10. TokensOnce'
  BY <1>1, <1>4, <1>5 DEF TokensOnce, CallbacksAgree, TypeOK
<1>11. SessionOfOwnLogin'
  BY <1>1, <1>4, <1>5, <1>6 DEF SessionOfOwnLogin, TypeOK
<1>12. OneSessionPerLogin'
  BY <1>1 DEF OneSessionPerLogin
<1>13. LatestFlow'
  BY <1>0, <1>1 DEF LatestFlow, TypeOK
<1>14. KeyStays'
  <2>1. login'[c].key = Key
    BY <1>0 DEF TypeOK
  <2> QED
    BY <1>4, <2>1 DEF KeyStays, Key
<1> QED
  BY <1>3, <1>7, <1>8, <1>9, <1>10, <1>11, <1>12, <1>13, <1>14

(* What the provider and the clock do to a login. *)
LEMMA OutsideKeeps ==
  ASSUME IInv, NEW c \in Challenge, Authorize(c) \/ GrowOld(c)
  PROVE  IInv'
<1> USE DEF IInv
<1>1. CASE Authorize(c)
  <2>1. TypeOK'
    BY <1>1 DEF Authorize, cookies, TypeOK, LoginRecord
  <2>2. \A e \in Challenge : /\ login'[e].browser = login[e].browser
                             /\ login'[e].next = login[e].next
                             /\ login'[e].key = login[e].key
                             /\ e # c => login'[e] = login[e]
    BY <1>1 DEF Authorize, TypeOK, LoginRecord
  <2>3. login[c].code = "none" /\ login'[c].code = "valid"
    BY <1>1 DEF Authorize, TypeOK, LoginRecord
  <2>4. CookiesAgree' /\ CallbacksAgree' /\ PastTheCheck'
    BY <1>1, <2>2 DEF Authorize, cookies, CookiesAgree, CallbacksAgree, PastTheCheck, TypeOK, Task
  <2>5. TokensOnce'
    BY <1>1, <2>2, <2>3 DEF Authorize, TokensOnce, CallbacksAgree
  <2>6. KeyStays' /\ SessionOfOwnLogin' /\ OneSessionPerLogin' /\ LatestFlow'
    BY <1>1, <2>2 DEF Authorize, cookies, KeyStays, SessionOfOwnLogin, OneSessionPerLogin, LatestFlow, TypeOK
  <2> QED
    BY <2>1, <2>4, <2>5, <2>6
<1>2. CASE GrowOld(c)
  <2>1. TypeOK'
    BY <1>2 DEF GrowOld, TypeOK
  <2>2. CookiesAgree' /\ LatestFlow'
    BY <1>2 DEF GrowOld, CookiesAgree, LatestFlow, TypeOK
  <2>3. CallbacksAgree' /\ PastTheCheck' /\ TokensOnce'
    BY <1>2 DEF GrowOld, CallbacksAgree, PastTheCheck, TokensOnce
  <2>4. KeyStays' /\ SessionOfOwnLogin' /\ OneSessionPerLogin'
    BY <1>2 DEF GrowOld, KeyStays, SessionOfOwnLogin, OneSessionPerLogin
  <2> QED
    BY <2>1, <2>2, <2>3, <2>4
<1> QED
  BY <1>1, <1>2

(* A callback arrives with the cookies its browser has. *)
LEMMA CallbackKeeps ==
  ASSUME IInv, NEW r \in Request, NEW b \in Browser, NEW c \in Challenge, Callback(r, b, c)
  PROVE  IInv'
<1> USE DEF IInv
<1>1. /\ task' = [task EXCEPT ![r] = [pc |-> "check", browser |-> b, url |-> c,
                                      flow |-> flow[b], next |-> returnTo[b]]]
      /\ UNCHANGED <<login, old, cookies, opened, latest, restarts>>
  BY DEF Callback
<1>2. TypeOK'
  BY <1>1 DEF TypeOK, Task, cookies
<1>3. \A q \in Request : q # r => task'[q] = task[q]
  BY <1>1 DEF TypeOK
<1>4. task'[r].pc = "check" /\ task'[r].browser = b /\ task'[r].url = c
      /\ task'[r].flow = flow[b] /\ task'[r].next = returnTo[b]
  BY <1>1 DEF TypeOK
<1>5. CallbacksAgree' /\ PastTheCheck' /\ TokensOnce'
  BY <1>1, <1>3, <1>4 DEF cookies, CookiesAgree, CallbacksAgree, PastTheCheck, TokensOnce
<1>6. CookiesAgree' /\ KeyStays' /\ SessionOfOwnLogin' /\ OneSessionPerLogin' /\ LatestFlow'
  BY <1>1 DEF cookies, CookiesAgree, KeyStays, SessionOfOwnLogin, OneSessionPerLogin, LatestFlow
<1> QED
  BY <1>2, <1>5, <1>6

(* A callback that is refused, fails or loses its client leaves the cookies*)
(* and the sessions alone.                                                 *)
LEMMA RefusalKeeps ==
  ASSUME IInv, NEW r \in Request, Refuse(r),
         UNCHANGED <<login, old, cookies, opened, latest, restarts>>
  PROVE  IInv'
<1> USE DEF IInv
<1>1. TypeOK'
  BY DEF Refuse, Idle, TypeOK, Task, cookies
<1>2. \A q \in Request : q # r => task'[q] = task[q]
  BY DEF Refuse, TypeOK
<1>3. task'[r].pc = "idle"
  BY DEF Refuse, Idle, TypeOK
<1>4. CallbacksAgree' /\ PastTheCheck' /\ TokensOnce'
  BY <1>2, <1>3 DEF CallbacksAgree, PastTheCheck, TokensOnce
<1>5. CookiesAgree' /\ KeyStays' /\ SessionOfOwnLogin' /\ OneSessionPerLogin' /\ LatestFlow'
  BY DEF cookies, CookiesAgree, KeyStays, SessionOfOwnLogin, OneSessionPerLogin, LatestFlow
<1> QED
  BY <1>1, <1>4, <1>5
(* A step of one callback that changes nothing but where it stands, and    *)
(* perhaps its login's code, which it spends.                              *)
LEMMA StepEffect ==
  ASSUME TypeOK, NEW r \in Request, NEW pc \in {"exchange", "initSession", "answer"}, GoTo(r, pc)
  PROVE  /\ task' \in [Request -> Task]
         /\ \A q \in Request : q # r => task'[q] = task[q]
         /\ task'[r].pc = pc
         /\ \A q \in Request : /\ task'[q].browser = task[q].browser /\ task'[q].url = task[q].url
                               /\ task'[q].flow = task[q].flow /\ task'[q].next = task[q].next
<1>1. task' = [task EXCEPT ![r] = [task[r] EXCEPT !.pc = pc]]
  BY DEF GoTo, TypeOK
<1>2. task[r] \in Task /\ [task[r] EXCEPT !.pc = pc] \in Task
  BY DEF TypeOK, Task
<1>3. task' \in [Request -> Task] /\ task'[r] = [task[r] EXCEPT !.pc = pc]
  BY <1>1, <1>2 DEF TypeOK
<1> QED
  BY <1>1, <1>2, <1>3 DEF TypeOK, Task

LEMMA SpendEffect ==
  ASSUME TypeOK, NEW r \in Request, task[r].url \in Challenge, SpendCode(r)
  PROVE  /\ login' \in [Challenge -> LoginRecord]
         /\ login'[task[r].url].code = "spent"
         /\ \A c \in Challenge : /\ login'[c].browser = login[c].browser
                                 /\ login'[c].next = login[c].next
                                 /\ login'[c].key = login[c].key
                                 /\ c # task[r].url => login'[c].code = login[c].code
<1> DEFINE c == task[r].url
<1>1. login' = [login EXCEPT ![c] = [login[c] EXCEPT !.code = "spent"]]
  BY DEF SpendCode, TypeOK
<1>2. login[c] \in LoginRecord /\ [login[c] EXCEPT !.code = "spent"] \in LoginRecord
  BY DEF TypeOK, LoginRecord
<1> QED
  BY <1>1, <1>2 DEF TypeOK, LoginRecord

(* The check compares the url's login with the cookie's. *)
LEMMA CheckKeeps ==
  ASSUME IInv, NEW r \in Request, CheckFlow(r)
  PROVE  IInv'
<1> USE DEF IInv
<1>1. /\ task[r].pc = "check" /\ task[r].flow = task[r].url /\ GoTo(r, "exchange")
      /\ UNCHANGED <<login, old, cookies, opened, latest, restarts>>
  BY DEF CheckFlow
<1>2. /\ task' \in [Request -> Task]
      /\ \A q \in Request : q # r => task'[q] = task[q]
      /\ task'[r].pc = "exchange"
      /\ \A q \in Request : /\ task'[q].browser = task[q].browser /\ task'[q].url = task[q].url
                            /\ task'[q].flow = task[q].flow /\ task'[q].next = task[q].next
  BY <1>1, StepEffect
<1>3. TypeOK'
  BY <1>1, <1>2 DEF cookies, TypeOK
<1>4. CallbacksAgree' /\ PastTheCheck' /\ TokensOnce'
  BY <1>1, <1>2 DEF CallbacksAgree, PastTheCheck, TokensOnce
<1>5. CookiesAgree' /\ KeyStays' /\ SessionOfOwnLogin' /\ OneSessionPerLogin' /\ LatestFlow'
  BY <1>1 DEF cookies, CookiesAgree, KeyStays, SessionOfOwnLogin, OneSessionPerLogin, LatestFlow
<1> QED
  BY <1>3, <1>4, <1>5

(* The provider spends the code, and this callback, or none, has the tokens. *)
LEMMA ExchangeKeeps ==
  ASSUME IInv, NEW r \in Request, Exchange(r) \/ ExchangeLost(r)
  PROVE  IInv'
<1> USE DEF IInv
<1>1. /\ task[r].pc = "exchange" /\ login[task[r].url].code = "valid" /\ SpendCode(r)
      /\ UNCHANGED <<old, cookies, opened, latest, restarts>>
  BY DEF Exchange, ExchangeLost, Accepts
<1>2. task[r].url \in Challenge
  BY <1>1 DEF CallbacksAgree
<1>3. /\ login' \in [Challenge -> LoginRecord]
      /\ login'[task[r].url].code = "spent"
      /\ \A c \in Challenge : /\ login'[c].browser = login[c].browser
                              /\ login'[c].next = login[c].next
                              /\ login'[c].key = login[c].key
                              /\ c # task[r].url => login'[c].code = login[c].code
  BY <1>1, <1>2, SpendEffect
<1>4. CookiesAgree' /\ KeyStays' /\ SessionOfOwnLogin' /\ OneSessionPerLogin' /\ LatestFlow'
  <2>1. KeyStays'
    BY <1>3 DEF KeyStays
  <2>2. CookiesAgree'
    BY <1>1, <1>3 DEF cookies, CookiesAgree, TypeOK
  <2>3. SessionOfOwnLogin'
    BY <1>1, <1>3 DEF cookies, SessionOfOwnLogin, TypeOK
  <2>4. OneSessionPerLogin' /\ LatestFlow'
    BY <1>1 DEF cookies, OneSessionPerLogin, LatestFlow
  <2> QED
    BY <2>1, <2>2, <2>3, <2>4
<1>5. opened[task[r].url] = 0 /\ \A q \in Request : task[q].pc = "initSession" => task[q].url # task[r].url
  BY <1>1, <1>2 DEF TokensOnce
<1>6. CASE Exchange(r)
  <2>1. /\ task' \in [Request -> Task]
        /\ \A q \in Request : q # r => task'[q] = task[q]
        /\ task'[r].pc = "initSession"
        /\ \A q \in Request : /\ task'[q].browser = task[q].browser /\ task'[q].url = task[q].url
                              /\ task'[q].flow = task[q].flow /\ task'[q].next = task[q].next
    BY <1>6, StepEffect DEF Exchange
  <2>2. TypeOK'
    BY <1>1, <1>3, <2>1 DEF cookies, TypeOK
  <2>3. \A q \in Request : task'[q].pc # "idle" => task[q].pc # "idle"
    BY <1>1, <2>1
  <2>4. \A q \in Request : task[q].flow \in Challenge \cup {None}
    BY DEF TypeOK, Task
  <2>5. CallbacksAgree'
    BY <1>3, <2>1, <2>3, <2>4 DEF CallbacksAgree
  <2>6. PastTheCheck'
    BY <1>1, <2>1 DEF PastTheCheck
  <2>7. TokensOnce'
    BY <1>1, <1>2, <1>3, <1>5, <2>1 DEF TokensOnce, CallbacksAgree
  <2> QED
    BY <1>4, <2>2, <2>5, <2>6, <2>7
<1>7. CASE ExchangeLost(r)
  <2>1. /\ task' \in [Request -> Task]
        /\ \A q \in Request : q # r => task'[q] = task[q]
        /\ task'[r].pc = "idle"
    BY <1>7 DEF ExchangeLost, Refuse, Idle, Task, TypeOK
  <2>2. TypeOK'
    BY <1>1, <1>3, <2>1 DEF cookies, TypeOK
  <2>3. \A q \in Request : task'[q].pc # "idle" =>
                             task'[q] = task[q] /\ task[q].flow \in Challenge \cup {None}
    BY <2>1 DEF TypeOK, Task
  <2>4. CallbacksAgree' /\ PastTheCheck'
    BY <1>3, <2>1, <2>3 DEF CallbacksAgree, PastTheCheck
  <2>5. TokensOnce'
    BY <1>1, <1>2, <1>3, <1>5, <2>1 DEF TokensOnce, CallbacksAgree
  <2> QED
    BY <1>4, <2>2, <2>4, <2>5
<1> QED
  BY <1>6, <1>7

(* The session is opened by the one callback that has the tokens. *)
LEMMA InitSessionKeeps ==
  ASSUME IInv, NEW r \in Request, InitSession(r)
  PROVE  IInv'
<1> USE DEF IInv
<1>1. /\ task[r].pc = "initSession" /\ GoTo(r, "answer")
      /\ opened' = [opened EXCEPT ![task[r].url] = opened[task[r].url] + 1]
      /\ UNCHANGED <<login, old, cookies, latest, restarts>>
  BY DEF InitSession
<1>2. /\ task' \in [Request -> Task]
      /\ \A q \in Request : q # r => task'[q] = task[q]
      /\ task'[r].pc = "answer"
      /\ \A q \in Request : /\ task'[q].browser = task[q].browser /\ task'[q].url = task[q].url
                            /\ task'[q].flow = task[q].flow /\ task'[q].next = task[q].next
  BY <1>1, StepEffect
<1>3. task[r].url \in Challenge /\ opened[task[r].url] = 0
  BY <1>1 DEF TokensOnce, CallbacksAgree
<1>4. /\ opened' \in [Challenge -> Nat] /\ opened'[task[r].url] = 1
      /\ \A c \in Challenge : c # task[r].url => opened'[c] = opened[c]
  BY <1>1, <1>3 DEF TypeOK
<1>5. TypeOK'
  BY <1>1, <1>2, <1>4 DEF cookies, TypeOK
<1>6. CallbacksAgree' /\ PastTheCheck'
  BY <1>1, <1>2 DEF CallbacksAgree, PastTheCheck
<1>7. TokensOnce'
  BY <1>1, <1>2, <1>3, <1>4 DEF TokensOnce, CallbacksAgree
<1>8. OneSessionPerLogin'
  BY <1>4 DEF OneSessionPerLogin
<1>9. KeyStays' /\ CookiesAgree' /\ SessionOfOwnLogin' /\ LatestFlow'
  BY <1>1 DEF KeyStays, cookies, CookiesAgree, SessionOfOwnLogin, LatestFlow
<1> QED
  BY <1>5, <1>6, <1>7, <1>8, <1>9

(* The answer hands the session to the browser that began its login, and   *)
(* may drop the cookies of a later one.                                    *)
LEMMA AnswerKeeps ==
  ASSUME IInv, NEW r \in Request, Answer(r)
  PROVE  IInv'
<1> USE DEF IInv
<1> DEFINE b == task[r].browser
<1>1. /\ task[r].pc = "answer"
      /\ session' = [session EXCEPT ![b] = task[r].url]
      /\ flow' = [flow EXCEPT ![b] = None]
      /\ returnTo' = [returnTo EXCEPT ![b] = None]
      /\ task' = [task EXCEPT ![r] = Idle]
      /\ UNCHANGED <<login, old, opened, latest, restarts>>
  BY DEF Answer
<1>2. None \notin Challenge
  BY LoginFlowAssumption DEF LoginFlowAssumption
<1>3. b \in Browser /\ task[r].url \in Challenge /\ login[task[r].url].browser = b
  BY <1>1, <1>2 DEF CallbacksAgree, PastTheCheck
<1> HIDE DEF b
<1>4. TypeOK'
  BY <1>1, <1>3 DEF Idle, TypeOK, Task
<1>5. (\A q \in Request : q # r => task'[q] = task[q]) /\ task'[r].pc = "idle"
  BY <1>1 DEF Idle, TypeOK
<1>6. CallbacksAgree' /\ PastTheCheck' /\ TokensOnce'
  BY <1>1, <1>5 DEF CallbacksAgree, PastTheCheck, TokensOnce
<1>7. CookiesAgree'
  BY <1>1 DEF CookiesAgree, TypeOK
<1>8. SessionOfOwnLogin' /\ LatestFlow'
  BY <1>1, <1>2, <1>3 DEF SessionOfOwnLogin, LatestFlow, TypeOK
<1>9. KeyStays' /\ OneSessionPerLogin'
  BY <1>1 DEF KeyStays, OneSessionPerLogin
<1> QED
  BY <1>4, <1>6, <1>7, <1>8, <1>9

LEMMA RestartKeeps == IInv /\ Restart => IInv'
<1> SUFFICES ASSUME IInv, Restart PROVE IInv'
  OBVIOUS
<1> USE DEF IInv, Restart
<1>1. TypeOK'
  BY LoginFlowAssumption DEF LoginFlowAssumption, Idle, TypeOK, Task, cookies
<1>2. CallbacksAgree' /\ PastTheCheck' /\ TokensOnce'
  BY DEF Idle, CallbacksAgree, PastTheCheck, TokensOnce
<1>3. CookiesAgree' /\ KeyStays' /\ SessionOfOwnLogin' /\ OneSessionPerLogin' /\ LatestFlow'
  BY DEF cookies, CookiesAgree, KeyStays, SessionOfOwnLogin, OneSessionPerLogin, LatestFlow
<1> QED
  BY <1>1, <1>2, <1>3

-----------------------------------------------------------------------------
LEMMA InvariantStep == IInv /\ [Next]_vars => IInv'
<1> SUFFICES ASSUME IInv, [Next]_vars PROVE IInv'
  OBVIOUS
<1>1. ASSUME NEW b \in Browser, NEW p \in Page, Login(b, p) PROVE IInv'
  BY <1>1, LoginKeeps
<1>2. ASSUME NEW c \in Challenge, Authorize(c) \/ GrowOld(c) PROVE IInv'
  BY <1>2, OutsideKeeps
<1>3. ASSUME NEW r \in Request, NEW b \in Browser, NEW c \in Challenge, Callback(r, b, c)
      PROVE  IInv'
  BY <1>3, CallbackKeeps
<1>4. ASSUME NEW r \in Request, Proceed(r) PROVE IInv'
  BY <1>4, CheckKeeps, ExchangeKeeps, InitSessionKeeps, AnswerKeeps, RefusalKeeps
    DEF Proceed, FlowRefused
<1>5. ASSUME NEW r \in Request, GoesWrong(r) PROVE IInv'
  BY <1>5, ExchangeKeeps, RefusalKeeps
    DEF GoesWrong, ExchangeFails, InitSessionFails, AnswerLost
<1>6. CASE Restart
  BY <1>6, RestartKeeps
<1>7. CASE UNCHANGED vars
  BY <1>7 DEF vars, cookies, IInv, TypeOK, CookiesAgree, CallbacksAgree, PastTheCheck, TokensOnce,
             KeyStays, SessionOfOwnLogin, OneSessionPerLogin, LatestFlow
<1> QED
  BY <1>1, <1>2, <1>3, <1>4, <1>5, <1>6, <1>7 DEF Next

LEMMA Invariance == Spec => []IInv
<1> QED
  BY InvariantInit, InvariantStep, PTL DEF Spec

(* Whatever the callbacks of CallbackHandler, every one of them is answered*)
(* or still at one of its steps, and cookies hold only logins begun.       *)
THEOREM LoginTyping == Spec => []TypeOK
<1>1. IInv => TypeOK
  BY DEF IInv
<1> QED
  BY <1>1, Invariance, PTL

(* The browser whose session it is has begun the login itself: CheckFlow's *)
(* comparison suffices, whatever callback urls other browsers open.        *)
THEOREM SessionIsOwn == Spec => []SessionOfOwnLogin
<1>1. IInv => SessionOfOwnLogin
  BY DEF IInv
<1> QED
  BY <1>1, Invariance, PTL

(* No login opens two sessions: of the callbacks that race, the provider   *)
(* gives tokens to one (RequestToken), and only that one reaches           *)
(* InitSession.                                                            *)
THEOREM SessionIsOne == Spec => []OneSessionPerLogin
<1>1. IInv => OneSessionPerLogin
  BY DEF IInv
<1> QED
  BY <1>1, Invariance, PTL

(* The latest login's cookie stays for its five minutes, or the browser has*)
(* a session: CallbackHandler clears it on success only.                   *)
THEOREM LatestIsKept == Spec => []LatestLoginKept
<1>1. IInv => LatestLoginKept
  <2> SUFFICES ASSUME IInv, NEW b \in Browser, latest[b] # None, latest[b] \notin old,
                      session[b] = None
               PROVE  flow[b] = latest[b] /\ (EphemeralKey \/ Readable(latest[b]))
    BY DEF LatestLoginKept
  <2>1. flow[b] = latest[b] /\ latest[b] \in Challenge
    BY DEF IInv, LatestFlow, TypeOK
  <2>2. EphemeralKey \/ login[latest[b]].key = Key
    BY <2>1 DEF IInv, KeyStays, Key
  <2> QED
    BY <2>1, <2>2 DEF Readable
<1> QED
  BY <1>1, Invariance, PTL

(* A login returns to the page LoginHandler was asked for, though all tabs *)
(* share the two cookies: they are set and dropped together.               *)
THEOREM ReturnIsRight == Spec => []ReturnsWhereItBegan
<1>1. IInv => ReturnsWhereItBegan
  <2> SUFFICES ASSUME IInv, NEW r \in Request, task[r].pc = "answer"
               PROVE  Destination(r) = login[task[r].url].next
    BY DEF ReturnsWhereItBegan
  <2>1. task[r].url \in Challenge /\ task[r].flow = task[r].url
    BY DEF IInv, CallbacksAgree, PastTheCheck
  <2>2. task[r].flow # None /\ None \notin Page
    BY <2>1, LoginFlowAssumption DEF LoginFlowAssumption
  <2>3. task[r].next = login[task[r].url].next /\ login[task[r].url].next \in Page
    BY <2>1, <2>2 DEF IInv, CallbacksAgree, TypeOK, LoginRecord
  <2> QED
    BY <2>2, <2>3 DEF Destination
<1> QED
  BY <1>1, Invariance, PTL
=============================================================================
