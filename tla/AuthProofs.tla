----------------------------- MODULE AuthProofs -----------------------------
(***************************************************************************)
(* Who is let in, for any number of instances, browsers, logins and        *)
(* requests, any settings and any times to live.  AuthInv is inductive,    *)
(* and FairInv beside it: who is let in, how long, whose code is spent,    *)
(* and that a login nothing interferes with succeeds.                      *)
(***************************************************************************)
EXTENDS Auth, TLAPS

(* configure_auth: what each setting comes to. An open instance is a       *)
(* development one, a bearer instance has a long token.                    *)
LEMMA WiredType ==
  ASSUME NEW d \in Deployment
  PROVE  /\ Wired(d) \in {"refused", "open", "bearer", "oidc"}
         /\ Wired(d) = "open" => d.mode = "none" /\ d.env = "development"
         /\ Wired(d) = "bearer" => d.mode = "bearer" /\ d.token = "long"
BY DEF Wired, Deployment

(* Every request that can arrive is one, and has no stash yet.             *)
LEMMA RequestTypes ==
  ASSUME TypeOK
  PROVE  /\ NoReq \in Requests /\ Nothing \in [req : Requests, answer : Answers]
         /\ \A q \in Arrivals : q \in Requests /\ q.stash = None
<1>1. NoReq \in Requests /\ Nothing \in [req : Requests, answer : Answers]
  BY DEF NoReq, Request, Requests, Nothing, Verdict, Answers
<1>2. ASSUME NEW p \in Tokens
      PROVE  p \in Papers
  <2>1. p \in [at : 0..now, key : 0..key, standing : Standings]
    BY DEF Tokens
  <2>2. p.at \in Nat /\ p.key \in Keys /\ p.standing \in {"member", "outsider", "foreign"}
    <3>1. p.at \in 0..now /\ p.key \in 0..key /\ p.standing \in Standings
      BY <2>1
    <3>2. Standings \subseteq {"member", "outsider", "foreign"}
      BY DEF Standings
    <3>3. key \in 0..MaxKey
      BY DEF TypeOK, Keys
    <3>4. p.at \in Nat /\ p.key \in 0..MaxKey
      BY <3>1, <3>3, AuthAssumption
    <3>5. QED
      BY <3>1, <3>2, <3>4 DEF Keys
  <2>3. p = [at |-> p.at, key |-> p.key, standing |-> p.standing]
    BY <2>1
  <2>4. QED
    BY <2>2, <2>3 DEF Papers
<1>3. ASSUME NEW q \in Arrivals
      PROVE  q \in Requests /\ q.stash = None
  <2>1. CASE \E k \in {"public", "page", "call", "login", "logout", "callback"},
              b \in Browsers \cup {None}, i \in Instances, l \in Logins \cup {None},
              c \in {"none", "malformed", "other", "static"} :
               q = Request(k, b, i, l, c)
    BY <2>1 DEF Request, Requests
  <2>2. CASE \E i \in Instances, p \in Tokens :
               q = [Request("call", None, i, None, "token") EXCEPT !.paper = p]
    BY <1>2, <2>2 DEF Request, Requests
  <2>3. QED
    BY <1>3, <2>1, <2>2 DEF Arrivals, Static
<1>4. QED
  BY <1>1, <1>3

(* What the requests of each kind bring along.                             *)
LEMMA ArrivalShapes ==
  ASSUME TypeOK, NEW q \in Arrivals
  PROVE  /\ q.inst \in Instances
         /\ q.kind \in {"public", "page", "call", "login", "logout", "callback"}
         /\ q.cred # "none" => q.kind = "call"
         /\ q.kind = "page" => q.cred = "none"
         /\ q.cred = "static" => deploy.token # "unset"
         /\ q.paper # None => q.cred = "token"
         /\ q.kind \in {"page", "login", "logout", "callback"} => q.browser \in Browsers
         /\ q.kind = "call" /\ q.cred = "none" => q.browser \in Browsers
         /\ q.kind = "login" => /\ q.login \in Logins /\ home[q.login] = None /\ ~Busy(q.login)
         /\ q.kind = "callback" => q.login \in Logins /\ home[q.login] # None
         /\ q.kind \notin {"login", "callback"} => q.login = None
<1>1. CASE \E i \in Instances : q = Request("public", None, i, None, "none")
  BY <1>1 DEF Request
<1>2. CASE \E i \in Instances, c \in {"malformed", "other"} \cup Static :
             q = Request("call", None, i, None, c)
  BY <1>2 DEF Request, Static
<1>3. CASE \E i \in Instances, p \in Tokens :
             q = [Request("call", None, i, None, "token") EXCEPT !.paper = p]
  BY <1>3 DEF Request
<1>4. CASE \E k \in {"page", "call"}, b \in Browsers, i \in Instances :
             q = Request(k, b, i, None, "none")
  BY <1>4 DEF Request
<1>5. CASE \E b \in Browsers, i \in Instances, l \in {x \in Logins : home[x] = None /\ ~Busy(x)} :
             q = Request("login", b, i, l, "none")
  BY <1>5 DEF Request
<1>6. CASE \E b \in Browsers, i \in Instances : q = Request("logout", b, i, None, "none")
  BY <1>6 DEF Request
<1>7. CASE \E b \in Browsers, i \in Instances, l \in {x \in Logins : home[x] # None} :
             q = Request("callback", b, i, l, "none")
  BY <1>7 DEF Request
<1>8. QED
  BY <1>1, <1>2, <1>3, <1>4, <1>5, <1>6, <1>7 DEF Arrivals

(* Before configure_auth nothing is begun, signed or in flight.            *)
LEMMA InitInv ==
  ASSUME Init
  PROVE  AuthInv
<1>1. TypeOK
  BY AuthAssumption DEF Init, TypeOK, Keys, Secrets, NoReq, Request, Requests, Nothing,
     Verdict, Answers, Unloaded
<1>2. FlightsFit /\ IssuedOnce /\ CookiesAreHome /\ DoneIsVouched
  BY DEF Init, FlightsFit, IssuedOnce, CookiesAreHome, DoneIsVouched, Nothing, Verdict
<1>3. QED
  BY <1>1, <1>2 DEF AuthInv, Init

(* A step that moves neither logins nor cookies nor the settings, and ends *)
(* requests or leaves them where they are.                                 *)
LEMMA AwayInv ==
  ASSUME AuthInv, TypeOK', UNCHANGED <<deploy, wired, home, code, issued, cookies>>,
         \A r \in Reqs : \/ pc'[r] = pc[r] /\ req'[r] = req[r]
                         \/ pc'[r] = "idle" /\ req'[r] = NoReq,
         DoneIsVouched'
  PROVE  AuthInv'
<1>1. FlightsFit'
  <2>1. ASSUME NEW r \in Reqs, pc'[r] # "idle"
        PROVE  pc'[r] = pc[r] /\ req'[r] = req[r]
    BY <2>1
  <2>2. \A l \in Logins, r \in Reqs : req'[r].login = l => req[r].login = l
    BY AuthAssumption DEF NoReq, Request
  <2>3. QED
    BY <2>1, <2>2 DEF AuthInv, FlightsFit
<1>2. IssuedOnce' /\ CookiesAreHome'
  BY DEF AuthInv, IssuedOnce, CookiesAreHome, cookies
<1>3. \A r \in Reqs : pc'[r] = "idle" => req'[r] = NoReq
  BY DEF AuthInv
<1>4. wired' \in {"starting", Wired(deploy)'}
  BY DEF AuthInv, Wired
<1>5. QED
  BY <1>1, <1>2, <1>3, <1>4 DEF AuthInv

(* Start-up touches the mode and the secrets only.                         *)
LEMMA ConfigureInv ==
  ASSUME AuthInv, Configure
  PROVE  AuthInv'
<1>1. TypeOK'
  <2>1. \A i \in Instances : Drawn(i, 0) \in Secrets
    BY DEF Drawn, Secrets
  <2>2. Wired(deploy) \in {"refused", "open", "bearer", "oidc"}
    BY AuthAssumption, WiredType DEF AuthInv, TypeOK
  <2>3. QED
    BY <2>1, <2>2 DEF AuthInv, TypeOK, Configure, issuerVars,
       counters, flows, cookies
<1>2. QED
  BY <1>1 DEF AuthInv, Configure, FlightsFit, IssuedOnce, CookiesAreHome, DoneIsVouched,
     Wired, issuerVars, counters, flows, cookies, memory

(* A restart ends the requests of its instance and forgets its memory.     *)
LEMMA RestartInv ==
  ASSUME AuthInv, NEW i \in Instances, Restart(i)
  PROVE  AuthInv'
<1>1. Drawn(i, restarts + 1) \in Secrets
  BY DEF Drawn, Secrets, AuthInv, TypeOK
<1>2. TypeOK'
  BY <1>1, RequestTypes DEF AuthInv, TypeOK, Restart, issuerVars, cookies, Unloaded
<1>3. DoneIsVouched'
  BY DEF Restart, DoneIsVouched, Nothing, Verdict
<1>4. QED
  BY <1>2, <1>3, AwayInv DEF Restart

(* Time passes: the answer of the last step is not repeated.               *)
LEMMA TickInv ==
  ASSUME AuthInv, Tick
  PROVE  AuthInv'
<1>1. TypeOK'
  BY RequestTypes DEF AuthInv, TypeOK, Tick, memory, counters, flows, cookies
<1>2. DoneIsVouched'
  BY DEF Tick, DoneIsVouched, Nothing, Verdict
<1>3. QED
  BY <1>1, <1>2, AwayInv DEF Tick, flows

(* A rotation changes the issuer only.                                     *)
LEMMA RotateInv ==
  ASSUME AuthInv, Rotate
  PROVE  AuthInv'
<1>1. key + 1 \in Keys /\ {key + 1} \subseteq Keys /\ {key, key + 1} \subseteq Keys
  BY AuthAssumption DEF AuthInv, TypeOK, Rotate, Keys
<1>2. published' \subseteq Keys /\ published' # {}
  BY <1>1 DEF Rotate
<1>3. since' \in [Keys -> Nat]
  BY <1>1 DEF Rotate, AuthInv, TypeOK
<1>4. TypeOK'
  BY <1>1, <1>2, <1>3, RequestTypes DEF AuthInv, TypeOK, Rotate, memory, counters, cookies
<1>5. DoneIsVouched'
  BY DEF Rotate, DoneIsVouched, Nothing, Verdict
<1>6. QED
  BY <1>4, <1>5, AwayInv DEF Rotate

(* A code is given to a login that was begun.                              *)
LEMMA AuthenticateInv ==
  ASSUME AuthInv, NEW l \in Logins, Authenticate(l)
  PROVE  AuthInv'
<1>1. TypeOK'
  BY RequestTypes DEF AuthInv, TypeOK, Authenticate, issuerVars, memory, counters, cookies
<1>2. FlightsFit' /\ CookiesAreHome'
  BY DEF AuthInv, Authenticate, FlightsFit, CookiesAreHome, cookies
<1>3. IssuedOnce'
  BY DEF AuthInv, TypeOK, Authenticate, IssuedOnce
<1>4. QED
  BY <1>1, <1>2, <1>3 DEF AuthInv, Authenticate, DoneIsVouched, Nothing, Verdict, Wired

(* A request that asks the issuer comes in.                                *)
LEMMA ArriveInv ==
  ASSUME AuthInv, NEW r \in Reqs, Arrive(r)
  PROVE  AuthInv'
<1>1. PICK q \in Arrivals :
        /\ AtOnce(q).verdict = "await"
        /\ pc' = [pc EXCEPT ![r] = "wellknown"]
        /\ req' = [req EXCEPT ![r] =
             IF q.kind = "callback" THEN [q EXCEPT !.stash = state[q.browser].login] ELSE q]
  BY DEF Arrive
<1>2. q \in Requests /\ q.stash = None
  BY RequestTypes DEF AuthInv
<1>3. wired = "oidc" /\ pc[r] = "idle"
  BY DEF Arrive, InFlight
<1>4. /\ q.kind \in {"login", "logout", "callback", "call"} /\ q.inst \in Instances
      /\ q.paper # None => q.cred = "token"
      /\ q.kind \in {"login", "logout", "callback"} => q.browser \in Browsers
      /\ q.kind = "login" => /\ q.login \in Logins /\ home[q.login] = None /\ ~Busy(q.login)
      /\ q.kind # "login" => q.login = None \/ (q.login \in Logins /\ home[q.login] # None)
      /\ q.kind = "callback" => q.login \in Logins
  <2>1. q.kind \in {"login", "logout", "callback", "call"}
    <3>1. q.kind # "public"
      BY <1>1, <1>3 DEF AtOnce, Verdict
    <3>2. ASSUME q.kind = "page"
          PROVE  FALSE
      <4>1. q.cred = "none"
        BY <3>2, ArrivalShapes DEF AuthInv
      <4>2. AtOnce(q) = Browse(q)
        BY <1>3, <3>2, <4>1 DEF AtOnce
      <4>3. Browse(q).verdict # "await"
        BY <3>2 DEF Browse, Verdict
      <4>4. QED
        BY <1>1, <4>2, <4>3
    <3>3. QED
      BY <3>1, <3>2, ArrivalShapes DEF AuthInv
  <2>2. TypeOK
    BY DEF AuthInv
  <2>3. /\ q.inst \in Instances /\ (q.paper # None => q.cred = "token")
        /\ q.kind \in {"login", "logout", "callback"} => q.browser \in Browsers
        /\ q.kind = "login" => /\ q.login \in Logins /\ home[q.login] = None /\ ~Busy(q.login)
    BY <2>2, ArrivalShapes
  <2>4. /\ q.kind # "login" => q.login = None \/ (q.login \in Logins /\ home[q.login] # None)
        /\ q.kind = "callback" => q.login \in Logins
    BY <2>2, ArrivalShapes
  <2>5. QED
    BY <2>1, <2>3, <2>4
<1>5. q.kind = "callback" => /\ home[q.login] = q.browser
                             /\ state[q.browser] # None /\ state[q.browser].login = q.login
  <2>1. ASSUME q.kind = "callback"
        PROVE  Readable(state[q.browser], q.inst, StateTtl) /\ Matches(state[q.browser], q.login)
    BY <1>1, <1>3, <2>1 DEF AtOnce, Callback, Verdict
  <2>2. QED
    BY <1>4, <2>1 DEF Readable, Matches, AuthInv, CookiesAreHome
<1>6. PICK p : /\ req' = [req EXCEPT ![r] = p]
               /\ p \in Requests /\ p.kind = q.kind /\ p.login = q.login /\ p.paper = q.paper
               /\ p.cred = q.cred /\ p.browser = q.browser /\ p.inst = q.inst
  <2>1. CASE q.kind = "callback"
    <3>1. PICK p : p = [q EXCEPT !.stash = state[q.browser].login]
      OBVIOUS
    <3>2. state[q.browser].login \in Logins
      BY <1>4, <1>5, <2>1
    <3>3. p \in Requests
      BY <1>2, <3>1, <3>2 DEF Requests
    <3>4. /\ p.kind = q.kind /\ p.login = q.login /\ p.paper = q.paper
          /\ p.cred = q.cred /\ p.browser = q.browser /\ p.inst = q.inst
      BY <1>2, <3>1 DEF Requests
    <3>5. QED
      BY <1>1, <2>1, <3>1, <3>3, <3>4
  <2>2. CASE q.kind # "callback"
    BY <1>1, <1>2, <2>2
  <2>3. QED
    BY <2>1, <2>2
<1>7. TypeOK'
  BY <1>1, <1>6, RequestTypes DEF AuthInv, TypeOK, Arrive, issuerVars, memory, cookies
<1>8. FlightsFit'
  <2>1. ASSUME NEW s \in Reqs, pc'[s] # "idle", s # r
        PROVE  /\ req'[s] = req[s] /\ pc'[s] = pc[s]
               /\ req[s].kind = "login" => req[s].login # p.login
    <3>1. req'[s] = req[s] /\ pc'[s] = pc[s]
      BY <1>1, <1>6, <2>1 DEF AuthInv, TypeOK
    <3>2. ASSUME req[s].kind = "login", req[s].login = p.login
          PROVE  FALSE
      <4>1. home[p.login] = None /\ p.login \in Logins
        BY <2>1, <3>1, <3>2 DEF AuthInv, FlightsFit
      <4>2. ~(q.kind = "login")
        BY <1>4, <1>6, <3>2 DEF Busy
      <4>3. QED
        BY <1>4, <1>6, <4>1, <4>2, AuthAssumption
    <3>3. QED
      BY <3>1, <3>2
  <2>2. pc'[r] = "wellknown" /\ req'[r] = p
    BY <1>1, <1>6 DEF AuthInv, TypeOK
  <2>3. ASSUME NEW s \in Reqs, pc'[s] # "idle", s # r, req[s].kind = "login"
        PROVE  \A t \in Reqs : req'[t].login = req[s].login => t = s
    BY <1>6, <2>1, <2>2, <2>3 DEF AuthInv, TypeOK, FlightsFit
  <2>4. p.kind = "login" => \A t \in Reqs : req'[t].login = p.login => t = r
    BY <1>4, <1>6 DEF Busy, AuthInv, TypeOK
  <2>5. home' = home
    BY DEF Arrive
  <2>6. ASSUME NEW s \in Reqs, pc'[s] # "idle"
        PROVE  LET x == req'[s] IN
               /\ x.kind \in {"login", "logout", "callback", "call"} /\ x.inst \in Instances
               /\ pc'[s] = "exchange" => x.kind = "callback"
               /\ x.paper # None => x.cred = "token"
               /\ x.kind \in {"login", "logout", "callback"} => x.browser \in Browsers
               /\ x.kind = "login" => /\ x.login \in Logins /\ home[x.login] = None
                                      /\ \A t \in Reqs : req'[t].login = x.login => t = s
               /\ x.kind = "callback" => x.login \in Logins /\ home[x.login] = x.browser
    <3>1. CASE s = r
      BY <1>4, <1>5, <1>6, <2>2, <2>4, <3>1
    <3>2. CASE s # r
      BY <2>1, <2>3, <2>6, <3>2 DEF AuthInv, FlightsFit
    <3>3. QED
      BY <3>1, <3>2
  <2>7. QED
    BY <2>5, <2>6 DEF FlightsFit
<1>9. IssuedOnce' /\ CookiesAreHome'
  BY DEF Arrive, AuthInv, IssuedOnce, CookiesAreHome, cookies
<1>10. \A s \in Reqs : pc'[s] = "idle" => req'[s] = NoReq
  BY <1>1, <1>6 DEF AuthInv, TypeOK
<1>11. QED
  BY <1>7, <1>8, <1>9, <1>10 DEF Arrive, AuthInv, DoneIsVouched, Nothing, Verdict, Wired

(* /auth/login: the state cookie is of the login begun in this browser.    *)
LEMMA BeginLoginInv ==
  ASSUME AuthInv, NEW r \in Reqs, BeginLogin(r)
  PROVE  AuthInv'
<1> DEFINE q == req[r]
<1>1. /\ pc[r] = "wellknown" /\ q.kind = "login" /\ q.inst \in Instances
      /\ q.browser \in Browsers /\ q.login \in Logins /\ home[q.login] = None
      /\ \A s \in Reqs : req[s].login = q.login => s = r
  BY DEF BeginLogin, Discover, AuthInv, FlightsFit
<1>2. /\ pc' = [pc EXCEPT ![r] = "idle"] /\ req' = [req EXCEPT ![r] = NoReq]
      /\ done' = [req |-> q, answer |-> Verdict("redirect", "none")]
      /\ home' = [home EXCEPT ![q.login] = q.browser]
      /\ state' = [state EXCEPT ![q.browser] =
           [key |-> secret[q.inst], at |-> now, login |-> q.login]]
      /\ UNCHANGED <<deploy, wired, now, code, issued, session>>
  BY DEF BeginLogin, Discover, Refuse, Answer, issuerVars
<1>3. done' \in [req : Requests, answer : Answers]
  BY <1>2 DEF Verdict, Answers, AuthInv, TypeOK
<1>4. [key |-> secret[q.inst], at |-> now, login |-> q.login] \in Cookies
  BY <1>1 DEF Cookies, AuthInv, TypeOK
<1>5. TypeOK'
  BY <1>1, <1>2, <1>3, <1>4, RequestTypes
     DEF AuthInv, TypeOK, BeginLogin, Discover, issuerVars, counters
<1>6. FlightsFit'
  <2>1. ASSUME NEW s \in Reqs, pc'[s] # "idle"
        PROVE  s # r /\ req'[s] = req[s] /\ pc'[s] = pc[s] /\ req[s].login # q.login
    BY <1>1, <1>2, <2>1 DEF AuthInv, TypeOK
  <2>2. ASSUME NEW l \in Logins, l # q.login
        PROVE  home'[l] = home[l]
    BY <1>2, <2>2 DEF AuthInv, TypeOK
  <2>3. ASSUME NEW s \in Reqs, NEW l \in Logins, req'[s].login = l
        PROVE  req[s].login = l
    BY <1>2, <2>3, AuthAssumption DEF AuthInv, TypeOK, NoReq, Request
  <2>4. QED
    BY <2>1, <2>2, <2>3 DEF AuthInv, FlightsFit
<1>7. IssuedOnce'
  BY <1>1, <1>2, AuthAssumption DEF AuthInv, TypeOK, IssuedOnce
<1>8. CookiesAreHome'
  <2>1. ASSUME NEW b \in Browsers, state'[b] # None
        PROVE  home'[state'[b].login] = b
    <3>1. CASE b = q.browser
      BY <1>1, <1>2, <3>1 DEF AuthInv, TypeOK
    <3>2. CASE b # q.browser
      <4>1. state'[b] = state[b] /\ state[b] \in Cookies
        BY <1>2, <2>1, <3>2 DEF AuthInv, TypeOK
      <4>2. home[state[b].login] = b /\ state[b].login \in Logins
        BY <2>1, <4>1 DEF AuthInv, CookiesAreHome, Cookies
      <4>3. state[b].login # q.login
        BY <1>1, <4>2, AuthAssumption
      <4>4. QED
        BY <1>2, <4>1, <4>2, <4>3 DEF AuthInv, TypeOK
    <3>3. QED
      BY <3>1, <3>2
  <2>2. ASSUME NEW b \in Browsers, session[b] # None
        PROVE  home'[session[b].login] = home[session[b].login]
    <3>1. home[session[b].login] = b /\ session[b].login \in Logins
      BY <2>2 DEF AuthInv, TypeOK, CookiesAreHome, Cookies
    <3>2. QED
      BY <1>1, <1>2, <3>1, AuthAssumption DEF AuthInv, TypeOK
  <2>3. QED
    BY <1>2, <2>1, <2>2 DEF AuthInv, CookiesAreHome
<1>9. DoneIsVouched' /\ \A s \in Reqs : pc'[s] = "idle" => req'[s] = NoReq
  BY <1>2 DEF DoneIsVouched, Verdict, AuthInv, TypeOK
<1>10. QED
  BY <1>2, <1>5, <1>6, <1>7, <1>8, <1>9 DEF AuthInv, Wired

(* /auth/logout takes a session away.                                      *)
LEMMA EndLogoutInv ==
  ASSUME AuthInv, NEW r \in Reqs, EndLogout(r)
  PROVE  AuthInv'
<1>1. /\ pc' = [pc EXCEPT ![r] = "idle"] /\ req' = [req EXCEPT ![r] = NoReq]
      /\ done' = [req |-> req[r], answer |-> Verdict("redirect", "none")]
      /\ session' = [session EXCEPT ![req[r].browser] = None]
      /\ UNCHANGED <<deploy, wired, home, code, issued, state>>
  BY DEF EndLogout, Discover, Refuse, Answer
<1>2. done' \in [req : Requests, answer : Answers]
  BY <1>1 DEF Verdict, Answers, AuthInv, TypeOK
<1>3. TypeOK'
  BY <1>1, <1>2, RequestTypes DEF AuthInv, TypeOK, EndLogout, Discover, issuerVars, counters
<1>4. FlightsFit'
  <2>1. ASSUME NEW s \in Reqs, NEW l \in Logins, req'[s].login = l
        PROVE  req[s].login = l
    BY <1>1, <2>1, AuthAssumption DEF AuthInv, TypeOK, NoReq, Request
  <2>2. ASSUME NEW s \in Reqs, pc'[s] # "idle"
        PROVE  req'[s] = req[s] /\ pc'[s] = pc[s]
    BY <1>1, <2>2 DEF AuthInv, TypeOK
  <2>3. QED
    BY <1>1, <2>1, <2>2 DEF AuthInv, FlightsFit
<1>5. IssuedOnce' /\ CookiesAreHome'
  BY <1>1 DEF AuthInv, TypeOK, IssuedOnce, CookiesAreHome
<1>6. DoneIsVouched' /\ \A s \in Reqs : pc'[s] = "idle" => req'[s] = NoReq
  BY <1>1 DEF DoneIsVouched, Verdict, AuthInv, TypeOK
<1>7. QED
  BY <1>1, <1>3, <1>4, <1>5, <1>6 DEF AuthInv, Wired

(* A callback goes on to the exchange, a call to the keys.                 *)
LEMMA GoOnInv ==
  ASSUME AuthInv, NEW r \in Reqs, GoOn(r)
  PROVE  AuthInv'
<1>1. /\ pc' = [pc EXCEPT ![r] = IF req[r].kind = "callback" THEN "exchange" ELSE "keys"]
      /\ req' = req /\ done' = Nothing
      /\ UNCHANGED <<deploy, wired, home, code, issued, state, session>>
  BY DEF GoOn, Discover, Await, cookies
<1>2. TypeOK'
  BY <1>1, RequestTypes
     DEF AuthInv, TypeOK, GoOn, Discover, issuerVars, counters, cookies
<1>3. pc[r] = "wellknown"
  BY DEF GoOn, Discover
<1>4. FlightsFit'
  BY <1>1, <1>3 DEF AuthInv, TypeOK, FlightsFit
<1>5. IssuedOnce' /\ CookiesAreHome'
  BY <1>1 DEF AuthInv, IssuedOnce, CookiesAreHome
<1>6. DoneIsVouched' /\ \A s \in Reqs : pc'[s] = "idle" => req'[s] = NoReq
  BY <1>1 DEF DoneIsVouched, Nothing, Verdict, AuthInv, TypeOK
<1>7. QED
  BY <1>1, <1>2, <1>4, <1>5, <1>6 DEF AuthInv, Wired

(* The token exchange: the word of the issuer is given with the code,      *)
(* once.                                                                   *)
LEMMA ExchangeInv ==
  ASSUME AuthInv, NEW r \in Reqs, Exchange(r)
  PROVE  AuthInv'
<1> DEFINE l == req[r].login
<1>1. /\ pc[r] = "exchange" /\ req[r].kind = "callback" /\ l \in Logins
      /\ home[l] = req[r].browser /\ req[r].browser \in Browsers
  BY DEF Exchange, AuthInv, FlightsFit
<1>2. /\ code' = [code EXCEPT ![l] = "spent"]
      /\ UNCHANGED <<deploy, wired, now, home, state, session>>
  BY DEF Exchange, issuerVars, cookies
<1>3. /\ \A x \in Logins : issued'[x] # issued[x] => x = l /\ code[l] = "fresh"
      /\ issued' \in [Logins -> Papers \cup {None}]
  <2>1. CASE issued' = issued
    BY <2>1 DEF AuthInv, TypeOK
  <2>2. CASE code[l] = "fresh" /\ \E standing \in Standings :
               issued' = [issued EXCEPT ![l] = Signed(standing)]
    <3>1. PICK standing \in Standings : issued' = [issued EXCEPT ![l] = Signed(standing)]
      BY <2>2
    <3>2. standing \in {"member", "outsider", "foreign"}
      BY DEF Standings
    <3>3. Signed(standing) \in Papers
      BY <3>2 DEF Signed, Papers, AuthInv, TypeOK
    <3>4. QED
      BY <2>2, <3>1, <3>3 DEF AuthInv, TypeOK
  <2>3. QED
    BY <2>1, <2>2 DEF Exchange, Redeems
<1>4. \/ pc' = [pc EXCEPT ![r] = "keys"] /\ req' = req /\ done' = Nothing
      \/ /\ pc' = [pc EXCEPT ![r] = "idle"] /\ req' = [req EXCEPT ![r] = NoReq]
         /\ \E v \in {"401", "500"} :
              done' = [req |-> req[r], answer |-> Verdict(v, "none")]
  BY DEF Exchange, Await, Refuse, Answer
<1>5. done' \in [req : Requests, answer : Answers] /\ DoneIsVouched'
  BY <1>4, RequestTypes DEF Verdict, Answers, AuthInv, TypeOK, DoneIsVouched, Nothing
<1>6. quiet' \in [Logins -> BOOLEAN]
  <2>1. quiet' = quiet \/ quiet' = [quiet EXCEPT ![l] = FALSE]
    BY DEF Exchange
  <2>2. QED
    BY <2>1 DEF AuthInv, TypeOK
<1>7. TypeOK'
  <2>1. /\ pc' \in [Reqs -> {"idle", "wellknown", "exchange", "keys"}]
        /\ req' \in [Reqs -> Requests]
    BY <1>4, RequestTypes DEF AuthInv, TypeOK
  <2>2. code' \in [Logins -> {"none", "fresh", "spent"}]
    BY <1>2 DEF AuthInv, TypeOK
  <2>3. UNCHANGED <<deploy, wired, now, key, since, published, restarts, sent, secret,
                    discovered, jwks, home, begun, state, session>>
    BY DEF Exchange, issuerVars, counters, memory, cookies
  <2>4. QED
    BY <1>3, <1>5, <1>6, <2>1, <2>2, <2>3 DEF AuthInv, TypeOK
<1>8. FlightsFit'
  <2>1. ASSUME NEW s \in Reqs, NEW x \in Logins, req'[s].login = x
        PROVE  req[s].login = x
    BY <1>4, <2>1, AuthAssumption DEF AuthInv, TypeOK, NoReq, Request
  <2>2. ASSUME NEW s \in Reqs, pc'[s] # "idle"
        PROVE  req'[s] = req[s] /\ pc[s] # "idle" /\ (pc'[s] = "exchange" => pc[s] = "exchange")
    BY <1>1, <1>4, <2>2 DEF AuthInv, TypeOK
  <2>3. QED
    BY <1>2, <2>1, <2>2 DEF AuthInv, FlightsFit
<1>9. IssuedOnce'
  <2>1. home[l] # None
    BY <1>1, AuthAssumption
  <2>2. QED
    BY <1>2, <1>3, <2>1 DEF AuthInv, TypeOK, IssuedOnce
<1>10. CookiesAreHome'
  <2>1. ASSUME NEW b \in Browsers, session[b] # None
        PROVE  issued'[session[b].login] = issued[session[b].login]
    BY <1>3, <2>1 DEF AuthInv, TypeOK, CookiesAreHome, Cookies, IssuedOnce
  <2>2. QED
    BY <1>2, <2>1 DEF AuthInv, CookiesAreHome
<1>11. \A s \in Reqs : pc'[s] = "idle" => req'[s] = NoReq
  BY <1>4 DEF AuthInv, TypeOK
<1>12. QED
  BY <1>2, <1>5, <1>7, <1>8, <1>9, <1>10, <1>11 DEF AuthInv, Wired

(* A request that fails ends without a trace.                              *)
LEMMA IssuerDownInv ==
  ASSUME AuthInv, NEW r \in Reqs, IssuerDown(r)
  PROVE  AuthInv'
<1>1. /\ pc' = [pc EXCEPT ![r] = "idle"] /\ req' = [req EXCEPT ![r] = NoReq]
      /\ done' = [req |-> req[r], answer |-> Verdict("500", "none")]
  BY DEF IssuerDown, Refuse, Answer
<1>2. done' \in [req : Requests, answer : Answers] /\ DoneIsVouched'
  BY <1>1 DEF Verdict, Answers, AuthInv, TypeOK, DoneIsVouched
<1>3. TypeOK'
  BY <1>1, <1>2, RequestTypes
     DEF AuthInv, TypeOK, IssuerDown, issuerVars, counters, memory, cookies
<1>4. \A s \in Reqs : \/ pc'[s] = pc[s] /\ req'[s] = req[s]
                      \/ pc'[s] = "idle" /\ req'[s] = NoReq
  BY <1>1 DEF AuthInv, TypeOK
<1>5. QED
  BY <1>2, <1>3, <1>4, AwayInv DEF IssuerDown

(* The last stage: only a member with a paper in force gets in or gets a   *)
(* session.                                                                *)
LEMMA VerifyInv ==
  ASSUME AuthInv, NEW r \in Reqs, Verify(r)
  PROVE  AuthInv'
<1> DEFINE q == req[r]
           paper == Paper(q)
<1>1. /\ pc[r] = "keys" /\ q \in Requests /\ q.inst \in Instances
      /\ jwks' = [jwks EXCEPT ![q.inst] = KeySet(q.inst)]
      /\ UNCHANGED <<deploy, wired, now, secret, home, code, issued>>
  BY DEF Verify, AuthInv, TypeOK, FlightsFit, issuerVars
<1>2. KeySet(q.inst) \in SUBSET Keys
  BY <1>1 DEF KeySet, AuthInv, TypeOK
<1>3. jwks' \in [Instances -> SUBSET Keys]
  BY <1>1, <1>2 DEF AuthInv, TypeOK
<1>4. pc' = [pc EXCEPT ![r] = "idle"] /\ req' = [req EXCEPT ![r] = NoReq]
  BY DEF Verify, Refuse, Answer
<1>5. \A s \in Reqs : \/ pc'[s] = pc[s] /\ req'[s] = req[s]
                      \/ pc'[s] = "idle" /\ req'[s] = NoReq
  BY <1>4 DEF AuthInv, TypeOK
<1>6. CASE \E v \in {"401", "403", "500"} : Refuse(r, v) /\ UNCHANGED <<cookies, quiet>>
  <2>1. PICK v \in {"401", "403", "500"} : done' = [req |-> q, answer |-> Verdict(v, "none")]
    BY <1>6 DEF Refuse, Answer
  <2>2. done' \in [req : Requests, answer : Answers] /\ DoneIsVouched'
    BY <1>1, <2>1 DEF Verdict, Answers, DoneIsVouched
  <2>3. TypeOK'
    BY <1>1, <1>3, <1>4, <1>6, <2>2, RequestTypes
       DEF AuthInv, TypeOK, Verify, issuerVars, counters, cookies
  <2>4. QED
    BY <1>1, <1>5, <1>6, <2>2, <2>3, AwayInv
<1>7. CASE /\ InForce(paper, q.inst) /\ InGroup(paper) /\ q.kind = "call"
           /\ Answer(r, "in", "token") /\ UNCHANGED <<cookies, quiet>>
  <2>1. done' = [req |-> q, answer |-> Verdict("in", "token")]
    BY <1>7 DEF Answer
  <2>2. q.paper \in Papers /\ q.cred = "token"
    BY <1>1, <1>7 DEF Paper, InForce, Requests, AuthInv, FlightsFit
  <2>3. q.paper.standing = "member" /\ now <= q.paper.at + TokenTtl + Leeway
    BY <1>7 DEF Paper, InForce, InGroup
  <2>4. done' \in [req : Requests, answer : Answers] /\ DoneIsVouched'
    BY <1>1, <2>1, <2>2, <2>3 DEF Verdict, Answers, DoneIsVouched
  <2>5. TypeOK'
    BY <1>1, <1>3, <1>4, <1>7, <2>4, RequestTypes
       DEF AuthInv, TypeOK, Verify, issuerVars, counters, cookies
  <2>6. QED
    BY <1>1, <1>5, <1>7, <2>4, <2>5, AwayInv
<1>8. CASE /\ InForce(paper, q.inst) /\ InGroup(paper) /\ q.kind = "callback"
           /\ Refuse(r, "redirect")
           /\ session' = [session EXCEPT ![q.browser] =
                [key |-> secret[q.inst], at |-> now, login |-> q.login]]
           /\ state' = [state EXCEPT ![q.browser] = None]
           /\ quiet' = [l \in Logins |-> quiet[l] /\ (home[l] = q.browser => l = q.login)]
  <2>1. done' = [req |-> q, answer |-> Verdict("redirect", "none")]
    BY <1>8 DEF Refuse, Answer
  <2>2. done' \in [req : Requests, answer : Answers] /\ DoneIsVouched'
    BY <1>1, <2>1 DEF Verdict, Answers, DoneIsVouched
  <2>3. q.login \in Logins /\ home[q.login] = q.browser /\ q.browser \in Browsers
    BY <1>1, <1>8 DEF AuthInv, FlightsFit
  <2>4. [key |-> secret[q.inst], at |-> now, login |-> q.login] \in Cookies
    BY <1>1, <2>3 DEF Cookies, AuthInv, TypeOK
  <2>5. TypeOK'
    BY <1>1, <1>3, <1>4, <1>8, <2>2, <2>3, <2>4, RequestTypes
       DEF AuthInv, TypeOK, Verify, issuerVars, counters
  <2>6. FlightsFit'
    <3>1. ASSUME NEW s \in Reqs, NEW l \in Logins, req'[s].login = l
          PROVE  req[s].login = l
      BY <1>5, <3>1, AuthAssumption DEF NoReq, Request
    <3>2. ASSUME NEW s \in Reqs, pc'[s] # "idle"
          PROVE  req'[s] = req[s] /\ pc'[s] = pc[s]
      BY <1>5, <3>2
    <3>3. QED
      BY <1>1, <3>1, <3>2 DEF AuthInv, FlightsFit
  <2>7. IssuedOnce'
    BY <1>1 DEF AuthInv, IssuedOnce
  <2>8. issued[q.login] # None /\ issued[q.login].standing = "member"
        /\ now <= issued[q.login].at + TokenTtl + Leeway
    BY <1>8 DEF Paper, InForce, InGroup
  <2>9. CookiesAreHome'
    <3>1. \A b \in Browsers : state'[b] # None => b # q.browser /\ state'[b] = state[b]
      BY <1>8, <2>3 DEF AuthInv, TypeOK
    <3>2. \A b \in Browsers : b # q.browser => session'[b] = session[b]
      BY <1>8, <2>3 DEF AuthInv, TypeOK
    <3>3. session'[q.browser].login = q.login /\ session'[q.browser].at = now
      BY <1>8, <2>3 DEF AuthInv, TypeOK
    <3>4. QED
      BY <1>1, <2>3, <2>8, <3>1, <3>2, <3>3 DEF AuthInv, CookiesAreHome
  <2>10. \A s \in Reqs : pc'[s] = "idle" => req'[s] = NoReq
    BY <1>5 DEF AuthInv
  <2>11. QED
    BY <1>1, <2>2, <2>5, <2>6, <2>7, <2>9, <2>10 DEF AuthInv, Wired
<1>9. QED
  BY <1>6, <1>7, <1>8 DEF Verify, Rejections

(* AuthInv is inductive.                                                   *)
LEMMA StepInv ==
  ASSUME AuthInv, [Next]_vars
  PROVE  AuthInv'
<1>1. CASE Next
  BY <1>1, ConfigureInv, TickInv, RotateInv, RestartInv, AuthenticateInv, ArriveInv,
     BeginLoginInv, EndLogoutInv, GoOnInv, ExchangeInv, IssuerDownInv, VerifyInv DEF Next
<1>2. CASE UNCHANGED vars
  <2>1. TypeOK' /\ DoneIsVouched'
    BY <1>2 DEF vars, issuerVars, counters, memory, flows, cookies, AuthInv, TypeOK,
       DoneIsVouched
  <2>2. QED
    BY <1>2, <2>1, AwayInv DEF vars, flows
<1>3. QED
  BY <1>1, <1>2

(* Cookies, logins and requests under way stay consistent in every state.  *)
THEOREM AuthInvariance == Spec => []AuthInv
<1>1. Init => AuthInv
  BY InitInv
<1>2. AuthInv /\ [Next]_vars => AuthInv'
  BY StepInv
<1>3. QED
  BY <1>1, <1>2, PTL DEF Spec

----------------------------------------------------------------------------
(* What a request that is let in at once comes in on.                      *)
LEMMA AtOnceIn ==
  ASSUME AuthInv, wired \notin {"starting", "refused"}, NEW q \in Arrivals,
         AtOnce(q).verdict = "in"
  PROVE  \/ AtOnce(q).by = "public" /\ q.kind = "public"
         \/ AtOnce(q).by = "open" /\ deploy.mode = "none" /\ deploy.env = "development"
         \/ AtOnce(q).by = "static" /\ q.cred = "static" /\ deploy.token # "unset"
              /\ (deploy.mode = "bearer" \/ deploy.fallback)
         \/ /\ q.cred = "none" /\ q.browser \in Browsers
            /\ Readable(session[q.browser], q.inst, SessionTtl)
            /\ AtOnce(q).by = session[q.browser].login
<1>1. wired = Wired(deploy) /\ deploy \in Deployment
  BY AuthAssumption DEF AuthInv, TypeOK
<1>2. CASE wired = "open"
  BY <1>1, <1>2, WiredType DEF AtOnce, Verdict
<1>3. CASE wired # "open" /\ q.kind = "public"
  BY <1>3 DEF AtOnce, Verdict
<1>4. CASE wired = "bearer" /\ q.kind # "public"
  <2>1. AtOnce(q) = Bearer(q)
    BY <1>4 DEF AtOnce
  <2>2. q.cred = "static" /\ Bearer(q).by = "static"
    BY <2>1 DEF Bearer, Verdict
  <2>3. deploy.mode = "bearer" /\ deploy.token # "unset"
    BY <1>1, <1>4, WiredType
  <2>4. QED
    BY <2>1, <2>2, <2>3
<1>5. CASE wired = "oidc" /\ q.kind # "public"
  <2>1. q.kind \in {"page", "call", "login", "logout", "callback"} /\ TypeOK
    BY <1>5, ArrivalShapes DEF AuthInv
  <2>2. CASE q.kind \in {"login", "logout", "callback"}
    BY <1>5, <2>2 DEF AtOnce, Callback, Verdict
  <2>3. CASE q.kind \in {"page", "call"} /\ q.cred = "none"
    <3>1. AtOnce(q) = Browse(q)
      BY <1>5, <2>3 DEF AtOnce
    <3>2. q.browser \in Browsers
      BY <2>1, <2>3, ArrivalShapes
    <3>3. Readable(session[q.browser], q.inst, SessionTtl)
      BY <3>1 DEF Browse, Verdict
    <3>4. QED
      BY <2>3, <3>1, <3>2, <3>3 DEF Browse, Verdict
  <2>4. CASE q.kind \in {"page", "call"} /\ q.cred # "none"
    <3>1. AtOnce(q) = Call(q)
      BY <1>5, <2>4 DEF AtOnce
    <3>2. q.cred = "static" /\ deploy.fallback /\ Call(q).by = "static"
      BY <3>1 DEF Call, Verdict
    <3>3. deploy.token # "unset"
      BY <2>1, <3>2, ArrivalShapes
    <3>4. QED
      BY <3>1, <3>2, <3>3
  <2>5. QED
    BY <2>1, <2>2, <2>3, <2>4
<1>6. QED
  BY <1>1, <1>2, <1>3, <1>4, <1>5, WiredType

(* Whoever is let in is vouched for, in every state.                       *)
THEOREM EntriesAreVouched == Spec => []EntryIsVouched
<1>1. AuthInv => EntryIsVouched
  <2>1. SUFFICES ASSUME AuthInv, NEW e \in Entries, e.answer.verdict = "in"
                 PROVE  LET by == e.answer.by  q == e.req IN
                        \/ by = "public" /\ q.kind = "public"
                        \/ by = "open" /\ deploy.mode = "none" /\ deploy.env = "development"
                        \/ by = "static" /\ q.cred = "static" /\ deploy.token # "unset"
                             /\ (deploy.mode = "bearer" \/ deploy.fallback)
                        \/ by = "token" /\ q.cred = "token" /\ q.paper.standing = "member"
                        \/ by \in Logins /\ q.cred = "none" /\ home[by] = q.browser
                             /\ issued[by] # None /\ issued[by].standing = "member"
    BY DEF EntryIsVouched
  <2>2. CASE e = done
    BY <2>1, <2>2 DEF AuthInv, DoneIsVouched
  <2>3. CASE wired \notin {"starting", "refused"} /\ \E q \in Arrivals :
               e = [req |-> q, answer |-> AtOnce(q)]
    <3>1. PICK q \in Arrivals : e = [req |-> q, answer |-> AtOnce(q)]
      BY <2>3
    <3>2. e.req = q /\ e.answer = AtOnce(q)
      BY <3>1
    <3>3. CASE /\ q.cred = "none" /\ q.browser \in Browsers
               /\ Readable(session[q.browser], q.inst, SessionTtl)
               /\ AtOnce(q).by = session[q.browser].login
      BY <2>1, <3>2, <3>3 DEF AuthInv, TypeOK, CookiesAreHome, Readable, Cookies
    <3>4. QED
      BY <2>1, <2>3, <3>2, <3>3, AtOnceIn
  <2>4. QED
    BY <2>1, <2>2, <2>3 DEF Entries
<1>2. QED
  BY <1>1, AuthInvariance, PTL

(* Nobody is let in long after the issuer has vouched for them.            *)
THEOREM AccessEnds == Spec => []AccessEndsInTime
<1>1. AuthInv => AccessEndsInTime
  <2>1. SUFFICES ASSUME AuthInv, NEW e \in Entries, e.answer.verdict = "in"
                 PROVE  LET by == e.answer.by IN
                        /\ by = "token" => now <= e.req.paper.at + TokenTtl + Leeway
                        /\ by \in Logins =>
                             now <= issued[by].at + TokenTtl + Leeway + SessionTtl
    BY DEF AccessEndsInTime
  <2>2. CASE e = done
    BY <2>1, <2>2, AuthAssumption DEF AuthInv, DoneIsVouched
  <2>3. CASE wired \notin {"starting", "refused"} /\ \E q \in Arrivals :
               e = [req |-> q, answer |-> AtOnce(q)]
    <3>1. PICK q \in Arrivals : e = [req |-> q, answer |-> AtOnce(q)]
      BY <2>3
    <3>2. e.req = q /\ e.answer = AtOnce(q)
      BY <3>1
    <3>3. CASE /\ q.browser \in Browsers
               /\ Readable(session[q.browser], q.inst, SessionTtl)
               /\ AtOnce(q).by = session[q.browser].login
      <4> DEFINE s == session[q.browser]
                 l == s.login
      <4>1. /\ s \in Cookies /\ l \in Logins /\ issued[l] \in Papers
            /\ s.at <= issued[l].at + TokenTtl + Leeway
        <5>1. s # None /\ s \in Cookies \cup {None} /\ q.browser \in Browsers
          BY <2>1, <3>3 DEF AuthInv, TypeOK, Readable
        <5>2. l \in Logins
          BY <5>1 DEF Cookies
        <5>3. issued[l] # None /\ s.at <= issued[l].at + TokenTtl + Leeway
          BY <5>1, <2>1 DEF AuthInv, CookiesAreHome
        <5>4. issued[l] \in Papers
          BY <2>1, <5>2, <5>3 DEF AuthInv, TypeOK
        <5>5. QED
          BY <5>1, <5>2, <5>3, <5>4
      <4>2. now <= s.at + SessionTtl
        BY <3>3 DEF Readable
      <4>3. now \in Nat /\ s.at \in Nat /\ issued[l].at \in Nat
        BY <2>1, <4>1 DEF Cookies, Papers, AuthInv, TypeOK
      <4>4. now <= issued[l].at + TokenTtl + Leeway + SessionTtl
        BY <4>1, <4>2, <4>3, AuthAssumption
      <4>5. QED
        BY <3>2, <3>3, <4>1, <4>4, AuthAssumption
    <3>4. QED
      BY <2>1, <2>3, <3>2, <3>3, AtOnceIn, AuthAssumption
  <2>4. QED
    BY <2>1, <2>2, <2>3 DEF Entries
<1>2. QED
  BY <1>1, AuthInvariance, PTL

(* Only the browser a login was begun in uses up its code.                 *)
THEOREM CodesAtHome == Spec => CodesAreSpentAtHome
<1> DEFINE AtHome ==
      \A l \in Logins : code[l] = "fresh" /\ code'[l] = "spent" =>
        \E r \in Reqs : /\ pc[r] = "exchange" /\ pc'[r] # "exchange"
                        /\ req[r].login = l /\ req[r].browser = home[l]
<1>1. ASSUME AuthInv, [Next]_vars
      PROVE  AtHome
  <2>1. SUFFICES ASSUME NEW l \in Logins, code[l] = "fresh", code'[l] = "spent"
                 PROVE  \E r \in Reqs : /\ pc[r] = "exchange" /\ pc'[r] # "exchange"
                                        /\ req[r].login = l /\ req[r].browser = home[l]
    OBVIOUS
  <2>2. PICK r \in Reqs : Exchange(r)
    <3>1. code' # code
      BY <2>1
    <3>2. \A m \in Logins : ~Authenticate(m)
      BY <1>1, <2>1 DEF Authenticate, AuthInv, TypeOK
    <3>3. ~UNCHANGED vars
      BY <3>1 DEF vars, flows
    <3>4. QED
      BY <1>1, <3>1, <3>2, <3>3 DEF Next, Configure, Tick, Rotate, Restart, Arrive, BeginLogin,
         EndLogout, GoOn, IssuerDown, Verify, flows
  <2>3. req[r].login = l
    BY <2>1, <2>2 DEF Exchange, AuthInv, TypeOK
  <2>4. pc[r] = "exchange" /\ req[r].browser = home[l]
    BY <1>1, <2>2, <2>3 DEF Exchange, AuthInv, FlightsFit
  <2>5. pc'[r] # "exchange"
    <3>1. pc' = [pc EXCEPT ![r] = "keys"] \/ pc' = [pc EXCEPT ![r] = "idle"]
      BY <2>2 DEF Exchange, Await, Refuse, Answer
    <3>2. QED
      BY <1>1, <3>1 DEF AuthInv, TypeOK
  <2>6. QED
    BY <2>3, <2>4, <2>5
<1>2. QED
  BY <1>1, AuthInvariance, PTL DEF Spec, CodesAreSpentAtHome

----------------------------------------------------------------------------
(* A login that nothing interferes with.                                   *)

(* With a configured secret every instance reads every cookie.             *)
SecretsShared ==
  deploy.secret =>
    /\ \A i \in Instances : secret[i] = None
    /\ \A b \in Browsers : state[b] # None => state[b].key = None

(* The issuer gives its word after the login has begun, and tells apart    *)
(* who is in the groups only where groups are asked for.                   *)
WordInTime ==
  \A l \in Logins :
    /\ begun[l] <= now
    /\ issued[l] # None => /\ begun[l] <= issued[l].at
                           /\ issued[l].standing = "outsider" => deploy.groups

(* A quiet login has seen one key.                                         *)
KeysKept ==
  \A l \in Logins : quiet[l] =>
    /\ key = 0 /\ published = {0} /\ \A i \in Instances : jwks[i] \in {Unloaded, {0}}
    /\ issued[l] # None => issued[l].key = 0

(* Until its code is spent the browser has its state cookie.               *)
StateKept ==
  \A l \in Logins : quiet[l] /\ home[l] # None /\ code[l] # "spent" =>
    /\ state[home[l]] # None /\ state[home[l]].login = l /\ state[home[l]].at = begun[l]

(* A callback is alone with its login, and has the code to itself.         *)
CallbacksAlone ==
  \A r \in Reqs : pc[r] # "idle" /\ req[r].kind = "callback" => LET l == req[r].login IN
    /\ req[r].stash = l
    /\ pc[r] = "keys" => issued[l] # None
    /\ quiet[l] => /\ pc[r] # "keys" => code[l] = "fresh"
                   /\ \A s \in Reqs : req[s].login = l => s = r

(* A callback answered in this step was answered as the issuer has it.     *)
DoneIsFair ==
  done.req.kind = "callback" => LET l == done.req.login  v == done.answer.verdict IN
    /\ l \in Logins /\ done.req.stash # None
    /\ quiet[l] /\ InGoodTime(l) =>
         \/ v = "redirect"
         \/ v = "403" /\ deploy.groups /\ issued[l].standing = "outsider"
         \/ v = "401" /\ issued[l] # None /\ issued[l].standing = "foreign"

FairInv ==
  /\ SecretsShared /\ WordInTime /\ KeysKept /\ StateKept /\ CallbacksAlone /\ DoneIsFair

(* At first nothing has been begun.                                        *)
LEMMA InitFair ==
  ASSUME Init
  PROVE  FairInv
<1>1. SecretsShared /\ WordInTime /\ StateKept /\ CallbacksAlone
  BY DEF Init, SecretsShared, WordInTime, StateKept, CallbacksAlone
<1>2. KeysKept
  BY DEF Init, KeysKept
<1>3. DoneIsFair
  BY DEF Init, DoneIsFair, Nothing, NoReq, Request
<1>4. QED
  BY <1>1, <1>2, <1>3 DEF FairInv

(* A step that begins no login, takes in no callback and redeems no code.  *)
FairStep ==
  /\ UNCHANGED <<deploy, begun, issued>> /\ now' \in {now, now + 1}
  /\ \A l \in Logins : quiet'[l] => quiet[l] /\ key' = key /\ published' = published
  /\ \A i \in Instances : jwks'[i] \in {jwks[i], KeySet(i), Unloaded}
  /\ \A l \in Logins : code'[l] = code[l] \/ code[l] = "none"
  /\ \A r \in Reqs :
       \/ pc'[r] = "idle" /\ req'[r] = NoReq
       \/ /\ req'[r] = req[r] /\ pc[r] # "idle"
          /\ \/ pc'[r] = pc[r] \/ req[r].kind # "callback"
             \/ pc'[r] = "exchange" /\ pc[r] = "wellknown"

(* Such a step keeps what quiet logins rest on.                            *)
LEMMA FairAway ==
  ASSUME AuthInv, FairInv, TypeOK', FairStep, SecretsShared', StateKept', DoneIsFair'
  PROVE  FairInv'
<1> USE DEF FairStep
<1>1. WordInTime'
  <2>1. \A l \in Logins : begun[l] \in Nat /\ begun[l] <= now /\ now \in Nat
    BY DEF AuthInv, TypeOK, FairInv, WordInTime
  <2>2. \A l \in Logins : begun[l] <= now'
    BY <2>1
  <2>3. QED
    BY <2>2 DEF FairInv, WordInTime
<1>2. KeysKept'
  <2>1. ASSUME NEW l \in Logins, quiet'[l]
        PROVE  /\ key' = 0 /\ published' = {0} /\ \A i \in Instances : jwks'[i] \in {Unloaded, {0}}
               /\ issued'[l] # None => issued'[l].key = 0
    <3>1. /\ key = 0 /\ published = {0} /\ \A i \in Instances : jwks[i] \in {Unloaded, {0}}
          /\ issued[l] # None => issued[l].key = 0
      BY <2>1 DEF FairInv, KeysKept
    <3>2. \A i \in Instances : KeySet(i) = {0}
      BY <3>1 DEF KeySet
    <3>3. QED
      BY <2>1, <3>1, <3>2
  <2>2. QED
    BY <2>1 DEF KeysKept, Unloaded
<1>3. CallbacksAlone'
  <2>1. ASSUME NEW r \in Reqs, pc'[r] # "idle", req'[r].kind = "callback"
        PROVE  LET l == req'[r].login IN
               /\ req'[r].stash = l
               /\ pc'[r] = "keys" => issued'[l] # None
               /\ quiet'[l] => /\ pc'[r] # "keys" => code'[l] = "fresh"
                               /\ \A s \in Reqs : req'[s].login = l => s = r
    <3>1. /\ req'[r] = req[r] /\ pc[r] # "idle" /\ (pc'[r] = "keys" <=> pc[r] = "keys")
      BY <2>1
    <3> DEFINE l == req[r].login
    <3>2. l \in Logins
      BY <2>1, <3>1 DEF AuthInv, FlightsFit
    <3>3. /\ req[r].stash = l
          /\ pc[r] = "keys" => issued[l] # None
          /\ quiet[l] => /\ pc[r] # "keys" => code[l] = "fresh"
                         /\ \A s \in Reqs : req[s].login = l => s = r
      BY <2>1, <3>1 DEF FairInv, CallbacksAlone
    <3>4. \A s \in Reqs : req'[s].login = l => req[s].login = l
      BY <3>2, AuthAssumption DEF NoReq, Request
    <3>5. quiet'[l] => quiet[l] /\ (code[l] = "fresh" => code'[l] = "fresh")
      BY <3>2
    <3>6. QED
      BY <3>1, <3>3, <3>4, <3>5
  <2>2. QED
    BY <2>1 DEF CallbacksAlone
<1>4. QED
  BY <1>1, <1>2, <1>3 DEF FairInv

(* The state cookies and the secrets stay.                                 *)
LEMMA StateStays ==
  ASSUME AuthInv, FairInv, UNCHANGED <<deploy, state, home, begun>>,
         \A l \in Logins : quiet'[l] => quiet[l],
         \A l \in Logins : code[l] = "spent" => code'[l] = "spent",
         deploy.secret => \A i \in Instances : secret'[i] = None
  PROVE  SecretsShared' /\ StateKept'
<1>1. SecretsShared'
  BY DEF FairInv, SecretsShared
<1>2. StateKept'
  BY DEF FairInv, StateKept
<1>3. QED
  BY <1>1, <1>2

(* Nothing is answered: no promise to keep.                                *)
LEMMA NothingIsFair ==
  ASSUME done' = Nothing
  PROVE  DoneIsFair'
BY DEF DoneIsFair, Nothing, NoReq, Request

(* Configure: the secrets are drawn.                                       *)
LEMMA ConfigureFair ==
  ASSUME AuthInv, FairInv, Configure, TypeOK'
  PROVE  FairInv'
<1>1. /\ UNCHANGED <<deploy, now, key, published, begun, issued, jwks, pc, req, done, home, code, quiet, state>>
      /\ secret' = [i \in Instances |-> Drawn(i, 0)]
  BY DEF Configure, issuerVars, flows, cookies
<1>2. SecretsShared' /\ StateKept'
  <2>1. deploy.secret => \A i \in Instances : secret'[i] = None
    BY <1>1 DEF Drawn
  <2>2. QED
    BY <1>1, <2>1, StateStays
<1>3. DoneIsFair'
  BY <1>1 DEF FairInv, DoneIsFair, InGoodTime
<1>4. \A r \in Reqs : \/ pc'[r] = "idle" /\ req'[r] = NoReq
                      \/ req'[r] = req[r] /\ pc[r] # "idle" /\ pc'[r] = pc[r]
  BY <1>1 DEF AuthInv
<1>5. FairStep
  BY <1>1, <1>2, <1>3, <1>4 DEF FairStep
<1>6. QED
  BY <1>1, <1>2, <1>3, <1>4, <1>5, FairAway

(* Restart: the requests of the instance end, and their logins are         *)
(* disturbed.                                                              *)
LEMMA RestartFair ==
  ASSUME AuthInv, FairInv, NEW i \in Instances, Restart(i), TypeOK'
  PROVE  FairInv'
<1>1. /\ UNCHANGED <<deploy, now, key, published, begun, issued, home, code, state>>
      /\ secret' = [secret EXCEPT ![i] = Drawn(i, restarts + 1)]
      /\ jwks' = [jwks EXCEPT ![i] = Unloaded] /\ done' = Nothing
      /\ \A l \in Logins : quiet'[l] => quiet[l]
  BY DEF Restart, issuerVars, cookies
<1>2. SecretsShared' /\ StateKept'
  <2>1. deploy.secret => \A j \in Instances : secret'[j] = None
    <3>1. ASSUME deploy.secret, NEW j \in Instances PROVE secret'[j] = None
      <4>1. secret[j] = None
        BY <3>1 DEF FairInv, SecretsShared
      <4>2. Drawn(i, restarts + 1) = None
        BY <3>1 DEF Drawn
      <4>3. QED
        BY <1>1, <4>1, <4>2 DEF AuthInv, TypeOK
    <3>2. QED
      BY <3>1
  <2>2. QED
    BY <1>1, <2>1, StateStays
<1>3. DoneIsFair'
  BY <1>1, NothingIsFair
<1>4. \A j \in Instances : jwks'[j] \in {jwks[j], KeySet(j), Unloaded}
  BY <1>1 DEF AuthInv, TypeOK
<1>5. \A r \in Reqs : \/ pc'[r] = "idle" /\ req'[r] = NoReq
                      \/ req'[r] = req[r] /\ pc[r] # "idle" /\ pc'[r] = pc[r]
  BY DEF Restart, AuthInv
<1>6. FairStep
  BY <1>1, <1>2, <1>3, <1>4, <1>5 DEF FairStep
<1>7. QED
  BY <1>1, <1>2, <1>3, <1>4, <1>5, <1>6, FairAway

(* Tick, Rotate and Authenticate: no request moves.                        *)
LEMMA WorldFair ==
  ASSUME AuthInv, FairInv, Tick \/ Rotate \/ (\E l \in Logins : Authenticate(l)), TypeOK'
  PROVE  FairInv'
<1>1. /\ UNCHANGED <<deploy, begun, issued, jwks, secret, pc, req, home, state>> /\ done' = Nothing
      /\ now' \in {now, now + 1}
      /\ \A l \in Logins : quiet'[l] => quiet[l] /\ key' = key /\ published' = published
      /\ \A l \in Logins : code'[l] = code[l] \/ code[l] = "none"
  <2>1. CASE Tick
    BY <2>1 DEF Tick, memory, flows, cookies
  <2>2. CASE Rotate
    BY <2>2 DEF Rotate, memory, cookies
  <2>3. ASSUME NEW l \in Logins, Authenticate(l)
        PROVE  /\ UNCHANGED <<deploy, begun, issued, jwks, secret, pc, req, home, state>> /\ done' = Nothing
               /\ now' = now /\ key' = key /\ published' = published /\ quiet' = quiet
               /\ \A x \in Logins : code'[x] = code[x] \/ code[x] = "none"
    BY <2>3 DEF Authenticate, memory, issuerVars, cookies, AuthInv, TypeOK
  <2>4. QED
    BY <2>1, <2>2, <2>3
<1>2. SecretsShared' /\ StateKept'
  <2>1. deploy.secret => \A i \in Instances : secret'[i] = None
    BY <1>1 DEF FairInv, SecretsShared
  <2>2. \A l \in Logins : code[l] = "spent" => code'[l] = "spent"
    BY <1>1
  <2>3. QED
    BY <1>1, <2>1, <2>2, StateStays
<1>3. DoneIsFair'
  BY <1>1, NothingIsFair
<1>4. \A r \in Reqs : \/ pc'[r] = "idle" /\ req'[r] = NoReq
                      \/ req'[r] = req[r] /\ pc[r] # "idle" /\ pc'[r] = pc[r]
  BY <1>1 DEF AuthInv
<1>5. FairStep
  BY <1>1, <1>2, <1>3, <1>4 DEF FairStep
<1>6. QED
  BY <1>1, <1>2, <1>3, <1>4, <1>5, FairAway

(* Arrive: a callback finds its code fresh and nobody at it, or its login  *)
(* is disturbed.                                                           *)
LEMMA ArriveFair ==
  ASSUME AuthInv, FairInv, NEW r \in Reqs, Arrive(r), TypeOK'
  PROVE  FairInv'
<1>1. PICK q \in Arrivals :
        /\ AtOnce(q).verdict = "await"
        /\ pc' = [pc EXCEPT ![r] = "wellknown"]
        /\ req' = [req EXCEPT ![r] =
             IF q.kind = "callback" THEN [q EXCEPT !.stash = state[q.browser].login] ELSE q]
        /\ quiet' = [l \in Logins |-> quiet[l] /\
             (q.kind = "callback" /\ q.login = l => code[l] = "fresh" /\ ~Busy(l))]
  BY DEF Arrive
<1>2. /\ UNCHANGED <<deploy, now, key, published, secret, jwks, begun, issued, home, code, state>>
      /\ done' = Nothing /\ wired = "oidc" /\ pc[r] = "idle"
  BY DEF Arrive, InFlight, issuerVars, memory, cookies
<1>3. \A l \in Logins : quiet'[l] => quiet[l]
  BY <1>1
<1>4. SecretsShared' /\ StateKept'
  <2>1. deploy.secret => \A i \in Instances : secret'[i] = None
    BY <1>2 DEF FairInv, SecretsShared
  <2>2. QED
    BY <1>2, <1>3, <2>1, StateStays
<1>5. WordInTime' /\ KeysKept'
  BY <1>2, <1>3 DEF FairInv, WordInTime, KeysKept
<1>6. DoneIsFair'
  BY <1>2, NothingIsFair
<1>7. /\ q \in Requests
      /\ q.kind = "callback" => q.login \in Logins /\ q.browser \in Browsers
      /\ q.kind = "login" => q.login \in Logins /\ home[q.login] = None
      /\ q.kind \notin {"login", "callback"} => q.login = None
  BY RequestTypes, ArrivalShapes DEF AuthInv
<1>8. q.kind = "callback" => state[q.browser].login = q.login
  <2>1. ASSUME q.kind = "callback" PROVE Matches(state[q.browser], q.login)
    BY <1>1, <1>2, <2>1 DEF AtOnce, Callback, Verdict
  <2>2. QED
    BY <2>1 DEF Matches
<1>9. PICK p : /\ req' = [req EXCEPT ![r] = p] /\ p.kind = q.kind /\ p.login = q.login
               /\ q.kind = "callback" => p.stash = q.login
  <2>1. CASE q.kind = "callback"
    <3>1. PICK p : p = [q EXCEPT !.stash = state[q.browser].login]
      OBVIOUS
    <3>2. p.kind = q.kind /\ p.login = q.login /\ p.stash = q.login
      BY <1>7, <1>8, <2>1, <3>1 DEF Requests
    <3>3. QED
      BY <1>1, <2>1, <3>1, <3>2
  <2>2. CASE q.kind # "callback"
    BY <1>1, <2>2
  <2>3. QED
    BY <2>1, <2>2
<1>10. CallbacksAlone'
  <2>1. /\ req'[r] = p /\ pc'[r] = "wellknown"
        /\ \A s \in Reqs : s # r => req'[s] = req[s] /\ pc'[s] = pc[s]
    BY <1>1, <1>9 DEF AuthInv, TypeOK
  <2>2. ASSUME NEW t \in Reqs, pc'[t] # "idle", req'[t].kind = "callback"
        PROVE  LET l == req'[t].login IN
               /\ req'[t].stash = l
               /\ pc'[t] = "keys" => issued'[l] # None
               /\ quiet'[l] => /\ pc'[t] # "keys" => code'[l] = "fresh"
                               /\ \A s \in Reqs : req'[s].login = l => s = t
    <3>1. CASE t = r
      <4>1. p.kind = "callback" /\ q.kind = "callback" /\ q.login \in Logins /\ p.login = q.login /\ p.stash = p.login
        BY <1>7, <1>9, <2>1, <2>2, <3>1
      <4>2. quiet'[q.login] => code[q.login] = "fresh" /\ ~Busy(q.login)
        BY <1>1, <4>1
      <4>3. ~Busy(q.login) => \A s \in Reqs : req'[s].login = q.login => s = r
        BY <2>1 DEF Busy
      <4>4. QED
        BY <1>2, <2>1, <3>1, <4>1, <4>2, <4>3
    <3>2. CASE t # r
      <4> DEFINE l == req[t].login
      <4>1. req'[t] = req[t] /\ pc'[t] = pc[t]
        BY <2>1, <3>2
      <4>2. l \in Logins /\ home[l] \in Browsers
        BY <2>2, <4>1 DEF AuthInv, FlightsFit
      <4>3. /\ req[t].stash = l
            /\ pc[t] = "keys" => issued[l] # None
            /\ quiet[l] => /\ pc[t] # "keys" => code[l] = "fresh"
                           /\ \A s \in Reqs : req[s].login = l => s = t
        BY <2>2, <4>1 DEF FairInv, CallbacksAlone
      <4>4. quiet'[l] => quiet[l] /\ p.login # l
        <5>1. ASSUME quiet'[l], p.login = l PROVE FALSE
          <6>1. q.kind = "callback"
            BY <1>7, <1>9, <4>2, <5>1, AuthAssumption
          <6>2. ~Busy(l)
            BY <1>1, <1>9, <4>2, <5>1, <6>1
          <6>3. QED
            BY <6>2 DEF Busy
        <5>2. QED
          BY <1>3, <4>2, <5>1
      <4>5. QED
        BY <1>2, <2>1, <4>1, <4>3, <4>4
    <3>3. QED
      BY <3>1, <3>2
  <2>3. QED
    BY <2>2 DEF CallbacksAlone
<1>11. QED
  BY <1>4, <1>5, <1>6, <1>10 DEF FairInv

(* BeginLogin: the browser gets the state cookie, and another login begun  *)
(* in it is disturbed.                                                     *)
LEMMA BeginLoginFair ==
  ASSUME AuthInv, FairInv, NEW r \in Reqs, BeginLogin(r), TypeOK'
  PROVE  FairInv'
<1> DEFINE q == req[r]
<1>1. /\ pc[r] = "wellknown" /\ q.kind = "login" /\ q.inst \in Instances
      /\ q.browser \in Browsers /\ q.login \in Logins /\ home[q.login] = None
      /\ \A s \in Reqs : req[s].login = q.login => s = r
  BY DEF BeginLogin, Discover, AuthInv, FlightsFit
<1>2. PICK c : c = [key |-> secret[q.inst], at |-> now, login |-> q.login]
  OBVIOUS
<1>3. /\ pc' = [pc EXCEPT ![r] = "idle"] /\ req' = [req EXCEPT ![r] = NoReq]
      /\ done' = [req |-> q, answer |-> Verdict("redirect", "none")]
      /\ home' = [home EXCEPT ![q.login] = q.browser]
      /\ begun' = [begun EXCEPT ![q.login] = now]
      /\ state' = [state EXCEPT ![q.browser] = c]
      /\ quiet' = [l \in Logins |-> quiet[l] /\ home[l] # q.browser]
      /\ UNCHANGED <<deploy, now, key, published, secret, jwks, code, issued>>
  BY <1>2 DEF BeginLogin, Discover, Refuse, Answer, issuerVars
<1>4. code[q.login] = "none" /\ issued[q.login] = None
  BY <1>1 DEF AuthInv, TypeOK, IssuedOnce
<1>5. c # None /\ c.key = secret[q.inst] /\ c.at = now /\ c.login = q.login
  <2>1. c \in Cookies
    BY <1>1, <1>2 DEF AuthInv, TypeOK, Cookies
  <2>2. QED
    BY <1>2, <2>1, AuthAssumption
<1>6. /\ \A l \in Logins : l # q.login => home'[l] = home[l] /\ begun'[l] = begun[l]
      /\ home'[q.login] = q.browser /\ begun'[q.login] = now
      /\ \A b \in Browsers : b # q.browser => state'[b] = state[b]
      /\ state'[q.browser] = c
  BY <1>1, <1>3 DEF AuthInv, TypeOK
<1>7. SecretsShared'
  BY <1>1, <1>3, <1>5, <1>6 DEF FairInv, SecretsShared
<1>8. WordInTime'
  <2>1. ASSUME NEW l \in Logins PROVE begun'[l] <= now /\ (issued[l] # None => begun'[l] <= issued[l].at)
    <3>1. CASE l = q.login
      BY <1>4, <1>6, <3>1 DEF AuthInv, TypeOK
    <3>2. CASE l # q.login
      BY <1>6, <3>2 DEF FairInv, WordInTime
    <3>3. QED
      BY <3>1, <3>2
  <2>2. QED
    BY <1>3, <2>1 DEF FairInv, WordInTime
<1>9. KeysKept'
  BY <1>3 DEF FairInv, KeysKept
<1>10. StateKept'
  <2>1. ASSUME NEW l \in Logins, quiet'[l], home'[l] # None, code'[l] # "spent"
        PROVE  state'[home'[l]] # None /\ state'[home'[l]].login = l /\ state'[home'[l]].at = begun'[l]
    <3>1. CASE l = q.login
      BY <1>5, <1>6, <3>1
    <3>2. CASE l # q.login
      <4>1. home'[l] = home[l] /\ home[l] # q.browser /\ quiet[l] /\ home[l] \in Browsers /\ code[l] # "spent"
        <5>1. quiet[l] /\ home[l] # q.browser
          BY <1>3, <2>1
        <5>2. home'[l] = home[l]
          BY <1>6, <3>2
        <5>3. code[l] # "spent"
          BY <1>3, <2>1
        <5>4. home[l] \in Browsers \cup {None}
          BY DEF AuthInv, TypeOK
        <5>5. QED
          BY <2>1, <5>1, <5>2, <5>3, <5>4
      <4>2. state[home[l]] # None /\ state[home[l]].login = l /\ state[home[l]].at = begun[l]
        BY <1>6, <2>1, <3>2, <4>1 DEF FairInv, StateKept
      <4>3. QED
        BY <1>6, <3>2, <4>1, <4>2
    <3>3. QED
      BY <3>1, <3>2
  <2>2. QED
    BY <2>1 DEF StateKept
<1>11. CallbacksAlone'
  <2>1. \A s \in Reqs : pc'[s] # "idle" => s # r /\ req'[s] = req[s] /\ pc'[s] = pc[s]
    BY <1>1, <1>3 DEF AuthInv, TypeOK
  <2>2. \A s \in Reqs, l \in Logins : req'[s].login = l => req[s].login = l
    BY <1>3, AuthAssumption DEF AuthInv, TypeOK, NoReq, Request
  <2>3. \A s \in Reqs : pc[s] # "idle" /\ req[s].kind = "callback" => req[s].login \in Logins
    BY DEF AuthInv, FlightsFit
  <2>4. \A l \in Logins : quiet'[l] => quiet[l]
    BY <1>3
  <2>5. QED
    BY <1>3, <2>1, <2>2, <2>3, <2>4 DEF FairInv, CallbacksAlone
<1>12. DoneIsFair'
  BY <1>1, <1>3 DEF DoneIsFair
<1>13. QED
  BY <1>7, <1>8, <1>9, <1>10, <1>11, <1>12 DEF FairInv

(* EndLogout and GoOn.                                                     *)
LEMMA OnwardFair ==
  ASSUME AuthInv, FairInv, NEW r \in Reqs, EndLogout(r) \/ GoOn(r), TypeOK'
  PROVE  FairInv'
<1>1. UNCHANGED <<deploy, now, key, published, secret, jwks, begun, issued, home, code, quiet, state>>
  BY DEF EndLogout, GoOn, Discover, issuerVars, cookies
<1>2. SecretsShared' /\ StateKept'
  <2>1. deploy.secret => \A i \in Instances : secret'[i] = None
    BY <1>1 DEF FairInv, SecretsShared
  <2>2. QED
    BY <1>1, <2>1, StateStays
<1>3. pc[r] = "wellknown"
  BY DEF EndLogout, GoOn, Discover
<1>4. CASE EndLogout(r)
  <2>1. /\ pc' = [pc EXCEPT ![r] = "idle"] /\ req' = [req EXCEPT ![r] = NoReq]
        /\ done' = [req |-> req[r], answer |-> Verdict("redirect", "none")] /\ req[r].kind = "logout"
    BY <1>4 DEF EndLogout, Refuse, Answer
  <2>2. DoneIsFair'
    BY <2>1 DEF DoneIsFair
  <2>3. \A s \in Reqs : \/ pc'[s] = "idle" /\ req'[s] = NoReq
                        \/ req'[s] = req[s] /\ pc[s] # "idle" /\ pc'[s] = pc[s]
    BY <2>1 DEF AuthInv, TypeOK
  <2>4. FairStep
    BY <1>1, <1>2, <2>2, <2>3 DEF FairStep
  <2>5. QED
    BY <1>1, <1>2, <2>2, <2>3, <2>4, FairAway
<1>5. CASE GoOn(r)
  <2>1. /\ pc' = [pc EXCEPT ![r] = IF req[r].kind = "callback" THEN "exchange" ELSE "keys"]
        /\ req' = req /\ done' = Nothing
    BY <1>5 DEF GoOn, Await
  <2>2. DoneIsFair'
    BY <2>1, NothingIsFair
  <2>3. \A s \in Reqs :
           \/ pc'[s] = "idle" /\ req'[s] = NoReq
           \/ /\ req'[s] = req[s] /\ pc[s] # "idle"
              /\ \/ pc'[s] = pc[s] \/ req[s].kind # "callback"
                 \/ pc'[s] = "exchange" /\ pc[s] = "wellknown"
    <3>1. ASSUME NEW s \in Reqs, s # r PROVE req'[s] = req[s] /\ pc'[s] = pc[s]
      BY <2>1, <3>1 DEF AuthInv, TypeOK
    <3>2. req'[r] = req[r] /\ (req[r].kind = "callback" => pc'[r] = "exchange")
      BY <2>1 DEF AuthInv, TypeOK
    <3>3. QED
      BY <1>3, <3>1, <3>2 DEF AuthInv
  <2>4. FairStep
    BY <1>1, <1>2, <2>2, <2>3 DEF FairStep
  <2>5. QED
    BY <1>1, <1>2, <2>2, <2>3, <2>4, FairAway
<1>6. QED
  BY <1>4, <1>5

(* IssuerDown: the login of the request is disturbed.                      *)
LEMMA IssuerDownFair ==
  ASSUME AuthInv, FairInv, NEW r \in Reqs, IssuerDown(r), TypeOK'
  PROVE  FairInv'
<1>1. /\ UNCHANGED <<deploy, now, key, published, secret, jwks, begun, issued, home, code, state>>
      /\ pc' = [pc EXCEPT ![r] = "idle"] /\ req' = [req EXCEPT ![r] = NoReq]
      /\ done' = [req |-> req[r], answer |-> Verdict("500", "none")]
      /\ quiet' = [l \in Logins |-> quiet[l] /\ l # req[r].login]
  BY DEF IssuerDown, Refuse, Answer, issuerVars, memory, cookies
<1>2. \A l \in Logins : quiet'[l] => quiet[l]
  BY <1>1
<1>3. SecretsShared' /\ StateKept'
  <2>1. deploy.secret => \A i \in Instances : secret'[i] = None
    BY <1>1 DEF FairInv, SecretsShared
  <2>2. QED
    BY <1>1, <1>2, <2>1, StateStays
<1>4. pc[r] # "idle"
  BY DEF IssuerDown
<1>5. DoneIsFair'
  <2>1. ASSUME req[r].kind = "callback"
        PROVE  req[r].login \in Logins /\ req[r].stash # None /\ ~quiet'[req[r].login]
    <3>1. req[r].login \in Logins
      BY <1>4, <2>1 DEF AuthInv, FlightsFit
    <3>2. req[r].stash = req[r].login
      BY <1>4, <2>1 DEF FairInv, CallbacksAlone
    <3>3. QED
      BY <1>1, <3>1, <3>2, AuthAssumption
  <2>2. QED
    BY <1>1, <2>1 DEF DoneIsFair
<1>6. \A s \in Reqs : \/ pc'[s] = "idle" /\ req'[s] = NoReq
                      \/ req'[s] = req[s] /\ pc[s] # "idle" /\ pc'[s] = pc[s]
  BY <1>1 DEF AuthInv, TypeOK
<1>7. FairStep
  BY <1>1, <1>2, <1>3, <1>5, <1>6 DEF FairStep
<1>8. QED
  BY <1>1, <1>2, <1>3, <1>5, <1>6, <1>7, FairAway

(* Exchange: a quiet login's callback has the fresh code and its verifier. *)
LEMMA ExchangeFair ==
  ASSUME AuthInv, FairInv, NEW r \in Reqs, Exchange(r), TypeOK'
  PROVE  FairInv'
<1> DEFINE l == req[r].login
<1>1. /\ pc[r] = "exchange" /\ req[r].kind = "callback" /\ l \in Logins
      /\ home[l] = req[r].browser /\ req[r].browser \in Browsers
  BY DEF Exchange, AuthInv, FlightsFit
<1>2. /\ req[r].stash = l
      /\ quiet[l] => code[l] = "fresh" /\ \A s \in Reqs : req[s].login = l => s = r
  BY <1>1 DEF FairInv, CallbacksAlone
<1>3. /\ code' = [code EXCEPT ![l] = "spent"]
      /\ UNCHANGED <<deploy, now, key, published, secret, jwks, begun, home, state>>
  BY DEF Exchange, issuerVars, memory, cookies
<1>4. /\ \A x \in Logins : x # l => code'[x] = code[x]
      /\ code'[l] = "spent"
  BY <1>1, <1>3 DEF AuthInv, TypeOK
<1>5. \A x \in Logins : quiet'[x] => quiet[x]
  <2>1. quiet' = quiet \/ quiet' = [quiet EXCEPT ![l] = FALSE]
    BY DEF Exchange
  <2>2. QED
    BY <2>1 DEF AuthInv, TypeOK
<1>6. SecretsShared' /\ StateKept'
  <2>1. deploy.secret => \A i \in Instances : secret'[i] = None
    BY <1>3 DEF FairInv, SecretsShared
  <2>2. \A x \in Logins : code[x] = "spent" => code'[x] = "spent"
    BY <1>4
  <2>3. QED
    BY <1>3, <1>5, <2>1, <2>2, StateStays
<1>7. \A s \in Reqs, x \in Logins : req'[s].login = x => req[s].login = x
  <2>1. req' = req \/ req' = [req EXCEPT ![r] = NoReq]
    BY DEF Exchange, Await, Refuse, Answer
  <2>2. QED
    BY <2>1, AuthAssumption, SMTT(30) DEF AuthInv, TypeOK, NoReq, Request
<1>8. ASSUME NEW t \in Reqs, t # r, pc'[t] # "idle", req'[t].kind = "callback",
             \A x \in Logins : x # l => issued'[x] = issued[x],
             issued[l] # None => issued'[l] # None
      PROVE  LET x == req'[t].login IN
             /\ req'[t].stash = x
             /\ pc'[t] = "keys" => issued'[x] # None
             /\ quiet'[x] => /\ pc'[t] # "keys" => code'[x] = "fresh"
                             /\ \A s \in Reqs : req'[s].login = x => s = t
  <2> DEFINE x == req[t].login
  <2>1. req'[t] = req[t] /\ pc'[t] = pc[t]
    BY <1>8 DEF Exchange, Await, Refuse, Answer, AuthInv, TypeOK
  <2>2. x \in Logins
    BY <1>8, <2>1 DEF AuthInv, FlightsFit
  <2>3. /\ req[t].stash = x
        /\ pc[t] = "keys" => issued[x] # None
        /\ quiet[x] => /\ pc[t] # "keys" => code[x] = "fresh"
                       /\ \A s \in Reqs : req[s].login = x => s = t
    BY <1>8, <2>1 DEF FairInv, CallbacksAlone
  <2>4. quiet[x] => x # l
    BY <1>8, <2>3
  <2>5. issued[x] # None => issued'[x] # None
    BY <1>8, <2>2
  <2>6. QED
    BY <1>4, <1>5, <1>7, <2>1, <2>2, <2>3, <2>4, <2>5
<1>9. CASE /\ Redeems(r)
           /\ \E standing \in Standings : issued' = [issued EXCEPT ![l] = Signed(standing)]
           /\ Await(r, "keys") /\ UNCHANGED quiet
  <2>1. PICK standing \in Standings : issued' = [issued EXCEPT ![l] = Signed(standing)]
    BY <1>9
  <2>2. PICK w : w = Signed(standing)
    OBVIOUS
  <2>3. w.at = now /\ w.key = key /\ w.standing = standing /\ w # None
    <3>1. standing \in {"member", "outsider", "foreign"}
      BY DEF Standings
    <3>2. w \in Papers
      BY <2>2, <3>1 DEF Signed, Papers, AuthInv, TypeOK
    <3>3. QED
      BY <2>2, <3>2, AuthAssumption DEF Signed
  <2>4. issued'[l] = w /\ \A x \in Logins : x # l => issued'[x] = issued[x]
    BY <1>1, <2>1, <2>2 DEF AuthInv, TypeOK
  <2>5. standing = "outsider" => deploy.groups
    BY DEF Standings
  <2>6. WordInTime'
    BY <1>3, <2>3, <2>4, <2>5 DEF FairInv, WordInTime
  <2>7. KeysKept'
    BY <1>3, <1>5, <2>3, <2>4 DEF FairInv, KeysKept
  <2>8. pc' = [pc EXCEPT ![r] = "keys"] /\ req' = req /\ done' = Nothing
    BY <1>9 DEF Await
  <2>9. CallbacksAlone'
    <3>1. ASSUME NEW t \in Reqs, pc'[t] # "idle", req'[t].kind = "callback"
          PROVE  LET x == req'[t].login IN
                 /\ req'[t].stash = x
                 /\ pc'[t] = "keys" => issued'[x] # None
                 /\ quiet'[x] => /\ pc'[t] # "keys" => code'[x] = "fresh"
                                 /\ \A s \in Reqs : req'[s].login = x => s = t
      <4>1. CASE t = r
        <5>1. pc'[r] = "keys"
          BY <2>8 DEF AuthInv, TypeOK
        <5>2. QED
          BY <1>2, <1>1, <1>5, <2>3, <2>4, <2>8, <4>1, <5>1
      <4>2. CASE t # r
        BY <1>8, <2>3, <2>4, <3>1, <4>2
      <4>3. QED
        BY <4>1, <4>2
    <3>2. QED
      BY <3>1 DEF CallbacksAlone
  <2>10. DoneIsFair'
    BY <2>8, NothingIsFair
  <2>11. QED
    BY <1>6, <2>6, <2>7, <2>9, <2>10 DEF FairInv
<1>10. CASE /\ UNCHANGED issued
            /\ \/ ~Redeems(r) /\ Refuse(r, "401")
               \/ Refuse(r, "500") /\ quiet' = [quiet EXCEPT ![l] = FALSE]
  <2>1. ~quiet'[l]
    <3>1. CASE ~Redeems(r)
      BY <1>1, <1>2, <1>5, <3>1 DEF Redeems
    <3>2. CASE quiet' = [quiet EXCEPT ![l] = FALSE]
      BY <1>1, <3>2 DEF AuthInv, TypeOK
    <3>3. QED
      BY <1>10, <3>1, <3>2
  <2>2. WordInTime' /\ KeysKept'
    BY <1>3, <1>5, <1>10 DEF FairInv, WordInTime, KeysKept
  <2>3. /\ pc' = [pc EXCEPT ![r] = "idle"]
        /\ done'.req = req[r]
    BY <1>10 DEF Refuse, Answer
  <2>4. DoneIsFair'
    BY <1>1, <1>2, <2>1, <2>3, AuthAssumption DEF DoneIsFair
  <2>5. CallbacksAlone'
    <3>1. \A t \in Reqs : pc'[t] # "idle" => t # r
      BY <2>3 DEF AuthInv, TypeOK
    <3>2. QED
      BY <1>8, <1>10, <3>1 DEF CallbacksAlone
  <2>6. QED
    BY <1>6, <2>2, <2>4, <2>5 DEF FairInv
<1>11. QED
  BY <1>9, <1>10 DEF Exchange

(* Verify: what the issuer has signed for a quiet login is in force as     *)
(* long as the login is in good time, unless it is for somebody else.      *)
LEMMA VerifyFair ==
  ASSUME AuthInv, FairInv, NEW r \in Reqs, Verify(r), TypeOK'
  PROVE  FairInv'
<1> DEFINE q == req[r]
           l == q.login
           paper == Paper(q)
<1>1. /\ pc[r] = "keys" /\ q.inst \in Instances
      /\ jwks' = [jwks EXCEPT ![q.inst] = KeySet(q.inst)]
      /\ UNCHANGED <<deploy, now, key, published, secret, begun, issued, home, code>>
      /\ pc' = [pc EXCEPT ![r] = "idle"] /\ req' = [req EXCEPT ![r] = NoReq]
  BY DEF Verify, Refuse, Answer, AuthInv, FlightsFit, issuerVars
<1>2. \A i \in Instances : jwks'[i] \in {jwks[i], KeySet(i), Unloaded}
  BY <1>1 DEF AuthInv, TypeOK
<1>3. \A s \in Reqs : \/ pc'[s] = "idle" /\ req'[s] = NoReq
                      \/ req'[s] = req[s] /\ pc[s] # "idle" /\ pc'[s] = pc[s]
  BY <1>1 DEF AuthInv, TypeOK
<1>4. deploy.secret => \A i \in Instances : secret'[i] = None
  BY <1>1 DEF FairInv, SecretsShared
<1>5. ASSUME q.kind = "callback"
      PROVE  l \in Logins /\ q.stash = l /\ issued[l] # None /\ issued[l] \in Papers /\ paper = issued[l]
  <2>1. l \in Logins /\ q.stash = l /\ issued[l] # None
    BY <1>1, <1>5 DEF AuthInv, FlightsFit, FairInv, CallbacksAlone
  <2>2. issued[l] \in Papers
    BY <2>1 DEF AuthInv, TypeOK
  <2>3. QED
    BY <1>5, <2>1, <2>2 DEF Paper
<1>6. ASSUME q.kind = "callback", quiet[l], InGoodTime(l)
      PROVE  InForce(paper, q.inst) \/ issued[l].standing = "foreign"
  <2>1. KeySet(q.inst) = {0} /\ issued[l].key = 0
    BY <1>1, <1>5, <1>6 DEF KeySet, FairInv, KeysKept
  <2>2. begun[l] <= issued[l].at /\ now <= begun[l] + TokenTtl + Leeway
    BY <1>5, <1>6 DEF FairInv, WordInTime, InGoodTime
  <2>3. begun[l] \in Nat /\ issued[l].at \in Nat /\ now \in Nat
    BY <1>5, <1>6 DEF AuthInv, TypeOK, Papers
  <2>4. now <= issued[l].at + TokenTtl + Leeway
    BY <2>2, <2>3, AuthAssumption
  <2>5. QED
    BY <1>5, <1>6, <2>1, <2>4 DEF InForce
<1>7. CASE UNCHANGED <<cookies, quiet>>
  <2>1. SecretsShared' /\ StateKept'
    BY <1>1, <1>4, <1>7, StateStays DEF cookies
  <2>2. DoneIsFair'
    <3>1. CASE q.kind # "callback"
      <4>1. done'.req = q
        BY DEF Verify, Refuse, Answer
      <4>2. QED
        BY <3>1, <4>1 DEF DoneIsFair
    <3>2. CASE q.kind = "callback"
      <4>1. \/ /\ ~InForce(paper, q.inst)
               /\ \E v \in Rejections(paper, q.inst) :
                    done' = [req |-> q, answer |-> Verdict(v, "none")]
            \/ /\ InForce(paper, q.inst) /\ ~InGroup(paper)
               /\ done' = [req |-> q, answer |-> Verdict("403", "none")]
            \/ done' = [req |-> q, answer |-> Verdict("redirect", "none")]
        BY <3>2 DEF Verify, Refuse, Answer
      <4>2. InForce(paper, q.inst) /\ ~InGroup(paper) => issued[l].standing = "outsider" /\ deploy.groups
        <5>1. ASSUME InForce(paper, q.inst), ~InGroup(paper) PROVE issued[l].standing = "outsider"
          BY <1>5, <3>2, <5>1 DEF InForce, InGroup, Papers
        <5>2. QED
          BY <1>5, <3>2, <5>1 DEF FairInv, WordInTime
      <4>3. PICK x : x = req[r].login
        OBVIOUS
      <4>4. /\ done'.req.kind = "callback" /\ done'.req.login = x /\ done'.req.stash = x
            /\ x \in Logins /\ x # None /\ quiet'[x] = quiet[x] /\ issued'[x] = issued[x]
            /\ deploy' = deploy /\ issued[x] # None
        BY <1>1, <1>5, <1>7, <3>2, <4>1, <4>3, AuthAssumption
      <4>5. InGoodTime(x)' => InGoodTime(x)
        BY <1>1 DEF InGoodTime
      <4>6. ASSUME quiet'[x], InGoodTime(x)'
            PROVE  \/ done'.answer.verdict = "redirect"
                   \/ done'.answer.verdict = "403" /\ deploy.groups /\ issued[x].standing = "outsider"
                   \/ done'.answer.verdict = "401" /\ issued[x].standing = "foreign"
        <5>1. Rejections(paper, q.inst) = {"401"}
          <6>1. quiet[x] /\ paper # None /\ paper.key = 0
            BY <1>5, <3>2, <4>3, <4>4, <4>6 DEF FairInv, KeysKept
          <6>2. KeySet(q.inst) = {0}
            <7>1. x \in Logins /\ quiet[x]
              BY <4>4, <6>1
            <7>2. jwks[q.inst] \in {Unloaded, {0}} /\ published = {0}
              BY <1>1, <7>1 DEF FairInv, KeysKept
            <7>3. QED
              BY <7>2 DEF KeySet
          <6>3. QED
            BY <6>1, <6>2 DEF Rejections
        <5>2. InForce(paper, q.inst) \/ issued[x].standing = "foreign"
          BY <1>6, <3>2, <4>3, <4>4, <4>5, <4>6
        <5>3. CASE done' = [req |-> q, answer |-> Verdict("401", "none")] /\ ~InForce(paper, q.inst)
          BY <5>2, <5>3 DEF Verdict
        <5>4. QED
          BY <4>1, <4>2, <4>3, <5>1, <5>3 DEF Verdict
      <4>7. QED
        BY <4>4, <4>6 DEF DoneIsFair
    <3>3. QED
      BY <3>1, <3>2
  <2>3. FairStep
    BY <1>1, <1>2, <1>3, <1>7, <2>1, <2>2 DEF FairStep
  <2>4. QED
    BY <1>1, <1>2, <1>3, <1>7, <2>1, <2>2, <2>3, FairAway
<1>8. CASE /\ InForce(paper, q.inst) /\ InGroup(paper) /\ q.kind = "callback"
           /\ Refuse(r, "redirect")
           /\ state' = [state EXCEPT ![q.browser] = None]
           /\ quiet' = [x \in Logins |-> quiet[x] /\ (home[x] = q.browser => x = q.login)]
  <2>1. /\ q.browser \in Browsers /\ code[l] = "spent" /\ l \in Logins
        /\ \A x \in Logins : quiet'[x] => quiet[x]
    BY <1>1, <1>5, <1>8 DEF AuthInv, FlightsFit, IssuedOnce
  <2>2. \A b \in Browsers : b # q.browser => state'[b] = state[b]
    BY <1>8, <2>1 DEF AuthInv, TypeOK
  <2>3. SecretsShared'
    BY <1>1, <1>4, <1>8, <2>1, <2>2 DEF FairInv, SecretsShared, AuthInv, TypeOK
  <2>4. StateKept'
    <3>1. ASSUME NEW x \in Logins, quiet'[x], home'[x] # None, code'[x] # "spent"
          PROVE  state'[home'[x]] # None /\ state'[home'[x]].login = x /\ state'[home'[x]].at = begun'[x]
      <4>1. quiet[x] /\ home[x] # None /\ code[x] # "spent" /\ x # l /\ home[x] # q.browser
        BY <1>1, <1>8, <2>1, <3>1
      <4>2. home[x] \in Browsers
        BY <4>1 DEF AuthInv, TypeOK
      <4>3. state[home[x]] # None /\ state[home[x]].login = x /\ state[home[x]].at = begun[x]
        BY <4>1 DEF FairInv, StateKept
      <4>4. QED
        BY <1>1, <2>2, <4>1, <4>2, <4>3
    <3>2. QED
      BY <3>1 DEF StateKept
  <2>5. DoneIsFair'
    BY <1>5, <1>8, AuthAssumption DEF Refuse, Answer, Verdict, DoneIsFair
  <2>6. FairStep
    BY <1>1, <1>2, <1>3, <2>1, <2>3, <2>4, <2>5 DEF FairStep
  <2>7. QED
    BY <1>1, <1>2, <1>3, <2>1, <2>3, <2>4, <2>5, <2>6, FairAway
<1>9. QED
  BY <1>7, <1>8 DEF Verify

(* Every step keeps what quiet logins rest on.                             *)
LEMMA StepFair ==
  ASSUME AuthInv, FairInv, [Next]_vars
  PROVE  FairInv'
<1>1. TypeOK'
  BY StepInv DEF AuthInv
<1>2. CASE Next
  BY <1>1, <1>2, ConfigureFair, RestartFair, WorldFair, ArriveFair, BeginLoginFair, OnwardFair,
     ExchangeFair, IssuerDownFair, VerifyFair DEF Next
<1>3. CASE UNCHANGED vars
  <2>1. UNCHANGED <<deploy, now, key, published, secret, begun, issued, jwks, pc, req, done, home, code,
                    quiet, state>>
    BY <1>3 DEF vars, issuerVars, memory, flows, cookies
  <2>2. SecretsShared' /\ StateKept'
    <3>1. deploy.secret => \A i \in Instances : secret'[i] = None
      BY <2>1 DEF FairInv, SecretsShared
    <3>2. QED
      BY <2>1, <3>1, StateStays
  <2>3. DoneIsFair'
    BY <2>1 DEF FairInv, DoneIsFair, InGoodTime
  <2>4. \A r \in Reqs : \/ pc'[r] = "idle" /\ req'[r] = NoReq
                        \/ req'[r] = req[r] /\ pc[r] # "idle" /\ pc'[r] = pc[r]
    BY <2>1 DEF AuthInv
  <2>5. FairStep
    BY <1>1, <2>1, <2>2, <2>3, <2>4 DEF FairStep
  <2>6. QED
    BY <1>1, <2>1, <2>2, <2>3, <2>4, <2>5, FairAway
<1>4. QED
  BY <1>2, <1>3

(* With a shared secret, a login that nothing interferes with succeeds     *)
(* unless the issuer is against it or it takes too long.                   *)
THEOREM QuietLoginsSucceed == Spec => []QuietLoginSucceeds
<1>1. AuthInv /\ FairInv => QuietLoginSucceeds
  <2>1. SUFFICES ASSUME AuthInv, FairInv, deploy.secret, NEW e \in Entries, NEW l, l = e.req.login,
                        e.req.kind = "callback", e.req.browser = home[l], quiet[l], InGoodTime(l), code[l] # "none"
                 PROVE  \/ e.answer.verdict \in {"await", "redirect"}
                        \/ e.answer.verdict = "403" /\ deploy.groups /\ issued[l].standing = "outsider"
                        \/ e.answer.verdict = "401" /\ issued[l] # None /\ issued[l].standing = "foreign"
                        \/ e # done /\ code[l] = "spent"
    BY DEF QuietLoginSucceeds
  <2>2. CASE e = done
    BY <2>1, <2>2 DEF FairInv, DoneIsFair
  <2>3. CASE \E q \in Arrivals : e = [req |-> q, answer |-> AtOnce(q)]
    <3>1. PICK q \in Arrivals : e = [req |-> q, answer |-> AtOnce(q)]
      BY <2>3
    <3>2. e.req = q /\ e.answer = AtOnce(q) /\ q.kind = "callback" /\ q.login = l /\ q.browser = home[l]
      BY <2>1, <3>1
    <3>3. /\ q.inst \in Instances /\ l \in Logins /\ q.browser \in Browsers /\ q.stash = None
      BY <2>1, <3>2, ArrivalShapes, RequestTypes DEF AuthInv
    <3>4. e # done
      BY <2>1, <3>2, <3>3 DEF FairInv, DoneIsFair
    <3>5. ASSUME code[l] # "spent" PROVE e.answer.verdict = "await"
      <4>1. wired = "oidc"
        <5>1. ASSUME wired # "oidc" PROVE FALSE
          <6>1. CASE \E i \in Instances : q = Request("public", None, i, None, "none")
            BY <3>2, <6>1 DEF Request
          <6>2. CASE \E i \in Instances, c \in {"malformed", "other"} \cup Static :
                       q = Request("call", None, i, None, c)
            BY <3>2, <6>2 DEF Request
          <6>3. CASE \E i \in Instances, p \in Tokens :
                       q = [Request("call", None, i, None, "token") EXCEPT !.paper = p]
            BY <3>2, <6>3 DEF Request
          <6>4. CASE \E k \in {"page", "call"}, b \in Browsers, i \in Instances :
                       q = Request(k, b, i, None, "none")
            BY <3>2, <6>4 DEF Request
          <6>5. QED
            BY <5>1, <6>1, <6>2, <6>3, <6>4 DEF Arrivals
        <5>2. QED
          BY <5>1
      <4>2. AtOnce(q) = Callback(q)
        BY <3>2, <4>1 DEF AtOnce
      <4>3. state[q.browser] # None /\ state[q.browser].login = l /\ state[q.browser].at = begun[l]
        BY <2>1, <3>2, <3>3, <3>5, AuthAssumption DEF FairInv, StateKept
      <4>4. state[q.browser].key = secret[q.inst]
        BY <2>1, <3>3, <4>3 DEF FairInv, SecretsShared
      <4>5. Readable(state[q.browser], q.inst, StateTtl) /\ Matches(state[q.browser], q.login)
        BY <2>1, <3>2, <4>3, <4>4 DEF Readable, Matches, InGoodTime
      <4>6. QED
        BY <2>1, <3>2, <4>2, <4>5 DEF Callback, Verdict
    <3>6. QED
      BY <3>4, <3>5
  <2>4. QED
    BY <2>1, <2>2, <2>3 DEF Entries
<1>2. Init => AuthInv /\ FairInv
  BY InitInv, InitFair
<1>3. AuthInv /\ FairInv /\ [Next]_vars => AuthInv' /\ FairInv'
  BY StepInv, StepFair
<1>4. QED
  BY <1>1, <1>2, <1>3, PTL DEF Spec

=============================================================================
