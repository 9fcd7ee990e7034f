-------------------------------- MODULE Auth --------------------------------
(***************************************************************************)
(* Who is let in (api/auth.py): the mode an instance starts in, the        *)
(* browser's login at an OIDC issuer and back, the session that follows,   *)
(* and the tokens API clients bring.                                       *)
(*                                                                         *)
(* The middleware of an instance keeps its signing secret, the issuer's    *)
(* discovery document and the issuer's keys in memory; everything else is  *)
(* in the browser's two cookies.  A request is split at its awaits (the    *)
(* three calls to the issuer), where other requests, a restart of the      *)
(* instance or a rotation of keys may come in.  An await that finds the    *)
(* document cached does not yield in the code; the model lets others in    *)
(* there, too.                                                             *)
(*                                                                         *)
(* A login stands for the state value, the PKCE verifier and the           *)
(* authorization code that belong together; a cookie signed with one       *)
(* secret is not accepted under another.  What the issuer signs it means.  *)
(* A request that is answered at once leaves no trace: AtOnce is the       *)
(* answer it would get, and the invariants ask it for every request.       *)
(***************************************************************************)
EXTENDS Naturals

CONSTANTS
  Instances, Browsers, Logins,
  Reqs,         \* requests awaiting the issuer at a time (bound of the model)
  Deployments,  \* settings the application is started with
  StateTtl,     \* _STATE_TTL_SECONDS
  SessionTtl,   \* _SESSION_TTL_SECONDS
  TokenTtl,     \* lifetime the issuer gives its tokens
  Leeway,       \* leeway of claims.validate
  MaxNow, MaxKey,
  MaxEvents,    \* restarts and rotations
  MaxSent,      \* requests that ask the issuer (bounds of the model)
  None

Deployment == [mode : {"none", "bearer", "mtls", "oidc"},
               env : {"development", "staging", "production"},
               token : {"unset", "short", "long"},
               issuer : BOOLEAN,    \* oidc_issuer, _client_id and _client_secret are set
               secret : BOOLEAN,    \* oidc_session_secret is set
               fallback : BOOLEAN,  \* oidc_allow_bearer_fallback
               groups : BOOLEAN]    \* oidc_required_groups is set
Keys    == 0..MaxKey
Secrets == {None} \cup (Instances \X Nat)
Cookies == [key : Secrets, at : Nat, login : Logins]

(* What the issuer signs: for this application and a member of the groups, *)
(* for this application and somebody else, or for another application.     *)
Papers  == [at : Nat, key : Keys, standing : {"member", "outsider", "foreign"}]

Requests ==
  [kind : {"none", "public", "page", "call", "login", "logout", "callback"},
   browser : Browsers \cup {None}, inst : Instances \cup {None},
   login : Logins \cup {None}, cred : {"none", "malformed", "static", "other", "token"},
   paper : Papers \cup {None}, stash : Logins \cup {None}]
Answers ==
  [verdict : {"in", "redirect", "login", "401", "403", "500", "await"},
   by : Logins \cup {"none", "public", "open", "static", "token"}]

ASSUME AuthAssumption ==
  /\ Deployments \subseteq Deployment
  /\ StateTtl \in Nat /\ SessionTtl \in Nat /\ TokenTtl \in Nat /\ Leeway \in Nat
  /\ MaxNow \in Nat /\ MaxKey \in Nat /\ MaxEvents \in Nat /\ MaxSent \in Nat
  /\ Logins \cap {"none", "public", "open", "static", "token"} = {}
  /\ None \notin Cookies \cup Papers
  /\ None \notin Logins \cup Browsers \cup Instances

VARIABLES
  deploy,       \* the settings of every instance
  wired,        \* what configure_auth made of them
  now, key,     \* time; the key the issuer signs with
  since, published,  \* when each key came into use; the issuer's key set
  restarts, sent,  \* counters for the bounds
  secret, discovered, jwks,  \* per instance: the middleware's memory
  pc, req,      \* the requests under way: the await each is at, what it is
  done,         \* the request that is answered in this step after an await
  home,         \* the browser a login was begun in
  code,         \* the issuer's authorization code of a login
  begun,        \* when a login was begun
  issued,       \* what the issuer has signed for a login
  state, session,  \* the cookies of each browser
  quiet         \* logins nothing has interfered with

issuerVars == <<now, key, since, published>>
counters == <<restarts, sent>>
memory == <<secret, discovered, jwks>>
flows == <<home, code, begun, issued, quiet>>
cookies == <<state, session>>
vars == <<deploy, wired, issuerVars, counters, memory, pc, req, done, flows, cookies>>

Request(k, b, i, l, c) ==
  [kind |-> k, browser |-> b, inst |-> i, login |-> l, cred |-> c,
   paper |-> None, stash |-> None]
NoReq == Request("none", None, None, None, "none")
Verdict(v, by) == [verdict |-> v, by |-> by]
Nothing == [req |-> NoReq, answer |-> Verdict("await", "none")]
Unloaded == {}  \* an issuer's key set is never empty

Init ==
  /\ deploy \in Deployments /\ wired = "starting"
  /\ now = 0 /\ key = 0 /\ since = [k \in Keys |-> 0] /\ published = {0} /\ restarts = 0 /\ sent = 0
  /\ secret = [i \in Instances |-> None]
  /\ discovered = [i \in Instances |-> FALSE]
  /\ jwks = [i \in Instances |-> Unloaded]
  /\ pc = [r \in Reqs |-> "idle"] /\ req = [r \in Reqs |-> NoReq] /\ done = Nothing
  /\ home = [l \in Logins |-> None] /\ code = [l \in Logins |-> "none"]
  /\ begun = [l \in Logins |-> 0] /\ quiet = [l \in Logins |-> TRUE]
  /\ issued = [l \in Logins |-> None]
  /\ state = [b \in Browsers |-> None] /\ session = [b \in Browsers |-> None]

----------------------------------------------------------------------------
(* Start-up and the world around.                                          *)

Wired(d) ==
  CASE d.mode = "none"   -> IF d.env = "development" THEN "open" ELSE "refused"
    [] d.mode = "mtls"   -> "refused"
    [] d.mode = "bearer" -> IF d.token = "long" THEN "bearer" ELSE "refused"
    [] d.mode = "oidc"   ->
         IF d.issuer /\ (d.fallback => d.token # "unset") THEN "oidc" ELSE "refused"

(* Without a configured secret every process draws its own.                *)
Drawn(i, n) == IF deploy.secret THEN None ELSE <<i, n>>

Configure ==
  /\ wired = "starting"
  /\ wired' = Wired(deploy)
  /\ secret' = [i \in Instances |-> Drawn(i, 0)]
  /\ UNCHANGED <<deploy, issuerVars, counters, discovered, jwks, pc, req, done, flows, cookies>>

InFlight(r) == pc[r] # "idle"

Restart(i) ==
  /\ wired = "oidc" /\ restarts + key < MaxEvents
  /\ restarts' = restarts + 1 /\ UNCHANGED sent
  /\ secret' = [secret EXCEPT ![i] = Drawn(i, restarts + 1)]
  /\ discovered' = [discovered EXCEPT ![i] = FALSE]
  /\ jwks' = [jwks EXCEPT ![i] = Unloaded]
  /\ LET lost == {r \in Reqs : InFlight(r) /\ req[r].inst = i} IN
       /\ pc' = [r \in Reqs |-> IF r \in lost THEN "idle" ELSE pc[r]]
       /\ req' = [r \in Reqs |-> IF r \in lost THEN NoReq ELSE req[r]]
       /\ quiet' = [l \in Logins |-> quiet[l] /\ \A r \in lost : req[r].login # l]
  /\ done' = Nothing
  /\ UNCHANGED <<deploy, wired, issuerVars, home, code, begun, issued, cookies>>

Tick ==
  /\ wired = "oidc" /\ now < MaxNow
  /\ now' = now + 1 /\ done' = Nothing
  /\ UNCHANGED <<deploy, wired, key, since, published, counters, memory, pc, req, flows,
                 cookies>>

(* The issuer signs with a new key; the old one may stay in its key set.   *)
Rotate ==
  /\ wired = "oidc" /\ key < MaxKey /\ restarts + key < MaxEvents
  /\ key' = key + 1 /\ since' = [since EXCEPT ![key + 1] = now]
  /\ published' \in {{key + 1}, {key, key + 1}}
  /\ quiet' = [l \in Logins |-> FALSE] /\ done' = Nothing
  /\ UNCHANGED <<deploy, wired, now, counters, memory, pc, req, home, code, begun, issued,
                 cookies>>

(* What the issuer may sign now, and what it may have signed so far.       *)
Standings == {"member", "foreign"} \cup (IF deploy.groups THEN {"outsider"} ELSE {})
Signed(standing) == [at |-> now, key |-> key, standing |-> standing]
Tokens ==
  {p \in [at : 0..now, key : 0..key, standing : Standings] :
     since[p.key] <= p.at /\ (p.key < key => p.at <= since[p.key + 1])}

(* The person proves who they are; the browser is sent back with a code.   *)
Authenticate(l) ==
  /\ home[l] # None /\ code[l] = "none"
  /\ code' = [code EXCEPT ![l] = "fresh"] /\ done' = Nothing
  /\ UNCHANGED <<deploy, wired, issuerVars, counters, memory, pc, req, home, begun, quiet,
                 issued, cookies>>

----------------------------------------------------------------------------
(* A request arrives.  On its way to the application are, with the         *)
(* credentials their Authorization header has ("static" is the configured  *)
(* token, "other" is no token of the issuer): probes, pages and calls, and *)
(* in oidc mode logins, logouts and the issuer's redirects, which may be   *)
(* followed more than once and in another browser; a redirect that comes   *)
(* before the login has a code brings an error in its place.               *)

Busy(l) == \E r \in Reqs : req[r].login = l
Static == IF deploy.token = "unset" THEN {} ELSE {"static"}
Arrivals ==
  {Request("public", None, i, None, "none") : i \in Instances}
    \cup {Request("call", None, i, None, c) :
            i \in Instances, c \in {"malformed", "other"} \cup Static}
    \cup {[Request("call", None, i, None, "token") EXCEPT !.paper = p] :
            i \in Instances, p \in Tokens}
    \cup {Request(k, b, i, None, "none") :
            k \in {"page", "call"}, b \in Browsers, i \in Instances}
    \cup (IF wired # "oidc" THEN {}
          ELSE {Request("login", b, i, l, "none") : b \in Browsers, i \in Instances,
                  l \in {x \in Logins : home[x] = None /\ ~Busy(x)}}
               \cup {Request("logout", b, i, None, "none") : b \in Browsers, i \in Instances}
               \cup {Request("callback", b, i, l, "none") : b \in Browsers, i \in Instances,
                       l \in {x \in Logins : home[x] # None}})

MutReadable(cookie, i, ttl) == cookie # None /\ cookie.key = secret[i]
Readable(cookie, i, ttl) ==
  cookie # None /\ cookie.key = secret[i] /\ now <= cookie.at + ttl

(* The cookie has to be that of the login the issuer sent the browser from. *)
MutMatches(cookie, l) == TRUE
Matches(cookie, l) == cookie.login = l

Bearer(q) == IF q.cred = "static" THEN Verdict("in", "static") ELSE Verdict("401", "none")

Browse(q) ==
  CASE Readable(session[q.browser], q.inst, SessionTtl) ->
         Verdict("in", session[q.browser].login)
    [] OTHER -> Verdict(IF q.kind = "page" THEN "login" ELSE "401", "none")

Call(q) ==
  CASE q.cred = "malformed" -> Verdict("401", "none")
    [] q.cred = "static" /\ deploy.fallback -> Verdict("in", "static")
    [] OTHER -> Verdict("await", "none")

Callback(q) ==
  IF /\ Readable(state[q.browser], q.inst, StateTtl) /\ Matches(state[q.browser], q.login)
     /\ code[q.login] # "none"
    THEN Verdict("await", "none") ELSE Verdict("401", "none")

(* The answer of the middleware, "await" if it asks the issuer first.      *)
AtOnce(q) ==
  CASE wired = "open"      -> Verdict("in", "open")
    [] wired # "open" /\ q.kind = "public" -> Verdict("in", "public")
    [] wired = "bearer" /\ q.kind # "public" -> Bearer(q)
    [] wired = "oidc" /\ q.kind \in {"login", "logout"} -> Verdict("await", "none")
    [] wired = "oidc" /\ q.kind = "callback" -> Callback(q)
    [] wired = "oidc" /\ q.kind \in {"page", "call"} ->
         IF q.cred = "none" THEN Browse(q) ELSE Call(q)

(* A callback keeps what it has read of the state cookie.                  *)
Arrive(r) ==
  /\ wired = "oidc" /\ ~InFlight(r) /\ sent < MaxSent
  /\ \E q \in Arrivals :
       /\ AtOnce(q).verdict = "await"
       /\ pc' = [pc EXCEPT ![r] = "wellknown"]
       /\ req' = [req EXCEPT ![r] =
            IF q.kind = "callback" THEN [q EXCEPT !.stash = state[q.browser].login] ELSE q]
       /\ quiet' = [l \in Logins |-> quiet[l] /\
            (q.kind = "callback" /\ q.login = l => code[l] = "fresh" /\ ~Busy(l))]
  /\ done' = Nothing /\ sent' = sent + 1
  /\ UNCHANGED <<deploy, wired, issuerVars, restarts, memory, home, code, begun, issued,
                 cookies>>

----------------------------------------------------------------------------
(* ... and goes on when the issuer has answered.                           *)

Await(r, l) == pc' = [pc EXCEPT ![r] = l] /\ done' = Nothing /\ UNCHANGED req
Answer(r, v, by) ==
  /\ pc' = [pc EXCEPT ![r] = "idle"] /\ req' = [req EXCEPT ![r] = NoReq]
  /\ done' = [req |-> req[r], answer |-> Verdict(v, by)]
Refuse(r, v) == Answer(r, v, "none")

Discover(r) ==
  /\ pc[r] = "wellknown"
  /\ discovered' = [discovered EXCEPT ![req[r].inst] = TRUE]
  /\ UNCHANGED <<deploy, wired, issuerVars, counters, secret, jwks, issued>>

(* The reply of /auth/login replaces the browser's state cookie.           *)
MutBeginLogin(r) ==
  /\ req[r].kind = "login" /\ Discover(r) /\ Refuse(r, "redirect")
  /\ LET q == req[r] IN
       /\ state' = IF state[q.browser] # None THEN state ELSE [state EXCEPT ![q.browser] =
            [key |-> secret[q.inst], at |-> now, login |-> q.login]]
       /\ home' = [home EXCEPT ![q.login] = q.browser]
       /\ begun' = [begun EXCEPT ![q.login] = now]
       /\ quiet' = [l \in Logins |-> quiet[l] /\ home[l] # q.browser]
  /\ UNCHANGED <<code, session>>
BeginLogin(r) ==
  /\ req[r].kind = "login" /\ Discover(r) /\ Refuse(r, "redirect")
  /\ LET q == req[r] IN
       /\ state' = [state EXCEPT ![q.browser] =
            [key |-> secret[q.inst], at |-> now, login |-> q.login]]
       /\ home' = [home EXCEPT ![q.login] = q.browser]
       /\ begun' = [begun EXCEPT ![q.login] = now]
       /\ quiet' = [l \in Logins |-> quiet[l] /\ home[l] # q.browser]
  /\ UNCHANGED <<code, session>>

EndLogout(r) ==
  /\ req[r].kind = "logout" /\ Discover(r) /\ Refuse(r, "redirect")
  /\ session' = [session EXCEPT ![req[r].browser] = None]
  /\ UNCHANGED <<home, code, begun, quiet, state>>

GoOn(r) ==
  /\ req[r].kind \in {"callback", "call"} /\ Discover(r)
  /\ Await(r, IF req[r].kind = "callback" THEN "exchange" ELSE "keys")
  /\ UNCHANGED <<home, code, begun, quiet, cookies>>

(* The issuer redeems a code once, for the verifier it was asked with.     *)
Redeems(r) == code[req[r].login] = "fresh" /\ req[r].stash = req[r].login

Exchange(r) ==
  /\ pc[r] = "exchange"
  /\ LET l == req[r].login IN
       /\ code' = [code EXCEPT ![l] = "spent"]
       /\ \/ /\ Redeems(r)
             /\ \E standing \in Standings : issued' = [issued EXCEPT ![l] = Signed(standing)]
             /\ Await(r, "keys") /\ UNCHANGED quiet
          \/ /\ ~Redeems(r)
             /\ Refuse(r, "401") /\ UNCHANGED <<issued, quiet>>
          \/ /\ Refuse(r, "500")  \* the answer is lost
             /\ quiet' = [quiet EXCEPT ![l] = FALSE] /\ UNCHANGED issued
  /\ UNCHANGED <<deploy, wired, issuerVars, counters, memory, home, begun, cookies>>

(* A call to the issuer that has to be made fails: an unhandled error.     *)
IssuerDown(r) ==
  /\ \/ pc[r] = "wellknown" /\ ~discovered[req[r].inst]
     \/ pc[r] = "exchange"
     \/ pc[r] = "keys" /\ jwks[req[r].inst] = Unloaded
  /\ Refuse(r, "500")
  /\ quiet' = [l \in Logins |-> quiet[l] /\ l # req[r].login]
  /\ UNCHANGED <<deploy, wired, issuerVars, counters, memory, home, code, begun, issued,
                 cookies>>

KeySet(i) == IF jwks[i] = Unloaded THEN published ELSE jwks[i]
(* A key that is not in the set raises what decode's handler, for JoseError *)
(* alone, may not catch.                                                   *)
Rejections(paper, i) ==
  IF paper = None \/ paper.key \notin KeySet(i) THEN {"401", "500"} ELSE {"401"}
InForce(paper, i) ==
  /\ paper # None /\ paper.key \in KeySet(i) /\ paper.standing # "foreign"
  /\ now <= paper.at + TokenTtl + Leeway
MutInGroup(paper) == TRUE
InGroup(paper) == paper.standing = "member"
Paper(q) == IF q.kind = "callback" THEN issued[q.login] ELSE q.paper

(* A successful callback sets the session cookie and takes the state       *)
(* cookie, whichever login that belongs to by now.                         *)
Verify(r) ==
  /\ pc[r] = "keys"
  /\ jwks' = [jwks EXCEPT ![req[r].inst] = KeySet(req[r].inst)]
  /\ LET q == req[r]  paper == Paper(q) IN
       \/ /\ ~InForce(paper, q.inst)
          /\ \E v \in Rejections(paper, q.inst) : Refuse(r, v)
          /\ UNCHANGED <<cookies, quiet>>
       \/ /\ InForce(paper, q.inst) /\ ~InGroup(paper)
          /\ Refuse(r, "403") /\ UNCHANGED <<cookies, quiet>>
       \/ /\ InForce(paper, q.inst) /\ InGroup(paper)
          /\ q.kind = "call"
          /\ Answer(r, "in", "token") /\ UNCHANGED <<cookies, quiet>>
       \/ /\ InForce(paper, q.inst) /\ InGroup(paper)
          /\ q.kind = "callback"
          /\ Refuse(r, "redirect")
          /\ session' = [session EXCEPT ![q.browser] =
               [key |-> secret[q.inst], at |-> now, login |-> q.login]]
          /\ state' = [state EXCEPT ![q.browser] = None]
          /\ quiet' = [l \in Logins |-> quiet[l] /\ (home[l] = q.browser => l = q.login)]
  /\ UNCHANGED <<deploy, wired, issuerVars, counters, secret, discovered, home, code, begun,
                 issued>>

Next ==
  \/ Configure \/ Tick \/ Rotate
  \/ \E i \in Instances : Restart(i)
  \/ \E l \in Logins : Authenticate(l)
  \/ \E r \in Reqs :
       \/ Arrive(r) \/ BeginLogin(r) \/ EndLogout(r) \/ GoOn(r) \/ Exchange(r)
       \/ IssuerDown(r) \/ Verify(r)

Spec == Init /\ [][Next]_vars

----------------------------------------------------------------------------
(* Properties.                                                             *)

(* The types of the variables, and under AuthInv what makes the rest hold. *)
TypeOK ==
  /\ deploy \in Deployments
  /\ wired \in {"starting", "refused", "open", "bearer", "oidc"}
  /\ now \in Nat /\ key \in Keys /\ since \in [Keys -> Nat]
  /\ published \subseteq Keys /\ published # {} /\ restarts \in Nat /\ sent \in Nat
  /\ secret \in [Instances -> Secrets] /\ discovered \in [Instances -> BOOLEAN]
  /\ jwks \in [Instances -> SUBSET Keys]
  /\ pc \in [Reqs -> {"idle", "wellknown", "exchange", "keys"}]
  /\ req \in [Reqs -> Requests]
  /\ done \in [req : Requests, answer : Answers]
  /\ home \in [Logins -> Browsers \cup {None}]
  /\ code \in [Logins -> {"none", "fresh", "spent"}]
  /\ begun \in [Logins -> Nat] /\ quiet \in [Logins -> BOOLEAN]
  /\ issued \in [Logins -> Papers \cup {None}]
  /\ state \in [Browsers -> Cookies \cup {None}]
  /\ session \in [Browsers -> Cookies \cup {None}]

(* What is under way: a request waits in oidc mode only and for what its   *)
(* kind needs, a login has not begun yet and is no other's, a callback     *)
(* comes from the browser of its login.                                    *)
FlightsFit ==
  \A r \in Reqs : pc[r] # "idle" => LET q == req[r] IN
    /\ q.kind \in {"login", "logout", "callback", "call"} /\ q.inst \in Instances
    /\ pc[r] = "exchange" => q.kind = "callback"
    /\ q.paper # None => q.cred = "token"
    /\ q.kind \in {"login", "logout", "callback"} => q.browser \in Browsers
    /\ q.kind = "login" => /\ q.login \in Logins /\ home[q.login] = None
                           /\ \A s \in Reqs : req[s].login = q.login => s = r
    /\ q.kind = "callback" => q.login \in Logins /\ home[q.login] = q.browser

(* The issuer's word is given once, after the code; codes after the login. *)
IssuedOnce ==
  \A l \in Logins : /\ issued[l] # None => code[l] = "spent"
                    /\ code[l] # "none" => home[l] # None

(* A browser's cookies are of logins begun in it, the session cookie of    *)
(* one that the issuer vouched for.                                        *)
CookiesAreHome ==
  \A b \in Browsers :
    /\ state[b] # None => home[state[b].login] = b
    /\ session[b] # None => LET l == session[b].login IN
         /\ home[l] = b /\ issued[l] # None /\ issued[l].standing = "member"
         /\ session[b].at <= issued[l].at + TokenTtl + Leeway

(* Only a token that is good for it is let in after an await.              *)
DoneIsVouched ==
  done.answer.verdict = "in" =>
    /\ done.answer.by = "token" /\ done.req.cred = "token"
    /\ done.req.paper \in Papers /\ done.req.paper.standing = "member"
    /\ now <= done.req.paper.at + TokenTtl + Leeway

AuthInv ==
  /\ TypeOK /\ FlightsFit /\ IssuedOnce /\ CookiesAreHome
  /\ DoneIsVouched /\ wired \in {"starting", Wired(deploy)}
  /\ \A r \in Reqs : pc[r] = "idle" => req[r] = NoReq

(* The answers that are given in this state: that of this step, and what   *)
(* any request would get at once.                                          *)
Entries == {[req |-> q, answer |-> AtOnce(q)] :
              q \in IF wired \in {"starting", "refused"} THEN {} ELSE Arrivals} \cup {done}

(* Whoever is let in is vouched for: by a login begun in the same browser  *)
(* or by the token it brings, signed by the issuer for this application    *)
(* and for a member of the required groups; by the static token where that *)
(* is configured; by nobody on public paths and in an open development     *)
(* instance only.                                                          *)
EntryIsVouched ==
  \A e \in Entries : e.answer.verdict = "in" => LET by == e.answer.by  q == e.req IN
    \/ by = "public" /\ q.kind = "public"
    \/ by = "open" /\ deploy.mode = "none" /\ deploy.env = "development"
    \/ by = "static" /\ q.cred = "static" /\ deploy.token # "unset"
         /\ (deploy.mode = "bearer" \/ deploy.fallback)
    \/ by = "token" /\ q.cred = "token" /\ q.paper.standing = "member"
    \/ by \in Logins /\ q.cred = "none" /\ home[by] = q.browser
         /\ issued[by] # None /\ issued[by].standing = "member"

(* The issuer's word does not last for ever: a token admits until it has   *)
(* expired, a session for its own time after that, wherever the requests   *)
(* go, however long the issuer takes and whatever is restarted.            *)
AccessEndsInTime ==
  \A e \in Entries : e.answer.verdict = "in" => LET by == e.answer.by IN
    /\ by = "token" => now <= e.req.paper.at + TokenTtl + Leeway
    /\ by \in Logins => now <= issued[by].at + TokenTtl + Leeway + SessionTtl

(* "state value mismatch (XSRF / replay guard)": a code is redeemed only   *)
(* by the browser in which its login was begun, so a callback URL that is  *)
(* opened elsewhere does not use up the login.                             *)
CodesAreSpentAtHome ==
  [][\A l \in Logins : code[l] = "fresh" /\ code'[l] = "spent" =>
       \E r \in Reqs : /\ pc[r] = "exchange" /\ pc'[r] # "exchange"
                       /\ req[r].login = l /\ req[r].browser = home[l]]_vars

(* With a shared secret, a login that nothing interferes with (no failing  *)
(* call, no rotation, no restart in the middle of it, no other login in    *)
(* the browser, no second callback) ends in a session once it has a code,  *)
(* unless the issuer's verdict is against it or it takes too long; other   *)
(* browsers, instances and callbacks gone astray do not matter.            *)
InGoodTime(l) == now <= begun[l] + StateTtl /\ now <= begun[l] + TokenTtl + Leeway
QuietLoginSucceeds ==
  deploy.secret => \A e \in Entries : LET l == e.req.login IN
    /\ e.req.kind = "callback" /\ e.req.browser = home[l]
    /\ quiet[l] /\ InGoodTime(l) /\ code[l] # "none"
    => \/ e.answer.verdict \in {"await", "redirect"}
       \/ e.answer.verdict = "403" /\ deploy.groups /\ issued[l].standing = "outsider"
       \/ e.answer.verdict = "401" /\ issued[l] # None /\ issued[l].standing = "foreign"
       \/ e # done /\ code[l] = "spent"

=============================================================================
