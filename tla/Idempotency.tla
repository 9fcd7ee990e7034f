---------------------------- MODULE Idempotency ----------------------------
(***************************************************************************)
(* Idempotency-Key on POST /v1/search, /v1/agent/context-pack and          *)
(* /v1/answer (api/idempotency.py): requests that share a key look the     *)
(* table up, run, store their answer and commit, each in the transaction   *)
(* of its request, in any interleaving.                                    *)
(*                                                                         *)
(* A key stands for a (key, route) pair, the table's primary key.  The     *)
(* three handlers differ only in what they compute: an answer is named by  *)
(* the request whose handler computed it, since each carries a fresh id or *)
(* the corpus of its moment.  Time moves in steps of Tick.                 *)
(*                                                                         *)
(* A definition whose name starts with Mut is the definition after it with *)
(* a plausible bug; the properties are shown to catch it.                  *)
(***************************************************************************)
EXTENDS Naturals

CONSTANTS
  Requests,  \* HTTP requests that may arrive
  Keys,      \* sanitized Idempotency-Key values
  Bodies,    \* request bodies, up to the order of their JSON keys
  Ttl,       \* how long an answer may be replayed
  MaxTime,   \* last instant of the model's clock (bound of the model)
  None       \* no key, no row, no request

ASSUME TtlAssumption == Ttl \in Nat \ {0} /\ MaxTime \in Nat
ASSUME NoneAssumption == None \notin Requests \cup Keys

VARIABLES
  table,    \* table[k]: the committed row of idempotency_keys, or NoRow
  pending,  \* pending[k]: the request with an uncommitted INSERT of k, or None
  audit,    \* requests whose telemetry row is committed
  pc,       \* pc[r]: where request r is
  req,      \* req[r]: its key and its body
  due,      \* due[r]: the expires_at it computed
  logged,   \* logged[r]: its transaction has written the telemetry row
  sent,     \* sent[r]: the response it was sent
  seen,     \* history: seen[r]: requests answered and committed when r arrived
  sentAt,   \* history: when r was answered
  clock

tables == <<table, pending, audit>>
locals == <<pc, req, due, logged, sent>>
history == <<seen, sentAt>>
vars == <<tables, locals, history, clock>>

NoRow == [body |-> None, answer |-> None, expires |-> 0]
NoReq == [key |-> None, body |-> None]
Unanswered == [status |-> "none", answer |-> None]
PCs == {"new", "check", "handle", "store", "respond", "commit", "done", "dead"}
Statuses == {"none", "ok", "replay", "conflict", "limited", "error"}

Goto(r, l)    == pc' = [pc EXCEPT ![r] = l]
Key(r)        == req[r].key
Live(row)     == row # NoRow /\ ~(row.expires <= clock)
Answer(r, s, a) ==
  /\ sent' = [sent EXCEPT ![r] = [status |-> s, answer |-> a]]
  /\ sentAt' = [sentAt EXCEPT ![r] = clock]

(* The transaction of a request ends without a trace.                      *)
Unlocked(r) == [k \in Keys |-> IF pending[k] = r THEN None ELSE pending[k]]

Init ==
  /\ table = [k \in Keys |-> NoRow]
  /\ pending = [k \in Keys |-> None]
  /\ audit = {}
  /\ pc = [r \in Requests |-> "new"]
  /\ req = [r \in Requests |-> NoReq]
  /\ due = [r \in Requests |-> 0]
  /\ logged = [r \in Requests |-> FALSE]
  /\ sent = [r \in Requests |-> Unanswered]
  /\ seen = [r \in Requests |-> {}]
  /\ sentAt = [r \in Requests |-> 0]
  /\ clock = 0

(* raise_429_if_limited comes first, whatever the key.                     *)
Arrive(r) ==
  /\ pc[r] = "new"
  /\ \E k \in Keys \cup {None}, b \in Bodies : req' = [req EXCEPT ![r] = [key |-> k, body |-> b]]
  /\ seen' = [seen EXCEPT ![r] = {q \in Requests : pc[q] = "done"}]
  /\ \/ Goto(r, "check") /\ UNCHANGED <<sent, sentAt>>
     \/ Goto(r, "done") /\ Answer(r, "limited", None)
  /\ UNCHANGED <<tables, due, logged, clock>>

MutMiss(r) == Key(r) # None => table[Key(r)] = NoRow
(* check_or_replay: no key, no row, or a row past its expiry.              *)
Miss(r) == Key(r) # None => ~Live(table[Key(r)])

MutCheck(r) ==
  /\ pc[r] = "check"
  /\ \/ Miss(r) /\ Goto(r, "handle") /\ UNCHANGED <<sent, sentAt>>
     \/ ~Miss(r) /\ Answer(r, "replay", table[Key(r)].answer) /\ Goto(r, "done")
  /\ UNCHANGED <<tables, req, due, logged, seen, clock>>
Check(r) ==
  /\ pc[r] = "check"
  /\ \/ Miss(r) /\ Goto(r, "handle") /\ UNCHANGED <<sent, sentAt>>
     \/ /\ ~Miss(r)
        /\ IF table[Key(r)].body # req[r].body
             THEN Answer(r, "conflict", None)
             ELSE Answer(r, "replay", table[Key(r)].answer)
        /\ Goto(r, "done")
  /\ UNCHANGED <<tables, req, due, logged, seen, clock>>

(* The telemetry row is written in a savepoint, and may fail without harm. *)
Log(r) == \E written \in BOOLEAN : logged' = [logged EXCEPT ![r] = written]

(* The retriever, the generator, the telemetry row and the expires_at of   *)
(* store().                                                                *)
Handle(r) ==
  /\ pc[r] = "handle"
  /\ \/ /\ Log(r)
        /\ due' = [due EXCEPT ![r] = clock + Ttl]
        /\ Goto(r, IF Key(r) = None THEN "respond" ELSE "store")
        /\ UNCHANGED <<sent, sentAt>>
     \/ Answer(r, "error", None) /\ Goto(r, "done") /\ UNCHANGED <<due, logged>>
  /\ UNCHANGED <<tables, req, seen, clock>>

(* INSERT ... ON CONFLICT DO NOTHING: waits while another transaction has  *)
(* inserted the key, does nothing when a row is there, expired or not.     *)
(* Failures are swallowed.                                                 *)
Store(r) ==
  /\ pc[r] = "store"
  /\ pending[Key(r)] = None
  /\ \/ table[Key(r)] = NoRow /\ pending' = [pending EXCEPT ![Key(r)] = r]
     \/ UNCHANGED pending     \* a row is there, or the statement fails
  /\ Goto(r, "respond")
  /\ UNCHANGED <<table, audit, req, due, logged, sent, history, clock>>

(* The response leaves before get_session's exit code commits.             *)
Respond(r) ==
  /\ pc[r] = "respond"
  /\ Answer(r, "ok", r)
  /\ Goto(r, "commit")
  /\ UNCHANGED <<tables, req, due, logged, seen, clock>>

MutCommit(r) ==
  /\ pc[r] = "commit"
  /\ table' = [k \in Keys |->
       IF pending[k] = r THEN [body |-> req[r].body, answer |-> r, expires |-> due[r]]
                         ELSE table[k]]
  /\ pending' = Unlocked(r)
  /\ Goto(r, "done")
  /\ UNCHANGED <<audit, req, due, logged, sent, history, clock>>
(* audit once r's transaction is committed: one row, if it was written.    *)
Audited(r) == IF logged[r] THEN audit \cup {r} ELSE audit

(* COMMIT: the telemetry row and the key's row together (#74).             *)
Commit(r) ==
  /\ pc[r] = "commit"
  /\ table' = [k \in Keys |->
       IF pending[k] = r THEN [body |-> req[r].body, answer |-> r, expires |-> due[r]]
                         ELSE table[k]]
  /\ pending' = Unlocked(r)
  /\ audit' = Audited(r)
  /\ Goto(r, "done")
  /\ UNCHANGED <<req, due, logged, sent, history, clock>>

(* The process dies, or the COMMIT fails: the client may have its answer.  *)
Crash(r) ==
  /\ pc[r] \in PCs \ {"new", "done", "dead"}
  /\ pending' = Unlocked(r)
  /\ Goto(r, "dead")
  /\ UNCHANGED <<table, audit, req, due, logged, sent, history, clock>>

Tick ==
  /\ clock < MaxTime
  /\ clock' = clock + 1
  /\ UNCHANGED <<tables, locals, history>>

Steps(r) == Check(r) \/ Handle(r) \/ Store(r) \/ Respond(r) \/ Commit(r)
Next == (\E r \in Requests : Arrive(r) \/ Steps(r) \/ Crash(r)) \/ Tick

Spec == Init /\ [][Next]_vars
----------------------------------------------------------------------------
Rows == [body : Bodies \cup {None}, answer : Requests \cup {None}, expires : Nat]
TypeOK ==
  /\ table \in [Keys -> Rows]
  /\ pending \in [Keys -> Requests \cup {None}]
  /\ audit \subseteq Requests
  /\ pc \in [Requests -> PCs]
  /\ req \in [Requests -> [key : Keys \cup {None}, body : Bodies \cup {None}]]
  /\ due \in [Requests -> Nat]
  /\ logged \in [Requests -> BOOLEAN]
  /\ sent \in [Requests -> [status : Statuses, answer : Requests \cup {None}]]
  /\ seen \in [Requests -> SUBSET Requests]
  /\ sentAt \in [Requests -> Nat]
  /\ clock \in Nat

Replayed(r) == sent[r].status = "replay"
Same(r, q)  == Key(r) # None /\ req[r] = req[q]

(* A replay repeats what the handler computed for a request with the same  *)
(* key and body, and what that request was itself sent.                    *)
ReplayIsFaithful ==
  \A r \in Requests : Replayed(r) =>
    \E q \in Requests : /\ sent[r].answer = q /\ Same(r, q)
                        /\ sent[q] = [status |-> "ok", answer |-> q]

(* Every replay said what the row of its key still says, so all replays of *)
(* a key agree: the row is written once, whichever of several concurrent   *)
(* requests wins.                                                          *)
ReplaysAgree ==
  \A r \in Requests : Replayed(r) => sent[r].answer = table[Key(r)].answer

(* An answer is not replayed Ttl after it was sent, or later.              *)
NoStaleReplay ==
  \A r \in Requests :
    Replayed(r) => \A q \in Requests : sent[r].answer = q => sentAt[r] < sentAt[q] + Ttl

(* One transaction per request (#74): an answer is kept for replay only    *)
(* with its telemetry row, when that could be written, and a telemetry row *)
(* is of an answer that was sent.                                          *)
AuditMatchesAnswers ==
  /\ \A k \in Keys, q \in Requests : table[k].answer = q /\ logged[q] => q \in audit
  /\ \A q \in audit : sent[q] = [status |-> "ok", answer |-> q]

(* INSERT ... ON CONFLICT waits only for a request that needs no key any   *)
(* more: two requests never wait for each other, and none for one that is  *)
(* over.                                                                   *)
HoldersNeverWait ==
  \A r, q \in Requests :
    pc[r] = "store" /\ pending[Key(r)] = q => pc[q] \in {"respond", "commit"}

(* The inductive invariant: a row, committed or not, is of a request with  *)
(* its key that was or will be answered by its own handler, and whoever    *)
(* was sent a replay was sent the row that is still there.                 *)
PendingOwned ==
  \A k \in Keys, q \in Requests : pending[k] = q =>
    /\ Key(q) = k /\ table[k] = NoRow
    /\ pc[q] \in {"respond", "commit"}
RowsOwned ==
  \A k \in Keys : table[k] # NoRow =>
    \E q \in Requests :
      /\ table[k] = [body |-> req[q].body, answer |-> q, expires |-> due[q]]
      /\ Key(q) = k /\ pc[q] = "done"
      /\ sent[q] = [status |-> "ok", answer |-> q]
      /\ due[q] <= sentAt[q] + Ttl
      /\ logged[q] => q \in audit
AuditOwned ==
  \A q \in audit : pc[q] = "done" /\ sent[q] = [status |-> "ok", answer |-> q]
ReplaysOwned ==
  \A r \in Requests : Replayed(r) =>
    /\ pc[r] = "done" /\ Key(r) # None /\ table[Key(r)] # NoRow
    /\ sent[r].answer = table[Key(r)].answer /\ req[r].body = table[Key(r)].body
    /\ sentAt[r] < table[Key(r)].expires
PhaseFits ==
  \A r \in Requests :
    /\ pc[r] = "commit" => sent[r] = [status |-> "ok", answer |-> r]
                           /\ due[r] <= sentAt[r] + Ttl
    /\ pc[r] \in {"new", "check", "handle", "store", "respond"} => sent[r] = Unanswered
    /\ pc[r] \in {"store", "respond"} => due[r] <= clock + Ttl
    /\ pc[r] = "store" => Key(r) \in Keys
ReplayInv ==
  /\ TypeOK
  /\ PendingOwned
  /\ RowsOwned
  /\ AuditOwned
  /\ ReplaysOwned
  /\ PhaseFits

(* The docs: "same key + same body: byte-identical cached response"; the   *)
(* comment in store(): "the agent's retry hits the winner's row so the     *)
(* byte-identical-replay contract holds".  Whoever was answered, and whose *)
(* transaction is committed, is told the same on a retry in time.          *)
RetryRepeatsTheAnswer ==
  \A r, q \in Requests :
    q \in seen[r] /\ Same(r, q) /\ sent[q].status = "ok" /\ Replayed(r)
      => sent[r].answer = sent[q].answer

=============================================================================
