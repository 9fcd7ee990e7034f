------------------------- MODULE IdempotencyProofs -------------------------
(***************************************************************************)
(* Invariance proofs for Idempotency, for any number of requests, keys and *)
(* bodies and any time to live.                                            *)
(***************************************************************************)
EXTENDS Idempotency, TLAPS

(* At first the table is empty and no request has come.                    *)
LEMMA InitInv ==
  ASSUME Init
  PROVE  ReplayInv
<1>1. TypeOK
  BY NoneAssumption DEF Init, TypeOK, Rows, NoRow, NoReq, Unanswered, PCs, Statuses
<1>2. PendingOwned /\ RowsOwned /\ AuditOwned
  BY NoneAssumption DEF Init, PendingOwned, RowsOwned, AuditOwned
<1>3. ReplaysOwned
  BY DEF Init, ReplaysOwned, Replayed, Unanswered
<1>4. PhaseFits
  BY DEF Init, PhaseFits
<1>5. QED
  BY <1>1, <1>2, <1>3, <1>4 DEF ReplayInv

(* A step of one request that leaves the tables alone, keeps its key once  *)
(* it has one, and answers it at most once.                                *)
LEMMA LocalInv ==
  ASSUME ReplayInv, TypeOK', NEW r \in Requests, UNCHANGED <<tables, clock>>,
         pc[r] \notin {"commit", "done", "dead"},
         pc[r] \in {"respond"} => pc'[r] \in {"respond", "commit"},
         pc'[r] \notin {"new"},
         \A q \in Requests \ {r} : /\ pc'[q] = pc[q] /\ req'[q] = req[q]
                                   /\ due'[q] = due[q] /\ logged'[q] = logged[q]
                                   /\ sent'[q] = sent[q] /\ sentAt'[q] = sentAt[q],
         pc[r] # "new" => req'[r] = req[r],
         pc'[r] = "commit" => /\ sent'[r] = [status |-> "ok", answer |-> r]
                              /\ due'[r] <= sentAt'[r] + Ttl,
         pc'[r] \in {"check", "handle", "store", "respond"} => sent'[r] = Unanswered,
         pc'[r] \in {"store", "respond"} => due'[r] <= clock + Ttl,
         pc'[r] = "store" => Key(r)' \in Keys,
         sent'[r].status = "replay" =>
           /\ pc'[r] = "done" /\ Key(r)' # None /\ table[Key(r)'] # NoRow
           /\ sent'[r].answer = table[Key(r)'].answer
           /\ req'[r].body = table[Key(r)'].body
           /\ sentAt'[r] < table[Key(r)'].expires
  PROVE  ReplayInv'
<1>1. table' = table /\ pending' = pending /\ audit' = audit /\ clock' = clock
  BY DEF tables
<1>2. PendingOwned'
  BY <1>1 DEF ReplayInv, PendingOwned, Key
<1>3. RowsOwned'
  <2>1. ASSUME NEW k \in Keys, table[k] # NoRow
        PROVE  \E q \in Requests :
                 /\ table'[k] = [body |-> req'[q].body, answer |-> q, expires |-> due'[q]]
                 /\ req'[q].key = k /\ pc'[q] = "done"
                 /\ sent'[q] = [status |-> "ok", answer |-> q]
                 /\ due'[q] <= sentAt'[q] + Ttl
                 /\ logged'[q] => q \in audit'
    <3>1. PICK q \in Requests :
                 /\ table[k] = [body |-> req[q].body, answer |-> q, expires |-> due[q]]
                 /\ Key(q) = k /\ pc[q] = "done"
                 /\ sent[q] = [status |-> "ok", answer |-> q]
                 /\ due[q] <= sentAt[q] + Ttl
                 /\ logged[q] => q \in audit
      BY <2>1 DEF ReplayInv, RowsOwned
    <3>2. q # r
      BY <3>1
    <3>3. QED
      BY <1>1, <3>1, <3>2 DEF Key
  <2>2. QED
    BY <1>1, <2>1 DEF RowsOwned, Key
<1>4. AuditOwned'
  BY <1>1 DEF ReplayInv, AuditOwned, TypeOK
<1>5. ReplaysOwned'
  <2>1. ASSUME NEW q \in Requests, sent'[q].status = "replay"
        PROVE  /\ pc'[q] = "done" /\ req'[q].key # None /\ table[req'[q].key] # NoRow
               /\ sent'[q].answer = table[req'[q].key].answer
               /\ req'[q].body = table[req'[q].key].body
               /\ sentAt'[q] < table[req'[q].key].expires
    <3>1. CASE q = r
      BY <2>1, <3>1 DEF Key
    <3>2. CASE q # r
      BY <2>1, <3>2 DEF ReplayInv, ReplaysOwned, Replayed, Key
    <3>3. QED
      BY <3>1, <3>2
  <2>2. QED
    BY <1>1, <2>1 DEF ReplaysOwned, Replayed, Key
<1>6. PhaseFits'
  <2>1. ASSUME NEW q \in Requests
        PROVE  /\ pc'[q] = "commit" => sent'[q] = [status |-> "ok", answer |-> q]
                                       /\ due'[q] <= sentAt'[q] + Ttl
               /\ pc'[q] \in {"new", "check", "handle", "store", "respond"}
                    => sent'[q] = Unanswered
               /\ pc'[q] \in {"store", "respond"} => due'[q] <= clock + Ttl
               /\ pc'[q] = "store" => req'[q].key \in Keys
    <3>1. CASE q = r
      BY <3>1 DEF Key
    <3>2. CASE q # r
      BY <3>2 DEF ReplayInv, PhaseFits, Key
    <3>3. QED
      BY <3>1, <3>2
  <2>2. QED
    BY <1>1, <2>1 DEF PhaseFits, Key, Unanswered
<1>7. QED
  BY <1>2, <1>3, <1>4, <1>5, <1>6 DEF ReplayInv

(* A request comes in.                                                     *)
LEMMA ArriveInv ==
  ASSUME ReplayInv, NEW r \in Requests, Arrive(r)
  PROVE  ReplayInv'
<1>1. /\ pc[r] = "new" /\ UNCHANGED <<tables, due, logged, clock>>
      /\ sent[r] = Unanswered
  BY DEF Arrive, ReplayInv, PhaseFits
<1>2. PICK k \in Keys \cup {None}, b \in Bodies :
        req' = [req EXCEPT ![r] = [key |-> k, body |-> b]]
  BY DEF Arrive
<1>3. CASE Goto(r, "check") /\ UNCHANGED <<sent, sentAt>>
  <2>1. TypeOK'
    BY <1>1, <1>2, <1>3 DEF Arrive, Goto, ReplayInv, TypeOK, tables, PCs
  <2>2. sent'[r] = Unanswered /\ sent'[r].status # "replay"
    BY <1>1, <1>3 DEF Unanswered
  <2>3. QED
    BY <1>1, <1>2, <1>3, <2>1, <2>2, LocalInv DEF Goto, ReplayInv, TypeOK
<1>4. CASE Goto(r, "done") /\ Answer(r, "limited", None)
  <2>1. TypeOK'
    BY <1>1, <1>2, <1>4 DEF Arrive, Goto, Answer, ReplayInv, TypeOK, tables, PCs, Statuses
  <2>2. QED
    BY <1>1, <1>2, <1>4, <2>1, LocalInv DEF Goto, Answer, ReplayInv, TypeOK
<1>5. QED
  BY <1>3, <1>4 DEF Arrive

(* check_or_replay: what is replayed is a row that is there.               *)
LEMMA CheckInv ==
  ASSUME ReplayInv, NEW r \in Requests, Check(r)
  PROVE  ReplayInv'
<1>1. /\ pc[r] = "check" /\ UNCHANGED <<tables, req, due, logged, seen, clock>>
      /\ sent[r] = Unanswered
  BY DEF Check, ReplayInv, PhaseFits
<1>2. CASE Miss(r) /\ Goto(r, "handle") /\ UNCHANGED <<sent, sentAt>>
  <2>1. TypeOK'
    BY <1>1, <1>2 DEF Goto, ReplayInv, TypeOK, tables, PCs
  <2>2. sent'[r] = Unanswered /\ sent'[r].status # "replay"
    BY <1>1, <1>2 DEF Unanswered
  <2>3. QED
    BY <1>1, <1>2, <2>1, <2>2, LocalInv DEF Goto, ReplayInv, TypeOK
<1>3. CASE /\ ~Miss(r) /\ table[Key(r)].body # req[r].body
           /\ Answer(r, "conflict", None) /\ Goto(r, "done")
  <2>1. TypeOK'
    BY <1>1, <1>3 DEF Goto, Answer, ReplayInv, TypeOK, tables, PCs, Statuses
  <2>2. QED
    BY <1>1, <1>3, <2>1, LocalInv DEF Goto, Answer, ReplayInv, TypeOK
<1>4. CASE /\ ~Miss(r) /\ table[Key(r)].body = req[r].body
           /\ Answer(r, "replay", table[Key(r)].answer) /\ Goto(r, "done")
  <2>1. /\ Key(r) # None /\ Key(r) \in Keys /\ table[Key(r)] # NoRow
        /\ ~(table[Key(r)].expires <= clock)
    BY <1>4 DEF Miss, Live, ReplayInv, TypeOK, Key
  <2>2. table[Key(r)] \in Rows /\ clock \in Nat
    BY <2>1 DEF ReplayInv, TypeOK
  <2>3. clock < table[Key(r)].expires /\ table[Key(r)].answer \in Requests \cup {None}
    BY <2>1, <2>2 DEF Rows
  <2>4. TypeOK'
    BY <1>1, <1>4, <2>3 DEF Goto, Answer, ReplayInv, TypeOK, tables, PCs, Statuses
  <2>5. Key(r)' = Key(r)
    BY <1>1 DEF Key
  <2>6. QED
    BY <1>1, <1>4, <2>1, <2>3, <2>4, <2>5, LocalInv
       DEF Goto, Answer, ReplayInv, TypeOK, Key
<1>5. QED
  BY <1>2, <1>3, <1>4 DEF Check

(* The handler computes an answer under its own name.                      *)
LEMMA HandleInv ==
  ASSUME ReplayInv, NEW r \in Requests, Handle(r)
  PROVE  ReplayInv'
<1>1. /\ pc[r] = "handle" /\ UNCHANGED <<tables, req, seen, clock>>
      /\ sent[r] = Unanswered /\ clock \in Nat /\ Ttl \in Nat
  BY TtlAssumption DEF Handle, ReplayInv, PhaseFits, TypeOK
<1>2. CASE /\ Log(r)
           /\ due' = [due EXCEPT ![r] = clock + Ttl]
           /\ Goto(r, IF Key(r) = None THEN "respond" ELSE "store")
           /\ UNCHANGED <<sent, sentAt>>
  <2>1. PICK l \in BOOLEAN : logged' = [logged EXCEPT ![r] = l]
    BY <1>2, Zenon DEF Log
  <2>2. logged' \in [Requests -> BOOLEAN]
    BY <2>1, Zenon DEF ReplayInv, TypeOK
  <2>0. due' \in [Requests -> Nat] /\ pc' \in [Requests -> PCs]
    BY <1>1, <1>2 DEF Goto, ReplayInv, TypeOK, PCs
  <2>3. TypeOK'
    BY <1>1, <1>2, <2>0, <2>2 DEF ReplayInv, TypeOK, tables
  <2>4. due'[r] = clock + Ttl /\ due'[r] <= clock + Ttl
    BY <1>1, <1>2 DEF ReplayInv, TypeOK
  <2>5. Key(r)' = Key(r) /\ (pc'[r] = "store" => Key(r) \in Keys)
    BY <1>1, <1>2 DEF Goto, Key, ReplayInv, TypeOK
  <2>6. \A q \in Requests \ {r} : /\ pc'[q] = pc[q] /\ req'[q] = req[q]
                                  /\ due'[q] = due[q] /\ logged'[q] = logged[q]
                                  /\ sent'[q] = sent[q] /\ sentAt'[q] = sentAt[q]
    <3>1. \A q \in Requests \ {r} : logged'[q] = logged[q]
      BY <2>1, Zenon DEF ReplayInv, TypeOK
    <3>2. QED
      BY <1>1, <1>2, <3>1 DEF Goto, ReplayInv, TypeOK
  <2>7. pc'[r] \in {"store", "respond"} /\ sent'[r] = Unanswered /\ req'[r] = req[r]
    BY <1>1, <1>2 DEF Goto, ReplayInv, TypeOK
  <2>8. sent'[r].status # "replay"
    BY <2>7 DEF Unanswered
  <2>9. QED
    BY <1>1, <2>3, <2>4, <2>5, <2>6, <2>7, <2>8, LocalInv
<1>3. CASE Answer(r, "error", None) /\ Goto(r, "done") /\ UNCHANGED <<due, logged>>
  <2>1. TypeOK'
    BY <1>1, <1>3 DEF Goto, Answer, ReplayInv, TypeOK, tables, PCs, Statuses
  <2>2. QED
    BY <1>1, <1>3, <2>1, LocalInv DEF Goto, Answer, ReplayInv, TypeOK
<1>4. QED
  BY <1>2, <1>3 DEF Handle

(* The answer is sent before the COMMIT.                                   *)
LEMMA RespondInv ==
  ASSUME ReplayInv, NEW r \in Requests, Respond(r)
  PROVE  ReplayInv'
<1>1. /\ pc[r] = "respond" /\ UNCHANGED <<tables, req, due, logged, seen, clock>>
      /\ due[r] <= clock + Ttl
      /\ Goto(r, "commit") /\ Answer(r, "ok", r)
  BY DEF Respond, ReplayInv, PhaseFits
<1>2. TypeOK'
  BY <1>1 DEF Goto, Answer, ReplayInv, TypeOK, tables, PCs, Statuses
<1>3. QED
  BY <1>1, <1>2, LocalInv DEF Goto, Answer, ReplayInv, TypeOK

(* An insert is pending only where no row is.                              *)
LEMMA StoreInv ==
  ASSUME ReplayInv, NEW r \in Requests, Store(r)
  PROVE  ReplayInv'
<1>1. /\ pc[r] = "store" /\ Key(r) \in Keys /\ pending[Key(r)] = None
      /\ UNCHANGED <<table, audit, req, due, logged, sent, history, clock>>
      /\ Goto(r, "respond")
  BY DEF Store, ReplayInv, PhaseFits
<1>2. pc'[r] = "respond" /\ \A q \in Requests \ {r} : pc'[q] = pc[q]
  BY <1>1 DEF Goto, ReplayInv, TypeOK
<1>3. \A k \in Keys : \/ pending'[k] = pending[k]
                      \/ k = Key(r) /\ pending'[k] = r /\ table[k] = NoRow
  BY <1>1 DEF Store, ReplayInv, TypeOK
<1>4. TypeOK'
  <2>1. pending' \in [Keys -> Requests \cup {None}]
    BY <1>1 DEF Store, ReplayInv, TypeOK
  <2>2. pc' \in [Requests -> PCs]
    BY <1>1 DEF Goto, ReplayInv, TypeOK, PCs
  <2>3. QED
    BY <1>1, <2>1, <2>2 DEF ReplayInv, TypeOK, history
<1>5. PendingOwned'
  <2>1. ASSUME NEW k \in Keys, NEW q \in Requests, pending'[k] = q
        PROVE  req[q].key = k /\ table[k] = NoRow /\ pc'[q] \in {"respond", "commit"}
    <3>1. CASE pending'[k] = pending[k]
      <4>1. q # r
        BY <1>1, <2>1, <3>1 DEF ReplayInv, PendingOwned
      <4>2. QED
        BY <1>2, <2>1, <3>1, <4>1 DEF ReplayInv, PendingOwned, Key
    <3>2. CASE k = Key(r) /\ pending'[k] = r /\ table[k] = NoRow
      BY <1>2, <2>1, <3>2 DEF Key
    <3>3. QED
      BY <1>3, <3>1, <3>2
  <2>2. QED
    BY <1>1, <2>1 DEF PendingOwned, Key
<1>6. RowsOwned' /\ AuditOwned' /\ ReplaysOwned'
  <2>1. \A q \in Requests : pc[q] = "done" => pc'[q] = "done"
    BY <1>1, <1>2
  <2>2. RowsOwned'
    BY <1>1, <2>1 DEF ReplayInv, RowsOwned, Key, history
  <2>3. AuditOwned'
    BY <1>1, <2>1 DEF ReplayInv, AuditOwned, TypeOK
  <2>4. ReplaysOwned'
    BY <1>1, <2>1 DEF ReplayInv, ReplaysOwned, Replayed, Key, history
  <2>5. QED
    BY <2>2, <2>3, <2>4
<1>7. PhaseFits'
  BY <1>1, <1>2 DEF ReplayInv, PhaseFits, Key, history
<1>8. QED
  BY <1>4, <1>5, <1>6, <1>7 DEF ReplayInv

(* A pending row becomes the row of its key.                               *)
LEMMA CommitInv ==
  ASSUME ReplayInv, NEW r \in Requests, Commit(r)
  PROVE  ReplayInv'
<1>1. /\ pc[r] = "commit"
      /\ UNCHANGED <<req, due, logged, sent, seen, sentAt, clock>>
      /\ Goto(r, "done") /\ pending' = Unlocked(r)
      /\ audit' = (IF logged[r] THEN audit \cup {r} ELSE audit)
  BY DEF Commit, Audited, history
<1>2. pc'[r] = "done" /\ \A q \in Requests \ {r} : pc'[q] = pc[q]
  BY <1>1 DEF Goto, ReplayInv, TypeOK
<1>3. /\ sent[r] = [status |-> "ok", answer |-> r] /\ due[r] <= sentAt[r] + Ttl
      /\ req[r] \in [key : Keys \cup {None}, body : Bodies \cup {None}] /\ due[r] \in Nat
  BY <1>1 DEF ReplayInv, PhaseFits, TypeOK
<1>4. ASSUME NEW k \in Keys
      PROVE  \/ /\ pending[k] = r /\ pending'[k] = None /\ table[k] = NoRow /\ Key(r) = k
                /\ table'[k] = [body |-> req[r].body, answer |-> r, expires |-> due[r]]
             \/ pending[k] # r /\ pending'[k] = pending[k] /\ table'[k] = table[k]
  BY DEF Commit, Unlocked, ReplayInv, PendingOwned
<1>5. TypeOK'
  <2>1. \A k \in Keys : table'[k] \in Rows /\ pending'[k] \in Requests \cup {None}
    BY <1>3, <1>4 DEF ReplayInv, TypeOK, Rows
  <2>2. /\ table' = [k \in Keys |-> table'[k]]
        /\ pending' = [k \in Keys |-> pending'[k]]
    BY DEF Commit, Unlocked
  <2>3. pc' \in [Requests -> PCs] /\ audit' \subseteq Requests
    BY <1>1 DEF Goto, ReplayInv, TypeOK, PCs
  <2>4. table' \in [Keys -> Rows] /\ pending' \in [Keys -> Requests \cup {None}]
    BY <2>1, <2>2
  <2>5. QED
    BY <1>1, <2>3, <2>4 DEF ReplayInv, TypeOK
<1>6. PendingOwned'
  <2>1. ASSUME NEW k \in Keys, NEW q \in Requests, pending'[k] = q
        PROVE  req[q].key = k /\ table'[k] = NoRow /\ pc'[q] \in {"respond", "commit"}
    <3>1. pending[k] # r /\ pending[k] = q /\ table'[k] = table[k]
      BY <1>4, <2>1, NoneAssumption
    <3>2. QED
      BY <1>2, <3>1 DEF ReplayInv, PendingOwned, Key
  <2>2. QED
    BY <1>1, <2>1 DEF PendingOwned, Key
<1>7. RowsOwned'
  <2>1. ASSUME NEW k \in Keys, table'[k] # NoRow
        PROVE  \E q \in Requests :
                 /\ table'[k] = [body |-> req[q].body, answer |-> q, expires |-> due[q]]
                 /\ req[q].key = k /\ pc'[q] = "done"
                 /\ sent[q] = [status |-> "ok", answer |-> q]
                 /\ due[q] <= sentAt[q] + Ttl
                 /\ logged[q] => q \in audit'
    <3>1. CASE pending[k] = r
      BY <1>1, <1>2, <1>3, <1>4, <3>1 DEF Key
    <3>2. CASE pending[k] # r
      <4>1. table'[k] = table[k]
        BY <1>4, <3>2
      <4>2. QED
        BY <1>1, <1>2, <2>1, <4>1 DEF ReplayInv, RowsOwned, Key
    <3>3. QED
      BY <3>1, <3>2
  <2>2. QED
    BY <1>1, <2>1 DEF RowsOwned, Key
<1>8. AuditOwned'
  <2>1. ASSUME NEW q \in audit'
        PROVE  pc'[q] = "done" /\ sent[q] = [status |-> "ok", answer |-> q]
    <3>1. CASE q = r
      BY <1>2, <1>3, <3>1
    <3>2. CASE q # r
      <4>1. q \in audit
        BY <1>1, <2>1, <3>2
      <4>2. q \in Requests /\ pc[q] = "done" /\ sent[q] = [status |-> "ok", answer |-> q]
        BY <4>1 DEF ReplayInv, AuditOwned, TypeOK
      <4>3. QED
        BY <1>2, <3>2, <4>2
    <3>3. QED
      BY <3>1, <3>2
  <2>2. QED
    BY <1>1, <2>1 DEF AuditOwned
<1>9. ReplaysOwned'
  <2>1. ASSUME NEW q \in Requests, Replayed(q)
        PROVE  pc'[q] = "done" /\ table'[Key(q)] = table[Key(q)]
    <3>1. /\ pc[q] = "done" /\ Key(q) \in Keys /\ table[Key(q)] # NoRow
      BY <2>1 DEF ReplayInv, ReplaysOwned, TypeOK, Key
    <3>2. QED
      BY <1>1, <1>2, <1>4, <3>1
  <2>2. QED
    BY <1>1, <2>1 DEF ReplayInv, ReplaysOwned, Replayed, Key
<1>10. PhaseFits'
  BY <1>1, <1>2 DEF ReplayInv, PhaseFits, Key
<1>11. QED
  BY <1>5, <1>6, <1>7, <1>8, <1>9, <1>10 DEF ReplayInv

(* What a request had not committed is gone with it.                       *)
LEMMA CrashInv ==
  ASSUME ReplayInv, NEW r \in Requests, Crash(r)
  PROVE  ReplayInv'
<1>1. /\ pc[r] \notin {"new", "done", "dead"} /\ pending' = Unlocked(r) /\ Goto(r, "dead")
      /\ UNCHANGED <<table, audit, req, due, logged, sent, seen, sentAt, clock>>
  BY DEF Crash, history
<1>2. pc'[r] = "dead" /\ \A q \in Requests \ {r} : pc'[q] = pc[q]
  BY <1>1 DEF Goto, ReplayInv, TypeOK
<1>3. \A k \in Keys : pending'[k] = (IF pending[k] = r THEN None ELSE pending[k])
  BY <1>1 DEF Unlocked
<1>4. TypeOK'
  <2>1. pending' \in [Keys -> Requests \cup {None}]
    BY <1>1 DEF Unlocked, ReplayInv, TypeOK
  <2>2. pc' \in [Requests -> PCs]
    BY <1>1 DEF Goto, ReplayInv, TypeOK, PCs
  <2>3. QED
    BY <1>1, <2>1, <2>2 DEF ReplayInv, TypeOK
<1>5. PendingOwned'
  <2>1. ASSUME NEW k \in Keys, NEW q \in Requests, pending'[k] = q
        PROVE  pending[k] = q /\ q # r
    BY <1>3, <2>1, NoneAssumption
  <2>2. QED
    BY <1>1, <1>2, <2>1 DEF ReplayInv, PendingOwned, Key
<1>6. \A q \in Requests : pc[q] = "done" => pc'[q] = "done"
  BY <1>1, <1>2
<1>7. RowsOwned' /\ AuditOwned' /\ ReplaysOwned'
  <2>1. RowsOwned'
    BY <1>1, <1>6 DEF ReplayInv, RowsOwned, Key
  <2>2. AuditOwned'
    BY <1>1, <1>6 DEF ReplayInv, AuditOwned, TypeOK
  <2>3. ReplaysOwned'
    BY <1>1, <1>6 DEF ReplayInv, ReplaysOwned, Replayed, Key
  <2>4. QED
    BY <2>1, <2>2, <2>3
<1>8. PhaseFits'
  BY <1>1, <1>2 DEF ReplayInv, PhaseFits, Key
<1>9. QED
  BY <1>4, <1>5, <1>7, <1>8 DEF ReplayInv

(* Time passes, or nothing happens.                                        *)
LEMMA TickInv ==
  ASSUME ReplayInv, Tick \/ UNCHANGED vars
  PROVE  ReplayInv'
<1>1. /\ UNCHANGED <<table, pending, audit, pc, req, due, logged, sent, seen, sentAt>>
      /\ clock' \in Nat /\ clock <= clock'
  BY DEF Tick, vars, tables, locals, history, ReplayInv, TypeOK
<1>2. TypeOK'
  BY <1>1 DEF ReplayInv, TypeOK
<1>3. PendingOwned' /\ RowsOwned' /\ AuditOwned'
  BY <1>1 DEF ReplayInv, PendingOwned, RowsOwned, AuditOwned, Key
<1>4. ReplaysOwned'
  BY <1>1 DEF ReplayInv, ReplaysOwned, Replayed, Key
<1>5. PhaseFits'
  <2>1. \A r \in Requests : due[r] <= clock + Ttl => due[r] <= clock' + Ttl
    BY <1>1, TtlAssumption DEF ReplayInv, TypeOK
  <2>2. QED
    BY <1>1, <2>1 DEF ReplayInv, PhaseFits, Key
<1>6. QED
  BY <1>2, <1>3, <1>4, <1>5 DEF ReplayInv

(* Rows are of answered requests, and replays are of the rows still there. *)
THEOREM ReplayInvariance == Spec => []ReplayInv
<1>1. Init => ReplayInv
  BY InitInv
<1>2. ReplayInv /\ [Next]_vars => ReplayInv'
  <2>1. ASSUME ReplayInv, NEW r \in Requests, Arrive(r) \/ Steps(r) \/ Crash(r)
        PROVE  ReplayInv'
    BY <2>1, ArriveInv, CheckInv, HandleInv, StoreInv, RespondInv, CommitInv, CrashInv
       DEF Steps
  <2>2. QED
    BY <2>1, TickInv DEF Next
<1>3. QED
  BY <1>1, <1>2, PTL DEF Spec

(* A replay repeats an answer that was sent to a request with the same key *)
(* and body (check_or_replay, store).                                      *)
THEOREM ReplaysAreFaithful == Spec => []ReplayIsFaithful
<1>1. ASSUME ReplayInv, NEW r \in Requests, Replayed(r)
      PROVE  \E q \in Requests : /\ sent[r].answer = q /\ Same(r, q)
                                 /\ sent[q] = [status |-> "ok", answer |-> q]
  <2>1. /\ Key(r) # None /\ Key(r) \in Keys /\ table[Key(r)] # NoRow
        /\ sent[r].answer = table[Key(r)].answer /\ req[r].body = table[Key(r)].body
    BY <1>1 DEF ReplayInv, ReplaysOwned, TypeOK, Key
  <2>2. PICK q \in Requests :
          /\ table[Key(r)] = [body |-> req[q].body, answer |-> q, expires |-> due[q]]
          /\ Key(q) = Key(r) /\ sent[q] = [status |-> "ok", answer |-> q]
    BY <1>1, <2>1 DEF ReplayInv, RowsOwned
  <2>3. req[r] = req[q]
    BY <1>1, <2>1, <2>2 DEF ReplayInv, TypeOK, Key
  <2>4. QED
    BY <2>1, <2>2, <2>3 DEF Same
<1>2. ReplayInv => ReplayIsFaithful
  BY <1>1 DEF ReplayIsFaithful
<1>3. QED
  BY <1>2, ReplayInvariance, PTL

(* All replays of one key say the same, whichever of the concurrent        *)
(* requests with that key was first to insert its row.                     *)
THEOREM OneWinnerPerKey == Spec => []ReplaysAgree
<1>1. ReplayInv => ReplaysAgree
  BY DEF ReplayInv, ReplaysOwned, ReplaysAgree
<1>2. QED
  BY <1>1, ReplayInvariance, PTL

(* A request that waits for the row of its key waits for one that has only *)
(* its answer to send and its transaction to commit.                       *)
THEOREM WaitsAreShort == Spec => []HoldersNeverWait
<1>1. ASSUME ReplayInv, NEW r \in Requests, NEW q \in Requests,
             pc[r] = "store", pending[Key(r)] = q
      PROVE  pc[q] \in {"respond", "commit"}
  <2>1. Key(r) \in Keys
    BY <1>1 DEF ReplayInv, PhaseFits
  <2>2. QED
    BY <1>1, <2>1 DEF ReplayInv, PendingOwned
<1>2. ReplayInv => HoldersNeverWait
  BY <1>1 DEF HoldersNeverWait
<1>3. QED
  BY <1>2, ReplayInvariance, PTL

(* check_or_replay never serves an answer Ttl or more after it was given,  *)
(* although nothing deletes expired rows.                                  *)
THEOREM ReplaysAreFresh == Spec => []NoStaleReplay
<1>1. ASSUME ReplayInv, NEW r \in Requests, Replayed(r),
             NEW q \in Requests, sent[r].answer = q
      PROVE  sentAt[r] < sentAt[q] + Ttl
  <2>1. /\ Key(r) \in Keys /\ table[Key(r)] # NoRow
        /\ sent[r].answer = table[Key(r)].answer /\ sentAt[r] < table[Key(r)].expires
    BY <1>1 DEF ReplayInv, ReplaysOwned, TypeOK, Key
  <2>2. PICK p \in Requests :
          /\ table[Key(r)] = [body |-> req[p].body, answer |-> p, expires |-> due[p]]
          /\ due[p] <= sentAt[p] + Ttl
    BY <1>1, <2>1 DEF ReplayInv, RowsOwned
  <2>3. p = q /\ sentAt[r] < due[q] /\ due[q] <= sentAt[q] + Ttl
    BY <1>1, <2>1, <2>2
  <2>4. sentAt[r] \in Nat /\ sentAt[q] \in Nat /\ due[q] \in Nat /\ Ttl \in Nat
    BY <1>1, TtlAssumption DEF ReplayInv, TypeOK
  <2>5. QED
    BY <2>3, <2>4
<1>2. ReplayInv => NoStaleReplay
  BY <1>1 DEF NoStaleReplay
<1>3. QED
  BY <1>2, ReplayInvariance, PTL

(* The telemetry row and the row kept for replay are one transaction.      *)
THEOREM AnswersAreAudited == Spec => []AuditMatchesAnswers
<1>1. ASSUME ReplayInv, NEW k \in Keys, NEW q \in Requests,
             table[k].answer = q, logged[q]
      PROVE  q \in audit
  <2>1. table[k] # NoRow
    BY <1>1, NoneAssumption DEF NoRow
  <2>2. PICK p \in Requests :
          /\ table[k] = [body |-> req[p].body, answer |-> p, expires |-> due[p]]
          /\ logged[p] => p \in audit
    BY <1>1, <2>1 DEF ReplayInv, RowsOwned
  <2>3. QED
    BY <1>1, <2>2
<1>2. ReplayInv => AuditMatchesAnswers
  BY <1>1 DEF AuditMatchesAnswers, ReplayInv, AuditOwned
<1>3. QED
  BY <1>2, ReplayInvariance, PTL
=============================================================================
