-------------------------- MODULE IngestionWorker --------------------------
(***************************************************************************)
(* The ingestion queue and the worker processes that drain it:             *)
(* ingestion/worker.py, the queue repository in                            *)
(* db/repositories/operations.py and the run bookkeeping of                *)
(* ingestion/pipeline.py.  One action is one database transaction, or one  *)
(* await that another process may act in.  Postgres runs READ COMMITTED:   *)
(* a row lock lives as long as its transaction, a plain read sees the last *)
(* commit.                                                                 *)
(*                                                                         *)
(* An operator defined just before the one whose name it extends (such as  *)
(* MutRequeueForgotten before Requeue) is a mutant: the same step with a   *)
(* plausible bug, which the properties are shown to catch.                 *)
(***************************************************************************)
EXTENDS Naturals, FiniteSets

CONSTANTS
  Workers,   \* worker processes (instances of the worker application)
  Jobs,      \* rows of ingestion_jobs, numbered in order of enqueued_at
  BadJobs,   \* jobs whose payload names no source, or one not on the allowlist
  Runs,      \* rows of ingestion_runs, numbered in order of creation
  Budget     \* Budget[f]: how often fault f of Faults may happen

NoJob == 0
NoRun == 0
Faults == {"crash", "sigterm", "cancel", "requeue"}

ASSUME RowsAssumption ==
  /\ Jobs \subseteq Nat \ {0}
  /\ Runs \subseteq Nat \ {0}
  /\ BadJobs \subseteq Jobs
ASSUME BudgetAssumption == Budget \in [Faults -> Nat]

VARIABLES
  jobs,    \* jobs[j]: the row's status, result_run_id and attempts
  runs,    \* runs[r]: the row's status, and the job it was made for
  pc,      \* pc[w]: where worker w is
  cur,     \* cur[w]: the job w selected or claimed
  rid,     \* rid[w]: the run w created for that job
  snap,    \* snap[w]: the rows w's sweep listed, with the result_run_id it read
  stop,    \* stop[w]: w's shutdown event
  budget,  \* faults still allowed (bound of the model)
  stolen   \* history: jobs a sweep rewrote although they were no orphans

tables == <<jobs, runs>>
vars == <<jobs, runs, pc, cur, rid, snap, stop, budget, stolen>>

JobStatuses == {"absent", "queued", "running", "succeeded", "failed"}
Durable     == {"succeeded", "partial"}
Finished    == Durable \cup {"failed"}
RunStatuses == {"absent", "running"} \cup Finished
JobRow == [status : JobStatuses, result : Runs \cup {NoRun}, attempts : Nat]
RunRow == [status : RunStatuses, job : Jobs \cup {NoJob}]

(* Positions of a worker.  "listed" is between the sweep's SELECT and its  *)
(* COMMIT, "select" between claim_one's SELECT ... FOR UPDATE and _tick's  *)
(* COMMIT.  From Holding on the claim is durable and the job in hand; at   *)
(* "closing" its success is durable, too, but _process has not returned.   *)
Holding == {"claimed", "running", "ran", "closing", "failing", "cancelled"}
PCs == {"down", "sweep", "listed", "idle", "select"} \cup Holding

Holds(w, j)  == pc[w] \in Holding /\ cur[w] = j
Locked(j)    == \E w \in Workers : pc[w] = "select" /\ cur[w] = j
Live(j)      == \E w \in Workers : Holds(w, j)
NoRows       == [j \in {} |-> NoRun]
Spend(f)     == budget[f] > 0 /\ budget' = [budget EXCEPT ![f] = @ - 1]
Goto(w, l)   == pc' = [pc EXCEPT ![w] = l]
FreshRow(table, rows, k) ==
  /\ table[k].status = "absent"
  /\ \A i \in rows : i < k => table[i].status # "absent"

Init ==
  /\ jobs = [j \in Jobs |-> [status |-> "absent", result |-> NoRun, attempts |-> 0]]
  /\ runs = [r \in Runs |-> [status |-> "absent", job |-> NoJob]]
  /\ pc = [w \in Workers |-> "down"]
  /\ cur = [w \in Workers |-> NoJob]
  /\ rid = [w \in Workers |-> NoRun]
  /\ snap = [w \in Workers |-> NoRows]
  /\ stop = [w \in Workers |-> FALSE]
  /\ budget = Budget
  /\ stolen = {}

----------------------------------------------------------------------------
(* The queue repository.  mark_done, mark_failed and requeue update by id  *)
(* alone: none of them looks at the status it replaces, all wait for a     *)
(* claim's row lock.                                                       *)

MutClaimedStaysQueued(row) == [row EXCEPT !.attempts = row.attempts + 1]
Claimed(row)     == [row EXCEPT !.status = "running", !.attempts = row.attempts + 1]
MarkDone(row, r) == [row EXCEPT !.status = "succeeded", !.result = r]
MarkFailed(row)  == [row EXCEPT !.status = "failed"]
MutRequeueForgotten(row) == row
Requeue(row)     == [row EXCEPT !.status = "queued"]   \* result stays

(* enqueue: one row per active source, each in a transaction of its own.   *)
Enqueue(j) ==
  /\ FreshRow(jobs, Jobs, j)
  /\ jobs' = [jobs EXCEPT ![j].status = "queued"]
  /\ UNCHANGED <<runs, pc, cur, rid, snap, stop, budget, stolen>>

(* An operator takes a failed job up again (the troubleshooting guide).    *)
OperatorRequeue(j) ==
  /\ jobs[j].status = "failed"
  /\ Spend("requeue")
  /\ jobs' = [jobs EXCEPT ![j] = Requeue(@)]
  /\ UNCHANGED <<runs, pc, cur, rid, snap, stop, stolen>>

(* claim_one's SELECT: oldest queued row that nobody has locked.           *)
Claimable(j) == jobs[j].status = "queued" /\ ~Locked(j)

ClaimSelect(w, j) ==
  /\ pc[w] = "idle" /\ ~stop[w]
  /\ Claimable(j)
  /\ \A i \in Jobs : i < j => ~Claimable(i)
  /\ cur' = [cur EXCEPT ![w] = j]
  /\ Goto(w, "select")
  /\ UNCHANGED <<tables, rid, snap, stop, budget, stolen>>

(* The UPDATE and _tick's COMMIT, which makes the claim durable.           *)
ClaimCommit(w) ==
  /\ pc[w] = "select"
  /\ IF jobs[cur[w]].status = "queued"
       THEN jobs' = [jobs EXCEPT ![cur[w]] = Claimed(@)] /\ Goto(w, "claimed")
       ELSE Goto(w, "idle") /\ UNCHANGED jobs   \* rowcount = 0: a lost race
  /\ UNCHANGED <<runs, cur, rid, snap, stop, budget, stolen>>

(* An empty poll: _tick returns False and run_forever waits.               *)
Poll(w) ==
  /\ pc[w] = "idle" /\ ~stop[w]
  /\ \A j \in Jobs : ~Claimable(j)
  /\ UNCHANGED vars

----------------------------------------------------------------------------
(* One job: _process and, inside it, run_source.                           *)

(* run_source's opening transaction: the run row is durable as "running".  *)
StartRun(w, r) ==
  /\ pc[w] = "claimed"
  /\ cur[w] \notin BadJobs
  /\ FreshRow(runs, Runs, r)
  /\ runs' = [runs EXCEPT ![r] = [status |-> "running", job |-> cur[w]]]
  /\ rid' = [rid EXCEPT ![w] = r]
  /\ Goto(w, "running")
  /\ UNCHANGED <<jobs, cur, snap, stop, budget, stolen>>

(* The run ends and is committed; run_source returns its summary.  A cap   *)
(* violation ends the run as "failed" and returns all the same.            *)
FinishRun(w, s) ==
  /\ pc[w] = "running" /\ s \in Finished
  /\ runs' = [runs EXCEPT ![rid[w]].status = s]
  /\ Goto(w, "ran")
  /\ UNCHANGED <<jobs, cur, rid, snap, stop, budget, stolen>>

(* An exception leaves _process: a payload that is refused, a clone or a   *)
(* file that fails, a database error, mark_done itself, and after its      *)
(* COMMIT a lost acknowledgement or a session that fails to close.  A run  *)
(* that was started keeps the status it has; no handler ends it.           *)
Raise(w) ==
  /\ pc[w] \in {"claimed", "running", "ran", "closing"}
  /\ Goto(w, "failing")
  /\ UNCHANGED <<tables, cur, rid, snap, stop, budget, stolen>>

MutCommitDoneEarly(w) ==
  /\ pc[w] \in {"running", "ran"} /\ ~Locked(cur[w])
  /\ jobs' = [jobs EXCEPT ![cur[w]] = MarkDone(@, rid[w])]
  /\ Goto(w, "closing")
  /\ UNCHANGED <<runs, cur, rid, snap, stop, budget, stolen>>

(* mark_done and its COMMIT, the follow-up transaction of _process.        *)
CommitDone(w) ==
  /\ pc[w] = "ran" /\ ~Locked(cur[w])
  /\ jobs' = [jobs EXCEPT ![cur[w]] = MarkDone(@, rid[w])]
  /\ Goto(w, "closing")
  /\ UNCHANGED <<runs, cur, rid, snap, stop, budget, stolen>>

(* The COMMIT is acknowledged, the session closed, and _process returns.   *)
Leave(w) ==
  /\ pc[w] = "closing"
  /\ Goto(w, "idle")
  /\ UNCHANGED <<tables, cur, rid, snap, stop, budget, stolen>>

MutCommitFailedLate(w) ==
  /\ pc[w] \in {"failing", "cancelled", "idle"} /\ cur[w] # NoJob /\ ~Locked(cur[w])
  /\ jobs' = [jobs EXCEPT ![cur[w]] = MarkFailed(@)]
  /\ Goto(w, IF pc[w] = "cancelled" THEN "down" ELSE "idle")
  /\ UNCHANGED <<runs, cur, rid, snap, stop, budget, stolen>>

(* _tick's handlers: mark_failed in a session of its own, then the loop    *)
(* goes on, or the cancellation is raised again and ends the process.      *)
CommitFailed(w) ==
  /\ pc[w] \in {"failing", "cancelled"} /\ ~Locked(cur[w])
  /\ jobs' = [jobs EXCEPT ![cur[w]] = MarkFailed(@)]
  /\ Goto(w, IF pc[w] = "failing" THEN "idle" ELSE "down")
  /\ UNCHANGED <<runs, cur, rid, snap, stop, budget, stolen>>

(* The task is cancelled at an await of _process, the last of which come   *)
(* after its COMMIT.  At any other await nobody handles it: a Crash.       *)
Cancel(w) ==
  /\ pc[w] \in {"claimed", "running", "ran", "closing"}
  /\ Spend("cancel")
  /\ Goto(w, "cancelled")
  /\ UNCHANGED <<tables, cur, rid, snap, stop, stolen>>

----------------------------------------------------------------------------
(* The life of a process.                                                  *)

(* SIGTERM or SIGINT only sets the event; the loop looks at it when idle.  *)
Sigterm(w) ==
  /\ pc[w] # "down" /\ ~stop[w]
  /\ Spend("sigterm")
  /\ stop' = [stop EXCEPT ![w] = TRUE]
  /\ UNCHANGED <<tables, pc, cur, rid, snap, stolen>>

Exit(w) ==
  /\ pc[w] = "idle" /\ stop[w]
  /\ Goto(w, "down")
  /\ UNCHANGED <<tables, cur, rid, snap, stop, budget, stolen>>

(* SIGKILL, OOM, eviction, or an exception out of run_forever: what was    *)
(* not committed is rolled back and the locks are gone.                    *)
Crash(w) ==
  /\ pc[w] # "down"
  /\ Spend("crash")
  /\ Goto(w, "down")
  /\ UNCHANGED <<tables, cur, rid, snap, stop, stolen>>

(* The platform starts the process again, with nothing in memory.          *)
Start(w) ==
  /\ pc[w] = "down"
  /\ Goto(w, "sweep")
  /\ cur' = [cur EXCEPT ![w] = NoJob]
  /\ rid' = [rid EXCEPT ![w] = NoRun]
  /\ snap' = [snap EXCEPT ![w] = NoRows]
  /\ stop' = [stop EXCEPT ![w] = FALSE]
  /\ UNCHANGED <<tables, budget, stolen>>

(* _recover_stale_running lists every running row, whoever runs it.        *)
SweepList(w) ==
  /\ pc[w] = "sweep"
  /\ snap' = [snap EXCEPT ![w] =
               [j \in {i \in Jobs : jobs[i].status = "running"} |-> jobs[j].result]]
  /\ Goto(w, "listed")
  /\ UNCHANGED <<tables, cur, rid, stop, budget, stolen>>

(* What the sweep writes to a row, from the result_run_id it listed.       *)
Reconcile(row, result) ==
  IF result # NoRun /\ runs[result].status \in Durable
  THEN MarkDone(row, result) ELSE Requeue(row)

(* Its updates and COMMIT.  An UPDATE waits for the row lock of a claim.   *)
SweepCommit(w) ==
  /\ pc[w] = "listed"
  /\ \A j \in DOMAIN snap[w] : ~Locked(j)
  /\ jobs' = [j \in Jobs |-> IF j \in DOMAIN snap[w]
                             THEN Reconcile(jobs[j], snap[w][j]) ELSE jobs[j]]
  /\ stolen' = stolen \cup
       {j \in DOMAIN snap[w] : Live(j) \/ jobs[j].status \in {"succeeded", "failed"}}
  /\ snap' = [snap EXCEPT ![w] = NoRows]
  /\ Goto(w, "idle")
  /\ UNCHANGED <<runs, cur, rid, stop, budget>>

----------------------------------------------------------------------------
JobSteps(w) ==
  \/ \E j \in Jobs : ClaimSelect(w, j)
  \/ ClaimCommit(w)
  \/ \E r \in Runs : StartRun(w, r)
  \/ \E s \in Finished : FinishRun(w, s)
  \/ Raise(w) \/ CommitDone(w) \/ Leave(w) \/ CommitFailed(w)

LifeSteps(w) == Start(w) \/ SweepList(w) \/ SweepCommit(w) \/ Exit(w)

Interrupts(w) == Cancel(w) \/ Sigterm(w) \/ Crash(w)

Next ==
  \/ \E j \in Jobs : Enqueue(j) \/ OperatorRequeue(j)
  \/ \E w \in Workers : JobSteps(w) \/ LifeSteps(w) \/ Poll(w) \/ Interrupts(w)

Spec == Init /\ [][Next]_vars

(* The event loop keeps running and the platform restarts a dead process,  *)
(* so a worker that can take a step of its own does; enqueuing, signals,   *)
(* crashes and operators need not happen.                                  *)
Fairness == \A w \in Workers : WF_vars(JobSteps(w) \/ LifeSteps(w))
FairSpec == Spec /\ Fairness

----------------------------------------------------------------------------
(* Properties.                                                             *)

SnapTyped ==
  /\ snap = [w \in Workers |-> snap[w]]
  /\ \A w \in Workers :
       /\ DOMAIN snap[w] \subseteq Jobs
       /\ \A j \in DOMAIN snap[w] : snap[w][j] \in Runs \cup {NoRun}

(* The tables and the workers' variables keep their shape.                 *)
TypeOK ==
  /\ jobs \in [Jobs -> JobRow]
  /\ runs \in [Runs -> RunRow]
  /\ pc \in [Workers -> PCs]
  /\ cur \in [Workers -> Jobs \cup {NoJob}]
  /\ rid \in [Workers -> Runs \cup {NoRun}]
  /\ SnapTyped
  /\ stop \in [Workers -> BOOLEAN]
  /\ budget \in [Faults -> Nat]
  /\ stolen \subseteq Jobs

(* A half-done job is never succeeded (the module docstring of worker.py): *)
(* the row points at a run that was made for this very job and has ended,  *)
(* whatever crashes, sweeps and late mark_done calls came before.          *)
SucceededHasFinishedRun ==
  \A j \in Jobs : jobs[j].status = "succeeded" =>
     /\ jobs[j].result # NoRun
     /\ runs[jobs[j].result].status \in Finished
     /\ runs[jobs[j].result].job = j

(* No two live workers have the same job in hand, unless a starting        *)
(* worker's sweep requeued it under the worker that had it: apart from     *)
(* that sweep, SKIP LOCKED and the status filter of claim_one are enough.  *)
ExclusiveUnlessStolen ==
  \A w, v \in Workers : \A j \in Jobs :
     w # v /\ Holds(w, j) /\ Holds(v, j) => j \in stolen

(* The row a claim has selected stays queued until its UPDATE, so the      *)
(* "lost race" return of claim_one is never taken.                         *)
ClaimNeverLost == \A j \in Jobs : Locked(j) => jobs[j].status = "queued"

(* The unguarded mark_done, mark_failed and requeue: a succeeded row, if   *)
(* no sweep had stolen it, is written to once at most, as failed, and by   *)
(* the very worker whose run it names, which has not left _process.        *)
Overturns(w, j) ==
  /\ Holds(w, j) /\ pc[w] \in {"failing", "cancelled"}
  /\ jobs[j].result = rid[w]
  /\ jobs'[j] = MarkFailed(jobs[j])
SettlerAloneOverturns ==
  [][\A j \in Jobs :
       jobs[j].status = "succeeded" /\ jobs'[j] # jobs[j] =>
         j \in stolen' \/ \E w \in Workers : Overturns(w, j)]_vars

(* A run that has ended keeps its status: no second worker, retry or       *)
(* restart writes to a run row that is not its own.                        *)
EndedRunIsFinal ==
  [][\A r \in Runs : runs[r].status \in Finished => runs'[r] = runs[r]]_vars

(* The inductive strengthening of the three invariants above: what each    *)
(* worker's position says about the rows it has in hand.                   *)
EndedFor(r, j) ==
  r \in Runs /\ runs[r].status \in Finished /\ runs[r].job = j

ResultsEnded ==
  /\ \A j \in Jobs :
       /\ jobs[j].result # NoRun => EndedFor(jobs[j].result, j)
       /\ jobs[j].status = "succeeded" => jobs[j].result # NoRun
  /\ \A w \in Workers : \A j \in DOMAIN snap[w] :
       snap[w][j] # NoRun => EndedFor(snap[w][j], j)

OwnRun ==
  /\ \A w \in Workers : pc[w] \in Holding \cup {"select"} => cur[w] \in Jobs
  /\ \A w \in Workers : pc[w] = "running" =>
       rid[w] \in Runs /\ runs[rid[w]].status = "running" /\ runs[rid[w]].job = cur[w]
  /\ \A w \in Workers : pc[w] \in {"ran", "closing"} => EndedFor(rid[w], cur[w])
  /\ \A w, v \in Workers :
       w # v /\ pc[w] = "running" /\ pc[v] = "running" => rid[w] # rid[v]

(* The row of the job in hand: running, or succeeded with the own run.     *)
HeldRow(w, row) ==
  \/ row.status = "running" /\ pc[w] # "closing"
  \/ /\ row.status = "succeeded" /\ row.result = rid[w]
     /\ pc[w] \in {"closing", "failing", "cancelled"}

SoleClaim ==
  /\ ClaimNeverLost
  /\ \A w, v \in Workers : w # v /\ pc[w] = "select" /\ pc[v] = "select" => cur[w] # cur[v]
  /\ \A w \in Workers :
       pc[w] \in Holding /\ cur[w] \notin stolen => HeldRow(w, jobs[cur[w]])
  /\ ExclusiveUnlessStolen

WorkerInv == TypeOK /\ ResultsEnded /\ OwnRun /\ SoleClaim

(* One worker implements the ledger: crashes give a job back, an error or  *)
(* a cancellation overturns a success that is still being closed, nothing  *)
(* else moves a job backwards, and success needs a finished run.           *)
Ledger == INSTANCE JobLedger WITH
  status   <- [j \in Jobs |-> jobs[j].status],
  closing  <- {j \in Jobs : jobs[j].status = "succeeded" /\ Live(j)},
  finished <- [j \in Jobs |-> 
                 \E r \in Runs : runs[r].job = j /\ runs[r].status \in Finished]
LedgerSpec == Ledger!Spec

(* No job waits or runs for ever, although workers crash, are told to stop *)
(* and steal from each other: every enqueued job is eventually settled.    *)
EventuallySettled == Ledger!EventuallySettled

(* What the documentation says and the code does not do.                   *)

(* claim_one: "multiple workers polling the same queue never               *)
(* double-process a row".                                                  *)
NeverDoubleProcess ==
  \A w, v \in Workers : \A j \in Jobs : w # v => ~(Holds(w, j) /\ Holds(v, j))

(* _recover_stale_running, case 1: after a crash between the run-update    *)
(* commit and the job-update commit the job is marked succeeded "instead   *)
(* of redoing work".                                                       *)
DurableWorkNotRedone ==
  [][\A j \in Jobs :
       jobs[j].status = "running" /\ jobs'[j].status = "queued" =>
         ~\E r \in Runs : runs[r].job = j /\ runs[r].status \in Durable]_vars
=============================================================================
