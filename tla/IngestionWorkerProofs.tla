----------------------- MODULE IngestionWorkerProofs -----------------------
(***************************************************************************)
(* Invariance proofs for IngestionWorker, for any number of workers, jobs  *)
(* and runs and any budget of faults.                                      *)
(***************************************************************************)
EXTENDS IngestionWorker, TLAPS

(* What the queue repository writes to a job row is a job row.             *)
LEMMA StatusUpdates ==
  ASSUME NEW row \in JobRow
  PROVE  /\ [row EXCEPT !.status = "queued"] \in JobRow
         /\ Claimed(row) \in JobRow
         /\ MarkFailed(row) \in JobRow
         /\ Requeue(row) \in JobRow
<1>1. row.attempts \in Nat /\ row.attempts + 1 \in Nat
  BY DEF JobRow
<1>2. QED
  BY <1>1 DEF JobRow, JobStatuses, Claimed, MarkFailed, Requeue

(* mark_done and the sweep's reconciliation write job rows.                *)
LEMMA ResultUpdates ==
  ASSUME NEW row \in JobRow, NEW r \in Runs \cup {NoRun}
  PROVE  MarkDone(row, r) \in JobRow /\ Reconcile(row, r) \in JobRow
<1>1. MarkDone(row, r) \in JobRow
  BY DEF JobRow, JobStatuses, MarkDone
<1>2. QED
  BY <1>1, StatusUpdates DEF Reconcile

(* A claim changes the status of the row it selected, and no result.       *)
LEMMA ClaimEffect ==
  ASSUME TypeOK, NEW w \in Workers, ClaimCommit(w)
  PROVE  /\ jobs' \in [Jobs -> JobRow]
         /\ \A j \in Jobs :
              /\ jobs'[j].result = jobs[j].result
              /\ jobs'[j].status = "succeeded" => jobs[j].status = "succeeded"
         /\ UNCHANGED <<runs, cur, rid, snap, stop, budget, stolen>>
<1>1. \A row \in JobRow : /\ Claimed(row) \in JobRow
                          /\ Claimed(row).result = row.result
                          /\ Claimed(row).status = "running"
  BY StatusUpdates DEF Claimed, JobRow
<1>2. \/ jobs' = [jobs EXCEPT ![cur[w]] = Claimed(jobs[cur[w]])]
      \/ jobs' = jobs
  BY DEF ClaimCommit, Goto
<1>3. ASSUME NEW j \in Jobs
      PROVE  jobs'[j] \in {jobs[j], Claimed(jobs[j])}
  BY <1>2 DEF TypeOK
<1>4. jobs' = [j \in Jobs |-> jobs'[j]]
  BY <1>2 DEF TypeOK
<1>5. \A j \in Jobs : jobs[j] \in JobRow
  BY DEF TypeOK
<1>6. \A j \in Jobs : /\ jobs'[j] \in JobRow
                      /\ jobs'[j].result = jobs[j].result
                      /\ jobs'[j].status = "succeeded" => jobs[j].status = "succeeded"
  BY <1>1, <1>3, <1>5
<1>7. QED
  BY <1>4, <1>6 DEF ClaimCommit

(* Every transaction keeps the tables and the workers' variables in shape. *)
LEMMA TypeStep == ASSUME TypeOK, [Next]_vars PROVE TypeOK'
<1> USE RowsAssumption DEF TypeOK, SnapTyped
<1>1. ASSUME NEW j \in Jobs, Enqueue(j)
      PROVE  TypeOK'
  <2>1. jobs' \in [Jobs -> JobRow]
    BY <1>1, StatusUpdates DEF Enqueue
  <2>2. QED
    BY <1>1, <2>1 DEF Enqueue
<1>2. ASSUME NEW j \in Jobs, OperatorRequeue(j)
      PROVE  TypeOK'
  <2>1. jobs' \in [Jobs -> JobRow]
    BY <1>2, StatusUpdates DEF OperatorRequeue
  <2>2. budget' \in [Faults -> Nat]
    BY <1>2 DEF OperatorRequeue, Spend, Faults
  <2>3. QED
    BY <1>2, <2>1, <2>2 DEF OperatorRequeue
<1>3. ASSUME NEW w \in Workers, NEW j \in Jobs, ClaimSelect(w, j)
      PROVE  TypeOK'
  BY <1>3 DEF ClaimSelect, Claimable, Goto, tables, PCs, Holding, SnapTyped
<1>4. ASSUME NEW w \in Workers, ClaimCommit(w)
      PROVE  TypeOK'
  <2>1. jobs' \in [Jobs -> JobRow]
    BY <1>4, ClaimEffect
  <2>2. pc' \in [Workers -> PCs]
    BY <1>4 DEF ClaimCommit, Goto, PCs, Holding
  <2>3. QED
    BY <1>4, <2>1, <2>2 DEF ClaimCommit
<1>5. ASSUME NEW w \in Workers, NEW r \in Runs, StartRun(w, r)
      PROVE  TypeOK'
  <2>1. cur[w] \in Jobs \cup {NoJob}
    OBVIOUS
  <2>2. runs' \in [Runs -> RunRow]
    BY <1>5, <2>1 DEF StartRun, RunRow, RunStatuses
  <2>3. pc' \in [Workers -> PCs]
    BY <1>5 DEF StartRun, Goto, PCs, Holding
  <2>4. QED
    BY <1>5, <2>2, <2>3 DEF StartRun
<1>6. ASSUME NEW w \in Workers, NEW s \in Finished, FinishRun(w, s)
      PROVE  TypeOK'
  <2>1. \A row \in RunRow : [row EXCEPT !.status = s] \in RunRow
    BY DEF RunRow, RunStatuses
  <2>2. runs' \in [Runs -> RunRow]
    BY <1>6, <2>1 DEF FinishRun
  <2>3. pc' \in [Workers -> PCs]
    BY <1>6 DEF FinishRun, Goto, PCs, Holding
  <2>4. QED
    BY <1>6, <2>2, <2>3 DEF FinishRun
<1>7. ASSUME NEW w \in Workers, Raise(w)
      PROVE  TypeOK'
  BY <1>7 DEF Raise, Goto, tables, PCs, Holding, SnapTyped
<1>8. ASSUME NEW w \in Workers, CommitDone(w)
      PROVE  TypeOK'
  <2>1. jobs' \in [Jobs -> JobRow]
    BY <1>8, ResultUpdates DEF CommitDone
  <2>2. pc' \in [Workers -> PCs]
    BY <1>8 DEF CommitDone, Goto, PCs, Holding
  <2>3. QED
    BY <1>8, <2>1, <2>2 DEF CommitDone
<1>8a. ASSUME NEW w \in Workers, Leave(w)
      PROVE  TypeOK'
  BY <1>8a DEF Leave, Goto, tables, PCs, Holding, SnapTyped
<1>9. ASSUME NEW w \in Workers, CommitFailed(w)
      PROVE  TypeOK'
  <2>1. jobs' \in [Jobs -> JobRow]
    BY <1>9, StatusUpdates DEF CommitFailed
  <2>2. pc' \in [Workers -> PCs]
    BY <1>9 DEF CommitFailed, Goto, PCs
  <2>3. QED
    BY <1>9, <2>1, <2>2 DEF CommitFailed
<1>10. ASSUME NEW w \in Workers, Start(w)
      PROVE  TypeOK'
  <2>1. pc' \in [Workers -> PCs]
    BY <1>10 DEF Start, Goto, PCs
  <2>2. SnapTyped'
    BY <1>10 DEF Start, NoRows, SnapTyped
  <2>3. QED
    BY <1>10, <2>1, <2>2 DEF Start, tables
<1>11. ASSUME NEW w \in Workers, SweepList(w)
      PROVE  TypeOK'
  <2>1. \A j \in Jobs : jobs[j].result \in Runs \cup {NoRun}
    BY DEF JobRow
  <2>2. pc' \in [Workers -> PCs]
    BY <1>11 DEF SweepList, Goto, PCs
  <2>3. ASSUME NEW v \in Workers
        PROVE  /\ DOMAIN snap'[v] \subseteq Jobs
               /\ \A j \in DOMAIN snap'[v] : snap'[v][j] \in Runs \cup {NoRun}
    <3>1. CASE v = w
      <4> DEFINE S == {i \in Jobs : jobs[i].status = "running"}
      <4>1. snap'[v] = [j \in S |-> jobs[j].result]
        BY <1>11, <3>1 DEF SweepList, SnapTyped
      <4>2. QED
        BY <2>1, <4>1
    <3>2. CASE v # w
      BY <1>11, <3>2 DEF SweepList, SnapTyped
    <3>3. QED
      BY <3>1, <3>2
  <2>4. snap' = [v \in Workers |-> snap'[v]]
    BY <1>11 DEF SweepList, SnapTyped
  <2>5. SnapTyped'
    BY <2>3, <2>4 DEF SnapTyped
  <2>6. QED
    BY <1>11, <2>2, <2>5 DEF SweepList, tables
<1>12. ASSUME NEW w \in Workers, SweepCommit(w)
      PROVE  TypeOK'
  <2>1. \A j \in Jobs : j \in DOMAIN snap[w] => Reconcile(jobs[j], snap[w][j]) \in JobRow
    BY ResultUpdates DEF SnapTyped
  <2>2. jobs' \in [Jobs -> JobRow]
    BY <1>12, <2>1 DEF SweepCommit
  <2>3. pc' \in [Workers -> PCs]
    BY <1>12 DEF SweepCommit, Goto, PCs
  <2>4. SnapTyped'
    BY <1>12 DEF SweepCommit, NoRows, SnapTyped
  <2>5. stolen' \subseteq Jobs
    BY <1>12 DEF SweepCommit, SnapTyped
  <2>6. QED
    BY <1>12, <2>2, <2>3, <2>4, <2>5 DEF SweepCommit
<1>13. ASSUME NEW w \in Workers, Exit(w)
      PROVE  TypeOK'
  BY <1>13 DEF Exit, Goto, tables, PCs, Holding, SnapTyped
<1>14. ASSUME NEW w \in Workers, Cancel(w)
      PROVE  TypeOK'
  <2>1. budget' \in [Faults -> Nat]
    BY <1>14 DEF Cancel, Spend, Faults
  <2>2. pc' \in [Workers -> PCs]
    BY <1>14 DEF Cancel, Goto, PCs, Holding
  <2>3. QED
    BY <1>14, <2>1, <2>2 DEF Cancel, tables, SnapTyped
<1>15. ASSUME NEW w \in Workers, Sigterm(w)
      PROVE  TypeOK'
  <2>1. budget' \in [Faults -> Nat]
    BY <1>15 DEF Sigterm, Spend, Faults
  <2>2. QED
    BY <1>15, <2>1 DEF Sigterm, tables, SnapTyped
<1>16. ASSUME NEW w \in Workers, Crash(w)
      PROVE  TypeOK'
  <2>1. budget' \in [Faults -> Nat]
    BY <1>16 DEF Crash, Spend, Faults
  <2>2. pc' \in [Workers -> PCs]
    BY <1>16 DEF Crash, Goto, PCs, Holding
  <2>3. QED
    BY <1>16, <2>1, <2>2 DEF Crash, tables, SnapTyped
<1>17. CASE UNCHANGED vars
  BY <1>17 DEF vars, tables, PCs, Holding, SnapTyped
<1>18. QED
  BY <1>1, <1>2, <1>3, <1>4, <1>5, <1>6, <1>7, <1>8, <1>8a, <1>9, <1>10, <1>11, <1>12, <1>13, <1>14, <1>15, <1>16, <1>17
     DEF Next, JobSteps, LifeSteps, Interrupts, Poll

(* The rows a job, a sweep or a worker points at are ended runs of it.     *)
LEMMA ResultsStep == ASSUME WorkerInv, [Next]_vars PROVE ResultsEnded'
<1> USE RowsAssumption DEF WorkerInv, NoJob, NoRun
<1>1. ASSUME NEW j \in Jobs, Enqueue(j)
      PROVE  ResultsEnded'
  BY <1>1 DEF Enqueue, FreshRow, TypeOK, JobRow, RunRow, SnapTyped, ResultsEnded, EndedFor, OwnRun, tables, Holding, Finished, Durable, JobStatuses
<1>2. ASSUME NEW j \in Jobs, OperatorRequeue(j)
      PROVE  ResultsEnded'
  BY <1>2 DEF OperatorRequeue, Requeue, Spend, TypeOK, JobRow, RunRow, SnapTyped, ResultsEnded, EndedFor, OwnRun, tables, Holding, Finished, Durable, JobStatuses
<1>3. ASSUME NEW w \in Workers, NEW j \in Jobs, ClaimSelect(w, j)
      PROVE  ResultsEnded'
  BY <1>3 DEF ClaimSelect, Claimable, Goto, TypeOK, JobRow, RunRow, SnapTyped, ResultsEnded, EndedFor, OwnRun, tables, Holding, Finished, Durable, JobStatuses
<1>4. ASSUME NEW w \in Workers, ClaimCommit(w)
      PROVE  ResultsEnded'
  <2>1. \A r, j : EndedFor(r, j)' <=> EndedFor(r, j)
    BY <1>4, ClaimEffect DEF EndedFor
  <2>2. \A j \in Jobs : jobs'[j].status = "succeeded" => jobs[j].status = "succeeded"
    BY <1>4, ClaimEffect
  <2>3. QED
    BY <1>4, <2>1, <2>2, ClaimEffect DEF ResultsEnded
<1>5. ASSUME NEW w \in Workers, NEW r \in Runs, StartRun(w, r)
      PROVE  ResultsEnded'
  BY <1>5 DEF StartRun, FreshRow, Goto, TypeOK, JobRow, RunRow, SnapTyped, ResultsEnded, EndedFor, OwnRun, tables, Holding, Finished, Durable, JobStatuses
<1>6. ASSUME NEW w \in Workers, NEW s \in Finished, FinishRun(w, s)
      PROVE  ResultsEnded'
  BY <1>6 DEF FinishRun, Goto, TypeOK, JobRow, RunRow, SnapTyped, ResultsEnded, EndedFor, OwnRun, tables, Holding, Finished, Durable, JobStatuses
<1>7. ASSUME NEW w \in Workers, Raise(w)
      PROVE  ResultsEnded'
  BY <1>7 DEF Raise, Goto, TypeOK, JobRow, RunRow, SnapTyped, ResultsEnded, EndedFor, OwnRun, tables, Holding, Finished, Durable, JobStatuses
<1>8. ASSUME NEW w \in Workers, CommitDone(w)
      PROVE  ResultsEnded'
  BY <1>8 DEF CommitDone, MarkDone, Goto, TypeOK, JobRow, RunRow, SnapTyped, ResultsEnded, EndedFor, OwnRun, tables, Holding, Finished, Durable, JobStatuses
<1>8a. ASSUME NEW w \in Workers, Leave(w)
      PROVE  ResultsEnded'
  BY <1>8a DEF Leave, Goto, TypeOK, JobRow, RunRow, SnapTyped, ResultsEnded, EndedFor, OwnRun, tables, Holding, Finished, Durable, JobStatuses
<1>9. ASSUME NEW w \in Workers, CommitFailed(w)
      PROVE  ResultsEnded'
  BY <1>9 DEF CommitFailed, MarkFailed, Goto, TypeOK, JobRow, RunRow, SnapTyped, ResultsEnded, EndedFor, OwnRun, tables, Holding, Finished, Durable, JobStatuses
<1>10. ASSUME NEW w \in Workers, Start(w)
      PROVE  ResultsEnded'
  BY <1>10 DEF Start, Goto, NoRows, TypeOK, JobRow, RunRow, SnapTyped, ResultsEnded, EndedFor, OwnRun, tables, Holding, Finished, Durable, JobStatuses
<1>11. ASSUME NEW w \in Workers, SweepList(w)
      PROVE  ResultsEnded'
  <2>1. ASSUME NEW v \in Workers, NEW j \in DOMAIN snap'[v], snap'[v][j] # NoRun
        PROVE  EndedFor(snap'[v][j], j)
    <3>1. CASE v = w
      <4> DEFINE S == {i \in Jobs : jobs[i].status = "running"}
      <4>1. snap'[v] = [i \in S |-> jobs[i].result]
        BY <1>11, <3>1 DEF SweepList, TypeOK, SnapTyped
      <4>2. j \in Jobs /\ snap'[v][j] = jobs[j].result
        BY <4>1, <2>1
      <4>3. QED
        BY <4>2, <2>1 DEF ResultsEnded
    <3>2. CASE v # w
      BY <1>11, <2>1, <3>2 DEF SweepList, ResultsEnded, TypeOK
    <3>3. QED
      BY <3>1, <3>2
  <2>2. jobs' = jobs /\ \A r, j : EndedFor(r, j)' <=> EndedFor(r, j)
    BY <1>11 DEF SweepList, EndedFor, tables
  <2>3. QED
    BY <2>1, <2>2 DEF ResultsEnded
<1>12. ASSUME NEW w \in Workers, SweepCommit(w)
      PROVE  ResultsEnded'
  <2>1. runs' = runs /\ \A r, j : EndedFor(r, j)' <=> EndedFor(r, j)
    BY <1>12 DEF SweepCommit, EndedFor
  <2>2. ASSUME NEW j \in Jobs
        PROVE  /\ jobs'[j].result # NoRun => EndedFor(jobs'[j].result, j)
               /\ jobs'[j].status = "succeeded" => jobs'[j].result # NoRun
    <3>1. CASE j \notin DOMAIN snap[w]
      BY <1>12, <3>1 DEF SweepCommit, ResultsEnded
    <3>2. CASE j \in DOMAIN snap[w]
      <4>1. jobs'[j] = Reconcile(jobs[j], snap[w][j])
        BY <1>12, <3>2 DEF SweepCommit
      <4>2. jobs[j] \in JobRow
        BY DEF TypeOK
      <4>3. QED
        BY <3>2, <4>1, <4>2 DEF Reconcile, MarkDone, Requeue, ResultsEnded, JobRow
    <3>3. QED
      BY <3>1, <3>2
  <2>3. ASSUME NEW v \in Workers, NEW j \in DOMAIN snap'[v], snap'[v][j] # NoRun
        PROVE  EndedFor(snap'[v][j], j)
    BY <1>12, <2>3 DEF SweepCommit, NoRows, ResultsEnded, TypeOK
  <2>4. QED
    BY <2>1, <2>2, <2>3 DEF ResultsEnded
<1>13. ASSUME NEW w \in Workers, Exit(w)
      PROVE  ResultsEnded'
  BY <1>13 DEF Exit, Goto, TypeOK, JobRow, RunRow, SnapTyped, ResultsEnded, EndedFor, OwnRun, tables, Holding, Finished, Durable, JobStatuses
<1>14. ASSUME NEW w \in Workers, Cancel(w)
      PROVE  ResultsEnded'
  BY <1>14 DEF Cancel, Goto, Spend, TypeOK, JobRow, RunRow, SnapTyped, ResultsEnded, EndedFor, OwnRun, tables, Holding, Finished, Durable, JobStatuses
<1>15. ASSUME NEW w \in Workers, Sigterm(w)
      PROVE  ResultsEnded'
  BY <1>15 DEF Sigterm, Spend, TypeOK, JobRow, RunRow, SnapTyped, ResultsEnded, EndedFor, OwnRun, tables, Holding, Finished, Durable, JobStatuses
<1>16. ASSUME NEW w \in Workers, Crash(w)
      PROVE  ResultsEnded'
  BY <1>16 DEF Crash, Goto, Spend, TypeOK, JobRow, RunRow, SnapTyped, ResultsEnded, EndedFor, OwnRun, tables, Holding, Finished, Durable, JobStatuses
<1>17. CASE UNCHANGED vars
  BY <1>17 DEF vars, TypeOK, JobRow, RunRow, SnapTyped, ResultsEnded, EndedFor, OwnRun, tables, Holding, Finished, Durable, JobStatuses
<1>18. QED
  BY <1>1, <1>2, <1>3, <1>4, <1>5, <1>6, <1>7, <1>8, <1>8a, <1>9, <1>10, <1>11, <1>12, <1>13, <1>14, <1>15, <1>16, <1>17
     DEF Next, JobSteps, LifeSteps, Interrupts, Poll

(* A worker's run is its own, and in the state its position says.          *)
LEMMA OwnRunStep == ASSUME WorkerInv, [Next]_vars PROVE OwnRun'
<1> USE RowsAssumption DEF WorkerInv, NoJob, NoRun
<1>1. ASSUME NEW j \in Jobs, Enqueue(j)
      PROVE  OwnRun'
  BY <1>1 DEF Enqueue, FreshRow, TypeOK, RunRow, OwnRun, EndedFor, tables, Holding, Finished, Durable, PCs
<1>2. ASSUME NEW j \in Jobs, OperatorRequeue(j)
      PROVE  OwnRun'
  BY <1>2 DEF OperatorRequeue, Requeue, Spend, TypeOK, RunRow, OwnRun, EndedFor, tables, Holding, Finished, Durable, PCs
<1>3. ASSUME NEW w \in Workers, NEW j \in Jobs, ClaimSelect(w, j)
      PROVE  OwnRun'
  BY <1>3 DEF ClaimSelect, Claimable, Goto, TypeOK, RunRow, OwnRun, EndedFor, tables, Holding, Finished, Durable, PCs
<1>4. ASSUME NEW w \in Workers, ClaimCommit(w)
      PROVE  OwnRun'
  BY <1>4 DEF ClaimCommit, Claimed, Goto, TypeOK, RunRow, OwnRun, EndedFor, tables, Holding, Finished, Durable, PCs
<1>5. ASSUME NEW w \in Workers, NEW r \in Runs, StartRun(w, r)
      PROVE  OwnRun'
  <2>1. r \in Runs /\ cur[w] \in Jobs /\ runs[r].status = "absent"
    BY <1>5 DEF StartRun, FreshRow, OwnRun, Holding
  <2>2. runs'[r] = [status |-> "running", job |-> cur[w]]
    BY <1>5 DEF StartRun, TypeOK
  <2>3. \A q \in Runs : q # r => runs'[q] = runs[q]
    BY <1>5 DEF StartRun, TypeOK
  <2>4. pc'[w] = "running" /\ rid'[w] = r /\ cur' = cur
    BY <1>5 DEF StartRun, Goto, TypeOK
  <2>5. \A v \in Workers : v # w => pc'[v] = pc[v] /\ rid'[v] = rid[v]
    BY <1>5 DEF StartRun, Goto, TypeOK
  <2>6. \A v \in Workers : pc[v] \in {"running", "ran", "closing"} => rid[v] \in Runs /\ rid[v] # r
    BY <2>1 DEF OwnRun, EndedFor, Finished, Durable
  <2>7. ASSUME NEW v \in Workers, pc'[v] \in {"ran", "closing"}
        PROVE  EndedFor(rid[v], cur[v])'
    <3>1. v # w /\ pc[v] \in {"ran", "closing"}
      BY <2>4, <2>5, <2>7
    <3>2. EndedFor(rid[v], cur[v]) /\ runs'[rid[v]] = runs[rid[v]]
      BY <2>3, <2>6, <3>1 DEF OwnRun
    <3>3. rid'[v] = rid[v] /\ cur'[v] = cur[v]
      BY <2>4, <2>5, <3>1
    <3>4. QED
      BY <3>2, <3>3 DEF EndedFor
  <2>8. ASSUME NEW v \in Workers, pc'[v] = "running"
        PROVE  rid'[v] \in Runs /\ runs'[rid'[v]].status = "running" /\ runs'[rid'[v]].job = cur'[v]
    <3>1. CASE v = w
      BY <2>1, <2>2, <2>4, <3>1
    <3>2. CASE v # w
      <4>1. pc[v] = "running" /\ rid'[v] = rid[v] /\ cur'[v] = cur[v]
        BY <2>4, <2>5, <2>8, <3>2
      <4>2. rid[v] \in Runs /\ runs[rid[v]].status = "running" /\ runs[rid[v]].job = cur[v]
        BY <4>1 DEF OwnRun
      <4>3. runs'[rid[v]] = runs[rid[v]]
        BY <2>3, <2>6, <4>1, <4>2
      <4>4. QED
        BY <4>1, <4>2, <4>3
    <3>3. QED
      BY <3>1, <3>2
  <2>9. \A v, u \in Workers :
          v # u /\ pc'[v] = "running" /\ pc'[u] = "running" => rid'[v] # rid'[u]
    BY <2>4, <2>5, <2>6 DEF OwnRun
  <2>10. \A v \in Workers : pc'[v] \in Holding \cup {"select"} => cur'[v] \in Jobs
    BY <2>1, <2>4, <2>5 DEF OwnRun
  <2>11. QED
    BY <2>7, <2>8, <2>9, <2>10 DEF OwnRun
<1>6. ASSUME NEW w \in Workers, NEW s \in Finished, FinishRun(w, s)
      PROVE  OwnRun'
  <2>1. rid[w] \in Runs /\ runs[rid[w]].status = "running" /\ runs[rid[w]].job = cur[w]
    BY <1>6 DEF FinishRun, OwnRun
  <2>2. runs'[rid[w]].status = s /\ runs'[rid[w]].job = cur[w]
    BY <1>6, <2>1 DEF FinishRun, TypeOK, RunRow
  <2>3. \A q \in Runs : q # rid[w] => runs'[q] = runs[q]
    BY <1>6 DEF FinishRun, TypeOK
  <2>4. pc'[w] = "ran" /\ rid' = rid /\ cur' = cur
    BY <1>6 DEF FinishRun, Goto, TypeOK
  <2>5. \A v \in Workers : v # w => pc'[v] = pc[v]
    BY <1>6 DEF FinishRun, Goto, TypeOK
  <2>6. pc[w] = "running"
    BY <1>6 DEF FinishRun
  <2>7. \A v \in Workers : v # w /\ pc[v] \in {"running", "ran", "closing"} => rid[v] # rid[w]
    BY <2>1, <2>6 DEF OwnRun, EndedFor, Finished, Durable
  <2>8. ASSUME NEW v \in Workers, pc'[v] \in {"ran", "closing"}
        PROVE  EndedFor(rid[v], cur[v])'
    <3>1. CASE v = w
      BY <2>1, <2>2, <2>4, <3>1 DEF EndedFor
    <3>2. CASE v # w
      BY <2>3, <2>4, <2>5, <2>7, <2>8, <3>2 DEF OwnRun, EndedFor
    <3>3. QED
      BY <3>1, <3>2
  <2>9. ASSUME NEW v \in Workers, pc'[v] = "running"
        PROVE  rid'[v] \in Runs /\ runs'[rid'[v]].status = "running" /\ runs'[rid'[v]].job = cur'[v]
    BY <2>3, <2>4, <2>5, <2>7, <2>9 DEF OwnRun
  <2>10. \A v, u \in Workers :
          v # u /\ pc'[v] = "running" /\ pc'[u] = "running" => rid'[v] # rid'[u]
    BY <2>4, <2>5 DEF OwnRun
  <2>11. \A v \in Workers : pc'[v] \in Holding \cup {"select"} => cur'[v] \in Jobs
    BY <2>4, <2>5, <2>6 DEF OwnRun, Holding
  <2>12. QED
    BY <2>8, <2>9, <2>10, <2>11 DEF OwnRun
<1>7. ASSUME NEW w \in Workers, Raise(w)
      PROVE  OwnRun'
  BY <1>7 DEF Raise, Goto, TypeOK, RunRow, OwnRun, EndedFor, tables, Holding, Finished, Durable, PCs
<1>8. ASSUME NEW w \in Workers, CommitDone(w)
      PROVE  OwnRun'
  BY <1>8 DEF CommitDone, MarkDone, Goto, TypeOK, RunRow, OwnRun, EndedFor, tables, Holding, Finished, Durable, PCs
<1>8a. ASSUME NEW w \in Workers, Leave(w)
      PROVE  OwnRun'
  BY <1>8a DEF Leave, Goto, TypeOK, RunRow, OwnRun, EndedFor, tables, Holding, Finished, Durable, PCs
<1>9. ASSUME NEW w \in Workers, CommitFailed(w)
      PROVE  OwnRun'
  BY <1>9 DEF CommitFailed, MarkFailed, Goto, TypeOK, RunRow, OwnRun, EndedFor, tables, Holding, Finished, Durable, PCs
<1>10. ASSUME NEW w \in Workers, Start(w)
      PROVE  OwnRun'
  BY <1>10 DEF Start, Goto, NoRows, TypeOK, RunRow, OwnRun, EndedFor, tables, Holding, Finished, Durable, PCs
<1>11. ASSUME NEW w \in Workers, SweepList(w)
      PROVE  OwnRun'
  BY <1>11 DEF SweepList, Goto, TypeOK, RunRow, OwnRun, EndedFor, tables, Holding, Finished, Durable, PCs
<1>12. ASSUME NEW w \in Workers, SweepCommit(w)
      PROVE  OwnRun'
  <2>1. runs' = runs /\ cur' = cur /\ rid' = rid
    BY <1>12 DEF SweepCommit
  <2>2. pc'[w] = "idle" /\ \A v \in Workers : v # w => pc'[v] = pc[v]
    BY <1>12 DEF SweepCommit, Goto, TypeOK
  <2>3. QED
    BY <2>1, <2>2 DEF OwnRun, EndedFor, Holding
<1>13. ASSUME NEW w \in Workers, Exit(w)
      PROVE  OwnRun'
  BY <1>13 DEF Exit, Goto, TypeOK, RunRow, OwnRun, EndedFor, tables, Holding, Finished, Durable, PCs
<1>14. ASSUME NEW w \in Workers, Cancel(w)
      PROVE  OwnRun'
  BY <1>14 DEF Cancel, Goto, Spend, TypeOK, RunRow, OwnRun, EndedFor, tables, Holding, Finished, Durable, PCs
<1>15. ASSUME NEW w \in Workers, Sigterm(w)
      PROVE  OwnRun'
  BY <1>15 DEF Sigterm, Spend, TypeOK, RunRow, OwnRun, EndedFor, tables, Holding, Finished, Durable, PCs
<1>16. ASSUME NEW w \in Workers, Crash(w)
      PROVE  OwnRun'
  BY <1>16 DEF Crash, Goto, Spend, TypeOK, RunRow, OwnRun, EndedFor, tables, Holding, Finished, Durable, PCs
<1>17. CASE UNCHANGED vars
  BY <1>17 DEF vars, TypeOK, RunRow, OwnRun, EndedFor, tables, Holding, Finished, Durable, PCs
<1>18. QED
  BY <1>1, <1>2, <1>3, <1>4, <1>5, <1>6, <1>7, <1>8, <1>8a, <1>9, <1>10, <1>11, <1>12, <1>13, <1>14, <1>15, <1>16, <1>17
     DEF Next, JobSteps, LifeSteps, Interrupts, Poll

(* Row locks and the status filter keep a job with one worker.             *)
LEMMA SoleClaimStep == ASSUME WorkerInv, [Next]_vars PROVE SoleClaim'
<1> USE RowsAssumption DEF WorkerInv, NoJob, NoRun
<1>1. ASSUME NEW j \in Jobs, Enqueue(j)
      PROVE  SoleClaim'
  BY <1>1 DEF Enqueue, FreshRow, TypeOK, JobRow, SoleClaim, HeldRow, ClaimNeverLost, ExclusiveUnlessStolen, OwnRun, Locked, Holds, tables, Holding
<1>2. ASSUME NEW j \in Jobs, OperatorRequeue(j)
      PROVE  SoleClaim'
  BY <1>2 DEF OperatorRequeue, Requeue, Spend, TypeOK, JobRow, SoleClaim, HeldRow, ClaimNeverLost, ExclusiveUnlessStolen, OwnRun, Locked, Holds, tables, Holding
<1>3. ASSUME NEW w \in Workers, NEW j \in Jobs, ClaimSelect(w, j)
      PROVE  SoleClaim'
  BY <1>3 DEF ClaimSelect, Claimable, Goto, TypeOK, JobRow, SoleClaim, HeldRow, ClaimNeverLost, ExclusiveUnlessStolen, OwnRun, Locked, Holds, tables, Holding
<1>4. ASSUME NEW w \in Workers, ClaimCommit(w)
      PROVE  SoleClaim'
  <2>1. cur[w] \in Jobs /\ pc[w] = "select" /\ jobs[cur[w]].status = "queued"
    BY <1>4 DEF ClaimCommit, OwnRun, SoleClaim, ClaimNeverLost, Locked
  <2>2. /\ pc' = [pc EXCEPT ![w] = "claimed"]
        /\ UNCHANGED <<cur, stolen>>
        /\ jobs' = [jobs EXCEPT ![cur[w]] = Claimed(@)]
    BY <1>4, <2>1 DEF ClaimCommit, Goto
  <2>a. /\ jobs'[cur[w]].status = "running"
        /\ \A j \in Jobs : j # cur[w] => jobs'[j] = jobs[j]
    BY <2>1, <2>2 DEF TypeOK, Claimed, JobRow
  <2>3. \A v \in Workers : v # w => pc'[v] = pc[v] /\ (pc[v] = "select" => cur[v] # cur[w])
    BY <2>1, <2>2 DEF TypeOK, SoleClaim
  <2>4. cur[w] \notin stolen => ~Live(cur[w])
    BY <2>1 DEF SoleClaim, HeldRow, Live, Holds
  <2>5. ClaimNeverLost'
    BY <2>2, <2>a, <2>3 DEF ClaimNeverLost, SoleClaim, Locked, TypeOK
  <2>6. ASSUME NEW v \in Workers, pc'[v] \in Holding, cur'[v] \notin stolen'
        PROVE  HeldRow(v, jobs[cur[v]])'
    <3>1. CASE v = w
      BY <2>2, <2>a, <3>1 DEF HeldRow, TypeOK
    <3>2. CASE v # w
      <4>1. pc[v] \in Holding /\ cur[v] \notin stolen /\ pc'[v] = pc[v] /\ cur' = cur
        BY <2>2, <2>3, <2>6, <3>2
      <4>2. cur[v] \in Jobs /\ HeldRow(v, jobs[cur[v]])
        BY <4>1 DEF OwnRun, SoleClaim
      <4>3. cur[v] # cur[w]
        BY <2>4, <4>1 DEF Live, Holds
      <4>4. jobs'[cur[v]] = jobs[cur[v]] /\ rid' = rid
        BY <1>4, <2>a, <4>2, <4>3 DEF ClaimCommit
      <4>5. QED
        BY <4>1, <4>2, <4>4 DEF HeldRow
    <3>3. QED
      BY <3>1, <3>2
  <2>7. ExclusiveUnlessStolen'
    BY <2>2, <2>3, <2>4 DEF SoleClaim, ExclusiveUnlessStolen, Live, Holds, TypeOK
  <2>8. QED
    BY <2>2, <2>3, <2>5, <2>6, <2>7 DEF SoleClaim, TypeOK
<1>5. ASSUME NEW w \in Workers, NEW r \in Runs, StartRun(w, r)
      PROVE  SoleClaim'
  BY <1>5 DEF StartRun, FreshRow, Goto, TypeOK, JobRow, SoleClaim, HeldRow, ClaimNeverLost, ExclusiveUnlessStolen, OwnRun, Locked, Holds, tables, Holding
<1>6. ASSUME NEW w \in Workers, NEW s \in Finished, FinishRun(w, s)
      PROVE  SoleClaim'
  BY <1>6 DEF FinishRun, Goto, TypeOK, JobRow, SoleClaim, HeldRow, ClaimNeverLost, ExclusiveUnlessStolen, OwnRun, Locked, Holds, tables, Holding
<1>7. ASSUME NEW w \in Workers, Raise(w)
      PROVE  SoleClaim'
  BY <1>7 DEF Raise, Goto, TypeOK, JobRow, SoleClaim, HeldRow, ClaimNeverLost, ExclusiveUnlessStolen, OwnRun, Locked, Holds, tables, Holding
<1>8. ASSUME NEW w \in Workers, CommitDone(w)
      PROVE  SoleClaim'
  BY <1>8 DEF CommitDone, MarkDone, Goto, TypeOK, JobRow, SoleClaim, HeldRow, ClaimNeverLost, ExclusiveUnlessStolen, OwnRun, Locked, Holds, tables, Holding
<1>8a. ASSUME NEW w \in Workers, Leave(w)
      PROVE  SoleClaim'
  BY <1>8a DEF Leave, Goto, TypeOK, JobRow, SoleClaim, HeldRow, ClaimNeverLost, ExclusiveUnlessStolen, OwnRun, Locked, Holds, tables, Holding
<1>9. ASSUME NEW w \in Workers, CommitFailed(w)
      PROVE  SoleClaim'
  BY <1>9 DEF CommitFailed, MarkFailed, Goto, TypeOK, JobRow, SoleClaim, HeldRow, ClaimNeverLost, ExclusiveUnlessStolen, OwnRun, Locked, Holds, tables, Holding
<1>10. ASSUME NEW w \in Workers, Start(w)
      PROVE  SoleClaim'
  BY <1>10 DEF Start, Goto, NoRows, TypeOK, JobRow, SoleClaim, HeldRow, ClaimNeverLost, ExclusiveUnlessStolen, OwnRun, Locked, Holds, tables, Holding
<1>11. ASSUME NEW w \in Workers, SweepList(w)
      PROVE  SoleClaim'
  BY <1>11 DEF SweepList, Goto, TypeOK, JobRow, SoleClaim, HeldRow, ClaimNeverLost, ExclusiveUnlessStolen, OwnRun, Locked, Holds, tables, Holding
<1>12. ASSUME NEW w \in Workers, SweepCommit(w)
      PROVE  SoleClaim'
  <2>1. cur' = cur /\ pc'[w] = "idle" /\ \A v \in Workers : v # w => pc'[v] = pc[v]
    BY <1>12 DEF SweepCommit, Goto, TypeOK
  <2>2. \A j \in Jobs : (Live(j)' => Live(j)) /\ (Locked(j)' => Locked(j))
    BY <2>1 DEF Live, Locked, Holds, Holding
  <2>3. \A j \in Jobs : j \in DOMAIN snap[w] \/ jobs'[j] = jobs[j]
    BY <1>12 DEF SweepCommit
  <2>4. stolen \subseteq stolen' /\ \A j \in DOMAIN snap[w] : Live(j) => j \in stolen'
    BY <1>12 DEF SweepCommit
  <2>5. \A j \in DOMAIN snap[w] : ~Locked(j)
    BY <1>12 DEF SweepCommit
  <2>6. ClaimNeverLost'
    BY <2>2, <2>3, <2>5 DEF ClaimNeverLost, SoleClaim, Locked
  <2>7. ASSUME NEW v \in Workers, pc'[v] \in Holding, cur'[v] \notin stolen'
        PROVE  HeldRow(v, jobs[cur[v]])'
    <3>1. v # w /\ pc'[v] = pc[v] /\ cur' = cur /\ rid' = rid
      BY <1>12, <2>1, <2>7 DEF SweepCommit, Holding
    <3>2. Live(cur[v]) /\ cur[v] \in Jobs
      BY <2>7, <3>1 DEF Live, Holds, OwnRun
    <3>3. cur[v] \notin stolen /\ jobs'[cur[v]] = jobs[cur[v]]
      BY <2>3, <2>4, <2>7, <3>1, <3>2
    <3>4. HeldRow(v, jobs[cur[v]])
      BY <2>7, <3>1, <3>3 DEF SoleClaim
    <3>5. QED
      BY <3>1, <3>3, <3>4 DEF HeldRow
  <2>8. QED
    BY <2>1, <2>4, <2>6, <2>7 DEF SoleClaim, ExclusiveUnlessStolen, Holds, Holding
<1>13. ASSUME NEW w \in Workers, Exit(w)
      PROVE  SoleClaim'
  BY <1>13 DEF Exit, Goto, TypeOK, JobRow, SoleClaim, HeldRow, ClaimNeverLost, ExclusiveUnlessStolen, OwnRun, Locked, Holds, tables, Holding
<1>14. ASSUME NEW w \in Workers, Cancel(w)
      PROVE  SoleClaim'
  BY <1>14 DEF Cancel, Goto, Spend, TypeOK, JobRow, SoleClaim, HeldRow, ClaimNeverLost, ExclusiveUnlessStolen, OwnRun, Locked, Holds, tables, Holding
<1>15. ASSUME NEW w \in Workers, Sigterm(w)
      PROVE  SoleClaim'
  BY <1>15 DEF Sigterm, Spend, TypeOK, JobRow, SoleClaim, HeldRow, ClaimNeverLost, ExclusiveUnlessStolen, OwnRun, Locked, Holds, tables, Holding
<1>16. ASSUME NEW w \in Workers, Crash(w)
      PROVE  SoleClaim'
  BY <1>16 DEF Crash, Goto, Spend, TypeOK, JobRow, SoleClaim, HeldRow, ClaimNeverLost, ExclusiveUnlessStolen, OwnRun, Locked, Holds, tables, Holding
<1>17. CASE UNCHANGED vars
  BY <1>17 DEF vars, TypeOK, JobRow, SoleClaim, HeldRow, ClaimNeverLost, ExclusiveUnlessStolen, OwnRun, Locked, Holds, tables, Holding
<1>18. QED
  BY <1>1, <1>2, <1>3, <1>4, <1>5, <1>6, <1>7, <1>8, <1>8a, <1>9, <1>10, <1>11, <1>12, <1>13, <1>14, <1>15, <1>16, <1>17
     DEF Next, JobSteps, LifeSteps, Interrupts, Poll

(* The inductive invariant, for every number of workers, jobs and runs.    *)
THEOREM WorkerInvariance == Spec => []WorkerInv
<1>1. Init => WorkerInv
  <2> SUFFICES ASSUME Init PROVE WorkerInv
    OBVIOUS
  <2>1. TypeOK
    BY RowsAssumption, BudgetAssumption
       DEF Init, TypeOK, SnapTyped, JobRow, RunRow, JobStatuses, RunStatuses, PCs, NoRows
  <2>2. ResultsEnded
    BY DEF Init, ResultsEnded, NoRows
  <2>3. OwnRun /\ SoleClaim
    BY DEF Init, OwnRun, SoleClaim, ClaimNeverLost, ExclusiveUnlessStolen, Locked, Live,
           Holds, Holding
  <2>4. QED
    BY <2>1, <2>2, <2>3 DEF WorkerInv
<1>2. WorkerInv /\ [Next]_vars => WorkerInv'
  BY TypeStep, ResultsStep, OwnRunStep, SoleClaimStep DEF WorkerInv
<1>3. QED
  BY <1>1, <1>2, PTL DEF Spec

(* The tables and the workers' variables keep their shape.                 *)
THEOREM TypeCorrectness == Spec => []TypeOK
BY WorkerInvariance, PTL DEF WorkerInv

(* worker.py's promise: whatever crashes and restarts, a succeeded job     *)
(* points at an ended run that was made for it.                            *)
THEOREM SuccessIsBacked == Spec => []SucceededHasFinishedRun
<1>1. WorkerInv => SucceededHasFinishedRun
  BY DEF WorkerInv, ResultsEnded, EndedFor, SucceededHasFinishedRun
<1>2. QED
  BY <1>1, WorkerInvariance, PTL

(* claim_one's SKIP LOCKED and status filter give a job to one live worker *)
(* at a time, except where a starting worker's sweep took it away.         *)
THEOREM Exclusivity == Spec => []ExclusiveUnlessStolen
BY WorkerInvariance, PTL DEF WorkerInv, SoleClaim

(* The row selected by a claim cannot change before the claim's UPDATE, so *)
(* the early return after it is dead code.                                 *)
THEOREM LostRaceIsDead == Spec => []ClaimNeverLost
BY WorkerInvariance, PTL DEF WorkerInv, SoleClaim

(* No run row is written to again once it has ended.                       *)
THEOREM EndedRunsRest == Spec => EndedRunIsFinal
<1>1. ASSUME WorkerInv, Next, NEW r \in Runs, runs[r].status \in Finished
      PROVE  runs'[r] = runs[r]
  <2>1. ASSUME NEW w \in Workers, NEW q \in Runs, StartRun(w, q)
        PROVE  runs'[r] = runs[r]
    BY <1>1, <2>1 DEF StartRun, FreshRow, WorkerInv, TypeOK, Finished, Durable
  <2>2. ASSUME NEW w \in Workers, NEW s \in Finished, FinishRun(w, s)
        PROVE  runs'[r] = runs[r]
    BY <1>1, <2>2 DEF FinishRun, WorkerInv, OwnRun, TypeOK, Finished, Durable
  <2>3. CASE UNCHANGED runs
    BY <2>3
  <2>4. QED
    BY <1>1, <2>1, <2>2, <2>3
       DEF Next, JobSteps, LifeSteps, Interrupts, Poll, Enqueue, OperatorRequeue, ClaimSelect,
           ClaimCommit, Raise, CommitDone, Leave, CommitFailed, Start, SweepList, SweepCommit, Exit,
           Cancel, Sigterm, Crash, tables, vars
<1>2. WorkerInv /\ [Next]_vars
        => [\A r \in Runs : runs[r].status \in Finished => runs'[r] = runs[r]]_vars
  BY <1>1
<1>3. QED
  BY <1>2, WorkerInvariance, PTL DEF Spec, EndedRunIsFinal

(* The writers that do not look at the status they replace (mark_done,     *)
(* mark_failed, requeue) reach a succeeded row only after a sweep stole    *)
(* it, or as the mark_failed of the worker that settled it, for an error   *)
(* or a cancellation that comes before _process has returned.              *)
THEOREM SettlersAloneOverturn == Spec => SettlerAloneOverturns
<1>1. ASSUME WorkerInv, Next, NEW j \in Jobs,
             jobs[j].status = "succeeded", jobs'[j] # jobs[j]
      PROVE  j \in stolen' \/ \E w \in Workers : Overturns(w, j)
  <2>1. ASSUME NEW i \in Jobs, Enqueue(i) \/ OperatorRequeue(i)
        PROVE  FALSE
    BY <1>1, <2>1 DEF Enqueue, OperatorRequeue, FreshRow, WorkerInv, TypeOK
  <2>2. ASSUME NEW w \in Workers, ClaimCommit(w)
        PROVE  FALSE
    <3>1. pc[w] = "select"
      BY <2>2 DEF ClaimCommit
    <3>2. cur[w] \in Jobs /\ Locked(cur[w])
      BY <1>1, <3>1 DEF WorkerInv, OwnRun, Locked
    <3>3. jobs[cur[w]].status = "queued"
      BY <1>1, <3>2 DEF WorkerInv, SoleClaim, ClaimNeverLost
    <3>4. cur[w] = j
      BY <1>1, <2>2 DEF ClaimCommit, WorkerInv, TypeOK
    <3>5. QED
      BY <1>1, <3>3, <3>4
  <2>3. ASSUME NEW w \in Workers, CommitDone(w)
        PROVE  j \in stolen'
    <3>1. cur[w] = j /\ pc[w] = "ran" /\ stolen' = stolen
      BY <1>1, <2>3 DEF CommitDone, WorkerInv, TypeOK
    <3>2. ~HeldRow(w, jobs[j])
      BY <1>1, <3>1 DEF HeldRow
    <3>3. QED
      BY <1>1, <3>1, <3>2 DEF WorkerInv, SoleClaim, Holding
  <2>4. ASSUME NEW w \in Workers, CommitFailed(w), j \notin stolen'
        PROVE  Overturns(w, j)
    <3>1. /\ cur[w] = j /\ pc[w] \in {"failing", "cancelled"} /\ stolen' = stolen
          /\ jobs'[j] = MarkFailed(jobs[j])
      BY <1>1, <2>4 DEF CommitFailed, WorkerInv, TypeOK
    <3>2. HeldRow(w, jobs[j])
      BY <1>1, <2>4, <3>1 DEF WorkerInv, SoleClaim, Holding
    <3>3. QED
      BY <1>1, <3>1, <3>2 DEF HeldRow, Overturns, Holds, Holding
  <2>5. ASSUME NEW w \in Workers, SweepCommit(w)
        PROVE  j \in stolen'
    <3>1. j \in DOMAIN snap[w]
      BY <1>1, <2>5 DEF SweepCommit
    <3>2. QED
      BY <1>1, <2>5, <3>1 DEF SweepCommit
  <2>6. QED
    BY <1>1, <2>1, <2>2, <2>3, <2>4, <2>5
       DEF Next, JobSteps, LifeSteps, Interrupts, Poll, ClaimSelect, StartRun, FinishRun,
           Raise, Leave, Start, SweepList, Exit, Cancel, Sigterm, Crash, tables, vars
<1>2. WorkerInv /\ [Next]_vars
        => [\A j \in Jobs :
              jobs[j].status = "succeeded" /\ jobs'[j] # jobs[j] =>
                j \in stolen' \/ \E w \in Workers : Overturns(w, j)]_vars
  BY <1>1
<1>3. QED
  BY <1>2, WorkerInvariance, PTL DEF Spec, SettlerAloneOverturns

-----------------------------------------------------------------------------
(* One worker implements the ledger.                                       *)

(* The deployment of one worker process.                                   *)
OneWorker == \A w, v \in Workers : w = v

(* What one worker adds to the invariant: its sweep lists nothing but      *)
(* orphans, with the result they still have, and steals nothing.           *)
NothingToSteal ==
  /\ stolen = {}
  /\ \A w \in Workers : pc[w] = "listed" =>
       \A j \in DOMAIN snap[w] :
         jobs[j].status = "running" /\ snap[w][j] = jobs[j].result

(* A lone worker's job in hand is running, or succeeded with its own run.  *)
LEMMA HeldIsItsOwn ==
  ASSUME WorkerInv, NothingToSteal, NEW w \in Workers, pc[w] \in Holding
  PROVE  cur[w] \in Jobs /\ HeldRow(w, jobs[cur[w]])
<1>1. cur[w] \in Jobs
  BY DEF WorkerInv, OwnRun
<1>2. QED
  BY <1>1 DEF WorkerInv, SoleClaim, NothingToSteal

(* What the sweep writes to the rows a lone worker left: each is queued    *)
(* again, or succeeded if an earlier run had been finished for it.         *)
LEMMA SweepRecovers ==
  ASSUME WorkerInv, NothingToSteal, NEW w \in Workers, SweepCommit(w)
  PROVE  /\ \A j \in DOMAIN snap[w] :
              /\ jobs[j].status = "running"
              /\ \/ jobs'[j].status = "queued"
                 \/ /\ jobs'[j].status = "succeeded"
                    /\ \E r \in Runs : runs[r].job = j /\ runs[r].status \in Finished
         /\ \A j \in Jobs \ DOMAIN snap[w] : jobs'[j] = jobs[j]
         /\ DOMAIN snap[w] \subseteq Jobs
<1>1. DOMAIN snap[w] \subseteq Jobs
  BY DEF WorkerInv, TypeOK, SnapTyped
<1>2. ASSUME NEW j \in DOMAIN snap[w]
      PROVE  /\ jobs[j].status = "running"
             /\ \/ jobs'[j].status = "queued"
                \/ /\ jobs'[j].status = "succeeded"
                   /\ \E r \in Runs : runs[r].job = j /\ runs[r].status \in Finished
  <2>1. jobs[j].status = "running"
    BY DEF SweepCommit, NothingToSteal
  <2>2. jobs'[j] = Reconcile(jobs[j], snap[w][j]) /\ jobs[j] \in JobRow
    BY <1>1 DEF SweepCommit, WorkerInv, TypeOK
  <2>3. CASE snap[w][j] # NoRun /\ runs[snap[w][j]].status \in Durable
    <3>1. jobs'[j].status = "succeeded"
      BY <2>2, <2>3 DEF Reconcile, MarkDone, JobRow
    <3>2. EndedFor(snap[w][j], j)
      BY <2>3 DEF WorkerInv, ResultsEnded
    <3>3. QED
      BY <2>1, <3>1, <3>2 DEF EndedFor
  <2>4. CASE ~(snap[w][j] # NoRun /\ runs[snap[w][j]].status \in Durable)
    BY <2>1, <2>2, <2>4 DEF Reconcile, Requeue, JobRow
  <2>5. QED
    BY <2>3, <2>4
<1>3. \A j \in Jobs \ DOMAIN snap[w] : jobs'[j] = jobs[j]
  BY DEF SweepCommit
<1>4. QED
  BY <1>1, <1>2, <1>3

(* No step of a lone worker gives it anything to steal.                    *)
LEMMA NothingToStealStep ==
  ASSUME OneWorker, WorkerInv, NothingToSteal, [Next]_vars
  PROVE  NothingToSteal'
<1> USE DEF WorkerInv
<1>1. ASSUME NEW j \in Jobs, Enqueue(j) \/ OperatorRequeue(j)
      PROVE  NothingToSteal'
  <2>1. jobs[j].status \in {"absent", "failed"}
    BY <1>1 DEF Enqueue, OperatorRequeue, FreshRow
  <2>2. \A i \in Jobs : i # j => jobs'[i] = jobs[i]
    BY <1>1 DEF Enqueue, OperatorRequeue, TypeOK
  <2>3. UNCHANGED <<pc, snap, stolen>>
    BY <1>1 DEF Enqueue, OperatorRequeue
  <2>4. QED
    BY <2>1, <2>2, <2>3 DEF NothingToSteal, TypeOK, SnapTyped
<1>2. ASSUME NEW w \in Workers, SweepList(w)
      PROVE  NothingToSteal'
  <2>1. jobs' = jobs /\ stolen' = stolen
    BY <1>2 DEF SweepList, tables
  <2>2. snap'[w] = [j \in {i \in Jobs : jobs[i].status = "running"} |-> jobs[j].result]
    <3>1. snap = [v \in Workers |-> snap[v]]
      BY DEF TypeOK, SnapTyped
    <3>2. QED
      BY <1>2, <3>1 DEF SweepList
  <2>3. \A j \in DOMAIN snap'[w] :
          jobs[j].status = "running" /\ snap'[w][j] = jobs[j].result
    <3> DEFINE S == {i \in Jobs : jobs[i].status = "running"}
    <3>1. snap'[w] = [j \in S |-> jobs[j].result]
      BY <2>2
    <3>2. QED
      BY <3>1
  <2>4. QED
    BY <2>1, <2>3 DEF NothingToSteal, OneWorker
<1>3. ASSUME NEW w \in Workers, SweepCommit(w)
      PROVE  NothingToSteal'
  <2>1. \A j \in DOMAIN snap[w] : ~Live(j) /\ jobs[j].status = "running"
    <3>1. pc[w] \notin Holding
      BY <1>3 DEF SweepCommit, Holding
    <3>2. \A j : ~Live(j)
      BY <3>1 DEF OneWorker, Live, Holds
    <3>3. QED
      BY <1>3, <3>2, SweepRecovers
  <2>2. stolen' = {}
    BY <1>3, <2>1 DEF SweepCommit, NothingToSteal
  <2>3. pc'[w] = "idle"
    BY <1>3 DEF SweepCommit, Goto, TypeOK
  <2>4. QED
    BY <2>2, <2>3 DEF NothingToSteal, OneWorker
<1>4. ASSUME NEW w \in Workers,
             \/ \E j \in Jobs : ClaimSelect(w, j)
             \/ \E r \in Runs : StartRun(w, r)
             \/ \E s \in Finished : FinishRun(w, s)
             \/ ClaimCommit(w) \/ CommitDone(w) \/ CommitFailed(w) \/ Leave(w)
             \/ Raise(w) \/ Start(w) \/ Exit(w) \/ Cancel(w) \/ Crash(w)
      PROVE  NothingToSteal'
  <2>1. pc'[w] # "listed" /\ stolen' = stolen
    BY <1>4 DEF ClaimSelect, StartRun, FinishRun, ClaimCommit, CommitDone, CommitFailed,
                Leave, Raise, Start, Exit, Cancel, Crash, Goto, TypeOK
  <2>2. QED
    BY <2>1 DEF NothingToSteal, OneWorker
<1>5. CASE UNCHANGED <<jobs, pc, snap, stolen>>
  BY <1>5 DEF NothingToSteal
<1>6. QED
  BY <1>1, <1>2, <1>3, <1>4, <1>5
     DEF Next, JobSteps, LifeSteps, Interrupts, Poll, Sigterm, tables, vars

(* The jobs settled and not let go of; the one w may have.                 *)
Closing == {j \in Jobs : jobs[j].status = "succeeded" /\ Live(j)}
ClosingOf(w) ==
  {j \in Jobs : pc[w] \in Holding /\ cur[w] = j /\ jobs[j].status = "succeeded"}

(* Before and after a step the closing jobs are those of the lone worker.  *)
LEMMA LoneClosing ==
  ASSUME OneWorker, NEW w \in Workers
  PROVE  Closing = ClosingOf(w) /\ Closing' = ClosingOf(w)'
<1>1. \A j : Live(j) <=> pc[w] \in Holding /\ cur[w] = j
  BY DEF OneWorker, Live, Holds
<1>2. \A j \in Jobs : Live(j)' <=> pc'[w] \in Holding /\ cur'[w] = j
  BY DEF OneWorker, Live, Holds
<1>3. Closing = ClosingOf(w)
  BY <1>1 DEF Closing, ClosingOf
<1>4. Closing' = ClosingOf(w)'
  BY <1>2 DEF Closing, ClosingOf
<1>5. QED
  BY <1>3, <1>4

(* A step that writes to no job row and ends no run changes no status and  *)
(* no finished run of the ledger.                                          *)
LEMMA LedgerRows ==
  ASSUME TypeOK, jobs' = jobs,
         \A r \in Runs : runs'[r] = runs[r]
           \/ (runs[r].status \notin Finished /\ runs'[r].status \notin Finished)
  PROVE  /\ [j \in Jobs |-> jobs'[j].status] = [j \in Jobs |-> jobs[j].status]
         /\ [j \in Jobs |-> \E r \in Runs : runs'[r].job = j /\ runs'[r].status \in Finished]
            = [j \in Jobs |-> \E r \in Runs : runs[r].job = j /\ runs[r].status \in Finished]
<1>1. \A r \in Runs, j \in Jobs :
        (runs'[r].job = j /\ runs'[r].status \in Finished)
          <=> (runs[r].job = j /\ runs[r].status \in Finished)
  OBVIOUS
<1>2. \A j \in Jobs : (\E r \in Runs : runs'[r].job = j /\ runs'[r].status \in Finished)
                  <=> (\E r \in Runs : runs[r].job = j /\ runs[r].status \in Finished)
  BY <1>1
<1>3. QED
  BY <1>2

(* If such a step keeps the job in hand, too, the ledger stutters.         *)
LEMMA LedgerStutter ==
  ASSUME TypeOK, jobs' = jobs, Closing' = Closing,
         \A r \in Runs : runs'[r] = runs[r]
           \/ (runs[r].status \notin Finished /\ runs'[r].status \notin Finished)
  PROVE  UNCHANGED Ledger!ledgerVars
BY LedgerRows DEF Ledger!ledgerVars, Closing

(* A step that moves one row from one status to another and writes to no   *)
(* run is a move of the ledger.                                            *)
LEMMA LedgerMove ==
  ASSUME TypeOK, NEW j \in Jobs, NEW from, NEW to, runs' = runs,
         jobs[j].status = from, jobs'[j].status = to,
         \A i \in Jobs : i # j => jobs'[i].status = jobs[i].status
  PROVE  Ledger!Move(j, from, to)
<1> DEFINE s == [i \in Jobs |-> jobs[i].status]
           t == [i \in Jobs |-> jobs'[i].status]
<1>1. t = [s EXCEPT ![j] = to]
  OBVIOUS
<1>2. QED
  BY <1>1 DEF Ledger!Move

(* An empty queue is an empty ledger.                                      *)
LEMMA LedgerInit == Init => Ledger!Init
<1> SUFFICES ASSUME Init PROVE Ledger!Init
  OBVIOUS
<1>1. \A j \in Jobs : jobs[j].status = "absent"
  BY DEF Init
<1>2. \A j \in Jobs :
        (\E r \in Runs : runs[r].job = j /\ runs[r].status \in Finished) = FALSE
  BY DEF Init, Finished, Durable
<1>3. \A j \in Jobs : jobs[j].status # "succeeded"
  BY <1>1
<1>4. QED
  BY <1>1, <1>2, <1>3 DEF Ledger!Init

(* Every transaction of a lone worker is an action of the ledger, or       *)
(* nothing that the ledger sees.                                           *)
LEMMA LedgerStep ==
  ASSUME OneWorker, WorkerInv, NothingToSteal, [Next]_vars
  PROVE  [Ledger!Next]_(Ledger!ledgerVars)
<1>1. TypeOK
  BY DEF WorkerInv
<1>2. ASSUME NEW j \in Jobs, Enqueue(j)
      PROVE  Ledger!Next
  <2>1. /\ jobs[j].status = "absent" /\ jobs'[j].status = "queued" /\ runs' = runs
        /\ \A i \in Jobs : i # j => jobs'[i].status = jobs[i].status
    BY <1>1, <1>2 DEF Enqueue, FreshRow, TypeOK, JobRow
  <2>2. Closing' = Closing
    <3>1. pc' = pc /\ cur' = cur
      BY <1>2 DEF Enqueue
    <3>2. \A i \in Jobs : jobs'[i].status = "succeeded" <=> jobs[i].status = "succeeded"
      BY <2>1
    <3>3. QED
      BY <3>1, <3>2 DEF Closing, Live, Holds
  <2>3. Ledger!Submit(j)
    BY <1>1, <2>1, <2>2, LedgerMove DEF Ledger!Submit, Closing
  <2>4. QED
    BY <2>3 DEF Ledger!Next
<1>3. ASSUME NEW j \in Jobs, OperatorRequeue(j)
      PROVE  Ledger!Next
  <2>1. /\ jobs[j].status = "failed" /\ jobs'[j].status = "queued" /\ runs' = runs
        /\ \A i \in Jobs : i # j => jobs'[i].status = jobs[i].status
    BY <1>1, <1>3 DEF OperatorRequeue, Requeue, TypeOK, JobRow
  <2>2. Closing' = Closing
    <3>1. pc' = pc /\ cur' = cur
      BY <1>3 DEF OperatorRequeue
    <3>2. \A i \in Jobs : jobs'[i].status = "succeeded" <=> jobs[i].status = "succeeded"
      BY <2>1
    <3>3. QED
      BY <3>1, <3>2 DEF Closing, Live, Holds
  <2>3. Ledger!Retry(j)
    BY <1>1, <2>1, <2>2, LedgerMove DEF Ledger!Retry, Closing
  <2>4. QED
    BY <2>3 DEF Ledger!Next
<1>4. ASSUME NEW w \in Workers, ClaimCommit(w)
      PROVE  Ledger!Next
  <2>1. cur[w] \in Jobs /\ Locked(cur[w])
    BY <1>4 DEF ClaimCommit, WorkerInv, OwnRun, Locked
  <2>2. PICK j \in Jobs : j = cur[w] /\ jobs[j].status = "queued"
    BY <2>1 DEF WorkerInv, SoleClaim, ClaimNeverLost
  <2>3. /\ jobs'[j].status = "running" /\ runs' = runs
        /\ \A i \in Jobs : i # j => jobs'[i].status = jobs[i].status
    BY <1>1, <1>4, <2>2 DEF ClaimCommit, Claimed, TypeOK, JobRow
  <2>4. Closing' = Closing
    <3>1. pc[w] = "select" /\ cur'[w] = j
      BY <1>4, <2>2 DEF ClaimCommit
    <3>2. ClosingOf(w) = {} /\ ClosingOf(w)' = {}
      BY <2>3, <3>1 DEF ClosingOf, Holding
    <3>3. QED
      BY <3>2, LoneClosing
  <2>5. Ledger!Take(j)
    BY <1>1, <2>2, <2>3, <2>4, LedgerMove DEF Ledger!Take, Closing
  <2>6. QED
    BY <2>5 DEF Ledger!Next
<1>5. ASSUME NEW w \in Workers, NEW s \in Finished, FinishRun(w, s)
      PROVE  Ledger!Next
  <2>1. PICK j \in Jobs : j = cur[w] /\ jobs[j].status = "running"
    BY <1>5, HeldIsItsOwn DEF FinishRun, Holding, HeldRow
  <2>2. /\ rid[w] \in Runs /\ runs[rid[w]].job = j
        /\ runs[rid[w]].status \notin Finished
    BY <1>5, <2>1 DEF FinishRun, WorkerInv, OwnRun, Finished, Durable
  <2>3. /\ runs'[rid[w]].job = j /\ runs'[rid[w]].status \in Finished
        /\ \A r \in Runs : r # rid[w] => runs'[r] = runs[r]
        /\ jobs' = jobs
    BY <1>1, <1>5, <2>2 DEF FinishRun, TypeOK, RunRow
  <2> DEFINE f == [i \in Jobs |-> \E r \in Runs : runs[r].job = i /\ runs[r].status \in Finished]
             g == [i \in Jobs |-> \E r \in Runs : runs'[r].job = i /\ runs'[r].status \in Finished]
  <2>4. g[j] = TRUE
    BY <2>2, <2>3
  <2>5. \A i \in Jobs : i # j => (g[i] <=> f[i])
    <3>1. \A r \in Runs, i \in Jobs : i # j =>
            ((runs'[r].job = i /\ runs'[r].status \in Finished)
               <=> (runs[r].job = i /\ runs[r].status \in Finished))
      BY <2>2, <2>3
    <3>2. QED
      BY <3>1
  <2>6. g = [i \in Jobs |-> IF i = j THEN TRUE ELSE f[i]]
    BY <2>4, <2>5
  <2>7. g = [f EXCEPT ![j] = TRUE]
    BY <2>6
  <2>8. Closing' = Closing
    <3>1. pc[w] = "running" /\ pc'[w] = "ran" /\ cur'[w] = cur[w]
      BY <1>1, <1>5 DEF FinishRun, Goto, TypeOK
    <3>2. ClosingOf(w)' = ClosingOf(w)
      BY <2>3, <3>1 DEF ClosingOf, Holding
    <3>3. QED
      BY <3>2, LoneClosing
  <2>9. Ledger!Finish(j)
    BY <2>1, <2>3, <2>7, <2>8 DEF Ledger!Finish, Closing
  <2>10. QED
    BY <2>9 DEF Ledger!Next
<1>6. ASSUME NEW w \in Workers, CommitDone(w)
      PROVE  Ledger!Next
  <2>1. PICK j \in Jobs : j = cur[w] /\ jobs[j].status = "running"
    BY <1>6, HeldIsItsOwn DEF CommitDone, Holding, HeldRow
  <2>2. EndedFor(rid[w], j)
    BY <1>6, <2>1 DEF CommitDone, WorkerInv, OwnRun
  <2>3. /\ jobs'[j].status = "succeeded" /\ runs' = runs
        /\ \A i \in Jobs : i # j => jobs'[i].status = jobs[i].status
    BY <1>1, <1>6, <2>1 DEF CommitDone, MarkDone, TypeOK, JobRow
  <2>4. Ledger!Move(j, "running", "succeeded")
    BY <1>1, <2>1, <2>3, LedgerMove
  <2>5. Closing' = Closing \cup {j}
    <3>1. pc'[w] = "closing" /\ cur'[w] = j
      BY <1>1, <1>6, <2>1 DEF CommitDone, Goto, TypeOK
    <3>2. ClosingOf(w) = {} /\ ClosingOf(w)' = {j}
      BY <2>1, <2>3, <3>1 DEF ClosingOf, Holding
    <3>3. QED
      BY <3>2, LoneClosing
  <2>6. Ledger!Succeed(j)
    BY <2>2, <2>4, <2>5 DEF Ledger!Succeed, EndedFor, Closing
  <2>7. QED
    BY <2>6 DEF Ledger!Next
<1>7. ASSUME NEW w \in Workers, CommitFailed(w)
      PROVE  Ledger!Next
  <2>1. PICK j \in Jobs : j = cur[w] /\ jobs[j].status \in {"running", "succeeded"}
    BY <1>7, HeldIsItsOwn DEF CommitFailed, Holding, HeldRow
  <2>2. /\ jobs'[j].status = "failed" /\ runs' = runs
        /\ \A i \in Jobs : i # j => jobs'[i].status = jobs[i].status
    BY <1>1, <1>7, <2>1 DEF CommitFailed, MarkFailed, TypeOK, JobRow
  <2>3. pc[w] \in Holding /\ pc'[w] \notin Holding
    BY <1>1, <1>7 DEF CommitFailed, Goto, TypeOK, Holding
  <2>4. ClosingOf(w)' = {}
    BY <2>3 DEF ClosingOf
  <2>5. CASE jobs[j].status = "running"
    <3>1. ClosingOf(w) = {}
      BY <2>1, <2>5 DEF ClosingOf
    <3>2. Closing' = Closing
      BY <2>4, <3>1, LoneClosing
    <3>3. Ledger!Fail(j)
      BY <1>1, <2>2, <2>5, <3>2, LedgerMove DEF Ledger!Fail, Closing
    <3>4. QED
      BY <3>3 DEF Ledger!Next
  <2>6. CASE jobs[j].status = "succeeded"
    <3>1. ClosingOf(w) = {j}
      BY <2>1, <2>3, <2>6 DEF ClosingOf
    <3>2. j \in Closing /\ Closing' = Closing \ {j}
      BY <2>4, <3>1, LoneClosing
    <3>3. Ledger!Move(j, "succeeded", "failed")
      BY <1>1, <2>2, <2>6, LedgerMove
    <3>4. Ledger!Overturn(j)
      BY <3>2, <3>3 DEF Ledger!Overturn, Closing
    <3>5. QED
      BY <3>4 DEF Ledger!Next
  <2>7. QED
    BY <2>1, <2>5, <2>6
<1>8. ASSUME NEW w \in Workers, SweepCommit(w)
      PROVE  Ledger!Next
  <2> DEFINE Done == {j \in DOMAIN snap[w] : jobs'[j].status = "succeeded"}
             Rest == DOMAIN snap[w] \ Done
  <2>1. PICK D \in SUBSET Jobs, S \in SUBSET Jobs : D = Done /\ S = Rest
    BY <1>8, SweepRecovers
  <2>2. \A j \in D : /\ jobs[j].status = "running" /\ jobs'[j].status = "succeeded"
                    /\ \E r \in Runs : runs[r].job = j /\ runs[r].status \in Finished
    BY <1>8, <2>1, SweepRecovers
  <2>3. \A j \in S : jobs[j].status = "running" /\ jobs'[j].status = "queued"
    BY <1>8, <2>1, SweepRecovers
  <2>4. \A j \in Jobs : j \notin D /\ j \notin S => jobs'[j] = jobs[j]
    BY <1>8, <2>1, SweepRecovers
  <2>5. runs' = runs
    BY <1>8 DEF SweepCommit
  <2>6. [j \in Jobs |-> jobs'[j].status]
          = [j \in Jobs |-> IF j \in D THEN "succeeded"
                            ELSE IF j \in S THEN "queued"
                            ELSE [i \in Jobs |-> jobs[i].status][j]]
    BY <2>2, <2>3, <2>4
  <2>7. Closing' = Closing
    <3>1. pc[w] \notin Holding /\ pc'[w] \notin Holding
      BY <1>1, <1>8 DEF SweepCommit, Goto, TypeOK, Holding
    <3>2. ClosingOf(w) = {} /\ ClosingOf(w)' = {}
      BY <3>1 DEF ClosingOf
    <3>3. QED
      BY <3>2, LoneClosing
  <2>8. Ledger!Recover(D, S)
    BY <2>2, <2>3, <2>5, <2>6, <2>7 DEF Ledger!Recover, Closing
  <2>9. QED
    BY <2>8 DEF Ledger!Next
<1>9. ASSUME NEW w \in Workers, Leave(w) \/ Crash(w)
      PROVE  [Ledger!Next]_(Ledger!ledgerVars)
  <2>1. jobs' = jobs /\ runs' = runs /\ pc'[w] \notin Holding
    BY <1>1, <1>9 DEF Leave, Crash, Goto, TypeOK, tables, Holding
  <2>2. Closing' = {}
    BY <2>1, LoneClosing DEF ClosingOf
  <2>3. CASE Closing = {}
    BY <1>1, <2>1, <2>2, <2>3, LedgerStutter
  <2>4. CASE Closing # {}
    <3>1. PICK j \in Jobs : Closing = {j}
      <4>1. ClosingOf(w) # {}
        BY <2>4, LoneClosing
      <4>2. cur[w] \in Jobs /\ ClosingOf(w) = {cur[w]}
        BY <4>1 DEF ClosingOf
      <4>3. QED
        BY <4>2, LoneClosing
    <3>2. j \in Closing /\ Closing' = Closing \ {j}
      BY <2>2, <3>1
    <3>3. Ledger!LetGo(j)
      BY <1>1, <2>1, <3>2, LedgerRows DEF Ledger!LetGo, Closing
    <3>4. QED
      BY <3>3 DEF Ledger!Next
  <2>5. QED
    BY <2>3, <2>4
<1>10. ASSUME NEW w \in Workers, NEW r \in Runs, StartRun(w, r)
      PROVE  UNCHANGED Ledger!ledgerVars
  <2>1. /\ jobs' = jobs /\ runs[r].status = "absent" /\ runs'[r].status = "running"
        /\ \A q \in Runs : q # r => runs'[q] = runs[q]
    BY <1>1, <1>10 DEF StartRun, FreshRow, TypeOK
  <2>2. pc[w] \in Holding /\ pc'[w] \in Holding /\ cur'[w] = cur[w]
    BY <1>1, <1>10 DEF StartRun, Goto, TypeOK, Holding
  <2>3. ClosingOf(w)' = ClosingOf(w)
    BY <2>1, <2>2 DEF ClosingOf
  <2>4. Closing' = Closing
    BY <2>3, LoneClosing
  <2>5. QED
    BY <1>1, <2>1, <2>4, LedgerStutter DEF Finished, Durable
<1>11. ASSUME NEW w \in Workers,
              \/ \E j \in Jobs : ClaimSelect(w, j)
              \/ Raise(w) \/ Cancel(w) \/ Start(w) \/ SweepList(w) \/ Exit(w)
       PROVE  UNCHANGED Ledger!ledgerVars
  <2>1. jobs' = jobs /\ runs' = runs
    BY <1>11 DEF ClaimSelect, Raise, Cancel, Start, SweepList, Exit, tables
  <2>2. \/ pc[w] \notin Holding /\ pc'[w] \notin Holding
        \/ pc[w] \in Holding /\ pc'[w] \in Holding /\ cur'[w] = cur[w]
    BY <1>1, <1>11 DEF ClaimSelect, Raise, Cancel, Start, SweepList, Exit, Goto, TypeOK, Holding
  <2>3. ClosingOf(w)' = ClosingOf(w)
    BY <2>1, <2>2 DEF ClosingOf
  <2>4. Closing' = Closing
    BY <2>3, LoneClosing
  <2>5. QED
    BY <1>1, <2>1, <2>4, LedgerStutter
<1>12. CASE UNCHANGED <<jobs, runs, pc, cur>>
  <2>1. Closing' = Closing
    BY <1>12 DEF Closing, Live, Holds
  <2>2. jobs' = jobs /\ runs' = runs
    BY <1>12
  <2>3. QED
    BY <1>1, <2>1, <2>2, LedgerStutter
<1>13. QED
  BY <1>2, <1>3, <1>4, <1>5, <1>6, <1>7, <1>8, <1>9, <1>10, <1>11, <1>12
     DEF Next, JobSteps, LifeSteps, Interrupts, Poll, Sigterm, tables, vars

(* With one worker process a job is taken, given back, failed, retried and *)
(* settled in the order the ledger allows, and settled as succeeded only   *)
(* after a run has ended for it, whatever crashes, signals, cancellations  *)
(* and requeues come between; a success is overturned only before its      *)
(* settler has let go of it: IngestionWorker implements JobLedger.         *)
THEOREM OneWorkerKeepsTheLedger ==
  ASSUME OneWorker
  PROVE  Spec => LedgerSpec
<1>1. Init => NothingToSteal
  BY DEF Init, NothingToSteal
<1>2. WorkerInv /\ NothingToSteal /\ [Next]_vars => NothingToSteal'
  BY OneWorker, NothingToStealStep
<1>3. WorkerInv /\ NothingToSteal /\ [Next]_vars => [Ledger!Next]_(Ledger!ledgerVars)
  BY OneWorker, LedgerStep
<1>4. QED
  BY <1>1, <1>2, <1>3, LedgerInit, WorkerInvariance, PTL DEF Spec, LedgerSpec, Ledger!Spec

=============================================================================
