----------------------------- MODULE JobLedger -----------------------------
(***************************************************************************)
(* What the ingestion queue promises about every job, whatever a worker    *)
(* process does in between: a job that was enqueued is eventually settled, *)
(* a job is settled as succeeded only after a run finished for it, and a   *)
(* settled job is taken up again only when an operator requeues a failure. *)
(* A success is not beyond recall at once: as long as whoever settled the  *)
(* job has not let go of it, it may still be overturned into a failure.    *)
(* IngestionWorker, deployed with one worker, implements this module.      *)
(***************************************************************************)
CONSTANT Jobs

VARIABLES status,   \* status[j] of the row of job j; "absent" before it exists
          closing,  \* succeeded jobs that their settler has not let go of
          finished  \* finished[j]: some run made for j has reached its end

ledgerVars == <<status, closing, finished>>

Statuses == {"absent", "queued", "running", "succeeded", "failed"}
Settled(j) == status[j] \in {"succeeded", "failed"}

Init ==
  /\ status = [j \in Jobs |-> "absent"]
  /\ closing = {}
  /\ finished = [j \in Jobs |-> FALSE]

Move(j, from, to) ==
  /\ status[j] = from
  /\ status' = [status EXCEPT ![j] = to]
  /\ UNCHANGED finished

Submit(j)  == Move(j, "absent", "queued")  /\ UNCHANGED closing
Take(j)    == Move(j, "queued", "running") /\ UNCHANGED closing
Fail(j)    == Move(j, "running", "failed") /\ UNCHANGED closing
Retry(j)   == Move(j, "failed", "queued")  /\ UNCHANGED closing

Succeed(j) ==
  /\ finished[j] /\ Move(j, "running", "succeeded")
  /\ closing' = closing \cup {j}

Overturn(j) ==
  /\ j \in closing /\ Move(j, "succeeded", "failed")
  /\ closing' = closing \ {j}

LetGo(j) ==
  /\ j \in closing /\ closing' = closing \ {j}
  /\ UNCHANGED <<status, finished>>

Finish(j) ==
  /\ status[j] = "running"
  /\ finished' = [finished EXCEPT ![j] = TRUE]
  /\ UNCHANGED <<status, closing>>

(* A process died: of the jobs it may have left behind, the ones an older  *)
(* run had finished succeed and the others return, all at once.            *)
Recover(D, S) ==
  /\ \A j \in D : status[j] = "running" /\ finished[j]
  /\ \A j \in S : status[j] = "running"
  /\ status' = [j \in Jobs |-> IF j \in D THEN "succeeded"
                               ELSE IF j \in S THEN "queued" ELSE status[j]]
  /\ UNCHANGED <<closing, finished>>

Next ==
  \/ \E j \in Jobs : \/ Submit(j) \/ Take(j) \/ Finish(j) \/ Succeed(j) \/ LetGo(j)
                     \/ Fail(j) \/ Overturn(j) \/ Retry(j)
  \/ \E D, S \in SUBSET Jobs : Recover(D, S)

(* Every job that is waiting or being worked on is eventually settled.     *)
EventuallySettled ==
  \A j \in Jobs : (status[j] \in {"queued", "running"}) ~> Settled(j)

Spec == Init /\ [][Next]_ledgerVars

LiveSpec == Spec /\ EventuallySettled
=============================================================================
