------------------------- MODULE MCIngestionWorker -------------------------
(* Small instances of IngestionWorker for TLC. *)
EXTENDS IngestionWorker, TLC

OneJob   == 1..1
WorkerSymmetry == Permutations(Workers)
TwoJobs  == 1..2
SecondIsBad == {2}
NoneBad  == {}
TwoRuns  == 1..2
FourRuns == 1..4
SixRuns  == 1..6

CrashBudget(c, t, k, q) ==
  [f \in Faults |-> CASE f = "crash" -> c [] f = "sigterm" -> t
                      [] f = "cancel" -> k [] f = "requeue" -> q]
SingleBudget == CrashBudget(2, 1, 1, 1)
PairBudget   == CrashBudget(1, 0, 0, 1)
OneCrash     == CrashBudget(1, 0, 0, 0)
NoFault      == CrashBudget(0, 0, 0, 0)
=============================================================================
