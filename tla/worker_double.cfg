SPECIFICATION Spec
CONSTANTS
  w1 = w1
  w2 = w2
  Workers = {w1, w2}
  Jobs <- OneJob
  BadJobs <- NoneBad
  Runs <- TwoRuns
  Budget <- NoFault
INVARIANT NeverDoubleProcess
