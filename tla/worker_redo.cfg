SPECIFICATION Spec
CONSTANTS
  w1 = w1
  Workers = {w1}
  Jobs <- OneJob
  BadJobs <- NoneBad
  Runs <- TwoRuns
  Budget <- OneCrash
PROPERTY DurableWorkNotRedone
