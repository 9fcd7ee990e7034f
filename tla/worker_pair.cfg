SPECIFICATION Spec
CONSTANTS
  w1 = w1
  w2 = w2
  Workers = {w1, w2}
  Jobs <- TwoJobs
  BadJobs <- NoneBad
  Runs <- FourRuns
  Budget <- OneCrash
SYMMETRY WorkerSymmetry
INVARIANT SucceededHasFinishedRun
INVARIANT ExclusiveUnlessStolen
PROPERTY SettlerAloneOverturns
