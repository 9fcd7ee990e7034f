SPECIFICATION FairSpec
CONSTANTS
  w1 = w1
  Workers = {w1}
  Jobs <- TwoJobs
  BadJobs <- SecondIsBad
  Runs <- SixRuns
  Budget <- SingleBudget
PROPERTY LedgerSpec
PROPERTY EventuallySettled
