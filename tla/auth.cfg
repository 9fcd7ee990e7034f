SPECIFICATION Spec
CONSTANTS
  Instances = {i}
  Browsers = {b, c}
  Logins = {l, m}
  Reqs = {r, s}
  Deployments <- MCDeployments
  StateTtl = 0
  SessionTtl = 0
  TokenTtl = 0
  Leeway = 0
  MaxNow = 1
  MaxKey = 1
  MaxEvents = 1
  MaxSent = 4
  None = None
SYMMETRY MCSymmetry
INVARIANT EntryIsVouched
INVARIANT AccessEndsInTime
PROPERTY CodesAreSpentAtHome
INVARIANT QuietLoginSucceeds
CHECK_DEADLOCK FALSE
