SPECIFICATION ProcessSpec
CONSTANTS
  Clients = {c1, c2, c3}
  Capacity = 2
  Window = 3
  Second = 1
  MaxBuckets = 2
  MaxMono = 4
  Readers = {p1, p2, p3}
  Dimensions = {b1, b2}
  RegistryTtl = 2
  MaxVersion = 1
  MaxWall = 3
  Askers = {p1, p2, p3, p4}
  Queries <- Searches
  TokenThreshold = 8
  HydeTtl = 1
  MaxEntries = 2
  NoText = None
  MaxHydeClock = 2
  Requests = {p1, p2, p3}
  Keys = {k1}
  Bodies = {b1, b2}
  Ttl = 1
  MaxTime = 1
  None = None
  Instances = {i1, i2}
  Deployments <- Fleet
  Revisions = 2
  MaxStarts = 2
SYMMETRY ProcessSymmetry
INVARIANT RateIsBounded
PROPERTY RetryAfterSuffices
INVARIANT StaleWindow
INVARIANT PseudoDocFits
INVARIANT ReplayIsFaithful
INVARIANT NoStaleReplay
INVARIANT AuditMatchesAnswers
INVARIANT RevisionsApplyOnce
INVARIANT ServesItsSchema
CHECK_DEADLOCK FALSE
