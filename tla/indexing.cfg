SPECIFICATION IndexingSpec
CONSTANTS
  c1 = c1
  c2 = c2
  a = a
  b = b
  h = h
  k = k
  m1 = m1
  m2 = m2
  None = None
  Calls = {c1, c2}
  Docs <- TwoDocs
  MaxChunks = 2
  Texts = {a, b}
  Heads = {h, k}
  Files <- TwoFiles
  Models = {m1}
  TextCount = 5
  BatchSize = 2
  Concurrency = 2
  ProviderLimit = 1
  MaxRetries = 1
INVARIANT SlotsHoldOwnVectors
PROPERTY EveryCallEnds
PROPERTY FanOutReturns
