SPECIFICATION PipelineSpec
CONSTANTS
  p = p
  q = q
  h = h
  None = None
  Chunks <- MCChunks
  Docs <- MCDocs
  Heads <- MCHeads
  Corpora <- MCCorpora
  Asks <- MCAsks
  K = 60
  Unit <- MCUnit
  TopPerArm = 2
  FinalLimit = 3
  FtsLimit = 3
  FtsScores <- MCFtsScores
  Weight <- MCWeight
  Stale = 2
  Weak = 46
  WeakDefault = 46
  Floor = 46
  MaxRank = 2
  Drop = 30
  Documents <- MCDocuments
  MaxTokens = 3
  Glue = 1
  Fetchers = {f}
  Sources <- MCSources
  Hosts = {"here", "there"}
  MaxFileBytes = 3
  MaxFiles = 2
  MaxRepoBytes = 3
  MaxHops = 3
  Cards = {"c", "d"}
  StatusOf <- MCStatusOf
  InRepo = {"c"}
  ValidStatuses = {"active", "deprecated"}
  DefaultStatuses = {"active"}
  Unknown = "bogus"
  Widenings = {{"active", "deprecated"}}
  MaxSearches = 2
  Unset = Unset
INVARIANT NothingLost
INVARIANT HeadingPathIsAncestry
INVARIANT ChunksFillTheCap
INVARIANT CodeStaysWhole
INVARIANT CapsAreExact
INVARIANT EveryItemAccounted
INVARIANT NothingLeftBehind
INVARIANT HighIsEarned
INVARIANT PenaltiesAreDisclosed
INVARIANT EvidenceFitsTheBudget
INVARIANT AnswersAreGrounded
INVARIANT StrongInjectionSilences
INVARIANT OnlyWhatWasAsked
INVARIANT FeedbackIsAboutItsSearch
PROPERTY CitedSpec
CHECK_DEADLOCK FALSE
