------------------------- MODULE ContextPackProofs -------------------------
(***************************************************************************)
(* Proofs about ContextPack, for every corpus, request and configuration.  *)
(***************************************************************************)
EXTENDS ContextPack, FiniteSetTheorems, TLAPS

(* A chunk has a rank in an arm that found it, and the first is the best.  *)
LEMMA RankInArm ==
  ASSUME NEW arm \in Seq(Chunks), NEW c \in Members(arm)
  PROVE  RankIn(arm, c) \in 1..Len(arm) /\ arm[RankIn(arm, c)] = c
BY DEF RankIn, Members

(* An integer quotient is not above the quotient.                          *)
LEMMA DivBelow ==
  ASSUME NEW n \in Nat, NEW d \in Nat \ {0}
  PROVE  (n \div d) \in Nat /\ d * (n \div d) <= n
<1>1. (n \div d) \in Nat
  OBVIOUS
<1>2. d * (n \div d) <= n
  OBVIOUS
<1> QED  BY <1>1, <1>2

(* An arm contributes at most half of a perfect score.                     *)
LEMMA ShareBound ==
  ASSUME NEW arm \in Seq(Chunks), NEW c
  PROVE  /\ Share(arm, c) \in Nat
         /\ (K + 1) * Share(arm, c) \in Nat
         /\ (K + 1) * Share(arm, c) <= Unit
         /\ c \notin Members(arm) => Share(arm, c) = 0
<1>0. K \in Nat /\ Unit \in Nat /\ Unit > 0
  BY ConfigAssumption
<1>1. CASE c \in Members(arm)
  <2>1. PICK r \in Nat : r > 0 /\ r = RankIn(arm, c)
    BY <1>1, RankInArm
  <2>2. PICK k \in Nat : k = K + r
    BY <1>0, <2>1
  <2>3. PICK n \in Nat : n = (Unit \div k) /\ k * n <= Unit
    BY <1>0, <2>1, <2>2, DivBelow
  <2>4. k * n <= Unit /\ k * n \in Nat
    BY <2>3
  <2>5. (K + 1) * n <= k * n /\ (K + 1) * n \in Nat
    BY <1>0, <2>1, <2>2
  <2>6. Share(arm, c) = n
    BY <1>1, <2>1, <2>2, <2>3 DEF Share
  <2> QED  BY <1>0, <1>1, <2>4, <2>5, <2>6
<1>2. CASE c \notin Members(arm)
  BY <1>0, <1>2 DEF Share
<1> QED  BY <1>1, <1>2

(* RRF: two arms give at most twice the reciprocal of rank one, and a      *)
(* chunk that is not in both at most once.                                 *)
LEMMA FusedBound ==
  ASSUME NEW v \in Seq(Chunks), NEW f \in Seq(Chunks), NEW c
  PROVE  /\ Fused(v, f, c) \in Nat
         /\ Fused(v, f, c) <= 2 * Unit
         /\ c \notin Members(v) \cap Members(f) => Fused(v, f, c) <= Unit
<1>0. K \in Nat /\ Unit \in Nat
  BY ConfigAssumption
<1>1. PICK x, y \in Nat : x = Share(v, c) /\ y = Share(f, c)
  BY ShareBound
<1>2. /\ (K + 1) * x \in Nat /\ (K + 1) * x <= Unit
      /\ (K + 1) * y \in Nat /\ (K + 1) * y <= Unit
  BY <1>1, ShareBound
<1>3. (K + 1) * (x + y) = (K + 1) * x + (K + 1) * y
  BY <1>0, <1>1
<1>4. Fused(v, f, c) = (K + 1) * x + (K + 1) * y
  BY <1>1, <1>3 DEF Fused
<1>5. CASE c \notin Members(v)
  <2>1. x = 0  BY <1>1, <1>5, ShareBound
  <2>2. (K + 1) * x = 0  BY <1>0, <2>1
  <2> QED  BY <1>0, <1>2, <1>4, <2>2
<1>6. CASE c \notin Members(f)
  <2>1. y = 0  BY <1>1, <1>6, ShareBound
  <2>2. (K + 1) * y = 0  BY <1>0, <2>1
  <2> QED  BY <1>0, <1>2, <1>4, <2>2
<1>7. CASE c \in Members(v) \cap Members(f)
  BY <1>0, <1>2, <1>4, <1>7
<1> QED  BY <1>5, <1>6, <1>7

(* The parts of a chunk and of its document.                               *)
LEMMA CorpusType ==
  ASSUME TypeOK, NEW c \in Chunks
  PROVE  /\ corpus.chunk[c] \in Chunk /\ Source(c) \in Docs /\ DocOf(c) \in Document
         /\ Sensitive(c) \in BOOLEAN /\ corpus.chunk[c].tokens \in Nat
<1>1. corpus \in [chunk : [Chunks -> Chunk], doc : [Docs -> Document]]
  BY CorpusAssumption DEF TypeOK
<1>2. corpus.chunk[c] \in Chunk
  BY <1>1
<1>3. Source(c) \in Docs
  BY <1>2 DEF Source, Chunk
<1>4. DocOf(c) \in Document
  BY <1>1, <1>3 DEF DocOf, Source
<1> QED  BY <1>2, <1>3, <1>4 DEF Sensitive, Chunk

(* The parts of a request.                                                 *)
LEMMA AskType ==
  ASSUME TypeOK
  PROVE  /\ ask \in Ask /\ ask.maxChunks \in Nat /\ ask.maxChunks > 0
         /\ ask.maxTokens \in Nat /\ ask.provider \in BOOLEAN
BY AskAssumption DEF TypeOK, Ask

(* The boosts never add to a score.                                        *)
LEMMA FactorBound ==
  ASSUME TypeOK, NEW c \in Chunks, NEW d \in Nat
  PROVE  /\ Weight[DocOf(c).status] * Freshness(c, d) \in Nat
         /\ Weight[DocOf(c).status] * Freshness(c, d) <= 100 * FreshOne
<1>1. PICK w \in Nat : w <= 100 /\ w = Weight[DocOf(c).status]
  BY CorpusType, ConfigAssumption DEF Document
<1>2. PICK t \in Nat : t = Stale
  BY ConfigAssumption
<1>3. DocOf(c).age \in Nat /\ Age(c, d) \in Nat
  BY CorpusType DEF Document, Age
<1>4. Freshness(c, d) \in Nat /\ Freshness(c, d) <= FreshOne
  BY <1>2, <1>3 DEF Freshness, FreshOne, AtMost
<1>5. PICK f \in Nat : f = Freshness(c, d)
  BY <1>4
<1>6. PICK g \in Nat : g = FreshOne
  BY <1>2 DEF FreshOne
<1>7. w * f <= 100 * f /\ w * f \in Nat
  BY <1>1, <1>5
<1> QED  BY <1>1, <1>4, <1>5, <1>6, <1>7

(* No boost takes a score above its base.                                  *)
LEMMA BoostBound ==
  ASSUME TypeOK, NEW c \in Chunks, NEW d \in Nat, NEW b \in Nat, base[c] <= b
  PROVE  Boosted(c, d) \in Nat /\ Boosted(c, d) <= b * (100 * FreshOne)
<1>1. PICK m \in Nat : m = Weight[DocOf(c).status] * Freshness(c, d) /\ m <= 100 * FreshOne
  BY FactorBound
<1>2. PICK g \in Nat : g = 100 * FreshOne
  BY ConfigAssumption DEF FreshOne
<1>3. PICK a \in Nat : a = base[c] /\ a <= b
  BY DEF TypeOK
<1>4. a * m \in Nat /\ b * m \in Nat /\ a * m <= b * m
  BY <1>1, <1>3
<1>5. b * g \in Nat /\ b * m <= b * g
  BY <1>1, <1>2
<1>6. Boosted(c, d) = a * m
  BY <1>1, <1>3 DEF Boosted
<1> QED  BY <1>2, <1>4, <1>5, <1>6

----------------------------------------------------------------------------
(* A ranking is a sequence of members of what is ranked.                   *)
LEMMA RankingIsSeq ==
  ASSUME NEW S, NEW n \in Nat, NEW s \in Rankings(S, n)
  PROVE  s \in Seq(S) /\ Len(s) = n /\ Members(s) \subseteq S
<1>1. s \in [1..n -> S]
  BY DEF Rankings
<1>2. s \in Seq(S) /\ Len(s) = n
  BY <1>1
<1> QED  BY <1>2 DEF Members

(* What a sequence holds; only the empty one holds nothing.                *)
LEMMA MembersOfSeq ==
  ASSUME NEW S, NEW s \in Seq(S)
  PROVE  Members(s) \subseteq S /\ (Members(s) = {} <=> s = <<>>)
BY DEF Members

(* A limit is kept.                                                        *)
LEMMA AtMostIsNat ==
  ASSUME NEW m \in Nat, NEW n \in Nat
  PROVE  AtMost(m, n) \in Nat /\ AtMost(m, n) <= m /\ AtMost(m, n) <= n
BY DEF AtMost

(* A request begins well-typed.                                            *)
LEMMA TypeInit == Init => TypeOK
<1> SUFFICES ASSUME Init PROVE TypeOK
  OBVIOUS
<1>1. NoScores \in [Chunks -> Nat]
  BY DEF NoScores
<1>2. NoPack \in Pack
  BY DEF NoPack, Pack
<1>3. /\ <<>> \in Seq(Chunks) /\ "request" \in PCs
  BY DEF PCs
<1>4. corpus \in Corpora /\ ask \in Asks /\ today \in {0, 1} /\ pc \in PCs
  BY <1>3 DEF Init
<1>5. /\ vec \in Seq(Chunks) /\ fts \in Seq(Chunks) /\ rows \in Seq(Chunks)
      /\ trimmed \in Seq(Chunks) /\ kept \in Seq(Chunks)
  BY <1>3 DEF Init
<1>6. /\ base \in [Chunks -> Nat] /\ score \in [Chunks -> Nat]
      /\ warnings = {} /\ conflicts = {} /\ pack = NoPack
  BY <1>1 DEF Init
<1>7. pos \in Nat \ {0} /\ used \in Nat
  BY DEF Init
<1>8. truncated \in BOOLEAN
  BY DEF Init
<1> QED  BY <1>2, <1>4, <1>5, <1>6, <1>7, <1>8 DEF TypeOK

(* What is found can be counted.                                           *)
LEMMA HitsAreFinite ==
  ASSUME NEW S \in SUBSET Chunks
  PROVE  Cardinality(S) \in Nat
BY CorpusAssumption, FS_Subset, FS_CardinalityType

(* What an arm returns is a sequence of chunks.                            *)
LEMMA ArmIsSeq ==
  ASSUME NEW arm \in Arm
  PROVE  arm \in Seq(Chunks) /\ Members(arm) \subseteq Chunks
<1>1. AtMost(TopPerArm, Cardinality(Chunks)) \in Nat
  BY HitsAreFinite, AtMostIsNat, ConfigAssumption
<1>2. PICK n \in 0..AtMost(TopPerArm, Cardinality(Chunks)) : arm \in Rankings(Chunks, n)
  BY DEF Arm
<1>3. n \in Nat
  BY <1>1, <1>2
<1> QED  BY <1>2, <1>3, RankingIsSeq

(* The two arms and the final limit keep the types.                        *)
LEMMA TypeFetchHybrid == TypeOK /\ FetchHybrid => TypeOK'
<1> SUFFICES ASSUME TypeOK, FetchHybrid PROVE TypeOK'
  OBVIOUS
<1>1. PICK v \in Arm, f \in Arm :
        LET hits == Members(v) \cup Members(f) IN
        /\ vec' = v /\ fts' = f
        /\ base' = [c \in Chunks |-> Fused(v, f, c)]
        /\ \E s \in Rankings(hits, AtMost(Cardinality(hits), FinalLimit)) :
             /\ Descending(s, base')
             /\ \A c \in hits \ Members(s), d \in Members(s) : base'[d] >= base'[c]
             /\ rows' = s
  BY DEF FetchHybrid
<1>3. /\ vec' = v /\ fts' = f
      /\ base' = [c \in Chunks |-> Fused(v, f, c)]
      /\ \E s \in Rankings(Members(v) \cup Members(f),
                 AtMost(Cardinality(Members(v) \cup Members(f)), FinalLimit)) : rows' = s
  BY <1>1
<1>4. /\ v \in Seq(Chunks) /\ f \in Seq(Chunks)
      /\ Members(v) \subseteq Chunks /\ Members(f) \subseteq Chunks
  BY ArmIsSeq
<1>5. base' \in [Chunks -> Nat]
  BY <1>3, <1>4, FusedBound
<1>6. AtMost(Cardinality(Members(v) \cup Members(f)), FinalLimit) \in Nat
  BY <1>4, HitsAreFinite, AtMostIsNat, ConfigAssumption
<1>7. rows' \in Seq(Members(v) \cup Members(f))
  BY <1>3, <1>6, RankingIsSeq
<1>8. rows' \in Seq(Chunks)
  BY <1>4, <1>7
<1>9. pc' \in PCs
  BY DEF FetchHybrid, Goto, PCs
<1> QED  BY <1>3, <1>4, <1>5, <1>8, <1>9 DEF TypeOK, FetchHybrid, ranked, signals, budget

(* The fallback to full text keeps the types.                              *)
LEMMA TypeFetchFts == TypeOK /\ FetchFts => TypeOK'
<1> SUFFICES ASSUME TypeOK, FetchFts PROVE TypeOK'
  OBVIOUS
<1>1. AtMost(FtsLimit, Cardinality(Chunks)) \in Nat
  BY HitsAreFinite, AtMostIsNat, ConfigAssumption
<1>2. PICK n \in 0..AtMost(FtsLimit, Cardinality(Chunks)) :
        \E f \in Rankings(Chunks, n) : \E b \in [Chunks -> FtsScores] :
          /\ Descending(f, b)
          /\ fts' = f /\ rows' = f
          /\ base' = [c \in Chunks |-> IF c \in Members(f) THEN b[c] ELSE 0]
  BY DEF FetchFts
<1>3. PICK f \in Rankings(Chunks, n), b \in [Chunks -> FtsScores] :
          /\ fts' = f /\ rows' = f
          /\ base' = [c \in Chunks |-> IF c \in Members(f) THEN b[c] ELSE 0]
  BY <1>2
<1>4. f \in Seq(Chunks)
  BY <1>1, <1>2, <1>3, RankingIsSeq
<1>5. base' \in [Chunks -> Nat]
  BY <1>3, ConfigAssumption
<1>6. pc' \in PCs
  BY DEF FetchFts, Goto, PCs
<1> QED  BY <1>3, <1>4, <1>5, <1>6 DEF TypeOK, FetchFts, ranked, signals, budget

(* Boosting and trimming keep the types.                                   *)
LEMMA TypeBoost == TypeOK /\ Boost => TypeOK'
<1> SUFFICES ASSUME TypeOK, Boost PROVE TypeOK'
  OBVIOUS
<1>0. Len(rows) \in Nat /\ ask.maxChunks \in Nat
  BY AskType DEF TypeOK
<1>1. AtMost(Len(rows), ask.maxChunks) \in Nat
  BY <1>0, AtMostIsNat
<1>2. trimmed' \in Rankings(Members(rows), AtMost(Len(rows), ask.maxChunks))
  BY DEF Boost
<1>3. Members(rows) \subseteq Chunks
  BY MembersOfSeq DEF TypeOK
<1>4. trimmed' \in Seq(Members(rows))
  BY <1>1, <1>2, RankingIsSeq
<1>5. trimmed' \in Seq(Chunks)
  BY <1>3, <1>4
<1>6. today \in Nat
  BY DEF TypeOK
<1>7. ASSUME NEW c \in Chunks PROVE Boosted(c, today) \in Nat
  <2>1. base[c] \in Nat
    BY DEF TypeOK
  <2>2. base[c] <= base[c]
    BY <2>1
  <2> QED  BY <1>6, <2>1, <2>2, BoostBound
<1>8. score' \in [Chunks -> Nat] /\ pc' \in PCs
  BY <1>7 DEF Boost, Goto, PCs
<1> QED  BY <1>5, <1>8 DEF TypeOK, Boost, found, signals, budget

(* What is trimmed, gated and quoted are chunks.                           *)
LEMMA TrimmedAreChunks ==
  ASSUME TypeOK
  PROVE  /\ Members(trimmed) \subseteq Chunks /\ Gated \subseteq Members(trimmed)
         /\ Evidence \subseteq Chunks
<1>1. Members(trimmed) \subseteq Chunks /\ Evidence \subseteq Chunks
  BY MembersOfSeq DEF TypeOK, Evidence
<1>0. Len(trimmed) \in Nat /\ MaxRank \in Nat
  BY ConfigAssumption DEF TypeOK
<1>2. AtMost(Len(trimmed), MaxRank) \in Nat /\ AtMost(Len(trimmed), MaxRank) <= Len(trimmed)
  BY <1>0, AtMostIsNat
<1>3. Gated \subseteq Members(trimmed)
  BY <1>2 DEF Gated, Members, TypeOK
<1> QED  BY <1>1, <1>3

(* A warning about chunks names a document of the corpus, or none.         *)
LEMMA SourcesAreDocs ==
  ASSUME TypeOK, NEW S \in SUBSET Chunks, NEW type
  PROVE  \A w \in W(type, S) : w.source \in Docs \cup {None}
BY CorpusType DEF W

(* Every signal names a document of the corpus, or none.                   *)
LEMMA SignalsType == TypeOK => \A w \in Signals : w.source \in Docs \cup {None}
<1> SUFFICES ASSUME TypeOK, NEW w \in Signals PROVE w.source \in Docs \cup {None}
  OBVIOUS
<1>1. /\ StaleSources \in SUBSET Chunks /\ DeprecatedSources \in SUBSET Chunks
      /\ Injections \in SUBSET Chunks /\ SensitiveContent \in SUBSET Chunks
  BY TrimmedAreChunks DEF StaleSources, DeprecatedSources, Injections, SensitiveContent
<1>2. \/ w \in W("stale_source", StaleSources)
      \/ w \in W("deprecated_source", DeprecatedSources)
      \/ w \in W("prompt_injection_pattern", Injections)
      \/ w \in W("sensitive_content", SensitiveContent)
      \/ w \in Overall("weak_evidence") \/ w \in Overall("conflicting_sources")
      \/ w \in Overall("query_normalized")
      \/ Isolated /\ w \in W("isolated_match", {trimmed[1]})
  BY DEF Signals, QueryNormalized
<1>3. CASE \/ w \in W("stale_source", StaleSources)
           \/ w \in W("deprecated_source", DeprecatedSources)
           \/ w \in W("prompt_injection_pattern", Injections)
           \/ w \in W("sensitive_content", SensitiveContent)
  BY <1>1, <1>3, SourcesAreDocs
<1>4. CASE \/ w \in Overall("weak_evidence") \/ w \in Overall("conflicting_sources")
           \/ w \in Overall("query_normalized")
  BY <1>4 DEF Overall
<1>5. CASE Isolated /\ w \in W("isolated_match", {trimmed[1]})
  <2>1. trimmed[1] \in Chunks
    BY <1>5 DEF Isolated, TypeOK
  <2>2. {trimmed[1]} \in SUBSET Chunks
    BY <2>1
  <2> QED  BY <1>5, <2>2, SourcesAreDocs
<1> QED  BY <1>2, <1>3, <1>4, <1>5

(* The loop over the budget looks at one of the trimmed chunks.            *)
LEMMA UpcomingIsChunk ==
  ASSUME TypeOK, pos <= Len(trimmed)
  PROVE  Upcoming \in Chunks /\ Upcoming \in Members(trimmed)
BY DEF TypeOK, Upcoming, Members

(* The grades there are.                                                   *)
LEMMA ConfidenceType == Confidence \in {"none", "low", "medium", "high"}
BY DEF Confidence

(* The review flag is a flag.                                              *)
LEMMA NeedsReviewType == TypeOK => NeedsReview \in BOOLEAN
BY DEF NeedsReview

(* Nothing but the position in the code and flags of the reply changes.    *)
LEMMA TypeLeft ==
  ASSUME TypeOK, pc' \in PCs, today' \in {0, 1},
         UNCHANGED <<corpus, ask, found, ranked, signals, budget, pack, truncated>>
  PROVE  TypeOK'
BY DEF TypeOK, found, ranked, signals, budget

(* Every stage keeps the types.                                            *)
LEMMA TypeStep == TypeOK /\ [Next]_vars => TypeOK'
<1> SUFFICES ASSUME TypeOK, [Next]_vars PROVE TypeOK'
  OBVIOUS
<1> USE DEF Goto
<1>1. CASE Normalize \/ FetchFails
  <2>1. pc' \in PCs /\ today' \in {0, 1}
    BY <1>1 DEF Normalize, FetchFails, PCs, TypeOK
  <2> QED  BY <1>1, <2>1, TypeLeft DEF Normalize, FetchFails
<1>2. CASE Midnight
  <2>1. pc' \in PCs /\ today' \in {0, 1}
    BY <1>2 DEF Midnight, TypeOK
  <2> QED  BY <1>2, <2>1, TypeLeft DEF Midnight
<1>3. CASE Decide \/ GeneratorFails
  <2>1. pc' \in PCs /\ today' \in {0, 1}
    BY <1>3 DEF Decide, GeneratorFails, AfterPack, PCs, TypeOK
  <2> QED  BY <1>3, <2>1, TypeLeft DEF Decide, GeneratorFails, AfterPack
<1>4. CASE FetchHybrid \/ FetchFts \/ Boost
  BY <1>4, TypeFetchHybrid, TypeFetchFts, TypeBoost
<1>5. CASE CollectWarnings
  <2>1. \A w \in warnings' : w.source \in Docs \cup {None}
    BY <1>5, SignalsType DEF CollectWarnings
  <2>2. conflicts' \subseteq Heads /\ pc' \in PCs
    BY <1>5 DEF CollectWarnings, Competing, PCs
  <2> QED  BY <1>5, <2>1, <2>2 DEF CollectWarnings, TypeOK, found, ranked, budget
<1>6. CASE DropSensitive
  BY <1>6 DEF DropSensitive, TypeOK, found, ranked, signals
<1>7. CASE KeepChunk
  <2>1. Upcoming \in Chunks /\ corpus.chunk[Upcoming].tokens \in Nat
    BY <1>7, UpcomingIsChunk, CorpusType DEF KeepChunk, MayKeep
  <2>2. /\ kept \in Seq(Chunks) /\ used \in Nat /\ pos \in Nat \ {0}
        /\ kept' = Append(kept, Upcoming) /\ pos' = pos + 1
        /\ used' = used + corpus.chunk[Upcoming].tokens
    BY <1>7 DEF KeepChunk, TypeOK
  <2>3. kept' \in Seq(Chunks) /\ used' \in Nat /\ pos' \in Nat \ {0}
    BY <2>1, <2>2
  <2> QED  BY <1>7, <2>3 DEF KeepChunk, TypeOK, found, ranked, signals
<1>8. CASE Assemble
  <2>1. Reasons \in SUBSET Causes
    BY DEF Reasons
  <2>2. pack' \in Pack
    BY <1>8, <2>1, ConfidenceType, NeedsReviewType DEF Assemble, Pack
  <2>3. pc' \in PCs
    BY <1>8 DEF Assemble, PCs
  <2> QED  BY <1>8, <2>2, <2>3 DEF Assemble, TypeOK, found, ranked, signals, budget
<1>9. CASE Generate
  <2>0. pack' \in {pack, [pack EXCEPT !.review = TRUE,
                                   !.reasons = pack.reasons \cup {"declined"}]}
    BY <1>9 DEF Generate
  <2>1. pack' \in Pack
    <3>1. pack \in Pack
      BY DEF TypeOK
    <3>2. PICK more : more = pack.reasons \cup {"declined"}
      OBVIOUS
    <3>3. more \in SUBSET Causes
      BY <3>1, <3>2 DEF Pack, Causes
    <3>4. [pack EXCEPT !.review = TRUE, !.reasons = more] \in Pack
      BY <3>1, <3>3 DEF Pack
    <3> QED  BY <2>0, <3>1, <3>2, <3>4
  <2>2. truncated' \in BOOLEAN
    BY <1>9 DEF Generate, TypeOK
  <2>3. pc' \in PCs
    BY <1>9 DEF Generate, PCs
  <2> QED  BY <1>9, <2>1, <2>2, <2>3 DEF Generate, AfterPack, TypeOK, found, ranked, signals, budget
<1>10. CASE UNCHANGED vars
  <2>1. pc' \in PCs /\ today' \in {0, 1}
    BY <1>10 DEF vars, TypeOK
  <2> QED  BY <1>10, <2>1, TypeLeft DEF vars
<1> QED  BY <1>1, <1>2, <1>3, <1>4, <1>5, <1>6, <1>7, <1>8, <1>9, <1>10 DEF Next, Fetch

----------------------------------------------------------------------------
(* A stage that has not been reached has left nothing.                     *)
LEMMA UntouchedStep == TypeOK /\ Untouched /\ [Next]_vars => Untouched'
<1> SUFFICES ASSUME TypeOK, Untouched, [Next]_vars PROVE Untouched'
  OBVIOUS
<1> USE DEF Goto, Untouched, Ranked
<1>1. CASE Normalize \/ FetchHybrid \/ FetchFts \/ FetchFails \/ Midnight
  BY <1>1 DEF Normalize, FetchHybrid, FetchFts, FetchFails, Midnight, ranked, budget
<1>2. CASE Boost \/ CollectWarnings
  BY <1>2 DEF Boost, CollectWarnings, budget
<1>3. CASE DropSensitive \/ KeepChunk \/ Assemble
  BY <1>3 DEF DropSensitive, KeepChunk, Assemble, ranked, budget
<1>4. CASE Decide \/ Generate \/ GeneratorFails
  BY <1>4 DEF Decide, Generate, GeneratorFails, AfterPack, ranked, budget
<1>5. CASE UNCHANGED vars
  BY <1>5 DEF vars, ranked, budget
<1> QED  BY <1>1, <1>2, <1>3, <1>4, <1>5 DEF Next, Fetch

(* Only a fetch brings rows, and only once.                                *)
LEMMA FoundStays ==
  ASSUME [Next]_vars, ~FetchHybrid, ~FetchFts
  PROVE  UNCHANGED <<vec, fts, base, rows>>
BY DEF Next, Fetch, vars, found, Normalize, FetchFails, Midnight, Boost, CollectWarnings,
       DropSensitive, KeepChunk, Assemble, Decide, Generate, GeneratorFails, AfterPack

(* Neither the corpus nor what is asked changes under a request.           *)
LEMMA RequestStays == [Next]_vars => UNCHANGED <<corpus, ask>>
BY DEF Next, Fetch, vars, Normalize, FetchHybrid, FetchFts, FetchFails, Midnight, Boost,
       CollectWarnings, DropSensitive, KeepChunk, Assemble, Decide, Generate,
       GeneratorFails, AfterPack

(* What no arm found has no score.                                         *)
LEMMA FusedOfNothing == \A c \in Chunks : Fused(<<>>, <<>>, c) = 0
BY ConfigAssumption DEF Fused, Share, Members

(* The base scores are the fused ones from the SELECT on.                  *)
LEMMA BaseStep == TypeOK /\ BaseIsFused /\ [Next]_vars => BaseIsFused'
<1> SUFFICES ASSUME TypeOK, BaseIsFused, [Next]_vars, ask'.provider, NEW c \in Chunks
             PROVE  base'[c] = Fused(vec', fts', c)
  BY DEF BaseIsFused
<1>1. ask' = ask
  BY RequestStays
<1>2. CASE FetchHybrid
  <2>1. base' = [x \in Chunks |-> Fused(vec', fts', x)]
    BY <1>2 DEF FetchHybrid
  <2> QED  BY <2>1
<1>3. CASE FetchFts
  BY <1>1, <1>3 DEF FetchFts
<1>4. CASE ~FetchHybrid /\ ~FetchFts
  BY <1>1, <1>4, FoundStays DEF BaseIsFused
<1> QED  BY <1>2, <1>3, <1>4

(* Boosting is a step of its own: afterwards only the clock moves on.      *)
LEMMA RankedStays ==
  ASSUME TypeOK, Untouched, [Next]_vars, pc \in Ranked \cup {"failed"}
  PROVE  UNCHANGED <<vec, fts, base, rows, score, trimmed>>
BY DEF Ranked, Next, Fetch, vars, found, ranked, Normalize, FetchHybrid, FetchFts, FetchFails,
       Midnight, Boost, CollectWarnings, DropSensitive, KeepChunk, Assemble, Decide,
       Generate, GeneratorFails, AfterPack

(* Each group of stages is entered by one of the stages, and the day       *)
(* changes only at midnight.                                               *)
LEMMA Entering ==
  ASSUME [Next]_vars
  PROVE  /\ pc' \in Ranked /\ pc \notin Ranked => Boost
         /\ pc' \in Judged /\ pc \notin Judged => CollectWarnings
         /\ pc' \in Packed /\ pc \notin Packed => Assemble
         /\ today' # today => Midnight
BY DEF Ranked, Judged, Packed, Next, Fetch, vars, Goto, Normalize, FetchHybrid, FetchFts, FetchFails,
       Midnight, Boost, CollectWarnings, DropSensitive, KeepChunk, Assemble, Decide,
       Generate, GeneratorFails, AfterPack

(* The day does not go back.                                               *)
LEMMA TodayGrows ==
  ASSUME TypeOK, [Next]_vars
  PROVE  today \in Nat /\ today' \in Nat /\ today <= today'
<1>1. CASE Midnight
  BY <1>1 DEF Midnight, TypeOK
<1>2. CASE ~Midnight
  BY <1>2, Entering DEF TypeOK
<1> QED  BY <1>1, <1>2

(* The scores stay the boosted base scores, of a day that is not after     *)
(* today.                                                                  *)
LEMMA ScoreStep ==
  TypeOK /\ Untouched /\ ScoreIsBoosted /\ [Next]_vars => ScoreIsBoosted'
<1> SUFFICES ASSUME TypeOK, Untouched, ScoreIsBoosted, [Next]_vars, pc' \in Ranked
             PROVE  \E d \in 0..today' : \A c \in Chunks : score'[c] = Boosted(c, d)'
  BY DEF ScoreIsBoosted
<1>1. today \in Nat /\ today' \in Nat /\ today <= today' /\ corpus' = corpus
  BY TodayGrows, RequestStays
<1>2. CASE Boost
  <2>1. base' = base /\ today' = today /\ today \in 0..today'
    BY <1>1, <1>2 DEF Boost, found
  <2>2. \A c \in Chunks : score'[c] = Boosted(c, today)
    BY <1>2 DEF Boost
  <2>3. PICK d \in 0..today' : d = today
    BY <2>1
  <2>4. \A c \in Chunks : Boosted(c, d)' = Boosted(c, today)
    BY <1>1, <2>1, <2>3 DEF Boosted, Freshness, Age, DocOf
  <2> QED  BY <2>2, <2>3, <2>4
<1>3. CASE pc \in Ranked
  <2>1. PICK d \in 0..today : \A c \in Chunks : score[c] = Boosted(c, d)
    BY <1>3 DEF ScoreIsBoosted
  <2>2. score' = score /\ base' = base
    BY <1>3, RankedStays
  <2>3. \A c \in Chunks : Boosted(c, d)' = Boosted(c, d)
    BY <1>1, <2>2 DEF Boosted, Freshness, Age, DocOf
  <2>4. d \in 0..today'
    BY <1>1, <2>1
  <2> QED  BY <2>1, <2>2, <2>3, <2>4
<1> QED  BY <1>2, <1>3, Entering

(* The highest score is that of a chunk at the top of both arms.           *)
LEMMA FractionsStep ==
  TypeOK /\ Untouched /\ BaseIsFused /\ ScoresAreFractions /\ [Next]_vars
    => ScoresAreFractions'
<1> SUFFICES ASSUME TypeOK, Untouched, BaseIsFused, ScoresAreFractions, [Next]_vars,
                    ask'.provider, NEW c \in Chunks
             PROVE  score'[c] <= One
  BY DEF ScoresAreFractions, One
<1>1. ask.provider
  BY RequestStays
<1>2. CASE Boost
  <2>1. base[c] = Fused(vec, fts, c)
    BY <1>1 DEF BaseIsFused
  <2>2. base[c] <= 2 * Unit /\ 2 * Unit \in Nat
    BY <2>1, FusedBound, ConfigAssumption DEF TypeOK
  <2>3. today \in Nat
    BY DEF TypeOK
  <2>4. PICK u \in Nat : u = 2 * Unit
    BY <2>2
  <2>5. Boosted(c, today) <= u * (100 * FreshOne)
    BY <2>2, <2>3, <2>4, BoostBound
  <2>6. PICK g \in Nat : g = FreshOne
    BY ConfigAssumption DEF FreshOne
  <2>7. u * (100 * g) = u * 100 * g
    BY <2>4, <2>6
  <2> QED  BY <1>2, <2>4, <2>5, <2>6, <2>7 DEF Boost, One
<1>3. CASE ~Boost
  <2>1. score' = score
    BY <1>3 DEF Next, Fetch, vars, ranked, Normalize, FetchHybrid, FetchFts, FetchFails, Midnight,
       CollectWarnings, DropSensitive, KeepChunk, Assemble, Decide, Generate,
       GeneratorFails, AfterPack
  <2> QED  BY <1>1, <2>1 DEF ScoresAreFractions
<1> QED  BY <1>2, <1>3

(* What was judged is judged on one day and stays.                         *)
LEMMA WarningsStay ==
  ASSUME TypeOK, [Next]_vars, pc \in Judged
  PROVE  UNCHANGED <<today, warnings, conflicts>>
BY DEF Judged, Ranked, Next, Fetch, vars, signals, Normalize, FetchHybrid, FetchFts, FetchFails,
       Midnight, Boost, CollectWarnings, DropSensitive, KeepChunk, Assemble, Decide,
       Generate, GeneratorFails, AfterPack

(* What raises a signal: an outdated or a retired source of a trimmed      *)
(* chunk, an injection pattern in a gated one.                             *)
LEMMA SignalsRaised ==
  /\ \A c \in Members(trimmed) :
       /\ Outdated(c) => [type |-> "stale_source", source |-> Source(c)] \in Signals
       /\ DocOf(c).status \in Retired
            => [type |-> "deprecated_source", source |-> Source(c)] \in Signals
  /\ \A c \in Gated : corpus.chunk[c].injected
       => [type |-> "prompt_injection_pattern", source |-> Source(c)] \in Signals
<1>1. /\ W("stale_source", StaleSources) \subseteq Signals
      /\ W("deprecated_source", DeprecatedSources) \subseteq Signals
      /\ W("prompt_injection_pattern", Injections) \subseteq Signals
  BY DEF Signals
<1>2. /\ \A c \in StaleSources :
           [type |-> "stale_source", source |-> Source(c)] \in W("stale_source", StaleSources)
      /\ \A c \in DeprecatedSources :
           [type |-> "deprecated_source", source |-> Source(c)]
             \in W("deprecated_source", DeprecatedSources)
      /\ \A c \in Injections :
           [type |-> "prompt_injection_pattern", source |-> Source(c)]
             \in W("prompt_injection_pattern", Injections)
  BY DEF W
<1> QED  BY <1>1, <1>2 DEF StaleSources, DeprecatedSources, Injections

(* The signals that were raised are among the warnings.                    *)
LEMMA FlagsStep ==
  TypeOK /\ Untouched /\ FlagsAreRaised /\ [Next]_vars => FlagsAreRaised'
<1> SUFFICES ASSUME TypeOK, Untouched, FlagsAreRaised, [Next]_vars, pc' \in Judged
             PROVE  FlagsAreRaised'
  BY DEF FlagsAreRaised
<1>1. corpus' = corpus
  BY RequestStays
<1>2. CASE CollectWarnings
  <2>1. UNCHANGED <<today, trimmed, score>> /\ warnings' = Signals
    BY <1>2 DEF CollectWarnings, ranked
  <2>2. \A c \in Members(trimmed) :
          /\ Outdated(c) => \E w \in warnings' : w.type \in {"stale_source"}
          /\ DocOf(c).status \in Retired => \E w \in warnings' : w.type \in {"deprecated_source"}
    BY <2>1, SignalsRaised
  <2>3. \A c \in Gated : corpus.chunk[c].injected
          => \E w \in warnings' : w.type \in {"prompt_injection_pattern"}
    BY <2>1, SignalsRaised
  <2>4. Members(trimmed)' = Members(trimmed) /\ Gated' = Gated
    BY <1>1, <2>1 DEF Members, Gated, Reaches
  <2>5. \A c : (Outdated(c)' <=> Outdated(c)) /\ DocOf(c)' = DocOf(c)
    BY <1>1, <2>1 DEF Outdated, DocOf, Age
  <2> QED  BY <1>1, <2>2, <2>3, <2>4, <2>5 DEF FlagsAreRaised, Warned
<1>3. CASE pc \in Judged
  <2>1. UNCHANGED <<today, trimmed, score, warnings>>
    BY <1>3, WarningsStay, RankedStays DEF Judged
  <2>4. Members(trimmed)' = Members(trimmed) /\ Gated' = Gated
    BY <1>1, <2>1 DEF Members, Gated, Reaches
  <2>5. \A c : (Outdated(c)' <=> Outdated(c)) /\ DocOf(c)' = DocOf(c)
    BY <1>1, <2>1 DEF Outdated, DocOf, Age
  <2> QED  BY <1>1, <1>3, <2>1, <2>4, <2>5 DEF FlagsAreRaised, Warned
<1> QED  BY <1>2, <1>3, Entering

(* Whoever is not outdated at the warnings was not so at the boost.        *)
LEMMA PenaltyMeansOutdated ==
  ASSUME TypeOK, ScoreIsBoosted, pc \in Ranked, NEW c \in Chunks,
         score[c] < base[c] * (Weight[DocOf(c).status] * FreshOne)
  PROVE  Outdated(c)
<1> SUFFICES ASSUME ~Outdated(c) PROVE FALSE
  OBVIOUS
<1>1. PICK d \in 0..today : score[c] = Boosted(c, d)
  BY DEF ScoreIsBoosted
<1>2. today \in Nat /\ DocOf(c).age \in Nat /\ Stale \in Nat
  BY CorpusType, ConfigAssumption DEF Document, TypeOK
<1>3. Freshness(c, d) = FreshOne
  BY <1>1, <1>2 DEF Outdated, Freshness, Age
<1>4. score[c] = base[c] * (Weight[DocOf(c).status] * FreshOne)
  BY <1>1, <1>3 DEF Boosted
<1>5. score[c] \in Nat
  BY DEF TypeOK
<1> QED  BY <1>4, <1>5

(* A score lowered for age is disclosed, also when midnight comes between. *)
LEMMA PenaltyStep ==
  TypeOK /\ Untouched /\ ScoreIsBoosted /\ PenaltiesAreDisclosed /\ [Next]_vars
    => PenaltiesAreDisclosed'
<1> SUFFICES ASSUME TypeOK, Untouched, ScoreIsBoosted, PenaltiesAreDisclosed, [Next]_vars,
                    pc' \in Judged
             PROVE  PenaltiesAreDisclosed'
  BY DEF PenaltiesAreDisclosed
<1>1. corpus' = corpus /\ UNCHANGED <<score, base, trimmed>>
  <2>1. pc \in Ranked
    BY Entering DEF CollectWarnings, Judged, Ranked
  <2> QED  BY <2>1, RequestStays, RankedStays
<1>2. Members(trimmed)' = Members(trimmed)
  BY <1>1 DEF Members
<1>3. \A c : DocOf(c)' = DocOf(c) /\ Source(c)' = Source(c)
  BY <1>1 DEF DocOf, Source
<1>4. CASE CollectWarnings
  <2>1. warnings' = Signals /\ pc \in Ranked
    BY <1>4 DEF CollectWarnings, Ranked
  <2>2. \A c \in Members(trimmed) : c \in Chunks
    BY TrimmedAreChunks
  <2>3. \A c \in Members(trimmed) :
          score[c] < base[c] * (Weight[DocOf(c).status] * FreshOne)
            => [type |-> "stale_source", source |-> Source(c)] \in warnings'
    BY <2>1, <2>2, PenaltyMeansOutdated, SignalsRaised
  <2> QED  BY <1>1, <1>2, <1>3, <2>3 DEF PenaltiesAreDisclosed, FreshOne
<1>5. CASE pc \in Judged
  BY <1>1, <1>2, <1>3, <1>5, WarningsStay DEF PenaltiesAreDisclosed, FreshOne
<1> QED  BY <1>4, <1>5, Entering

----------------------------------------------------------------------------
(* Only the loop over the budget moves it.                                 *)
LEMMA BudgetStays ==
  ASSUME [Next]_vars, ~DropSensitive, ~KeepChunk
  PROVE  UNCHANGED <<pos, kept, used>>
BY DEF Next, Fetch, vars, budget, Normalize, FetchHybrid, FetchFts, FetchFails, Midnight, Boost,
       CollectWarnings, Assemble, Decide, Generate, GeneratorFails, AfterPack

(* No more chunks go on than were asked for.                               *)
LEMMA BoostTrims ==
  ASSUME TypeOK, Boost
  PROVE  Len(trimmed') <= ask.maxChunks /\ Len(trimmed') \in Nat
<1>1. Len(rows) \in Nat /\ ask.maxChunks \in Nat
  BY AskType DEF TypeOK
<1>2. trimmed' \in Rankings(Members(rows), AtMost(Len(rows), ask.maxChunks))
  BY DEF Boost
<1>3. PICK n \in Nat : n = AtMost(Len(rows), ask.maxChunks) /\ n <= ask.maxChunks
  BY <1>1, AtMostIsNat
<1>4. Len(trimmed') = n
  BY <1>2, <1>3, RankingIsSeq
<1> QED  BY <1>3, <1>4

(* Nothing is trimmed a second time.                                       *)
LEMMA TrimmedStays ==
  ASSUME [Next]_vars, ~Boost
  PROVE  trimmed' = trimmed
BY DEF Next, Fetch, vars, ranked, Normalize, FetchHybrid, FetchFts, FetchFails, Midnight,
       CollectWarnings, DropSensitive, KeepChunk, Assemble, Decide, Generate,
       GeneratorFails, AfterPack

(* What the loop has passed is evidence or sensitive, and more than one    *)
(* chunk is kept only within the budget.                                   *)
LEMMA KeptStep ==
  TypeOK /\ Untouched /\ KeptIsQuotable /\ [Next]_vars => KeptIsQuotable'
<1> SUFFICES ASSUME TypeOK, Untouched, KeptIsQuotable, [Next]_vars PROVE KeptIsQuotable'
  OBVIOUS
<1>1. /\ corpus' = corpus /\ ask' = ask
      /\ \A c : Sensitive(c)' = Sensitive(c)
  BY RequestStays DEF Sensitive
<1>2. /\ pos \in Nat \ {0} /\ kept \in Seq(Chunks) /\ trimmed \in Seq(Chunks)
      /\ Len(kept) \in Nat /\ Len(trimmed) \in Nat /\ used \in Nat
  BY DEF TypeOK
<1>3. CASE Boost
  <2>1. pos = 1 /\ kept = <<>> /\ UNCHANGED <<pos, kept, used>>
    BY <1>3 DEF Boost, budget, Untouched
  <2>2. Evidence' = {}
    BY <2>1 DEF Evidence, Members
  <2> QED  BY <1>1, <1>3, <2>1, <2>2, BoostTrims DEF KeptIsQuotable
<1>4. CASE DropSensitive
  <2>1. /\ pos <= Len(trimmed) /\ Sensitive(trimmed[pos]) /\ pos' = pos + 1
        /\ UNCHANGED <<trimmed, kept, used>>
    BY <1>4 DEF DropSensitive, ranked, Upcoming
  <2>2. Evidence' = Evidence /\ Members(trimmed)' = Members(trimmed)
    BY <2>1 DEF Evidence, Members
  <2>3. \A i \in 1..(pos' - 1) : i \in 1..(pos - 1) \/ i = pos
    BY <1>2, <2>1
  <2>4. \A i \in 1..(pos' - 1) : ~Sensitive(trimmed[i]) => trimmed[i] \in Evidence
    BY <2>1, <2>3 DEF KeptIsQuotable
  <2> QED  BY <1>1, <1>2, <2>1, <2>2, <2>4 DEF KeptIsQuotable
<1>5. CASE KeepChunk
  <2>1. /\ pos <= Len(trimmed) /\ ~Sensitive(trimmed[pos]) /\ pos' = pos + 1
        /\ kept' = Append(kept, trimmed[pos])
        /\ used' = used + corpus.chunk[trimmed[pos]].tokens
        /\ used + corpus.chunk[trimmed[pos]].tokens <= ask.maxTokens \/ kept = <<>>
        /\ trimmed' = trimmed
    BY <1>5 DEF KeepChunk, MayKeep, Fits, ranked, Upcoming
  <2>2. trimmed[pos] \in Chunks /\ trimmed[pos] \in Members(trimmed)
    BY <1>2, <2>1 DEF Members
  <2>3. Len(kept') = Len(kept) + 1 /\ kept' # <<>>
    BY <1>2, <2>1, <2>2
  <2>4. Evidence' = Evidence \cup {trimmed[pos]}
    <3>1. \A i \in 1..Len(kept') : kept'[i] = IF i <= Len(kept) THEN kept[i] ELSE trimmed[pos]
      BY <1>2, <2>1, <2>2
    <3>2. Evidence' = {kept'[i] : i \in 1..Len(kept')}
      BY DEF Evidence, Members
    <3>3. Evidence = {kept[i] : i \in 1..Len(kept)}
      BY DEF Evidence, Members
    <3>4. \A c \in Evidence' : c \in Evidence \cup {trimmed[pos]}
      BY <1>2, <2>3, <3>1, <3>2, <3>3
    <3>5. \A c \in Evidence : c \in Evidence'
      BY <1>2, <2>3, <3>1, <3>2, <3>3
    <3>6. trimmed[pos] \in Evidence'
      BY <1>2, <2>3, <3>1, <3>2
    <3> QED  BY <3>4, <3>5, <3>6
  <2>5. Members(trimmed)' = Members(trimmed)
    BY <2>1 DEF Members
  <2>6. \A i \in 1..(pos' - 1) : i \in 1..(pos - 1) \/ i = pos
    BY <1>2, <2>1
  <2>7. \A i \in 1..(pos' - 1) : ~Sensitive(trimmed[i]) => trimmed[i] \in Evidence'
    BY <2>4, <2>6 DEF KeptIsQuotable
  <2>8. \A c \in Evidence' : ~Sensitive(c) /\ c \in Members(trimmed)
    BY <2>1, <2>2, <2>4 DEF KeptIsQuotable
  <2>9. Len(kept') > 1 => used' <= ask.maxTokens
    BY <1>2, <2>1, <2>3
  <2>10. /\ Len(trimmed) <= ask.maxChunks
         /\ pos' <= Len(trimmed) + 1 /\ Len(kept') < pos'
    BY <1>2, <2>1, <2>3 DEF KeptIsQuotable
  <2> QED  BY <1>1, <2>1, <2>3, <2>5, <2>7, <2>8, <2>9, <2>10 DEF KeptIsQuotable
<1>6. CASE ~Boost /\ ~DropSensitive /\ ~KeepChunk
  <2>1. UNCHANGED <<trimmed, pos, kept, used>>
    BY <1>6, BudgetStays, TrimmedStays
  <2>2. Evidence' = Evidence /\ Members(trimmed)' = Members(trimmed)
    BY <2>1 DEF Evidence, Members
  <2> QED  BY <1>1, <2>1, <2>2 DEF KeptIsQuotable
<1> QED  BY <1>3, <1>4, <1>5, <1>6

(* From the pack on only the reply is still to be decided.                 *)
LEMMA PackStays ==
  ASSUME [Next]_vars, pc \in Packed
  PROVE  /\ UNCHANGED <<corpus, ask, today, vec, fts, base, rows, score, trimmed, warnings,
                        conflicts, pos, kept, used>>
         /\ pack'.confidence = pack.confidence \/ Generate
BY DEF Packed, Next, Fetch, vars, found, ranked, signals, budget, Normalize, FetchHybrid, FetchFts,
       FetchFails, Midnight, Boost, CollectWarnings, DropSensitive, KeepChunk, Assemble,
       Decide, Generate, GeneratorFails, AfterPack

(* A pack keeps its grade and never loses its flag.                        *)
LEMMA ConfidenceStays ==
  ASSUME TypeOK, [Next]_vars, pc \in Packed
  PROVE  pack'.confidence = pack.confidence /\ (pack.review => pack'.review)
<1>1. CASE Generate
  <2>1. pack' \in {pack, [pack EXCEPT !.review = TRUE,
                                   !.reasons = pack.reasons \cup {"declined"}]}
    BY <1>1 DEF Generate
  <2> QED  BY <2>1 DEF TypeOK, Pack
<1>2. CASE ~Generate
  BY <1>2 DEF Packed, Next, Fetch, vars, Normalize, FetchHybrid, FetchFts, FetchFails, Midnight,
       Boost, CollectWarnings, DropSensitive, KeepChunk, Assemble, Decide, GeneratorFails,
       AfterPack
<1> QED  BY <1>1, <1>2

(* Assembling changes nothing that the pack is computed from.              *)
LEMMA AssembleStays ==
  ASSUME Assemble
  PROVE  UNCHANGED <<corpus, ask, today, vec, fts, base, rows, score, trimmed, warnings,
                     conflicts, pos, kept, used>>
BY DEF Assemble, found, ranked, signals, budget

(* The evidence of a pack fits the budget.                                 *)
LEMMA BudgetStep ==
  TypeOK /\ KeptIsQuotable /\ EvidenceFitsTheBudget /\ [Next]_vars => EvidenceFitsTheBudget'
<1> SUFFICES ASSUME TypeOK, KeptIsQuotable, EvidenceFitsTheBudget, [Next]_vars, pc' \in Packed
             PROVE  EvidenceFitsTheBudget'
  BY DEF EvidenceFitsTheBudget
<1>1. UNCHANGED <<corpus, ask, trimmed, pos, kept, used>>
  BY Entering, PackStays, AssembleStays
<1>2. Evidence' = Evidence /\ \A c : Sensitive(c)' = Sensitive(c)
  BY <1>1 DEF Evidence, Members, Sensitive
<1>3. CASE pc \in Packed
  BY <1>1, <1>2, <1>3 DEF EvidenceFitsTheBudget
<1>4. CASE Assemble
  <2>1. /\ pos \in Nat \ {0} /\ Len(kept) \in Nat /\ Len(trimmed) \in Nat /\ used \in Nat
        /\ (kept = <<>> <=> Len(kept) = 0) /\ ask.maxTokens \in Nat /\ ask.maxChunks \in Nat
    BY AskType DEF TypeOK
  <2>0. (kept = <<>> => used = 0) /\ (Len(kept) > 1 => used <= ask.maxTokens)
    BY DEF KeptIsQuotable
  <2>2. used <= ask.maxTokens \/ Len(kept) = 1
    <3>1. PICK n, u, m \in Nat : n = Len(kept) /\ u = used /\ m = ask.maxTokens
      BY <2>1
    <3> QED  BY <2>0, <2>1, <3>1
  <2>3. \A i \in 1..Len(trimmed) :
          ~Sensitive(trimmed[i]) /\ trimmed[i] \notin Evidence => pos <= i
    BY <2>1 DEF KeptIsQuotable
  <2>4. CASE pos <= Len(trimmed)
    <3>1. ~Sensitive(trimmed[pos]) /\ Len(kept) < ask.maxChunks
      BY <1>4, <2>1, <2>4 DEF Assemble, Upcoming, KeptIsQuotable
    <3>2. ~Fits
      BY <1>4, <2>4, <3>1 DEF Assemble, MayKeep, Upcoming
    <3>3. corpus.chunk[trimmed[pos]].tokens \in Nat
      BY <2>4, UpcomingIsChunk, CorpusType DEF Upcoming
    <3>4. kept # <<>> /\ ask.maxTokens < used + corpus.chunk[trimmed[pos]].tokens
      BY <2>1, <3>2, <3>3, SMTT(30) DEF Fits, Upcoming
    <3>5. Evidence # {}
      BY <3>4, MembersOfSeq DEF Evidence, TypeOK
    <3> QED  BY <1>1, <1>2, <2>2, <2>3, <3>4, <3>5 DEF EvidenceFitsTheBudget
  <2>5. CASE ~(pos <= Len(trimmed))
    <3>1. \A i \in 1..Len(trimmed) : ~(pos <= i)
      BY <2>1, <2>5
    <3> QED  BY <1>1, <1>2, <2>2, <2>3, <3>1 DEF EvidenceFitsTheBudget
  <2> QED  BY <2>4, <2>5
<1> QED  BY <1>3, <1>4, Entering

(* A score of 0.8 or more takes both arms.                                 *)
LEMMA StrongTakesBothArms ==
  ASSUME TypeOK, BaseIsFused, ScoreIsBoosted, pc \in Ranked, ask.provider,
         NEW c \in Chunks, Reaches(score[c], 80)
  PROVE  c \in Members(vec) \cap Members(fts)
<1> SUFFICES ASSUME c \notin Members(vec) \cap Members(fts) PROVE FALSE
  OBVIOUS
<1>1. PICK d \in 0..today : score[c] = Boosted(c, d)
  BY DEF ScoreIsBoosted
<1>2. d \in Nat /\ Unit \in Nat /\ Unit > 0 /\ Stale \in Nat /\ Stale > 0
  BY <1>1, ConfigAssumption DEF TypeOK
<1>3. base[c] = Fused(vec, fts, c)
  BY DEF BaseIsFused
<1>4. base[c] <= Unit
  BY <1>3, FusedBound DEF TypeOK
<1>5. score[c] \in Nat /\ score[c] <= Unit * (100 * FreshOne)
  BY <1>1, <1>2, <1>4, BoostBound
<1>6. PICK g \in Nat : g = FreshOne /\ g > 0
  BY <1>2 DEF FreshOne
<1>7. PICK u \in Nat : u = Unit /\ u > 0
  BY <1>2
<1>8. PICK x \in Nat : x = u * g /\ x > 0
  BY <1>6, <1>7
<1>9. u * (100 * g) = 100 * x /\ 2 * u * 100 * g = 200 * x
  BY <1>6, <1>7, <1>8
<1>10. score[c] <= 100 * x
  BY <1>5, <1>6, <1>7, <1>9
<1>11. 100 * score[c] >= 80 * (200 * x)
  BY <1>6, <1>7, <1>9 DEF Reaches, One
<1> QED  BY <1>5, <1>8, <1>10, <1>11

(* A high grade is earned by two arms.                                     *)
LEMMA HighStep ==
  TypeOK /\ BaseIsFused /\ ScoreIsBoosted /\ FlagsAreRaised /\ HighIsEarned /\ [Next]_vars
    => HighIsEarned'
<1> SUFFICES ASSUME TypeOK, BaseIsFused, ScoreIsBoosted, FlagsAreRaised, HighIsEarned,
                    [Next]_vars, pc' \in Packed, pack'.confidence = "high"
             PROVE  HighIsEarned'
  BY DEF HighIsEarned
<1>1. UNCHANGED <<corpus, ask, today, vec, fts, trimmed, kept>>
  BY Entering, PackStays, AssembleStays
<1>2. /\ Evidence' = Evidence
      /\ Members(trimmed)' = Members(trimmed)
      /\ Members(vec)' = Members(vec) /\ Members(fts)' = Members(fts)
      /\ \A c : (Outdated(c)' <=> Outdated(c)) /\ DocOf(c)' = DocOf(c)
  BY <1>1 DEF Evidence, Members, Outdated, Age, DocOf
<1>3. SUFFICES /\ ask.provider => \E c \in Evidence : c \in Members(vec) \cap Members(fts)
               /\ \A c \in Members(trimmed) : ~Outdated(c) /\ DocOf(c).status \notin Retired
  BY <1>1, <1>2 DEF HighIsEarned
<1>4. CASE pc \in Packed
  BY <1>4, ConfidenceStays DEF HighIsEarned
<1>5. CASE Assemble
  <2>1. Confidence = "high" /\ pc \in Ranked /\ pc \in Judged
    BY <1>5 DEF Assemble, Ranked, Judged
  <2>2. ~WeakOverall(Evidence, 80) /\ ~Warned(Downgrading)
    BY <2>1 DEF Confidence
  <2>3. PICK c \in Evidence : Reaches(score[c], 80)
    BY <2>2 DEF WeakOverall
  <2>4. ask.provider => c \in Members(vec) \cap Members(fts)
    BY <2>1, <2>3, TrimmedAreChunks, StrongTakesBothArms
  <2>5. ~Warned({"stale_source"}) /\ ~Warned({"deprecated_source"})
    BY <2>2 DEF Warned, Downgrading
  <2>6. \A x \in Members(trimmed) : ~Outdated(x) /\ DocOf(x).status \notin Retired
    BY <2>1, <2>5 DEF FlagsAreRaised
  <2> QED  BY <2>3, <2>4, <2>6
<1> QED  BY <1>4, <1>5, Entering

(* The review flag is never taken back.                                    *)
LEMMA ReviewStep == TypeOK /\ ReviewIsDue /\ [Next]_vars => ReviewIsDue'
<1> SUFFICES ASSUME TypeOK, ReviewIsDue, [Next]_vars PROVE ReviewIsDue'
  OBVIOUS
<1>0. pc' \in Packed => pack' # NoPack
  <2> SUFFICES ASSUME pc' \in Packed PROVE pack' # NoPack
    OBVIOUS
  <2>1. CASE Assemble
    <3>1. pack'.confidence = Confidence /\ pack'.review = NeedsReview
      BY <2>1 DEF Assemble
    <3>2. Confidence # "none" \/ NeedsReview = TRUE
      BY DEF Confidence, NeedsReview
    <3> QED  BY <3>1, <3>2 DEF NoPack
  <2>2. CASE Generate
    <3>1. pack' \in {pack, [pack EXCEPT !.review = TRUE,
                                     !.reasons = pack.reasons \cup {"declined"}]}
      BY <2>2 DEF Generate
    <3>2. pack # NoPack
      BY <2>2 DEF Generate, ReviewIsDue, Packed
    <3>3. pack'.review = TRUE \/ pack' = pack
      BY <3>1 DEF TypeOK, Pack
    <3> QED  BY <3>2, <3>3 DEF NoPack
  <2>3. CASE pc \in Packed /\ ~Generate
    BY <2>3 DEF ReviewIsDue, Packed, Next, Fetch, vars, Normalize, FetchHybrid, FetchFts, FetchFails,
       Midnight, Boost, CollectWarnings, DropSensitive, KeepChunk, Assemble, Decide,
       GeneratorFails, AfterPack
  <2> QED  BY <2>1, <2>2, <2>3, Entering
<1>1. pc' \in Packed /\ NeedsReview' => pack'.review
  <2> SUFFICES ASSUME pc' \in Packed, NeedsReview' PROVE pack'.review
    OBVIOUS
  <2>1. UNCHANGED <<corpus, score, trimmed, warnings, conflicts, kept>>
    BY Entering, PackStays, AssembleStays
  <2>2. /\ Evidence' = Evidence /\ Members(trimmed)' = Members(trimmed)
        /\ \A c : DocOf(c)' = DocOf(c) /\ (Sensitive(c)' <=> Sensitive(c))
    BY <2>1 DEF Evidence, Members, DocOf, Sensitive
  <2>3. /\ Dropped' => Dropped
        /\ AllOf(Retired)' => AllOf(Retired)
        /\ AllOf({"draft"})' => AllOf({"draft"})
        /\ WeakOverall(Evidence, Weak)' => WeakOverall(Evidence, Weak)
        /\ Warned({"prompt_injection_pattern", "sensitive_content", "isolated_match"})'
             => Warned({"prompt_injection_pattern", "sensitive_content", "isolated_match"})
    BY <2>1, <2>2 DEF Dropped, AllOf, WeakOverall, Warned, Reaches, One, FreshOne, Retired
  <2>4. NeedsReview
    BY <2>1, <2>2, <2>3 DEF NeedsReview
  <2>5. CASE pc \in Packed
    BY <2>4, <2>5, ConfidenceStays DEF ReviewIsDue
  <2>6. CASE Assemble
    BY <2>4, <2>6 DEF Assemble
  <2> QED  BY <2>5, <2>6, Entering
<1>2. pc' \in {"generate", "answered"} => ~pack'.review
  <2>1. CASE Decide
    BY <2>1 DEF Decide, Goto, NoEvidence, UpstreamReview
  <2>2. CASE Generate
    BY <2>2 DEF Generate, Goto, ReviewIsDue
  <2>3. CASE ~Decide /\ ~Generate
    BY <2>3 DEF ReviewIsDue, Next, Fetch, vars, Goto, Normalize, FetchHybrid, FetchFts, FetchFails,
       Midnight, Boost, CollectWarnings, DropSensitive, KeepChunk, Assemble, GeneratorFails,
       AfterPack
  <2> QED  BY <2>1, <2>2, <2>3
<1> QED  BY <1>0, <1>1, <1>2 DEF ReviewIsDue, NoPack

----------------------------------------------------------------------------
(* A request begins in the invariant.                                      *)
LEMMA InvInit == Init => PackInv
<1> SUFFICES ASSUME Init PROVE PackInv
  OBVIOUS
<1>1. TypeOK
  BY TypeInit
<1>2. Untouched /\ ScoreIsBoosted /\ FlagsAreRaised /\ PenaltiesAreDisclosed
      /\ HighIsEarned /\ EvidenceFitsTheBudget /\ ReviewIsDue
  BY DEF Init, Untouched, ScoreIsBoosted, FlagsAreRaised, PenaltiesAreDisclosed, HighIsEarned,
         EvidenceFitsTheBudget, ReviewIsDue, Ranked, Judged, Packed
<1>3. BaseIsFused
  BY FusedOfNothing DEF Init, BaseIsFused, NoScores
<1>4. 0 <= One
  BY ConfigAssumption DEF One, FreshOne
<1>5. ScoresAreFractions
  BY <1>4 DEF Init, ScoresAreFractions, NoScores
<1>6. KeptIsQuotable
  <2>1. Len(trimmed) = 0 /\ Len(kept) = 0 /\ Evidence = {} /\ pos = 1 /\ used = 0
    BY DEF Init, Evidence, Members
  <2>2. ask.maxChunks \in Nat
    BY <1>1, AskType
  <2> QED  BY <2>1, <2>2 DEF KeptIsQuotable
<1> QED  BY <1>1, <1>2, <1>3, <1>5, <1>6 DEF PackInv

(* Each stage of a request works on what the stages before it left, for    *)
(* every corpus, request and configuration.                                *)
THEOREM PackInvariance == Spec => []PackInv
<1>1. PackInv /\ [Next]_vars => PackInv'
  BY TypeStep, UntouchedStep, BaseStep, ScoreStep, FractionsStep, FlagsStep, PenaltyStep,
     HighStep, KeptStep, BudgetStep, ReviewStep DEF PackInv
<1> QED  BY InvInit, <1>1, PTL DEF Spec

(* No boosted score leaves [0, 1] while both arms are at work.             *)
THEOREM ScoresStayFractions == Spec => []ScoresAreFractions
<1>1. PackInv => ScoresAreFractions
  BY DEF PackInv
<1> QED  BY <1>1, PackInvariance, PTL

(* High confidence takes a chunk that both arms found.                     *)
THEOREM HighTakesBothArms == Spec => []HighIsEarned
<1>1. PackInv => HighIsEarned
  BY DEF PackInv
<1> QED  BY <1>1, PackInvariance, PTL

(* Whoever is penalised for age is disclosed as stale, midnight or not.    *)
THEOREM PenaltiesAreAlwaysDisclosed == Spec => []PenaltiesAreDisclosed
<1>1. PackInv => PenaltiesAreDisclosed
  BY DEF PackInv
<1> QED  BY <1>1, PackInvariance, PTL

(* The evidence is the longest affordable prefix of the quotable chunks.   *)
THEOREM EvidenceAlwaysFits == Spec => []EvidenceFitsTheBudget
<1>1. PackInv => EvidenceFitsTheBudget
  BY DEF PackInv
<1> QED  BY <1>1, PackInvariance, PTL

(* An answer rests on strong evidence from a search free of secrets.       *)
THEOREM AnswersRestOnStrongEvidence == Spec => []AnswersAreGrounded
<1>1. PackInv => AnswersAreGrounded
  <2> SUFFICES ASSUME PackInv, pc = "answered"
               PROVE  /\ \E c \in Evidence : Reaches(score[c], Weak)
                      /\ \A c \in Members(trimmed) : ~Sensitive(c)
    BY DEF AnswersAreGrounded
  <2>1. ~NeedsReview
    BY DEF PackInv, ReviewIsDue, Packed
  <2> QED  BY <2>1 DEF NeedsReview, WeakOverall, Dropped
<1> QED  BY <1>1, PackInvariance, PTL

(* A strong chunk among the first ranks with an injection pattern keeps    *)
(* the generator silent.                                                   *)
THEOREM InjectionSilences == Spec => []StrongInjectionSilences
<1>1. PackInv => StrongInjectionSilences
  <2> SUFFICES ASSUME PackInv, pc = "answered", Floor <= Weak,
                      NEW i \in 1..AtMost(Len(trimmed), MaxRank),
                      Reaches(score[trimmed[i]], Weak)
               PROVE  ~corpus.chunk[trimmed[i]].injected
    BY DEF StrongInjectionSilences
  <2>1. ~Warned({"prompt_injection_pattern"})
    BY DEF PackInv, ReviewIsDue, Packed, NeedsReview, Warned
  <2>2. \A c \in Gated : ~corpus.chunk[c].injected
    BY <2>1 DEF PackInv, FlagsAreRaised, Judged, Ranked
  <2>3. PICK n \in Nat : n = One
    BY ConfigAssumption DEF One, FreshOne
  <2>4. Floor * n <= Weak * n /\ Floor * n \in Nat /\ Weak * n \in Nat
    BY <2>3, ConfigAssumption
  <2>5. Len(trimmed) \in Nat /\ MaxRank \in Nat
    BY ConfigAssumption DEF PackInv, TypeOK
  <2>6. trimmed[i] \in Chunks
    <3>1. PICK m \in Nat : m = AtMost(Len(trimmed), MaxRank) /\ m <= Len(trimmed)
      BY <2>5, AtMostIsNat
    <3>2. i \in 1..Len(trimmed)
      BY <2>5, <3>1
    <3> QED  BY <3>2 DEF PackInv, TypeOK
  <2>7. score[trimmed[i]] \in Nat
    BY <2>6 DEF PackInv, TypeOK
  <2>8. Reaches(score[trimmed[i]], Floor)
    BY <2>3, <2>4, <2>7 DEF Reaches
  <2>9. trimmed[i] \in Gated
    BY <2>8 DEF Gated
  <2> QED  BY <2>2, <2>9
<1> QED  BY <1>1, PackInvariance, PTL

(* The promise of CitedOrSilent, step by step.                             *)
LEMMA CitedInit == Init => Cited!Init
<1> SUFFICES ASSUME Init PROVE Cited!Init
  OBVIOUS
<1>1. Stage = "asked" /\ Given = {} /\ pack.review = FALSE
  BY DEF Init, Stage, Given, NoPack
<1>2. Quotable \in SUBSET Chunks
  BY DEF Quotable
<1> QED  BY <1>1, <1>2 DEF Cited!Init

StageMap ==
  /\ pc \in {"request", "fetch", "boost", "warn", "budget"} => Stage = "asked"
  /\ pc = "generate" => Stage = "generating"
  /\ pc \in {"badrequest", "failed"} => Stage = "failed"
  /\ pc \in {"packed", "shown", "answered", "refused"} => Stage = pc

(* What the abstract stage of each stage is.                               *)
LEMMA StageMaps == StageMap /\ StageMap'
BY DEF StageMap, Stage

(* Nothing is given before the pack, and afterwards nothing is added.      *)
LEMMA GivenBefore ==
  ASSUME PackInv
  PROVE  /\ pc \in {"request", "fetch", "boost", "warn", "budget"}
              => Given = {} /\ pack.review = FALSE /\ pack = NoPack
BY DEF PackInv, Untouched, Given, NoPack

(* Every step of a request is a step of CitedOrSilent or none.             *)
LEMMA CitedStep == PackInv /\ [Next]_vars => [Cited!Next]_(Cited!promise)
<1> SUFFICES ASSUME PackInv, [Next]_vars PROVE [Cited!Next]_(Cited!promise)
  OBVIOUS
<1> USE DEF Goto
<1>1. Quotable' = Quotable
  BY RequestStays DEF Quotable, Sensitive
<1>2. CASE Normalize \/ FetchHybrid \/ FetchFts \/ FetchFails \/ Midnight \/ Boost
           \/ CollectWarnings
  <2>1. /\ pack' = pack /\ pack = NoPack /\ Given = {}
        /\ pc \in {"request", "fetch", "boost", "warn"}
    BY <1>2, GivenBefore DEF Normalize, FetchHybrid, FetchFts, FetchFails, Midnight, Boost,
       CollectWarnings
  <2>2. Given' = Given /\ Stage = "asked"
    BY <2>1, StageMaps DEF Given, StageMap
  <2>3. pc' \in {"badrequest", "failed", "shown", "request", "fetch", "boost", "warn", "budget"}
    BY <1>2 DEF Normalize, FetchHybrid, FetchFts, FetchFails, Midnight, Boost, CollectWarnings
  <2>4. Stage' \in {"failed", "shown", "asked"}
    BY <2>3, StageMaps DEF StageMap
  <2> QED  BY <1>1, <2>1, <2>2, <2>4
           DEF Cited!Next, Cited!Show, Cited!Fail, Cited!Move, Cited!promise
<1>3. CASE DropSensitive \/ KeepChunk
  <2>1. pack' = pack /\ pack = NoPack /\ pc = "budget" /\ pc' = "budget"
    BY <1>3, GivenBefore DEF DropSensitive, KeepChunk
  <2>2. Given' = Given /\ Stage' = Stage
    BY <2>1, StageMaps DEF Given, StageMap
  <2> QED  BY <1>1, <2>1, <2>2 DEF Cited!promise
<1>4. CASE Assemble
  <2>1. pc = "budget" /\ pc' = "packed" /\ Stage = "asked" /\ Stage' = "packed"
    BY <1>4, StageMaps DEF Assemble, StageMap
  <2>2. Evidence' = Evidence /\ kept' = kept
    BY <1>4, AssembleStays DEF Evidence, Members
  <2>3. /\ pack'.confidence = Confidence /\ pack'.review = NeedsReview
        /\ pack'.review \in BOOLEAN
    BY <1>4, NeedsReviewType DEF Assemble, PackInv
  <2>4. Evidence = {} => pack'.review
    BY <2>3 DEF NeedsReview
  <2>5. Given' = Evidence
    <3>1. pack' # NoPack
      BY <2>1, ReviewStep DEF PackInv, ReviewIsDue, Packed
    <3> QED  BY <2>2, <3>1 DEF Given
  <2>6. Evidence \in SUBSET Quotable
    BY TrimmedAreChunks DEF PackInv, KeptIsQuotable, Quotable
  <2>7. Cited!Pack
    BY <1>1, <2>1, <2>3, <2>4, <2>5, <2>6 DEF Cited!Pack
  <2> QED  BY <2>7 DEF Cited!Next
<1>5. CASE Decide
  <2>1. pc = "packed" /\ pack' = pack /\ UNCHANGED kept
    BY <1>5 DEF Decide, AfterPack, budget
  <2>2. Given' = Given /\ Stage = "packed" /\ pack.review \in BOOLEAN
    BY <2>1, StageMaps DEF Given, Evidence, Members, StageMap, PackInv, TypeOK, Pack
  <2>3. Evidence = {} => pack.review
    BY <2>1 DEF PackInv, ReviewIsDue, Packed, NeedsReview
  <2>4. CASE ~NoEvidence /\ ~UpstreamReview
    <3>1. Stage' = "generating" /\ ~pack.review
      BY <1>5, <2>4, StageMaps DEF Decide, NoEvidence, UpstreamReview, StageMap
    <3> QED  BY <1>1, <2>1, <2>2, <3>1 DEF Cited!Next, Cited!Ask, Cited!Move
  <2>5. CASE NoEvidence \/ UpstreamReview
    <3>1. Stage' = "refused" /\ pack.review
      BY <1>5, <2>3, <2>5, StageMaps DEF Decide, NoEvidence, UpstreamReview, StageMap
    <3> QED  BY <1>1, <2>1, <2>2, <3>1 DEF Cited!Next, Cited!Refuse, Cited!Move
  <2> QED  BY <2>4, <2>5
<1>6. CASE Generate
  <2>1. pc = "generate" /\ Stage = "generating" /\ UNCHANGED kept
    BY <1>6, StageMaps DEF Generate, AfterPack, budget, StageMap
  <2>2. pack # NoPack /\ pack' # NoPack
    <3>1. pc' \in Packed /\ pc \in Packed
      BY <1>6 DEF Generate, Packed
    <3> QED  BY <3>1, ReviewStep DEF PackInv, ReviewIsDue
  <2>3. Given' = Given
    BY <2>1, <2>2 DEF Given, Evidence, Members
  <2>4. CASE pack' = pack /\ pc' = "answered"
    <3>1. Stage' = "answered"
      BY <2>4, StageMaps DEF StageMap
    <3> QED  BY <1>1, <2>1, <2>3, <2>4, <3>1 DEF Cited!Next, Cited!Answer, Cited!Move
  <2>5. CASE /\ pack' = [pack EXCEPT !.review = TRUE,
                                     !.reasons = pack.reasons \cup {"declined"}]
             /\ pc' = "refused"
    <3>1. Stage' = "refused" /\ pack'.review = TRUE
      BY <2>5, StageMaps DEF StageMap, PackInv, TypeOK
    <3> QED  BY <1>1, <2>1, <2>3, <3>1 DEF Cited!Next, Cited!Decline
  <2> QED  BY <1>6, <2>4, <2>5 DEF Generate
<1>7. CASE GeneratorFails
  <2>1. Stage = "generating" /\ Stage' = "failed" /\ pack' = pack /\ UNCHANGED kept
    BY <1>7, StageMaps DEF GeneratorFails, AfterPack, budget, StageMap
  <2>2. Given' = Given
    BY <2>1 DEF Given, Evidence, Members
  <2> QED  BY <1>1, <2>1, <2>2 DEF Cited!Next, Cited!Fail, Cited!Move
<1>8. CASE UNCHANGED vars
  <2>1. Stage' = Stage /\ Given' = Given /\ pack' = pack
    BY <1>8 DEF vars, budget, Stage, Given, Evidence, Members
  <2> QED  BY <1>1, <2>1 DEF Cited!promise
<1> QED  BY <1>2, <1>3, <1>4, <1>5, <1>6, <1>7, <1>8 DEF Next, Fetch

(* Every request keeps the promise of CitedOrSilent: ContextPack           *)
(* implements it under the refinement mapping of Cited.                    *)
THEOREM ContextPackIsCited == Spec => CitedSpec
BY CitedInit, CitedStep, PackInvariance, PTL DEF Spec, CitedSpec, Cited!Spec
=============================================================================
