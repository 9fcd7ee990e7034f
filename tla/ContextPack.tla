---------------------------- MODULE ContextPack ----------------------------
(***************************************************************************)
(* One request to the retrieval side of the API: POST /v1/search,          *)
(* /v1/agent/context-pack or /v1/answer, from the query through the        *)
(* retrieved rows (retrieval/engine.py, db/repositories/_hybrid.py), their *)
(* boosts and warnings (retrieval/ranking.py), the pack                    *)
(* (agent/serializers.py) and the generator's answer (agent/answer.py).    *)
(*                                                                         *)
(* Which chunks an arm finds, and in which order, is Postgres' choice.     *)
(* Scores are integers: One stands for the code's 1.0, thresholds are      *)
(* percents of it.  The clock is read once for the boosts and again for    *)
(* the warnings, and midnight may fall in between.                         *)
(*                                                                         *)
(* A definition whose name starts with Mut is the definition after it with *)
(* a plausible bug; the properties are shown to catch it.                  *)
(***************************************************************************)
EXTENDS Naturals, Sequences, FiniteSets

CONSTANTS
  Chunks, Docs, Heads,
  Corpora,      \* what the database may hold (bound of the model)
  Asks,         \* requests, with the deployment they meet (bound of the model)
  K,            \* rrf_k
  Unit,         \* what 1/(k + rank) is counted in
  TopPerArm,    \* top_per_arm
  FinalLimit,   \* final_limit of the hybrid SELECT
  FtsLimit,     \* limit of the FTS-only SELECT
  FtsScores,    \* values ts_rank_cd may take (bound of the model)
  Weight,       \* status_weights, in percent
  Stale,        \* stale_after_days
  Weak,         \* weak_evidence_score_threshold, as configured, in percent
  WeakDefault,  \* WEAK_EVIDENCE_SCORE_THRESHOLD of the module
  Floor,        \* effective_relevance_floor
  MaxRank,      \* max_warning_rank
  Drop,         \* isolated_match_drop_threshold
  None

Statuses == {"active", "approved", "draft", "deprecated", "archived", "superseded"}
Retired  == {"deprecated", "archived", "superseded"}
Queries  == {"blank", "markers", "mixed", "plain"}
Chunk    == [doc : Docs, head : Heads \cup {None}, tokens : Nat,
             injected : BOOLEAN, sensitive : BOOLEAN]
Document == [status : Statuses, reviewed : BOOLEAN, age : Nat]
Ask      == [kind : {"search", "pack", "answer"}, query : Queries, provider : BOOLEAN,
             maxChunks : Nat \ {0}, maxTokens : Nat]

ASSUME CorpusAssumption ==
  /\ IsFiniteSet(Chunks)
  /\ Corpora \subseteq [chunk : [Chunks -> Chunk], doc : [Docs -> Document]]
ASSUME AskAssumption == Asks \subseteq Ask
ASSUME ConfigAssumption ==
  /\ K \in Nat /\ Unit \in Nat \ {0} /\ FtsScores \subseteq Nat
  /\ TopPerArm \in Nat /\ FinalLimit \in Nat /\ FtsLimit \in Nat
  /\ Weight \in [Statuses -> 1..100] /\ Stale \in Nat \ {0}
  /\ Weak \in Nat /\ WeakDefault \in Nat /\ Floor \in Nat /\ Drop \in Nat
  /\ MaxRank \in Nat \ {0}
  /\ None \notin Heads \cup Docs

VARIABLES
  corpus,     \* the rows of documents and document_chunks
  ask,        \* the request
  today,      \* midnights passed since it arrived
  pc,
  vec, fts,   \* what the two arms found, best first
  base,       \* the rows' score as the SELECT returns it
  rows,       \* the rows, in the order of the SELECT
  score,      \* after the boosts
  trimmed,    \* the max_chunks best
  warnings,   \* type and document of each warning
  conflicts,  \* headings under which active documents compete
  pos,        \* the next of them to look at for the evidence
  kept,       \* the evidence
  used,       \* its tokens
  pack,       \* confidence, review flag and reasons
  truncated   \* the answer carries the answer_truncated warning

found == <<vec, fts, base, rows>>
ranked == <<score, trimmed>>
budget == <<pos, kept, used>>
signals == <<warnings, conflicts>>
vars == <<corpus, ask, today, pc, found, ranked, signals, budget, pack, truncated>>

PCs == {"request", "fetch", "boost", "warn", "budget", "packed", "generate",
        "shown", "answered", "refused", "badrequest", "failed"}
Goto(l) == pc' = l
AtMost(m, n) == IF m <= n THEN m ELSE n
Members(s) == {s[i] : i \in 1..Len(s)}
(* Sequences of n members of S, none of them twice.                        *)
Rankings(S, n) ==
  {s \in [1..n -> S] : \A i, j \in 1..n : i # j => s[i] # s[j]}

DocOf(c)   == corpus.doc[corpus.chunk[c].doc]
Source(c)  == corpus.chunk[c].doc
Sensitive(c) == corpus.chunk[c].sensitive
NoScores   == [c \in Chunks |-> 0]
Causes     == {"conflict", "empty", "retired", "draft", "flagged", "weak", "dropped", "declined"}
Pack       == [confidence : {"none", "low", "medium", "high"},
               review : BOOLEAN, reasons : SUBSET Causes]
NoPack     == [confidence |-> "none", review |-> FALSE, reasons |-> {}]

Init ==
  /\ corpus \in Corpora /\ ask \in Asks
  /\ today = 0 /\ pc = "request"
  /\ vec = <<>> /\ fts = <<>> /\ rows = <<>> /\ base = NoScores
  /\ score = NoScores /\ trimmed = <<>>
  /\ warnings = {} /\ conflicts = {}
  /\ pos = 1 /\ kept = <<>> /\ used = 0 /\ pack = NoPack /\ truncated = FALSE

----------------------------------------------------------------------------
(* Retrieval.                                                              *)

(* Queries that are empty, or empty without their markers, are a 400.      *)
Normalize ==
  /\ pc = "request"
  /\ Goto(IF ask.query \in {"blank", "markers"} THEN "badrequest" ELSE "fetch")
  /\ UNCHANGED <<corpus, ask, today, found, ranked, signals, budget, pack, truncated>>

(* Reciprocal rank fusion: a chunk first in both arms scores 2 * Unit.     *)
RankIn(arm, c) == CHOOSE i \in 1..Len(arm) : arm[i] = c
Share(arm, c) ==
  IF c \in Members(arm) THEN Unit \div (K + RankIn(arm, c)) ELSE 0
Fused(v, f, c) == (K + 1) * (Share(v, c) + Share(f, c))

Descending(s, value) == \A i, j \in 1..Len(s) : i < j => value[s[i]] >= value[s[j]]

(* What the vector arm or the full-text arm may find: its filters and its  *)
(* order are the database's, its length is capped.                         *)
Arm == UNION {Rankings(Chunks, n) : n \in 0..AtMost(TopPerArm, Cardinality(Chunks))}

FetchHybrid ==
  /\ pc = "fetch" /\ ask.provider
  /\ \E v, f \in Arm :
       LET hits == Members(v) \cup Members(f) IN
       /\ vec' = v /\ fts' = f
       /\ base' = [c \in Chunks |-> Fused(v, f, c)]
       /\ \E s \in Rankings(hits, AtMost(Cardinality(hits), FinalLimit)) :
            /\ Descending(s, base')
            /\ \A c \in hits \ Members(s), d \in Members(s) : base'[d] >= base'[c]
            /\ rows' = s
  /\ Goto("boost")
  /\ UNCHANGED <<corpus, ask, today, ranked, signals, budget, pack, truncated>>

(* Without a provider ts_rank_cd alone ranks, scaled and unbounded.        *)
FetchFts ==
  /\ pc = "fetch" /\ ~ask.provider
  /\ \E n \in 0..AtMost(FtsLimit, Cardinality(Chunks)) : \E f \in Rankings(Chunks, n) :
     \E b \in [Chunks -> FtsScores] :
       /\ Descending(f, b)
       /\ fts' = f /\ rows' = f
       /\ base' = [c \in Chunks |-> IF c \in Members(f) THEN b[c] ELSE 0]
  /\ Goto("boost")
  /\ UNCHANGED <<corpus, ask, today, vec, ranked, signals, budget, pack, truncated>>

(* The provider or the SELECT raises: the request ends in a 500.           *)
FetchFails ==
  /\ pc = "fetch"
  /\ Goto("failed")
  /\ UNCHANGED <<corpus, ask, today, found, ranked, signals, budget, pack, truncated>>

Fetch == FetchHybrid \/ FetchFts \/ FetchFails

Midnight ==
  /\ pc \in {"boost", "warn"} /\ today = 0
  /\ today' = 1
  /\ UNCHANGED <<corpus, ask, pc, found, ranked, signals, budget, pack, truncated>>

----------------------------------------------------------------------------
(* Boosts and warnings.                                                    *)

FreshOne == 10 * Stale
One      == 2 * Unit * 100 * FreshOne
Reaches(n, percent) == 100 * n >= percent * One

(* ... with d midnights gone.                                              *)
Age(c, d) == DocOf(c).age + d
Freshness(c, d) ==
  IF ~DocOf(c).reviewed THEN 3 * Stale
  ELSE IF Age(c, d) <= Stale THEN FreshOne
  ELSE FreshOne - 7 * AtMost(Stale, Age(c, d) - Stale)
Boosted(c, d) == base[c] * (Weight[DocOf(c).status] * Freshness(c, d))

(* list.sort is stable: equal scores keep the order of the SELECT.         *)
Better(c, d, value) ==
  \/ value[c] > value[d]
  \/ value[c] = value[d] /\ RankIn(rows, c) < RankIn(rows, d)

Boost ==
  /\ pc = "boost"
  /\ score' = [c \in Chunks |-> Boosted(c, today)]
  /\ \E s \in Rankings(Members(rows), AtMost(Len(rows), ask.maxChunks)) :
       /\ \A i, j \in 1..Len(s) : i < j => Better(s[i], s[j], score')
       /\ \A c \in Members(rows) \ Members(s), i \in 1..Len(s) : Better(s[i], c, score')
       /\ trimmed' = s
  /\ Goto("warn")
  /\ UNCHANGED <<corpus, ask, today, found, signals, budget, pack, truncated>>

MutOutdated(c) == ~DocOf(c).reviewed \/ Age(c, today) > Stale + 1
Outdated(c) == ~DocOf(c).reviewed \/ Age(c, today) > Stale

MutGated == {trimmed[i] : i \in 1..AtMost(Len(trimmed), MaxRank - 1)}
(* The per-chunk security warnings look at the first ranks and good scores. *)
Gated ==
  {c \in {trimmed[i] : i \in 1..AtMost(Len(trimmed), MaxRank)} : Reaches(score[c], Floor)}

Isolated ==
  /\ Len(trimmed) >= 2
  /\ Reaches(score[trimmed[1]], Weak)
  /\ 100 * (score[trimmed[1]] - score[trimmed[2]]) > Drop * One

WeakOverall(S, threshold) == \A c \in S : ~Reaches(score[c], threshold)

Competing ==
  {h \in Heads : \E c, d \in Gated :
     /\ Source(c) # Source(d)
     /\ \A e \in {c, d} : corpus.chunk[e].head = h /\ DocOf(e).status \notin Retired}

W(type, S) == {[type |-> type, source |-> Source(c)] : c \in S}
Overall(type) == {[type |-> type, source |-> None]}
StaleSources      == {c \in Members(trimmed) : Outdated(c)}
DeprecatedSources == {c \in Members(trimmed) : DocOf(c).status \in Retired}
Injections        == {c \in Gated : corpus.chunk[c].injected}
SensitiveContent  == {c \in Gated : Sensitive(c)}
QueryNormalized   == IF ask.query = "mixed" THEN Overall("query_normalized") ELSE {}
Signals ==
  UNION { W("stale_source", StaleSources),
          W("deprecated_source", DeprecatedSources),
          W("prompt_injection_pattern", Injections),
          W("sensitive_content", SensitiveContent),
          IF WeakOverall(Members(trimmed), Weak) THEN Overall("weak_evidence") ELSE {},
          IF Isolated THEN W("isolated_match", {trimmed[1]}) ELSE {},
          IF ask.kind # "search" /\ Competing # {}
            THEN Overall("conflicting_sources") ELSE {},
          QueryNormalized }

CollectWarnings ==
  /\ pc = "warn"
  /\ warnings' = Signals
  /\ conflicts' = IF ask.kind = "search" THEN {} ELSE Competing
  /\ Goto(IF ask.kind = "search" THEN "shown" ELSE "budget")
  /\ UNCHANGED <<corpus, ask, today, found, ranked, budget, pack, truncated>>

----------------------------------------------------------------------------
(* The pack.  Every row brings its document, so no evidence is uncited.    *)

(* Sensitive chunks are passed over before the budget is looked at.        *)
Upcoming == trimmed[pos]
MutFits == used <= ask.maxTokens \/ kept = <<>>
Fits == used + corpus.chunk[Upcoming].tokens <= ask.maxTokens \/ kept = <<>>

DropSensitive ==
  /\ pc = "budget" /\ pos <= Len(trimmed) /\ Sensitive(Upcoming)
  /\ pos' = pos + 1
  /\ UNCHANGED <<corpus, ask, today, pc, found, ranked, signals, kept, used, pack, truncated>>

MayKeep ==
  /\ pos <= Len(trimmed) /\ ~Sensitive(Upcoming)
  /\ Len(kept) < ask.maxChunks /\ Fits

KeepChunk ==
  /\ pc = "budget" /\ MayKeep
  /\ kept' = Append(kept, Upcoming)
  /\ used' = used + corpus.chunk[Upcoming].tokens
  /\ pos' = pos + 1
  /\ UNCHANGED <<corpus, ask, today, pc, found, ranked, signals, pack, truncated>>

Evidence == Members(kept)
Warned(types) == \E w \in warnings : w.type \in types
Dropped == \E c \in Members(trimmed) : Sensitive(c)
AllOf(statuses) == \A c \in Evidence : DocOf(c).status \in statuses

MutNeedsReview ==
  \/ conflicts # {} \/ Evidence = {}
  \/ AllOf(Retired) \/ AllOf({"draft"})
  \/ Warned({"prompt_injection_pattern", "sensitive_content", "isolated_match"})
  \/ WeakOverall(Evidence, Weak)
NeedsReview ==
  \/ conflicts # {} \/ Evidence = {}
  \/ AllOf(Retired) \/ AllOf({"draft"})
  \/ Warned({"prompt_injection_pattern", "sensitive_content", "isolated_match"})
  \/ WeakOverall(Evidence, Weak)
  \/ Dropped

Reasons ==
  {r \in Causes \ {"declined"} :
     CASE r = "conflict" -> conflicts # {}
       [] r = "empty"    -> Evidence = {}
       [] r = "retired"  -> Evidence # {} /\ AllOf(Retired)
       [] r = "draft"    -> Evidence # {} /\ AllOf({"draft"})
       [] r = "flagged"  -> Warned({"prompt_injection_pattern", "sensitive_content"})
       [] r = "weak"     -> Evidence # {} /\ WeakOverall(Evidence, WeakDefault)
       [] r = "dropped"  -> Dropped}

Downgrading == {"stale_source", "deprecated_source", "weak_evidence", "conflicting_sources"}
MutConfidence ==
  IF Evidence = {} THEN "none"
  ELSE IF WeakOverall(Evidence, Weak) THEN "low"
  ELSE IF ~WeakOverall(Evidence, 50)
       THEN (IF Warned(Downgrading) THEN "medium" ELSE "high")
       ELSE (IF Warned(Downgrading) THEN "low" ELSE "medium")
Confidence ==
  IF Evidence = {} THEN "none"
  ELSE IF WeakOverall(Evidence, Weak) THEN "low"
  ELSE IF ~WeakOverall(Evidence, 80)
       THEN (IF Warned(Downgrading) THEN "medium" ELSE "high")
       ELSE (IF Warned(Downgrading) THEN "low" ELSE "medium")

Assemble ==
  /\ pc = "budget" /\ ~MayKeep /\ (pos <= Len(trimmed) => ~Sensitive(Upcoming))
  /\ pack' = [confidence |-> Confidence, review |-> NeedsReview, reasons |-> Reasons]
  /\ Goto("packed")
  /\ UNCHANGED <<corpus, ask, today, found, ranked, signals, budget, truncated>>

----------------------------------------------------------------------------
(* The answer: no evidence, or evidence for a human, never reaches the     *)
(* generator.                                                              *)

NoEvidence     == Evidence = {}
UpstreamReview == pack.review
AfterPack == <<corpus, ask, today, found, ranked, signals, budget>>

MutDecide ==
  /\ pc = "packed" /\ ask.kind = "answer"
  /\ Goto(IF NoEvidence THEN "refused" ELSE "generate")
  /\ UNCHANGED <<AfterPack, pack, truncated>>
Decide ==
  /\ pc = "packed" /\ ask.kind = "answer"
  /\ Goto(IF NoEvidence \/ UpstreamReview THEN "refused" ELSE "generate")
  /\ UNCHANGED <<AfterPack, pack, truncated>>

(* The generator's finish_reason, and whether it said nothing.             *)
Completions == [finish : {"stop", "length", "content_filter"}, silent : BOOLEAN]
Generate ==
  /\ pc = "generate"
  /\ \E completion \in Completions :
       IF completion.finish = "content_filter" \/ completion.silent
         THEN /\ Goto("refused")
              /\ pack' = [pack EXCEPT !.review = TRUE,
                                      !.reasons = pack.reasons \cup {"declined"}]
              /\ UNCHANGED truncated
         ELSE /\ Goto("answered")
              /\ truncated' = (completion.finish = "length")
              /\ UNCHANGED pack
  /\ UNCHANGED AfterPack

(* No attempt is left, the status is not worth another, or the reply holds *)
(* no choice: the request ends in a 500.                                   *)
GeneratorFails ==
  /\ pc = "generate"
  /\ Goto("failed")
  /\ UNCHANGED <<AfterPack, pack, truncated>>

Next ==
  \/ Normalize \/ Fetch \/ Midnight
  \/ Boost \/ CollectWarnings \/ DropSensitive \/ KeepChunk \/ Assemble
  \/ Decide \/ Generate \/ GeneratorFails

Spec == Init /\ [][Next]_vars

----------------------------------------------------------------------------
(* Properties.                                                             *)

TypeOK ==
  /\ corpus \in Corpora /\ ask \in Asks
  /\ today \in {0, 1} /\ pc \in PCs
  /\ vec \in Seq(Chunks) /\ fts \in Seq(Chunks) /\ rows \in Seq(Chunks)
  /\ base \in [Chunks -> Nat] /\ score \in [Chunks -> Nat]
  /\ trimmed \in Seq(Chunks) /\ kept \in Seq(Chunks)
  /\ pos \in Nat \ {0} /\ used \in Nat
  /\ conflicts \subseteq Heads
  /\ \A w \in warnings : w.source \in Docs \cup {None}
  /\ pack \in Pack
  /\ truncated \in BOOLEAN

Ranked == {"warn", "budget", "packed", "generate", "shown", "answered", "refused"}
Judged == Ranked \ {"warn"}
Packed == {"packed", "generate", "answered", "refused"}

(* The fused score is "rescaled to [0, 1]" (#164): with both arms at work  *)
(* no boosted score exceeds 1.0, whatever rrf_k and the ranks are.         *)
ScoresAreFractions ==
  ask.provider => \A c \in Chunks : score[c] <= One

(* "0.8 corresponds to both arms contributed, both near the top": with a   *)
(* provider, high confidence rests on a chunk that both arms found, and no *)
(* chunk that came back with it is retired or overdue for review.          *)
HighIsEarned ==
  pc \in Packed /\ pack.confidence = "high" =>
    /\ ask.provider => \E c \in Evidence : c \in Members(vec) \cap Members(fts)
    /\ \A c \in Members(trimmed) : ~Outdated(c) /\ DocOf(c).status \notin Retired

(* A chunk that lost score for its age is disclosed as stale, although the *)
(* boost and the warning read the clock separately.                        *)
PenaltiesAreDisclosed ==
  pc \in Judged => \A c \in Members(trimmed) :
    score[c] < base[c] * (Weight[DocOf(c).status] * FreshOne)
      => [type |-> "stale_source", source |-> Source(c)] \in warnings

(* The evidence is the longest affordable prefix of what may be quoted: it *)
(* costs at most max_tokens unless it is a single chunk, and the first     *)
(* quotable chunk left out would not have fit.                             *)
EvidenceFitsTheBudget ==
  pc \in Packed =>
    /\ used <= ask.maxTokens \/ Len(kept) = 1
    /\ \A i \in 1..Len(trimmed) :
         ~Sensitive(trimmed[i]) /\ trimmed[i] \notin Evidence =>
           /\ pos <= i /\ Evidence # {}
           /\ ask.maxTokens < used + corpus.chunk[trimmed[pos]].tokens

(* An answer rests on evidence of which some is strong, and on a search    *)
(* that brought up nothing sensitive, however low it ranked.               *)
AnswersAreGrounded ==
  pc = "answered" =>
    /\ \E c \in Evidence : Reaches(score[c], Weak)
    /\ \A c \in Members(trimmed) : ~Sensitive(c)

(* As long as the warning gate is not stricter than the weak-evidence one, *)
(* a strong chunk among the first ranks with an injection pattern keeps    *)
(* the generator silent.                                                   *)
StrongInjectionSilences ==
  pc = "answered" /\ Floor <= Weak =>
    \A i \in 1..AtMost(Len(trimmed), MaxRank) :
      Reaches(score[trimmed[i]], Weak) => ~corpus.chunk[trimmed[i]].injected

(* Why these hold: the stages up to the pack, each by what it was given.   *)
Untouched ==
  /\ pc \in {"request", "fetch", "boost", "warn"} => pos = 1 /\ kept = <<>> /\ pack = NoPack
  /\ pc = "budget" => pack = NoPack
  /\ pc \notin Ranked \cup {"failed"} => score = NoScores
BaseIsFused == ask.provider => \A c \in Chunks : base[c] = Fused(vec, fts, c)
ScoreIsBoosted ==
  pc \in Ranked => \E d \in 0..today : \A c \in Chunks : score[c] = Boosted(c, d)
FlagsAreRaised ==
  pc \in Judged =>
    /\ \A c \in Members(trimmed) :
         /\ Outdated(c) => Warned({"stale_source"})
         /\ DocOf(c).status \in Retired => Warned({"deprecated_source"})
    /\ \A c \in Gated : corpus.chunk[c].injected => Warned({"prompt_injection_pattern"})
KeptIsQuotable ==
  /\ Len(trimmed) <= ask.maxChunks
  /\ pos <= Len(trimmed) + 1 /\ Len(kept) < pos
  /\ \A c \in Evidence : ~Sensitive(c) /\ c \in Members(trimmed)
  /\ \A i \in 1..(pos - 1) : ~Sensitive(trimmed[i]) => trimmed[i] \in Evidence
  /\ kept = <<>> => used = 0
  /\ Len(kept) > 1 => used <= ask.maxTokens
ReviewIsDue ==
  /\ pc \in Packed => pack # NoPack /\ (NeedsReview => pack.review)
  /\ pc \in {"generate", "answered"} => ~pack.review

PackInv ==
  /\ TypeOK /\ Untouched
  /\ BaseIsFused /\ ScoreIsBoosted /\ ScoresAreFractions
  /\ FlagsAreRaised /\ PenaltiesAreDisclosed /\ HighIsEarned
  /\ KeptIsQuotable /\ EvidenceFitsTheBudget
  /\ ReviewIsDue

(* Every response keeps the promise of CitedOrSilent.                      *)
Quotable == {c \in Chunks : ~Sensitive(c)}
Stage ==
  CASE pc \in {"request", "fetch", "boost", "warn", "budget"} -> "asked"
    [] pc = "generate" -> "generating"
    [] pc = "badrequest" -> "failed"
    [] OTHER -> pc
Given == IF pack = NoPack THEN {} ELSE Evidence
Cited == INSTANCE CitedOrSilent WITH
  quotable <- Quotable, stage <- Stage, evidence <- Given, review <- pack.review
CitedSpec == Cited!Spec

=============================================================================
