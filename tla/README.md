# A verification project for cf-knowledge-kiln

TLA+ models of the stateful parts of cf-knowledge-kiln, TLC configurations that
check them on small instances, and TLAPS proofs of their main invariants for
every value of the constants.  Paths below are those of the repository; a
bare file name is under `src/cf_knowledge_kiln/`.

## 1. Inventory of the system

cf-knowledge-kiln ingests documents into Postgres (pgvector), and answers
searches, context packs and grounded answers from it, each claim with its
source.  One code base runs as two Cloud Foundry applications: the API (one
process, one asyncio event loop per instance) and the ingestion worker (one or
more processes).  They share nothing but the database.

| Component | State | Operations | Meets | Hard behaviour | Correct when |
|---|---|---|---|---|---|
| **Ingestion queue and worker** (`ingestion/worker.py`, `db/repositories/operations.py`, run rows in `ingestion/pipeline.py`) | rows of `ingestion_jobs` and `ingestion_runs`; per process: job in hand, sweep's snapshot, stop event | enqueue, claim (SKIP LOCKED), process, mark done/failed, sweep at start-up, SIGTERM, operator's requeue | other workers through row locks; the pipeline | crashes between commits, a sweep that meets live workers, late unguarded updates, a cancellation after the COMMIT | every job is settled, success means a finished run of this job and is overturned by its own settler at most, no two workers on a job |
| **Connectors** (`ingestion/connectors.py`, `_http_connector.py`, `ssrf.py`) | a fetch's lists and counters; the process's resolver; a clone's directory | walk, clone, request, follow redirects, guard and pin hosts, cap | file system, git, HTTP hosts; other threads through the resolver | three caps at their limit, four ways to end, a resolver swapped and put back | every item is accounted for, caps are exact, nothing is left behind |
| **Chunking** (`ingestion/chunking.py`) | a parse's blocks, sections and buffer | scan, group, pack | the tokenizer | nested fences, oversize blocks, limits off by one | no text is lost, code stays whole, chunks fill the limit, heading paths name every ancestor |
| **Embedding fan-out and providers** (`ingestion/embedding/batched.py`, `openai_compatible.py`, `local.py`) | batches under two semaphores; lazily loaded model; result slots | admit, request, retry, parse, load, encode, collect | provider | failures of single batches, retries, an order the server names | slot i holds the vector of text i or none, the call returns |
| **Corpus** (`ingestion/_file_processing.py`, `ingestion/embedding/pipeline.py`, `ingestion/reembed.py`) | rows of `documents`, `document_chunks`, `chunk_embeddings` | index a file, skip unchanged chunks, gather, COMMIT, embed, write vectors, re-embed all | other runs through locks and foreign keys; the provider | a provider wait of minutes between read and write, concurrent runs, failed batches | a vector is of its chunk's text, a document is of one version, nobody waits for the provider, no deadlock on documents |
| **Hybrid retrieval** (`retrieval/engine.py`, `db/repositories/_hybrid.py`, `retrieval/ranking.py`) | none | full-text and vector arms, RRF fusion, boosts, fallback to full text | provider, Postgres | scale of the two score kinds, midnight between two stages | order follows score, thresholds mean what they say |
| **HyDE** (`retrieval/hyde/`) | TTL+LRU cache of pseudo documents | classify, look up, generate, cache | generator | concurrent misses, failures, expiry | a search gets the text of its own query, in time, or none |
| **Context packs** (`retrieval/context_pack.py`, `agent/serializers.py`) | none between requests | rank, boost, trim, warn, drop sensitive, budget, flag for review, grade | retriever, screening verdicts | several trims and gates in a row, two thresholds | evidence fits the budget, no sensitive text, penalties are disclosed |
| **Grounded answers** (`agent/answer.py`) | none between requests | refuse, generate, truncate, cite | context pack, generator | generator failures of four kinds | an answer is grounded, or says why there is none |
| **Idempotent requests** (`api/idempotency.py`, `db/repositories/idempotency.py`, the three POST routes) | rows of `idempotency_keys`, telemetry rows, the request's transaction | look up, run, store, respond, commit | concurrent requests with one key | two winners, commit after the response, expiry | a replay repeats an answer that was given, and all replays agree |
| **Rate limiter** (`api/rate_limit.py`) | an LRU of token buckets | hit, retry_after | all limited routes | refill arithmetic, eviction, rounding | the rate is bounded, Retry-After is honest |
| **Registry cache** (`api/registry.py`, `db/repositories/registry.py`) | payload, built_at | serve, aggregate per dimension, publish | ingestion runs; concurrent requests | reads spread over awaits, out-of-order publication | nothing older than the TTL is told |
| **Auth** (`api/auth.py`) | cached discovery and keys of the issuer; session and state cookies; a signing secret | login, callback, validate bearer, session, logout, five modes | issuer, browsers | key rotation, restarts, overlapping logins, added-up times to live | only who the issuer vouched for is let in, and not for ever; an undisturbed login succeeds |
| **Search page** (`api/web.py`, `web_url_state.py`, `web_feedback.py`, `forms.py`, templates, `kiln-app.js`) | the form, requests in flight, the fragment shown; rows of `rag_queries` and `rag_feedback` | search, widen, load a link, vote | htmx's queue, the request's commit, re-ingestion | four copies of the filters, late answers, a vote before its search is committed | what is shown was asked for, a vote is about a search that found it |
| **Life cycle** (`api/app.py`, `api/health.py`, `db/migrations.py`, `alembic/env.py`, `ingestion/worker.py` `serve`) | schema version, advisory lock; pool, clients, readiness of each instance | migrate, build clients, probe, serve, stop | other instances | races at start-up, partial start-up, releases of different age | each revision is applied once, who serves has its schema, its clients and what the migration puts back of its surroundings |
| Content screening, source access control | none | pattern checks; credentials for a subprocess | ingestion | none (pure) | |
| Preview and rendering, HTTP plumbing, configuration, schema, evaluation harness, scripts | none of their own | rendering, logging, settings, offline scoring | | none for a model checker | |

How they meet: the worker calls `run_source`, which fetches, chunks, writes the
run row and the corpus and has chunks embedded; the API reads the corpus through
the retriever, wraps its three POST routes in the idempotency contract, all
public routes in the rate limiter and everything in the auth middleware; the
registry cache summarises the corpus on its own clock; the search page calls
the retriever without that contract.  All sharing between processes is by
committed rows and row locks; all sharing inside the API process is by objects
of one event loop, where only an `await` lets another request in.

`PROJECT.json` lists, under "hazards", each place where this is hard to test,
at its line.

## 2. Plan

| # | Modules | Runs | Theorems |
|---|---|---|---|
| 1 | `JobLedger` (abstract), `IngestionWorker` (implements it) | `worker_*` | invariance, exclusivity, success is backed and only its settler overturns it, one worker implements the ledger |
| 2 | `Corpus` | `corpus_*`, `indexing` | invariance, current vectors, one version, lock order, a quiet run settles |
| 3 | `Idempotency` | `process`, `replay_winner` | invariance, faithful and agreeing replays |
| 4 | `RateLimiter` | `process` | rate bound, Retry-After |
| 5 | `RegistryCache` | `process` | staleness bound |
| 6 | `CitedOrSilent` (abstract), `ContextPack` (implements it) | `pipeline` | invariance, evidence fits, answers are grounded, refinement |
| 7 | `HydeCache` | `process` | texts fit their search, the store stays a dict |
| 8 | `Auth` | `auth` | invariance, entries are vouched for and end, codes at home, quiet logins succeed |
| 9 | `Fetch`, `Chunking`, `Embedding` | `pipeline`, `indexing` | items accounted for, caps exact, nothing left behind; no text lost, paths, limits, code; slots |
| 10 | `Startup` | `process` | revisions once, servers have their schema |
| 11 | `SearchPage` | `pipeline`, `page_widen` | what is shown was asked for, votes |

All of it is done: every safety property of a passing run, and both
refinements, are theorems.  What would come next: the preview panel and
`kiln-url-state.js` beside `SearchPage`; the provider's `retry` as a module that
`Embedding` and the generator providers share; more of `Corpus`'s columns.

The modules interact only through facts each states at its boundary: the worker
treats the work on a run as one step with an outcome, the corpus models what
that work does and takes the fan-out as one step with any outcome, which
`Embedding` details; a context pack starts from whatever rows the corpus may
hold, and `SearchPage` takes a search as any set of matching cards.  No module
uses a RECURSIVE operator.

## 3. The modules

In every module one action is one stretch of code between two points at which
another process, transaction or request may act: an await, a lock, a COMMIT.  A
definition whose name starts with `Mut` is the next one with a plausible bug;
no specification uses it, it is there to show that the properties notice.

### IngestionWorker and JobLedger

`jobs[j]` and `runs[r]` are the committed rows; `pc`, `cur`, `rid`, `snap`,
`stop` are a worker process's memory.  `ClaimSelect`/`ClaimCommit` are
`claim_one` and `_tick`'s COMMIT; the selected row is locked in between and
SKIP LOCKED is `Claimable`.  `StartRun`, `FinishRun` are the two transactions
of `run_source` that touch the run row, `CommitDone` and `CommitFailed` the
settling transactions, which update by id alone as the code does.
`SweepList`/`SweepCommit` are `_recover_stale_running`; its updates take effect
together at its COMMIT.  `Raise` is any exception out of `_process`, `Cancel`
a cancellation of the task (an embedding caller's: `serve` turns signals into
the stop event), `Crash` the end of the process, which includes a `mark_failed`
that raises, a cancellation at any await outside `_process`, and an exception
that leaves `run_forever`.
After its COMMIT a success is not let go of at once: at `closing` the worker
still awaits the acknowledgement and the session's exit inside `_tick`'s `try`
(`worker.py:170-177`, `197-208`).  `Leave` is the normal end; a `Raise` or
`Cancel` there sends the worker through `CommitFailed`, over its own succeeded
row.

`Budget` bounds crashes, signals, cancellations and requeues; `Runs` bounds how
many runs can be started (a worker that finds none left can only fail, which
the code can do as well).  `stolen` is history: jobs a sweep rewrote although
somebody had them in hand or had settled them.

`JobLedger` is what an operator is told about a job: queued, running, settled,
given back after a crash.  Its `closing` are the successes whose settler has not
let go of them, the only ones that can be overturned; the refinement maps it to
the succeeded jobs that a worker still has in hand.  With one worker,
`IngestionWorker` implements it (`LedgerSpec`).

### Corpus

`chunk[d][i]` and `emb[d][i]` are the committed rows.  What a transaction has
written and not yet committed is in `plan` and `wrote`; the row locks that go
with it are `open` (document rows) and `Holds`, `Deletes` (vector rows).
`WaitsFor` is Postgres' lock graph, `DeadlockVictim` the one of the possible
failures (`Crash`) that its deadlock detector does bring about.
`UpsertDocument`, `IndexChunks` are `_process_file`, `Gather`, `CommitChunks`,
`Embed`, `WriteVectors` the embedding pass, `StartReembed` the other entry to
the same pass.  A hash is the text it is of (no collisions).  The provider may
fail for any subset of chunks, since a batch may be of one chunk.  A fetch is
one step: a clone is of one commit and a local walk does not yield.  `alone`
is history: no other call ran meanwhile.

### Idempotency

A key stands for a (key, route) pair, which is the primary key.  `table` holds
committed rows, `pending` uncommitted inserts, which block another insert of
the key.  `Respond` comes before `Commit` because the pinned FastAPI (0.136.1)
runs the exit code of a yield dependency, here `get_session`'s COMMIT, after
the response is sent.  An answer is named by the request whose handler
computed it.  `Crash` is per request, which covers several instances.  The
limiter's verdict is nondeterministic.  `delete_expired` has no caller and is
not modelled.

### RateLimiter

`order`, `tokens`, `last` are the buckets; tokens are counted in units of
1/window, so all arithmetic is exact where the code uses floats.  `hit` and
`retry_after` run without an await in between, so a refusal is one step.
`told` keeps what Retry-After promised.  An observer starts to count one
client's hits at any instant, and anew when the client gets a new bucket (an
evicted client starts with a full one).

### RegistryCache

Each SELECT sees the corpus of its own moment, so counts are named by the
corpus version they were taken from, one per dimension.  `Publish` stores the
payload with the `now` read when the request arrived.

### ContextPack and CitedOrSilent

One request for `/v1/search`, `/v1/agent/context-pack` or `/v1/answer`.
`Fetch` has three ways to go: `FetchHybrid` is the SELECT of `_hybrid.py` with
its two arms (`vec`, `fts`), the fusion and the final limit, `FetchFts` the
fallback without a provider, `FetchFails` a failing provider.  `Boost` and
`CollectWarnings` are the stages of `HybridRetriever.search` and
`build_context_pack`; `DropSensitive` and `KeepChunk` are the loop of
`trim_evidence_to_budget` over what the sensitive-content filter leaves, one
chunk a step; `Assemble` grades, flags and explains; `Decide`, `Generate`,
`GeneratorFails` are `synthesize_answer`.  Between `Boost` and
`CollectWarnings` there may be a `Midnight`, for each calls `date.today()`.

What the arms find, in which order, is nondeterministic: every ranking of every
subset up to the limits.  Scores are exact integers, `One` being the code's 1.0:
the weights, the freshness factor and the reciprocal ranks are brought to a
common denominator.  A query is one of four outcomes of the normalisation
(blank, markers only, stripped, unchanged).  A chunk carries what the screening
stored about it, tokens are the count of its text.

Left out: filters, HyDE, warnings' wording and de-duplication, the second
estimate of tokens, inline markers, related sources.  `stale_after_days` and
`isolated_match_drop_threshold` are taken as set (either can be switched off).
A chunk always has its document, for the SELECT joins it, so the branch for
evidence without a document is never taken.

`CitedOrSilent` is what an agent may rely on: evidence is fixed before the
generator is asked, has nothing in it that must not be quoted, and an answer
is given only on evidence that needs no human.

### Auth

One request at a time per browser or client, split at its three calls to the
issuer.  `Configure` is `create_app`'s choice of middleware and its refusals,
one deployment's settings for all instances.  `Discover`, `BeginLogin`,
`Exchange`, `Verify`, `EndLogout` are what follows an await; `IssuerDown` is
any of the calls failing.  `secret[i]` is what cookies are signed with (a fresh
one per start unless it is configured), `discovered[i]`, `jwks[i]` the cached
documents, `state` and `session` the browsers' cookies.  `Restart` loses the
memory of an instance, `Rotate` gives the issuer a new key, `Tick` is time.

A callback may come before its login has a code (the issuer's redirect then
carries an error) and is refused; a token whose key is not in the set may be
answered 401 or 500 (`Rejections`), for the handler of `jwt.decode` catches one
family of exceptions.

A login stands for its state value, PKCE verifier and code.  The issuer signs
what is so about the user (`standing`: a member, an outsider of the required
groups, or a token for somebody else).  A request that is answered at once
changes nothing, so `AtOnce` is its answer, and the invariants ask it for every
request that could arrive in a state; only those that await are steps.

### Fetch

A fetcher is a thread in `fetch_source`.  `WalkFile` is one file of `_walk`, by
the first test it fails (`SkipReasons`), then the two caps; `Guard`, `Pin`,
`GetNothing`, `GetRedirect`, `GetBody` are one hop of the HTTP connector: the
host guard and the reading of the resolver, the lock and the pin, the request
and what it puts back.  A file is its size and the marks of the tests it fails.
`Wanted` is what a walk would have to take of a tree, as the places of the
files that pass every test; the caps are stated with it, not with the code's
counters.  `tempdir` is the clone's directory, `resolver` `socket.getaddrinfo` as a stack
of pins.  An exception the code does not catch ends the fetch (`failed`): in a
request, a file that cannot be measured or read (`FileFails`), a configured URL
that does not parse (`UrlFails`).

### Chunking

`CheckFrontmatter`, then three passes in order: `SkipBlank`, `TakeBlock` (the
line scanner, one block a step), `StartSection`, `ExtendSection` (grouping),
`WholeSection`, `SplitSection`, `PackBlock` (packing).  `OpenFences` is the
stack of fence openers after each line.  A line is what the regular expressions
tell apart and its number of tokens; `Glue` is what the blank line between
joined blocks costs.  `PackedTokens` is the packer's counter, which leaves these
joins out, `TextTokens` the chunk's text, which has them: the cap is stated of
the text.  `Ancestors` are the headings a block stands under, from the headings
alone, and the path is compared with them in every file, those that skip a
level included.  Sections and chunks
are ranges of blocks, so that "no text is lost" compares ranges.  The documents
are any sequences of such lines; a heading has a level from 1 on, as the
regular expression has it (`DocumentsAssumption`).

### Embedding

`Admit`, `Request`, `RequestFails`, `RequestRefused`, `RequestAnswered` are a
batch in the HTTP provider with its retries, `EnsureLoaded`, `EndLoad`,
`Encode` a batch in the local one, `Collect` the gathering.  A text's vector is
its number; an answer is any list of items that name slots by index, right or
wrong in number and in dimensions.  `Hole` and `Stray` are what
`_parse_vectors` leaves in a slot nobody named, and what an item for no text
of the batch puts in.

### HydeCache

`CacheMiss`, `CacheHit`, `Skip` are `expand` up to the await of the generator,
`Generated` and `Degrade` the rest.  `cached` is the `OrderedDict` as a
sequence, `Place` the
entry of a key and `Without` its removal; a text is
named by the search whose generator call returned it.  A query carries its
cache key and what the gate counts, for two spellings with one key may be judged
differently.

### Startup

An instance is an API process or a worker, with what it finds in its
environment.  `Lock`, `ReadVersion`, `Upgrade`, `MigrationFails` are
`run_migrations` and `env.py` (advisory lock, version, one transaction);
`Build`, `BuildFails` the clients from `models.yaml` and `security.yaml`,
`Probe` and `Configure` what the readiness route later says, `Stop` a crash or
a stop by the platform.  `ambient` is what of its surroundings a process has as
alembic and its `env.py` set it
(`Ambient`: the URL variable, the cached settings, which loggers are disabled,
the root logger's handlers and level); the `finally` of `run_upgrade_head_sync`
puts back `PutBack`, which is all of it but the last.  `MaxStarts` bounds restarts.

### SearchPage

The browser's half: the form, one request in flight and one queued per form
(htmx's `sync`), the widening forms of a fragment beside them.  The server's
half: `PostFound` and its refusals are `POST /search`, `GetFound` and its
refusals the page of a link, `EndSearch` the COMMIT or rollback that follows
the answer, `Vote`, `InsertVote`, `EndVote` `POST /feedback` with its two
foreign keys, `Reingest` a re-ingestion that removes a chunk.  `Swapped` is the
list of statuses `beforeSwap` lets replace `#results`.  A fragment keeps the
request it answers, so that the properties compare what is shown with what was
asked.

### MCProcess, MCPipeline, MCIndexing

Each composes modules that share neither state nor clock, so an interleaving of
their steps shows nothing that one of them alone does not: `focus` picks the one
that moves in a behaviour, the others are held at one initial state, and all of
them are checked in one run.

* **MCProcess**: limiter, registry, HyDE, replay, start-up.  Clients, requests,
  askers and instances are drawn from one set of model values, so that one
  group of permutations serves all.
* **MCPipeline**: fetching, chunking, packing (a search, a pack or an answer),
  showing.
* **MCIndexing**: the calls that write the corpus, and the fan-out one of them
  awaits.  To `Corpus` the fan-out is one step with any outcome.

## 4. The runs

| Run | Question | Bounds, and why they suffice |
|---|---|---|
| `worker_single` | does one worker implement the ledger and settle every job? | two jobs (one whose payload is refused), two crashes, one of each other fault: every pair of faults in one job's life |
| `worker_pair` | what do two workers on one queue guarantee? | two jobs, four runs, one crash: a claim race needs two workers, a steal a third start |
| `corpus_edit` | what does a run leave behind when its file changes and another call runs? | one path, two chunks, six versions, two models, two calls |
| `indexing` | do lock waits end, does the fan-out return, and with what in its slots? | two documents, two calls: the smallest cycle; five texts in batches of two (the last one short), two batches at a time, one of them at the provider, one retry: each limit makes a batch wait, each may be the one to fail |
| `process` | what does a process promise of the state that lives and dies with it? | limiter: three clients on two buckets forces eviction, capacity 2 in a window of 3 so that rounding bites; registry: three readers of two dimensions around one ingest; HyDE: four searches among five queries of three keys on a cache of two, time to live 1; replay: three requests on one key (winner, loser, retry), two bodies for the conflict, expiry within reach; start-up: two instances of seven deployments, two revisions, each started up to twice |
| `pipeline` | what becomes of text between its source and a reader? | fetching: trees of up to four files of sizes below, at and above a cap of 3 (2 files, 3 bytes in all), three URLs on two hosts, three hops; chunking: every body of five lines of headings and text, of four lines of every kind and of six lines of nested fences, with a limit of 3 tokens; packing: four chunks of two documents with a limit of three, so that the SELECT, the trim and the budget each cut, a document on the edge of the stale window, one past it, unreviewed, draft and retired ones, each flag on a chunk that is kept, trimmed or gated, three full-text scores on either side of the thresholds, `rrf_k` and weights the defaults; page: two cards of different status of which one is in the repository of the rail, two searches |
| `auth` | who is let in, until when, and does a login succeed? | one instance, two browsers, two logins, two requests that await the issuer at a time, four of them in all, one restart or rotation, seven deployments over all modes; times to live of 0 and one tick, so that each of them is reached and passed |
| `worker_double`, `worker_redo`, `corpus_embed_pass`, `replay_winner`, `page_widen` | statements of the documentation that the code does not keep | the smallest instance that shows it; see section 6 |

Every property of a passing run has a mutant in `PROJECT.json`: a plausible bug
in one definition that makes TLC find the property violated under the same
bounds.

Fairness is assumed in three places.  `worker_single`: a worker that can take a
step does (the event loop keeps running and the platform restarts a dead
process); enqueuing, faults and operators need not happen.  `indexing`,
calls: a call that can go on does (the provider answers or its
client times out), and Postgres resolves a deadlock.  `indexing`, fan-out: some
step is taken while one can be (requests end by their timeouts, sleeps and
loads end); which batch takes it is left open, for no batch can take infinitely
many.  Deadlock checking is off only where a bounded clock or a finite set of
requests lets the model come to rest: `process`, `pipeline`, `auth`,
`replay_winner` and `page_widen`.

## 5. The proofs

Each `*Proofs` module has the inductive invariant, one step per action, and
the properties that follow from it.

* **IngestionWorkerProofs**: `WorkerInv`.  `SucceededHasFinishedRun` is not
  inductive: it needs that every result written or remembered by a sweep names
  an ended run of the same job, and that a worker's run in hand is its own.
  `ExclusiveUnlessStolen` needs that a job in hand, unless stolen, is running;
  more exactly (`HeldRow`) running, or succeeded with the worker's own run while
  that worker is closing, failing or cancelled.  With that
  `SettlerAloneOverturns` goes through action by action: a sweep that rewrites a
  succeeded row has stolen it by the definition of `stolen`, and whoever else
  writes to it has it in hand, is on its way out of `_process` by an error or a
  cancellation, and writes `failed`.
  `OneWorkerKeepsTheLedger` is the refinement, for one worker (`OneWorker`, as
  deployed in `manifest.yml`; two do not implement the ledger, which is what
  `worker_double` is about).  It needs `NothingToSteal`: what a lone worker's
  sweep lists are orphans with the result they still have, so nothing is ever
  stolen.  A row may have a result although it runs, after an overturned success
  was requeued; the sweep then settles it by the run it names.
* **CorpusProofs**: `CorpusInv`.  `DocumentIsOneVersion` needs that document
  locks are exclusive and that what a transaction has written to an opened
  document is the whole of its file's version.  `CurrentHashMeansCurrentVector`
  follows from the stronger fact that a vector is always of the text its hash
  names.  `NoDocumentDeadlock` is by the order of paths.  `QuietRunSettles`
  needs `QuietInv`, which follows an undisturbed run through its stages: each
  document it could read is still to do or opened, then its rows in hand are
  exactly those whose vector differs, then each of these has a vector to be
  written and all others are current.
* **IdempotencyProofs**: `ReplayInv`: who wrote each row, and that a pending
  insert means an absent row; from it the five promises.
* **ProcessProofs**: `LimiterInv`: allowed hits plus tokens left never exceed a
  full bucket plus what has been refilled; nonlinear steps are cut into
  products that the prover names.  `RegistryInv`: what is cached was right at
  `built_at` and later.  `StartupInv`: whoever is between lock and commit holds
  the lock, and what it has read of the version is still so; so the next
  revision is applied by one instance, from the one before it.  What a serving
  instance has at hand follows from what each stage has opened, and of its
  surroundings only the root logger's handlers and level may still be alembic's.
  `HydeInv`: the
  store holds a key once and no more than its limit, each entry is filed under
  the key its text was made for and at the time it was stored, and a search
  waits for the generator only if the gate let it through.
* **ContextPackProofs**: `PackInv`, one conjunct per stage.  Scores stay
  fractions because a reciprocal rank never exceeds that of rank one and no
  boost exceeds 1; `HighIsEarned` because one arm alone stays at half of that,
  which the provers are shown as products.  `PenaltiesAreDisclosed` needs that
  the day of the boosts is not after the day of the warnings.  The budget needs
  that whatever the loop has passed is evidence or sensitive.
  `StrongInjectionSilences` is the chain from the gate through the warning and
  the review flag to the refusal.  `ContextPackIsCited` shows the refinement
  step by step.
* **AuthProofs**: `AuthInv`: a cookie belongs to a login begun in the browser
  that has it, a session to a login whose token the issuer signed for a member
  and that was in force when the session was made, and a request in flight is
  where its cookies allow.  Then who is let in, how long, and whose code is
  spent.  `QuietLoginSucceeds` needs `FairInv` beside it: a configured secret
  signs every cookie; the issuer's word comes after the login began; while a
  login is quiet there has been one key, its browser keeps its state cookie
  until the code is spent, and its callback is the only request of the login and
  has the code to itself.
* **IntakeProofs**: `FetchInv`: every item before the current one is on one of
  the two lists, once; `NothingLeftBehind` by `PinInv`, for the fetches of one
  thread, which is how the worker runs them.  With two threads it does not
  hold: the second may read the first one's pin as the resolver to put back.
  `CapsInv`: the files a walk has returned are, in number and bytes, those it
  would have to take of the items so far, which makes the caps exact.
  `ChunkingInv` has one part per pass of the parser.  Scanner: every line that
  is not blank and lies behind the place reached is in a block, blocks do not
  overlap, a code block ends where its fences balance.  Grouping: sections are
  in order, every block is in one or is a heading without a body, and the stack
  of headings holds every ancestor of the current block in order, each entry
  until a heading no deeper than its place comes; an entry that is no ancestor is
  there only if a level is skipped above the block.  Packing: chunks are in
  order and within sections, the blocks of a chunk fit the limit or are one, so
  that its text exceeds the limit by its joins at most, and two chunks of a
  section meet where the next block did not fit.  The four properties of
  `Chunking` follow.
* **PipelineProofs**: `EmbeddingInv`: a batch that is done and whose answer
  named each slot once has each text's vector in its slot, a text lies in one
  batch (lemmas about `\div`), and who loads the model still waits for it.
  `PageInv`: a request's number is its own, a row that is there keeps its cards,
  and a fragment that offers to vote has its row; with it `OnlyWhatWasAsked` and
  `FeedbackIsAboutItsSearch`.

The inductive invariants of the parser, of quiet runs and of quiet logins were
checked by TLC on the instances of the runs before they were proved.

Induction over data.  `Sum`, the fences open after each line and the tokens of a
run of blocks are recursive functions, and a theorem about them has to go by
induction.  The library's induction theorems take an operator as their
parameter, which the provers cannot instantiate.  `IntakeProofs` therefore
begins with first-order forms of them: a set of numbers that has one has a least
(`LeastNumber`, from the well-foundedness of the naturals); a set that holds the
bottom of an interval and the successor of each of its members holds the whole
of it (`Climb`); and a recursion over an interval has a solution (`Recursion`), so
that the function defined by it satisfies its equation.  A property is then given
as the set of numbers that have it.

Assumed are only the named ASSUMEs on constants, and `OneThread` and
`OneWorker` where a theorem says so.  Model-checked only is liveness
(`EventuallySettled`, `EveryCallEnds`, `FanOutReturns`), which is out of the
prover's reach.

## 6. Where code and documentation disagree

The violation runs and the findings in `PROJECT.json` show: a starting worker
requeues jobs that live workers hold (`worker_double`); a crash between the two
commits redoes durable work that the docstring says is recognised
(`worker_redo`); a chunk deleted during the wait loses the whole embedding pass
(`corpus_embed_pass`); the loser of a race for a key is told something else on
retry (`replay_winner`); widening a search that had every status unticked drops
the repository the user had set (`page_widen`).

Seen while modelling, with no run of their own.  Ingestion and corpus:

* a cancellation, a lost acknowledgement or a session that fails to close after
  the settling COMMIT (`ingestion/worker.py:197-208`, inside the `try` of
  170-177) writes `failed` over the job's own succeeded row, and the run's work
  stands; the row keeps its `result_run_id`, so that after a requeue and a crash
  the sweep may settle it by that older run.  The model has these steps
  (`closing`), and `SettlerAloneOverturns` is what is left of "a success is
  final";
* below a skipped level the heading path keeps siblings: H1, H3, H3 gives the
  last section the path of all three (`ingestion/chunking.py:249` cuts the stack
  by its length, not by the levels in it), against "the chain of headings from
  the document root to the current section" (lines 12-14).
  `HeadingPathIsAncestry` says exactly which entries may be no ancestors;
* a chunk packed from several blocks may exceed the cap by its joins and is
  recorded without them (`ingestion/chunking.py:286` and `292`; `283-285` count
  the blocks alone), against lines 17-22.  `ChunksFillTheCap` bounds the excess
  by the joins;
* a chunk whose text is unchanged keeps the heading path of an earlier version
  of its file (`ingestion/_file_processing.py:355`, for the hash covers the text
  only), against `docs/agent-integration-guide.md:374`;
* `reembed.py:88` raises with vectors in hand when a chunk vanished;
* the title "falls back to the first H1" (`ingestion/chunking.py:95`), but an H1
  with no body of its own is in no section, so the next one is taken;
* a heading may be packed alone (`ingestion/chunking.py:277-279` says they go
  with the next batch) when the block after it does not fit beside it;
* an answer of the embedding server that names an index twice leaves an empty
  vector in another slot (`openai_compatible.py:186`), and a negative index
  counts from the end: `SlotsHoldOwnVectors` is about answers that name each
  text once;
* `pin_dns` reads the resolver it will put back before it takes its lock
  (`ingestion/ssrf.py:182`): with two fetching threads one pin may stay for good;
* a redirect whose `Location` httpx cannot parse raises out of the connector and
  fails the whole source, where other bad redirects skip the URL;
* an HTTP document's path leaves the query string out, so two URLs of a source
  may be one document;
* the vector arm filters by dimensions, not by model.

API:

* the registry cache knows its age only (`api/registry.py:114`), so a re-fetch
  after an ingestion run may be served the counts from before it, against
  `retrieval/types.py:518-525` ("keyed on the ingestion-version bump");
* a replay takes a rate-limit token (`api/retrieval.py:86` against
  `api/idempotency.py:14-16`);
* an expired row blocks every later store under its key
  (`db/repositories/idempotency.py:142` against `api/idempotency.py:200-202`);
* the comment at `rate_limit.py:42-44` speaks of one free token where eviction
  gives a full bucket;
* `retrieval/warning_policy.py:44-46` and the severities of `retrieval/types.py`
  speak of injection-flagged chunks as blocked; only sensitive ones are dropped
  from a pack, a flagged chunk is evidence under review;
* a sensitive chunk does take a slot: the engine cuts to `max_chunks` before the
  filter of `agent/serializers.py:239`, and outside the warning gate its warning
  has not been emitted (the explicit term at line 269 catches it);
* an `isolated_match` asks for a review without giving a reason, and the reason
  "top score below" uses the module's threshold (`agent/serializers.py:438`)
  where the flag uses the configured one: "if a review_reason exists, the flag
  must agree" (lines 267-268) fails when the configured one is lower;
* without a provider scores are not fractions, so "high" does not need two arms;
* the issuer's keys are read once per process (`api/auth.py:487`), so after a
  rotation new tokens are refused until a restart; metadata is read on first
  use, not "at startup" (`config/settings.py:136`);
* `KILN_OIDC_AUDIENCE` also applies to the login's id_token (`api/auth.py:592`),
  whose audience is the client;
* a callback's response deletes the state cookie of a login that was begun in the
  browser meanwhile, so one of two overlapping logins is lost;
* a token whose key is not in the issuer's set may be answered 500 instead of
  401: `api/auth.py:574` catches `JoseError` only, and the key lookup may raise
  something else;
* an old release that starts after a newer one has migrated refuses to start;
* after a migration at start-up the root logger keeps alembic's handlers and
  level (`alembic/env.py:27`; `db/migrations.py:113-120` and `152-158` restore
  the URL, the settings and `disabled` only), against "doesn't leak alembic's
  fileConfig side effects into the rest of the process" (lines 126-129): the
  worker's INFO log, set up at `ingestion/cli.py:195`, falls silent;
* a configuration file that cannot be used raises after the pool was opened and
  leaves it open (`api/app.py`); an API without a database URL starts degraded.

Search page:

* 413 is not among the statuses `beforeSwap` lets through
  (`kiln-app.js:147-164` speaks of the 4xx and 5xx range), so after an over-long
  query, as after a network error, `#results` stays as it was and the status
  line says "Searching…";
* with every status unticked a URL carries no `status` at all, and what a
  widening shows never reaches the URL, so a copied link shows something else,
  against `web_url_state.py:95-98`;
* the feedback widget is rendered before the search's COMMIT, against
  `_results.html:374-375` ("only renders when query_id was persisted");
* a widening runs beside the search form's request, and the older answer may
  come last and stay;
* the comment at `forms.py:107-110` holds for forms only: a POST that names only
  unknown statuses is not constrained by status.

## 7. Not modelled

Status and note of each component are in `PROJECT.json`.  Left out for good:
rendering, logging, the parsing of configuration, pure text and URL checks, the
evaluation harness, scripts, and the rankings computed inside Postgres and the
embedding models.

Left out of modelled components: document metadata columns and the security
markers on chunks (`Corpus`); repository methods nothing calls; filters and the
effect of a pseudo document on the vector arm (`ContextPack`; the page's
filters are in `SearchPage`); the generator's retries, which are the embedding
provider's loop and enter by their outcome; the order of shutdown (`Startup`);
the preview panel, `kiln-url-state.js`, the rail's count, the split of warnings
and highlighting (`SearchPage`).

Bounds of a model rather than of the code: one widening request and one vote
under way at a time (`SearchPage`), one thread that fetches in the run of
`Fetch`, requests in flight in `Auth`, starts in `Startup`, and the clocks.
