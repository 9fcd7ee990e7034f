------------------------------ MODULE Embedding ------------------------------
(* embed_chunks_concurrently and the providers it calls.  The texts of a    *)
(* run are cut into batches that run together, at most Concurrency at a     *)
(* time; the HTTP provider admits ProviderLimit of them and retries each    *)
(* request; the local provider loads its model on first use, under a lock,  *)
(* in a thread.  One batch that fails leaves the others alone.              *)
(*                                                                          *)
(* A definition whose name starts with Mut is the definition after it with  *)
(* a plausible bug; the properties are shown to catch it.                   *)
EXTENDS Integers, Sequences, FiniteSets

CONSTANTS TextCount,      \* how many texts are embedded
          BatchSize,
          Concurrency,    \* settings.ingest_embed_concurrency
          ProviderLimit,  \* OpenAICompatibleEmbeddingProvider: concurrency
          MaxRetries

ASSUME EmbeddingAssumption ==
  /\ {TextCount, BatchSize, Concurrency, ProviderLimit} \subseteq Nat \ {0}
  /\ MaxRetries \in Nat

(* What a slot of the result holds: the vector of a text is its number.     *)
Unfilled == 0
Hole == -1     \* the empty list _parse_vectors starts from
Stray == -2    \* the vector of an item that names no text of the batch

Batches == 0 .. ((TextCount - 1) \div BatchSize)
First(b) == b * BatchSize + 1
Size(b) == IF First(b) + BatchSize - 1 <= TextCount THEN BatchSize ELSE TextCount - First(b) + 1
BatchOf(i) == (i - 1) \div BatchSize

VARIABLES provider,   \* "http" or "local"
          step,       \* where each batch is
          attempts,   \* the requests a batch has made
          answer,     \* the items of the answer a batch was given
          out,        \* BatchResults.vectors
          failures,   \* the batches reported in BatchResults.failures
          returned,   \* the call is over
          encoder,    \* the model is loaded
          loading     \* the batch that holds _load_lock

embedding == <<provider, step, attempts, answer, out, failures, returned, encoder, loading>>

At(steps) == {b \in Batches : step[b] \in steps}
Ended == {"done", "failed"}
(* Batches inside the fan-out's semaphore, and inside the provider's, which *)
(* is held while a request backs off.                                       *)
Admitted == At({"waiting", "posting", "backoff", "load", "encode"})
Requesting == At({"posting", "backoff"})
(* asyncio.Semaphore serves its waiters in the order they came.             *)
FirstOf(steps, b) == b \in At(steps) /\ \A c \in At(steps) : b <= c
Move(b, s) == step' = [step EXCEPT ![b] = s]
NoBatch == -1

EmbeddingInit ==
  /\ provider \in {"http", "local"}
  /\ step = [b \in Batches |-> "queued"]
  /\ attempts = [b \in Batches |-> 0]
  /\ answer = [b \in Batches |-> <<>>]
  /\ out = [i \in 1 .. TextCount |-> Unfilled]
  /\ failures = {} /\ returned = FALSE
  /\ encoder = FALSE /\ loading = NoBatch

Admit(b) ==
  /\ FirstOf({"queued"}, b) /\ Cardinality(Admitted) < Concurrency
  /\ Move(b, IF provider = "http" THEN "waiting" ELSE "load")
  /\ UNCHANGED <<provider, attempts, answer, out, failures, returned, encoder, loading>>

-------------------------------------------------------------------------------
(* OpenAICompatibleEmbeddingProvider.                                       *)
MutCount(b) == attempts' = [attempts EXCEPT ![b] = 1]
Count(b) == attempts' = [attempts EXCEPT ![b] = @ + 1]

Request(b) ==
  /\ \/ FirstOf({"waiting"}, b) /\ Cardinality(Requesting) < ProviderLimit
     \/ step[b] = "backoff"
  /\ Move(b, "posting") /\ Count(b)
  /\ UNCHANGED <<provider, answer, out, failures, returned, encoder, loading>>

(* A transport error or a retryable status: again, unless the attempts are  *)
(* spent.                                                                   *)
AfterFailure(b) == IF attempts[b] = MaxRetries + 1 THEN "failed" ELSE "backoff"
RequestFails(b) ==
  /\ step[b] = "posting"
  /\ Move(b, AfterFailure(b))
  /\ UNCHANGED <<provider, attempts, answer, out, failures, returned, encoder, loading>>

(* Any other status: no retry.                                              *)
RequestRefused(b) ==
  /\ step[b] = "posting"
  /\ answer' = [answer EXCEPT ![b] = <<[index |-> 0, fits |-> FALSE]>>]
  /\ Move(b, "failed")
  /\ UNCHANGED <<provider, attempts, out, failures, returned, encoder, loading>>

(* _parse_vectors.  An item names its slot, from the end when negative, and *)
(* may have the wrong number of dimensions.                                 *)
AnswerItems(n) == [index : -1 .. n, fits : {TRUE}]
WrongCount(n) == [k \in 1 .. (n + 1) |-> [index |-> 0, fits |-> TRUE]]
WrongDimensions(n) == [k \in 1 .. n |-> [index |-> k - 1, fits |-> FALSE]]
Answers(n) == [1 .. n -> AnswerItems(n)] \cup {WrongCount(n), WrongDimensions(n)}
Slot(item, n) == IF item.index < 0 THEN item.index + n ELSE item.index
Parses(items, n) ==
  /\ Len(items) = n
  /\ \A k \in 1 .. n : items[k].fits /\ Slot(items[k], n) \in 0 .. (n - 1)
Named(items, n, slot) == {k \in 1 .. n : Slot(items[k], n) = slot}
MutParsed(items, n, slot) == IF items[slot + 1].index < 0 THEN Stray ELSE items[slot + 1].index
Parsed(items, n, slot) ==
  LET named == Named(items, n, slot)
  IN IF named = {} THEN Hole
     ELSE IF \E k \in named : items[k].index < 0 /\ \A j \in named : j <= k THEN Stray
     ELSE slot

(* vectors: of the texts of the batch, from its slot 0 on.                  *)
Fill(b, vectors) ==
  out' = [i \in 1 .. TextCount |-> IF BatchOf(i) = b THEN vectors[i - First(b)] ELSE out[i]]

RequestAnswered(b) ==
  /\ step[b] = "posting"
  /\ \E items \in Answers(Size(b)) :
       /\ answer' = [answer EXCEPT ![b] = items]
       /\ \/ /\ Parses(items, Size(b))
             /\ Fill(b, [slot \in 0 .. (Size(b) - 1) |->
                           LET v == Parsed(items, Size(b), slot)
                           IN IF v < 0 THEN v ELSE First(b) + v])
             /\ Move(b, "done")
          \/ /\ ~Parses(items, Size(b))
             /\ Move(b, "failed") /\ UNCHANGED out
  /\ UNCHANGED <<provider, attempts, failures, returned, encoder, loading>>

-------------------------------------------------------------------------------
(* LocalSentenceTransformersProvider.                                       *)
(* _ensure_loaded: the model is there, or the lock is taken to load it; the *)
(* first of those that wait for it, the others look again.                  *)
EnsureLoaded(b) ==
  /\ step[b] = "load"
  /\ \/ encoder /\ Move(b, "encode") /\ UNCHANGED loading
     \/ ~encoder /\ loading = NoBatch /\ FirstOf({"load"}, b)
        /\ loading' = b /\ UNCHANGED step
  /\ UNCHANGED <<provider, attempts, answer, out, failures, returned, encoder>>

EndLoad ==
  /\ loading # NoBatch
  /\ loading' = NoBatch
  /\ \/ encoder' = TRUE /\ Move(loading, "encode")
     \/ UNCHANGED encoder /\ Move(loading, "failed")
  /\ UNCHANGED <<provider, attempts, answer, out, failures, returned>>

(* encode gives one vector for each text, of the wrong dimensions when the  *)
(* configuration names another model's.                                     *)
Encode(b) ==
  /\ step[b] = "encode"
  /\ \/ Fill(b, [slot \in 0 .. (Size(b) - 1) |-> First(b) + slot]) /\ Move(b, "done")
     \/ Move(b, "failed") /\ UNCHANGED out
  /\ UNCHANGED <<provider, attempts, answer, failures, returned, encoder, loading>>

-------------------------------------------------------------------------------
(* gather returns once every batch has ended; _collect_failures.            *)
Collect ==
  /\ ~returned /\ At(Ended) = Batches
  /\ returned' = TRUE
  /\ failures' = At({"failed"})
  /\ out' = [i \in 1 .. TextCount |-> IF BatchOf(i) \in At({"failed"}) THEN Unfilled ELSE out[i]]
  /\ UNCHANGED <<provider, step, attempts, answer, encoder, loading>>

EmbeddingNext ==
  \/ \E b \in Batches :
       Admit(b) \/ Request(b) \/ RequestFails(b) \/ RequestRefused(b) \/ RequestAnswered(b)
       \/ EnsureLoaded(b) \/ Encode(b)
  \/ EndLoad \/ Collect

(* Each wait ends: a request by the client's timeout, a back-off by its     *)
(* sleep, a load or an encoding by returning or raising.                    *)
EmbeddingSpec == EmbeddingInit /\ [][EmbeddingNext]_embedding /\ WF_embedding(EmbeddingNext)

-------------------------------------------------------------------------------
(* Properties.                                                              *)
(* The answer of a batch names each of its texts once.                      *)
Names(b) == {answer[b][k].index : k \in 1 .. Len(answer[b])}
NamesEachOnce(b) == provider = "local" \/ Names(b) = 0 .. (Size(b) - 1)

(* BatchResults (batched.py:48-58): whatever order the batches end in and   *)
(* the server lists the vectors in, a slot holds the vector of its own text *)
(* or, when its batch is among the failures, none.                          *)
SlotsHoldOwnVectors ==
  returned =>
    \A i \in 1 .. TextCount :
      IF BatchOf(i) \in failures THEN out[i] = Unfilled
      ELSE NamesEachOnce(BatchOf(i)) => out[i] = i
===============================================================================
