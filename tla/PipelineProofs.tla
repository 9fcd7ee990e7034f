--------------------------- MODULE PipelineProofs ---------------------------
(***************************************************************************)
(* Where the vectors of a fan-out end up, for any number of texts, sizes   *)
(* of batches and limits; and what the search page shows and records, for  *)
(* any corpus and any number of searches.                                  *)
(***************************************************************************)
EXTENDS Embedding, SearchPage, TLAPS

----------------------------------------------------------------------------
(* Embedding: where the vectors end up.                                    *)

(* What an integer quotient is between.                                    *)
LEMMA Division ==
  ASSUME NEW a \in Nat, NEW n \in Nat \ {0}
  PROVE  /\ a \div n \in Nat
         /\ (a \div n) * n <= a
         /\ a < (a \div n) * n + n
OBVIOUS

(* A smaller number is in no later a batch.                                *)
LEMMA DivisionMonotone ==
  ASSUME NEW a \in Nat, NEW c \in Nat, NEW n \in Nat \ {0}, a <= c
  PROVE  a \div n <= c \div n
<1> DEFINE x == a \div n  y == c \div n
<1>1. x \in Nat /\ y \in Nat /\ x * n <= a /\ c < y * n + n
  BY Division
<1> HIDE DEF x, y
<1>2. x * n < (y + 1) * n
  BY <1>1
<1>3. x < y + 1
  BY <1>1, <1>2
<1> QED  BY <1>1, <1>3 DEF x, y

(* The place of a text in its batch.                                       *)
LEMMA PlaceInBatch ==
  ASSUME NEW i \in 1 .. TextCount
  PROVE  /\ BatchOf(i) \in Batches
         /\ Size(BatchOf(i)) \in Nat
         /\ i - First(BatchOf(i)) \in 0 .. (Size(BatchOf(i)) - 1)
         /\ First(BatchOf(i)) \in Int
<1> DEFINE b == BatchOf(i)
<1>1. TextCount \in Nat \ {0} /\ BatchSize \in Nat \ {0}
  BY EmbeddingAssumption
<1>2. i - 1 \in Nat /\ TextCount - 1 \in Nat /\ i - 1 <= TextCount - 1 /\ i <= TextCount
  BY <1>1
<1>3. b \in Nat /\ b * BatchSize <= i - 1 /\ i - 1 < b * BatchSize + BatchSize
  BY <1>1, <1>2, Division DEF BatchOf
<1>4. b \in Batches
  <2>1. b <= (TextCount - 1) \div BatchSize
    BY <1>1, <1>2, DivisionMonotone DEF BatchOf
  <2>2. (TextCount - 1) \div BatchSize \in Nat
    BY <1>1, <1>2, Division
  <2> QED  BY <1>3, <2>1, <2>2 DEF Batches
<1> HIDE DEF b
<1>5. b * BatchSize \in Nat
  BY <1>1, <1>3
<1> DEFINE m == b * BatchSize
<1>6. First(b) = m + 1
  BY DEF First
<1>7. m \in Nat /\ m <= i - 1 /\ i - 1 < m + BatchSize
  BY <1>3, <1>5
<1> HIDE DEF m
<1>8. /\ Size(b) \in Nat /\ i - First(b) \in 0 .. (Size(b) - 1) /\ First(b) \in Int
  BY <1>1, <1>2, <1>6, <1>7 DEF Size
<1> QED  BY <1>4, <1>8 DEF b

(* An answer that names every place of its batch once is read as it says.  *)
LEMMA ParsedAsNamed ==
  ASSUME NEW n \in Nat, NEW items, Len(items) = n,
         {items[k].index : k \in 1 .. n} = 0 .. (n - 1),
         NEW slot \in 0 .. (n - 1)
  PROVE  Parsed(items, n, slot) = slot
<1>1. \A k \in 1 .. n : items[k].index \in 0 .. (n - 1)
  OBVIOUS
<1>2. \A k \in 1 .. n : Slot(items[k], n) = items[k].index
  BY <1>1 DEF Slot
<1>3. PICK j \in 1 .. n : items[j].index = slot
  OBVIOUS
<1>4. j \in Named(items, n, slot)
  BY <1>2, <1>3 DEF Named
<1>5. \A k \in Named(items, n, slot) : ~(items[k].index < 0)
  BY <1>1 DEF Named
<1> QED  BY <1>4, <1>5 DEF Parsed

Steps == {"queued", "waiting", "posting", "backoff", "load", "encode"} \cup Ended
Texts == 1 .. TextCount

EmbeddingType ==
  /\ provider \in {"http", "local"}
  /\ step \in [Batches -> Steps]
  /\ answer = [b \in Batches |-> answer[b]]
  /\ out = [i \in Texts |-> out[i]]
  /\ returned \in BOOLEAN /\ encoder \in BOOLEAN
  /\ loading \in Batches \cup {NoBatch}

(* A batch that is done has filled its slots, if its answer named each.    *)
Filled(i) ==
  step[BatchOf(i)] = "done" /\ NamesEachOnce(BatchOf(i)) => out[i] = i
(* The local provider sends no request, so its batches do not end by one.  *)
NoRequests ==
  provider = "local" => \A b \in Batches : step[b] \notin {"waiting", "posting", "backoff"}
LoaderWaits == loading # NoBatch => step[loading] = "load" /\ ~encoder
(* Once the call is over nothing moves, and the failed slots are empty.    *)
Settled ==
  returned =>
    /\ \A b \in Batches : step[b] \in Ended
    /\ failures = At({"failed"})
    /\ \A i \in Texts : BatchOf(i) \in failures => out[i] = Unfilled

EmbeddingInv ==
  /\ EmbeddingType /\ NoRequests /\ LoaderWaits /\ Settled
  /\ \A i \in Texts : Filled(i)

(* A batch that goes on, and is neither done nor the last to end.          *)
LEMMA BatchMoves ==
  ASSUME EmbeddingInv, NEW b \in Batches, step[b] \notin Ended, NEW s \in Steps \ {"done"},
         Move(b, s), UNCHANGED <<provider, out, failures, returned>>,
         answer' = [c \in Batches |-> answer'[c]],
         \A c \in Batches \ {b} : answer'[c] = answer[c],
         encoder' \in BOOLEAN, loading' \in Batches \cup {NoBatch},
         provider = "local" => s \notin {"waiting", "posting", "backoff"},
         LoaderWaits'
  PROVE  EmbeddingInv'
<1>1. step' \in [Batches -> Steps] /\ step'[b] = s /\ \A c \in Batches \ {b} : step'[c] = step[c]
  BY DEF EmbeddingInv, EmbeddingType, Move
<1>2. EmbeddingType'
  BY <1>1 DEF EmbeddingInv, EmbeddingType
<1>3. NoRequests'
  BY <1>1 DEF EmbeddingInv, NoRequests
<1>4. Settled'
  BY DEF EmbeddingInv, Settled
<1>5. ASSUME NEW i \in Texts  PROVE Filled(i)'
  <2>1. BatchOf(i) \in Batches /\ Filled(i)
    BY PlaceInBatch DEF EmbeddingInv, Texts
  <2>2. CASE BatchOf(i) = b
    BY <1>1, <2>2 DEF Filled, BatchOf
  <2>3. CASE BatchOf(i) # b
    BY <1>1, <2>1, <2>3 DEF Filled, BatchOf, NamesEachOnce, Names, Size, First
  <2> QED  BY <2>2, <2>3
<1> QED  BY <1>2, <1>3, <1>4, <1>5 DEF EmbeddingInv

(* A batch that fills its slots, each with its own text's vector if its    *)
(* answer named them all.                                                  *)
LEMMA BatchFills ==
  ASSUME EmbeddingInv, NEW b \in Batches, step[b] \notin Ended, step[b] # "load",
         Move(b, "done"), UNCHANGED <<provider, failures, returned, encoder, loading>>,
         answer' = [c \in Batches |-> answer'[c]],
         \A c \in Batches \ {b} : answer'[c] = answer[c],
         out' = [i \in Texts |-> out'[i]],
         \A i \in Texts : BatchOf(i) # b => out'[i] = out[i],
         NamesEachOnce(b)' => \A i \in Texts : BatchOf(i) = b => out'[i] = i
  PROVE  EmbeddingInv'
<1>1. step' \in [Batches -> Steps] /\ step'[b] = "done"
      /\ \A c \in Batches \ {b} : step'[c] = step[c]
  BY DEF EmbeddingInv, EmbeddingType, Move, Steps, Ended
<1>2. EmbeddingType'
  BY <1>1 DEF EmbeddingInv, EmbeddingType
<1>3. NoRequests'
  BY <1>1 DEF EmbeddingInv, NoRequests
<1>4. LoaderWaits'
  BY <1>1 DEF EmbeddingInv, EmbeddingType, LoaderWaits, NoBatch
<1>5. Settled'
  BY DEF EmbeddingInv, Settled
<1>6. ASSUME NEW i \in Texts  PROVE Filled(i)'
  <2>1. BatchOf(i) \in Batches /\ Filled(i)
    BY PlaceInBatch DEF EmbeddingInv, Texts
  <2>2. CASE BatchOf(i) = b
    BY <2>2 DEF Filled, BatchOf
  <2>3. CASE BatchOf(i) # b
    BY <1>1, <2>1, <2>3 DEF Filled, BatchOf, NamesEachOnce, Names, Size, First
  <2> QED  BY <2>2, <2>3
<1> QED  BY <1>2, <1>3, <1>4, <1>5, <1>6 DEF EmbeddingInv

(* A fan-out begins with empty slots.                                      *)
LEMMA EmbeddingStarts == EmbeddingInit => EmbeddingInv
<1> SUFFICES ASSUME EmbeddingInit  PROVE EmbeddingInv
  OBVIOUS
<1>1. EmbeddingType
  BY DEF EmbeddingInit, EmbeddingType, Steps, Texts
<1>2. \A b \in Batches : step[b] = "queued"
  BY DEF EmbeddingInit
<1>3. NoRequests /\ LoaderWaits /\ Settled
  BY <1>2 DEF EmbeddingInit, NoRequests, LoaderWaits, Settled
<1>4. ASSUME NEW i \in Texts  PROVE Filled(i)
  BY <1>2, PlaceInBatch DEF Filled, Texts
<1> QED  BY <1>1, <1>3, <1>4 DEF EmbeddingInv

(* EmbeddingInv is inductive.                                              *)
LEMMA EmbeddingStepKeeps == EmbeddingInv /\ [EmbeddingNext]_embedding => EmbeddingInv'
<1> SUFFICES ASSUME EmbeddingInv, [EmbeddingNext]_embedding  PROVE EmbeddingInv'
  OBVIOUS
<1>0. EmbeddingType /\ NoRequests /\ LoaderWaits /\ Settled
  BY DEF EmbeddingInv
<1>1. ASSUME UNCHANGED embedding  PROVE EmbeddingInv'
  <2>1. /\ provider' = provider /\ step' = step /\ answer' = answer /\ out' = out
        /\ failures' = failures /\ returned' = returned /\ encoder' = encoder
        /\ loading' = loading
    BY <1>1 DEF embedding
  <2>2. EmbeddingType' /\ NoRequests' /\ LoaderWaits' /\ Settled'
    BY <1>0, <2>1 DEF EmbeddingType, NoRequests, LoaderWaits, Settled, At
  <2>3. ASSUME NEW i \in Texts  PROVE Filled(i)'
    <3>1. Filled(i)
      BY DEF EmbeddingInv
    <3> QED  BY <2>1, <3>1 DEF Filled, BatchOf, NamesEachOnce, Names, Size, First
  <2> QED  BY <2>2, <2>3 DEF EmbeddingInv
<1>2. ASSUME NEW b \in Batches,
             Admit(b) \/ Request(b) \/ RequestFails(b) \/ RequestRefused(b) \/ RequestAnswered(b)
             \/ EnsureLoaded(b) \/ Encode(b)
      PROVE  EmbeddingInv'
  <2>0. /\ answer = [c \in Batches |-> answer[c]] /\ encoder \in BOOLEAN
        /\ loading \in Batches \cup {NoBatch} /\ provider \in {"http", "local"}
        /\ provider = "local" => step[b] \notin {"waiting", "posting", "backoff"}
    BY <1>0 DEF EmbeddingType, NoRequests
  (* Another batch than the one that loads changes nothing for that one.   *)
  <2>1. ASSUME step[b] # "load", NEW s, Move(b, s), UNCHANGED <<encoder, loading>>
        PROVE  LoaderWaits'
    BY <1>0, <2>1 DEF LoaderWaits, EmbeddingType, Move, NoBatch
  <2>2. CASE Admit(b)
    <3>1. PICK s \in {"waiting", "load"} :
            Move(b, s) /\ (provider = "local" => s = "load")
      BY <2>0, <2>2 DEF Admit
    <3>2. step[b] = "queued" /\ UNCHANGED <<provider, answer, out, failures, returned, encoder, loading>>
      BY <2>2 DEF Admit, FirstOf, At
    <3>3. LoaderWaits'
      BY <2>1, <3>1, <3>2
    <3> QED  BY <2>0, <3>1, <3>2, <3>3, BatchMoves DEF Steps, Ended
  <2>3. CASE Request(b)
    <3>1. /\ step[b] \in {"waiting", "backoff"} /\ Move(b, "posting")
          /\ UNCHANGED <<provider, answer, out, failures, returned, encoder, loading>>
      BY <2>3 DEF Request, FirstOf, At
    <3>2. LoaderWaits'
      BY <2>1, <3>1
    <3> QED  BY <2>0, <3>1, <3>2, BatchMoves DEF Steps, Ended
  <2>4. CASE RequestFails(b)
    <3>1. PICK s \in {"failed", "backoff"} : Move(b, s)
      BY <2>4 DEF RequestFails, AfterFailure
    <3>2. /\ step[b] = "posting"
          /\ UNCHANGED <<provider, answer, out, failures, returned, encoder, loading>>
      BY <2>4 DEF RequestFails
    <3>3. LoaderWaits'
      BY <2>1, <3>1, <3>2
    <3> QED  BY <2>0, <3>1, <3>2, <3>3, BatchMoves DEF Steps, Ended
  <2>5. CASE RequestRefused(b)
    <3>1. /\ step[b] = "posting" /\ Move(b, "failed")
          /\ UNCHANGED <<provider, out, failures, returned, encoder, loading>>
      BY <2>5 DEF RequestRefused
    <3>2. /\ answer' = [c \in Batches |-> answer'[c]]
          /\ \A c \in Batches \ {b} : answer'[c] = answer[c]
      BY <2>0, <2>5 DEF RequestRefused
    <3>3. LoaderWaits'
      BY <2>1, <3>1
    <3> QED  BY <2>0, <3>1, <3>2, <3>3, BatchMoves DEF Steps, Ended
  <2>6. CASE RequestAnswered(b)
    <3>1. PICK items \in Answers(Size(b)) :
            /\ answer' = [answer EXCEPT ![b] = items]
            /\ \/ /\ Parses(items, Size(b))
                  /\ Fill(b, [slot \in 0 .. (Size(b) - 1) |->
                                LET v == Parsed(items, Size(b), slot)
                                IN IF v < 0 THEN v ELSE First(b) + v])
                  /\ Move(b, "done")
               \/ /\ ~Parses(items, Size(b))
                  /\ Move(b, "failed") /\ UNCHANGED out
      BY <2>6 DEF RequestAnswered
    <3>2. /\ step[b] = "posting"
          /\ UNCHANGED <<provider, failures, returned, encoder, loading>>
      BY <2>6 DEF RequestAnswered
    <3>3. /\ answer' = [c \in Batches |-> answer'[c]] /\ answer'[b] = items
          /\ \A c \in Batches \ {b} : answer'[c] = answer[c]
      BY <2>0, <3>1
    <3>4. CASE Move(b, "failed") /\ UNCHANGED out
      <4>1. LoaderWaits'
        BY <2>1, <3>2, <3>4
      <4> QED  BY <2>0, <3>2, <3>3, <3>4, <4>1, BatchMoves DEF Steps, Ended
    <3>5. CASE /\ Parses(items, Size(b)) /\ Move(b, "done")
               /\ Fill(b, [slot \in 0 .. (Size(b) - 1) |->
                             LET v == Parsed(items, Size(b), slot)
                             IN IF v < 0 THEN v ELSE First(b) + v])
      <4> DEFINE Vectors == [slot \in 0 .. (Size(b) - 1) |->
                               LET v == Parsed(items, Size(b), slot)
                               IN IF v < 0 THEN v ELSE First(b) + v]
      <4>1. out' = [i \in Texts |->
                      IF BatchOf(i) = b THEN Vectors[i - First(b)] ELSE out[i]]
        BY <3>5 DEF Fill, Texts
      <4>2. ASSUME NamesEachOnce(b)', NEW i \in Texts, BatchOf(i) = b
            PROVE  Vectors[i - First(b)] = i
        <5>1. i - First(b) \in 0 .. (Size(b) - 1) /\ Size(b) \in Nat /\ First(b) \in Int
          BY <4>2, PlaceInBatch DEF Texts
        <5>2. Len(items) = Size(b)
          BY <3>5 DEF Parses
        <5>3. provider' = "http"
          BY <2>0, <3>2
        <5>4. {items[k].index : k \in 1 .. Len(items)} = 0 .. (Size(b) - 1)
          BY <3>3, <4>2, <5>3 DEF NamesEachOnce, Names, Size, First
        <5>5. Parsed(items, Size(b), i - First(b)) = i - First(b)
          BY <5>1, <5>2, <5>4, ParsedAsNamed
        <5>6. i \in Int
          BY DEF Texts
        <5> QED  BY <5>1, <5>5, <5>6
      <4> HIDE DEF Vectors
      <4>3. /\ out' = [i \in Texts |-> out'[i]]
            /\ \A i \in Texts : BatchOf(i) # b => out'[i] = out[i]
        BY <4>1
      <4>4. NamesEachOnce(b)' => \A i \in Texts : BatchOf(i) = b => out'[i] = i
        BY <4>1, <4>2
      <4> QED  BY <3>2, <3>3, <3>5, <4>3, <4>4, BatchFills DEF Ended
    <3> QED  BY <3>1, <3>4, <3>5
  <2>7. CASE EnsureLoaded(b)
    <3>1. /\ step[b] = "load" /\ UNCHANGED <<provider, answer, out, failures, returned, encoder>>
      BY <2>7 DEF EnsureLoaded
    <3>2. CASE encoder /\ Move(b, "encode") /\ UNCHANGED loading
      <4>1. LoaderWaits'
        BY <1>0, <3>1, <3>2 DEF LoaderWaits
      <4> QED  BY <2>0, <3>1, <3>2, <4>1, BatchMoves DEF Steps, Ended
    <3>3. CASE ~encoder /\ loading' = b /\ UNCHANGED step
      <4>1. Move(b, "load")
        BY <1>0, <3>1, <3>3 DEF Move, EmbeddingType
      <4>2. LoaderWaits'
        BY <3>1, <3>3 DEF LoaderWaits
      <4> QED  BY <2>0, <3>1, <3>3, <4>1, <4>2, BatchMoves DEF Steps, Ended
    <3> QED  BY <2>7, <3>2, <3>3 DEF EnsureLoaded
  <2>8. CASE Encode(b)
    <3>1. /\ step[b] = "encode"
          /\ UNCHANGED <<provider, answer, failures, returned, encoder, loading>>
      BY <2>8 DEF Encode
    <3>2. CASE Fill(b, [slot \in 0 .. (Size(b) - 1) |-> First(b) + slot]) /\ Move(b, "done")
      <4> DEFINE Vectors == [slot \in 0 .. (Size(b) - 1) |-> First(b) + slot]
      <4>1. out' = [i \in Texts |->
                      IF BatchOf(i) = b THEN Vectors[i - First(b)] ELSE out[i]]
        BY <3>2 DEF Fill, Texts
      <4>2. ASSUME NEW i \in Texts, BatchOf(i) = b  PROVE Vectors[i - First(b)] = i
        <5>1. i - First(b) \in 0 .. (Size(b) - 1) /\ First(b) \in Int /\ i \in Int
          BY <4>2, PlaceInBatch DEF Texts
        <5> QED  BY <5>1
      <4> HIDE DEF Vectors
      <4>3. /\ out' = [i \in Texts |-> out'[i]]
            /\ \A i \in Texts : BatchOf(i) # b => out'[i] = out[i]
            /\ \A i \in Texts : BatchOf(i) = b => out'[i] = i
        BY <4>1, <4>2
      <4> QED  BY <2>0, <3>1, <3>2, <4>3, BatchFills DEF Ended
    <3>3. CASE Move(b, "failed") /\ UNCHANGED out
      <4>1. LoaderWaits'
        BY <2>1, <3>1, <3>3
      <4> QED  BY <2>0, <3>1, <3>3, <4>1, BatchMoves DEF Steps, Ended
    <3> QED  BY <2>8, <3>2, <3>3 DEF Encode
  <2> QED  BY <1>2, <2>2, <2>3, <2>4, <2>5, <2>6, <2>7, <2>8
<1>3. CASE EndLoad
  <2>1. /\ loading \in Batches /\ step[loading] = "load" /\ loading' = NoBatch
        /\ UNCHANGED <<provider, answer, out, failures, returned>>
    BY <1>0, <1>3 DEF EndLoad, LoaderWaits, EmbeddingType
  <2>2. PICK s \in {"encode", "failed"} : Move(loading, s) /\ encoder' \in BOOLEAN
    BY <1>0, <1>3 DEF EndLoad, EmbeddingType
  <2>3. LoaderWaits'
    BY <2>1 DEF LoaderWaits
  <2>4. answer' = [c \in Batches |-> answer'[c]]
    BY <1>0, <2>1 DEF EmbeddingType
  <2> QED  BY <2>1, <2>2, <2>3, <2>4, BatchMoves DEF Steps, Ended
<1>4. CASE Collect
  <2>1. /\ \A b \in Batches : step[b] \in Ended
        /\ returned' = TRUE /\ failures' = At({"failed"})
        /\ out' = [i \in Texts |-> IF BatchOf(i) \in At({"failed"}) THEN Unfilled ELSE out[i]]
        /\ UNCHANGED <<provider, step, answer, encoder, loading>>
    BY <1>4 DEF Collect, At, Texts
  <2>2. EmbeddingType' /\ NoRequests' /\ LoaderWaits'
    <3>1. out' = [i \in Texts |-> out'[i]]
      BY <2>1
    <3> QED  BY <1>0, <2>1, <3>1 DEF EmbeddingType, NoRequests, LoaderWaits
  <2>3. Settled'
    <3>1. At({"failed"})' = At({"failed"}) /\ \A i \in Texts : BatchOf(i)' = BatchOf(i)
      BY <2>1 DEF At, BatchOf
    <3> QED  BY <2>1, <3>1 DEF Settled, BatchOf
  <2>4. ASSUME NEW i \in Texts  PROVE Filled(i)'
    <3>1. Filled(i) /\ (step[BatchOf(i)] = "done" => out'[i] = out[i])
      BY <2>1 DEF EmbeddingInv, At
    <3> QED  BY <2>1, <3>1 DEF Filled, BatchOf, NamesEachOnce, Names, Size, First
  <2> QED  BY <2>2, <2>3, <2>4 DEF EmbeddingInv
<1> QED  BY <1>1, <1>2, <1>3, <1>4 DEF EmbeddingNext

(* BatchResults: for any number of texts, any sizes and limits, whatever   *)
(* order the batches end in and the server lists the vectors in, when the  *)
(* call returns a slot holds the vector of its own text or, when its batch *)
(* failed, none; the one exception is an answer that does not name each of *)
(* its texts once, which nothing refuses.                                  *)
THEOREM SlotsHoldTheirOwnVectors == EmbeddingSpec => []SlotsHoldOwnVectors
<1>1. EmbeddingInv => SlotsHoldOwnVectors
  <2> SUFFICES ASSUME EmbeddingInv, returned, NEW i \in Texts
               PROVE  IF BatchOf(i) \in failures THEN out[i] = Unfilled
                      ELSE NamesEachOnce(BatchOf(i)) => out[i] = i
    BY DEF SlotsHoldOwnVectors, Texts
  <2>1. Settled /\ Filled(i) /\ BatchOf(i) \in Batches
    BY PlaceInBatch DEF EmbeddingInv, Texts
  <2> QED  BY <2>1 DEF Settled, Filled, At, Ended
<1> QED  BY <1>1, EmbeddingStarts, EmbeddingStepKeeps, PTL DEF EmbeddingSpec

----------------------------------------------------------------------------
(* SearchPage.                                                             *)
Numbers == 1 .. MaxSearches

(* What a fragment shows was asked for; if it offers to vote, its search   *)
(* is among the rows, with these cards at least.                           *)
Honest(body, rows) ==
  /\ \A c \in body.cards :
       StatusOf[c] \in body.asked.ticked /\ (body.asked.rail => c \in InRepo)
  /\ body.row # Unset =>
       /\ body.row \in Numbers /\ rows[body.row].state # "absent"
       /\ body.cards \subseteq rows[body.row].cards
(* A row, once there, keeps its cards, and once committed stays.           *)
RowsKept(rows, later) ==
  \A n \in Numbers :
    /\ rows[n].state # "absent" =>
         later[n].state # "absent" /\ later[n].cards = rows[n].cards
    /\ rows[n].state = "kept" => later[n].state = "kept"

(* A request has a number of its own, and no row before it is answered.    *)
Pending(f) ==
  sent[f] # Unset =>
    /\ sent[f] = [number |-> sent[f].number, asks |-> sent[f].asks,
                 status |-> sent[f].status, body |-> sent[f].body]
    /\ sent[f].number \in 1 .. searches
    /\ sent[f].status = Unset => log[sent[f].number].state = "absent"
    /\ sent[f].status # Unset => Honest(sent[f].body, log)
Apart ==
  \A f, g \in Forms : f # g /\ sent[f] # Unset /\ sent[g] # Unset
                        => sent[f].number # sent[g].number

LogType ==
  /\ searches \in 0 .. MaxSearches
  /\ log = [n \in Numbers |-> log[n]]
  /\ \A n \in Numbers : log[n] = [cards |-> log[n].cards, state |-> log[n].state]
  /\ \A n \in Numbers : n > searches => log[n].state = "absent"

(* The vote under way, and those recorded.                                 *)
VoteHolds ==
  vote # Unset =>
    /\ vote = [row |-> vote.row, card |-> vote.card, state |-> vote.state]
    /\ vote.row \in Numbers /\ log[vote.row].state # "absent"
    /\ vote.card \in log[vote.row].cards
    /\ vote.state = "noted" => log[vote.row].state = "kept" /\ vote.card \in live
NoteHolds(v) ==
  /\ v = [row |-> v.row, card |-> v.card]
  /\ v.row \in Numbers /\ log[v.row].state = "kept"
  /\ v.card # Unset => v.card \in live \cap log[v.row].cards

AskInv ==
  /\ LogType /\ sent = [f \in Forms |-> sent[f]]
  /\ \A f \in Forms : Pending(f)
  /\ Apart /\ Honest(shown, log)
VoteInv == VoteHolds /\ \A v \in notes : NoteHolds(v)
PageInv == AskInv /\ VoteInv

(* No card, no row: the notices and the empty pages.                       *)
LEMMA EmptyIsHonest ==
  ASSUME NEW body, NEW rows, body.cards = {}, body.row = Unset
  PROVE  Honest(body, rows)
BY DEF Honest

(* A fragment that tells the truth about the rows goes on doing so while   *)
(* rows are kept.                                                          *)
LEMMA StaysHonest ==
  ASSUME NEW body, NEW rows, NEW later, Honest(body, rows), RowsKept(rows, later)
  PROVE  Honest(body, later)
BY DEF Honest, RowsKept

(* The statuses of a form with some valid one ticked become a constraint.  *)
LEMMA FoundWasAsked ==
  ASSUME NEW named, NEW rail, NEW marked \in BOOLEAN,
         NEW ticked, ticked = SelectedStatuses(IF marked THEN named ELSE DefaultStatuses),
         ticked # {},
         NEW hits \in SUBSET Matching(FiltersFromForm(named, marked), rail)
  PROVE  \A c \in hits : c \in live /\ StatusOf[c] \in ticked /\ (rail => c \in InRepo)
<1>1. FiltersFromForm(named, marked) = ticked
  BY DEF FiltersFromForm
<1>2. ticked \subseteq ValidStatuses
  BY DEF SelectedStatuses
<1>3. ticked \notin {Unset, {}}
  BY <1>2, PageAssumption
<1> QED  BY <1>1, <1>3 DEF Matching

(* An empty page is in the invariant.                                      *)
LEMMA PageStarts == PageInit => PageInv
<1> SUFFICES ASSUME PageInit  PROVE PageInv
  OBVIOUS
<1>1. Honest(shown, log)
  BY EmptyIsHonest DEF PageInit, Notice, Fragment
<1>2. LogType
  BY PageAssumption DEF PageInit, LogType, NoRow, Numbers
<1>3. sent = [f \in Forms |-> sent[f]] /\ (\A f \in Forms : Pending(f)) /\ Apart
  BY DEF PageInit, Pending, Apart
<1>4. VoteInv
  BY DEF PageInit, VoteInv, VoteHolds
<1> QED  BY <1>1, <1>2, <1>3, <1>4 DEF PageInv, AskInv

(* A request is sent, with the next number.                                *)
LEMMA SendKeeps ==
  ASSUME AskInv, NEW f \in Forms, NEW r, Send(f, r), searches < MaxSearches,
         searches' = searches + 1, log' = log
  PROVE  /\ LogType' /\ sent' = [g \in Forms |-> sent'[g]]
         /\ (\A g \in Forms : Pending(g)') /\ Apart'
<1>1. /\ searches \in 0 .. MaxSearches /\ MaxSearches \in Nat
      /\ sent = [g \in Forms |-> sent[g]]
      /\ \A g \in Forms : Pending(g)
  BY PageAssumption DEF AskInv, LogType
<1>2. /\ sent' = [g \in Forms |-> sent'[g]]
      /\ sent'[f] = [number |-> searches + 1, asks |-> r, status |-> Unset, body |-> Unset]
      /\ \A g \in Forms \ {f} : sent'[g] = sent[g]
  BY <1>1 DEF Send
<1>3. LogType'
  BY <1>1 DEF AskInv, LogType, Numbers
<1>4. searches + 1 \in Numbers /\ log[searches + 1].state = "absent"
  BY <1>1 DEF AskInv, LogType, Numbers
<1>5. Pending(f)'
  BY <1>1, <1>2, <1>4 DEF Pending
<1>6. ASSUME NEW g \in Forms, g # f  PROVE Pending(g)'
  <2>1. Pending(g) /\ sent'[g] = sent[g] /\ 1 .. searches \subseteq 1 .. searches'
    BY <1>1, <1>2, <1>6
  <2> QED  BY <2>1 DEF Pending
<1>7. Apart'
  <2>1. ASSUME NEW g \in Forms, g # f, sent[g] # Unset
        PROVE  sent'[g] = sent[g] /\ sent[g].number # searches + 1
    BY <1>1, <1>2, <2>1 DEF Pending
  <2>2. sent'[f].number = searches + 1
    BY <1>2
  <2>3. ASSUME NEW g \in Forms, NEW h \in Forms, g # h, sent'[g] # Unset, sent'[h] # Unset
        PROVE  sent'[g].number # sent'[h].number
    <3>1. CASE g = f
      BY <1>2, <2>1, <2>2, <2>3, <3>1
    <3>2. CASE h = f
      BY <1>2, <2>1, <2>2, <2>3, <3>2
    <3>3. CASE g # f /\ h # f
      BY <1>2, <2>3, <3>3 DEF AskInv, Apart
    <3> QED  BY <3>1, <3>2, <3>3
  <2> QED  BY <2>3 DEF Apart
<1> QED  BY <1>2, <1>3, <1>5, <1>6, <1>7

(* An answer is given, and its row perhaps written.                        *)
LEMMA AnswerKeeps ==
  ASSUME AskInv, NEW f \in Forms, Asking(f), NEW status \in Nat, NEW body,
         Answer(f, status, body), LogType', RowsKept(log, log'), Honest(body, log'),
         \A g \in Forms \ {f} : Asking(g) => log'[sent[g].number].state = "absent"
  PROVE  AskInv'
<1>1. /\ sent = [g \in Forms |-> sent[g]] /\ (\A g \in Forms : Pending(g))
      /\ searches' = searches /\ shown' = shown /\ Honest(shown, log)
  BY DEF AskInv, Answer, page
<1>2. /\ sent[f] # Unset
      /\ sent[f] = [number |-> sent[f].number, asks |-> sent[f].asks,
                    status |-> sent[f].status, body |-> sent[f].body]
      /\ sent[f].number \in 1 .. searches
  BY <1>1 DEF Asking, Pending
<1>3. /\ sent' = [g \in Forms |-> sent'[g]]
      /\ sent'[f] = [number |-> sent[f].number, asks |-> sent[f].asks,
                     status |-> status, body |-> body]
      /\ \A g \in Forms \ {f} : sent'[g] = sent[g]
  <2>1. sent' = [sent EXCEPT ![f].status = status, ![f].body = body]
    BY DEF Answer
  <2>2. sent'[f] = [[sent[f] EXCEPT !.status = status] EXCEPT !.body = body]
    BY <1>1, <2>1
  <2> QED  BY <1>1, <1>2, <2>1, <2>2
<1>4. status # Unset
  BY PageAssumption
<1>5. Pending(f)'
  BY <1>1, <1>2, <1>3, <1>4 DEF Pending
<1>6. ASSUME NEW g \in Forms, g # f  PROVE Pending(g)'
  <2>1. Pending(g) /\ sent'[g] = sent[g] /\ searches' = searches
    BY <1>1, <1>3, <1>6
  <2>2. sent[g] # Unset /\ sent[g].status = Unset => log'[sent[g].number].state = "absent"
    BY <1>6 DEF Asking
  <2>3. sent[g] # Unset /\ sent[g].status # Unset => Honest(sent[g].body, log')
    BY <2>1, StaysHonest DEF Pending
  <2> QED  BY <2>1, <2>2, <2>3 DEF Pending
<1>7. Apart'
  <2>1. \A g \in Forms : sent'[g] # Unset => sent[g] # Unset /\ sent'[g].number = sent[g].number
    BY <1>2, <1>3
  <2> QED  BY <2>1 DEF AskInv, Apart
<1>8. Honest(shown, log)'
  BY <1>1, StaysHonest
<1> QED  BY <1>3, <1>5, <1>6, <1>7, <1>8 DEF AskInv

(* Votes under way and recorded, while rows are only added or committed.   *)
LEMMA VotesKeep ==
  ASSUME VoteInv, RowsKept(log, log'), UNCHANGED <<vote, live, notes>>
  PROVE  VoteInv'
<1>1. VoteHolds'
  BY DEF VoteInv, VoteHolds, RowsKept
<1>2. ASSUME NEW v \in notes  PROVE NoteHolds(v)'
  <2>1. NoteHolds(v)
    BY DEF VoteInv
  <2> QED  BY <2>1 DEF NoteHolds, RowsKept
<1> QED  BY <1>1, <1>2 DEF VoteInv

(* Rows that are not touched are kept.                                     *)
LEMMA SameRows == ASSUME log' = log  PROVE RowsKept(log, log')
BY DEF RowsKept

(* Nothing of the requests, the page or the rows changes.                  *)
LEMMA AsksKeep ==
  ASSUME AskInv, UNCHANGED <<sent, shown, log, searches>>
  PROVE  AskInv'
<1>1. LogType' /\ Apart' /\ Honest(shown, log)'
  BY DEF AskInv, LogType, Apart, Honest
<1>2. ASSUME NEW f \in Forms  PROVE Pending(f)'
  BY DEF AskInv, Pending, Honest
<1> QED  BY <1>1, <1>2 DEF AskInv

(* PageInv is inductive.                                                   *)
LEMMA PageStepKeeps == PageInv /\ [PageNext]_searchpage => PageInv'
<1> SUFFICES ASSUME PageInv, [PageNext]_searchpage  PROVE PageInv'
  OBVIOUS
<1>0. /\ AskInv /\ VoteInv /\ LogType /\ Honest(shown, log) /\ VoteHolds
      /\ (\A f \in Forms : Pending(f)) /\ Apart /\ sent = [f \in Forms |-> sent[f]]
      /\ "search" \in Forms /\ "widen" \in Forms
  BY DEF PageInv, AskInv, VoteInv, Forms
<1>1. ASSUME UNCHANGED <<sent, shown, vote, live, log, notes, searches>>  PROVE PageInv'
  BY <1>0, <1>1, AsksKeep, VotesKeep, SameRows DEF PageInv
<1>2. ASSUME NEW f \in Forms, NEW r, Send(f, r), searches < MaxSearches,
             searches' = searches + 1, UNCHANGED <<shown, vote, live, log, notes>>
      PROVE  PageInv'
  <2>1. Honest(shown, log)'
    BY <1>0, <1>2
  <2>2. AskInv'
    BY <1>0, <1>2, <2>1, SendKeeps DEF AskInv
  <2> QED  BY <1>0, <1>2, <2>2, VotesKeep, SameRows DEF PageInv
<1>3. ASSUME NEW event, Issue(event)  PROVE PageInv'
  <2>1. searches < MaxSearches /\ UNCHANGED <<shown, vote, live, log, notes>>
    BY <1>3 DEF Issue
  <2>2. CASE Send("search", OfForm(event)) /\ searches' = searches + 1
    BY <1>0, <1>2, <2>1, <2>2
  <2>3. CASE UNCHANGED <<sent, searches>>
    BY <1>1, <2>1, <2>3
  <2> QED  BY <1>3, <2>2, <2>3 DEF Issue
<1>4. CASE Tick
  BY <1>1, <1>4 DEF Tick
<1>5. CASE Debounced \/ Submit
  BY <1>3, <1>5 DEF Debounced, Submit
<1>6. CASE Widen
  <2>1. PICK s \in Widenings : Send("widen", Search(s, shown.carries, shown.asked.meant, FALSE))
    BY <1>6 DEF Widen
  <2>2. searches < MaxSearches /\ searches' = searches + 1 /\ UNCHANGED <<shown, vote, live, log, notes>>
    BY <1>6 DEF Widen
  <2> QED  BY <1>0, <1>2, <2>1, <2>2
<1>7. ASSUME NEW f \in Forms, Receive(f)  PROVE PageInv'
  <2>1. /\ sent[f] # Unset /\ sent[f].status # Unset /\ UNCHANGED <<vote, live, log, notes>>
        /\ shown' \in {sent[f].body, shown}
    BY <1>7 DEF Receive
  <2>2. Honest(shown, log)'
    BY <1>0, <2>1 DEF Pending
  <2>3. CASE Send(f, OfForm(queued)) /\ searches < MaxSearches /\ searches' = searches + 1
    <3>1. AskInv'
      BY <1>0, <2>1, <2>2, <2>3, SendKeeps DEF AskInv
    <3> QED  BY <1>0, <2>1, <3>1, VotesKeep, SameRows DEF PageInv
  <2>4. CASE sent' = [sent EXCEPT ![f] = Unset] /\ UNCHANGED searches
    <3>1. /\ sent' = [g \in Forms |-> sent'[g]] /\ sent'[f] = Unset
          /\ \A g \in Forms \ {f} : sent'[g] = sent[g]
      BY <1>0, <2>4
    <3>2. LogType'
      BY <1>0, <2>1, <2>4 DEF LogType
    <3>3. ASSUME NEW g \in Forms  PROVE Pending(g)'
      <4>1. CASE g = f
        BY <3>1, <4>1 DEF Pending
      <4>2. CASE g # f
        <5>1. Pending(g) /\ sent'[g] = sent[g] /\ log' = log /\ searches' = searches
          BY <1>0, <2>1, <2>4, <3>1, <4>2
        <5> QED  BY <5>1 DEF Pending
      <4> QED  BY <4>1, <4>2
    <3>4. Apart'
      BY <1>0, <3>1 DEF Apart
    <3> QED  BY <1>0, <2>1, <2>2, <3>1, <3>2, <3>3, <3>4, VotesKeep, SameRows DEF PageInv, AskInv
  <2> QED  BY <1>7, <2>3, <2>4 DEF Receive
(* An answer without a row of its own.                                     *)
<1>8. ASSUME NEW f \in Forms, Asking(f), NEW status \in Nat, NEW body,
             Answer(f, status, body), UNCHANGED log, Honest(body, log)
      PROVE  PageInv'
  <2>1. LogType' /\ RowsKept(log, log') /\ UNCHANGED <<vote, live, notes>>
    BY <1>0, <1>8, SameRows DEF LogType, Answer
  <2>2. \A g \in Forms \ {f} : Asking(g) => log'[sent[g].number].state = "absent"
    BY <1>0, <1>8 DEF Asking, Pending
  <2>3. Honest(body, log')
    BY <1>8
  <2>4. AskInv'
    BY <1>0, <1>8, <2>1, <2>2, <2>3, AnswerKeeps
  <2> QED  BY <1>0, <2>1, <2>4, VotesKeep DEF PageInv
<1>9. \A kind : Honest(Notice(kind), log)
  BY EmptyIsHonest DEF Notice, Fragment
<1>10. ASSUME NEW f \in Forms, PostFails(f)  PROVE PageInv'
  <2>1. Asking(f) /\ UNCHANGED log /\ 429 \in Nat /\ 503 \in Nat
        /\ (Answer(f, 429, Notice("error")) \/ Answer(f, 503, Notice("error")))
    BY <1>10 DEF PostFails
  <2>2. Honest(Notice("error"), log)
    BY <1>9
  <2> QED  BY <1>8, <2>1, <2>2
<1>11. CASE PostBlank
  <2>1. Asking("search") /\ UNCHANGED log /\ 200 \in Nat /\ Answer("search", 200, Notice("blank"))
        /\ Honest(Notice("blank"), log)
    BY <1>9, <1>11 DEF PostBlank
  <2> QED  BY <1>0, <1>8, <2>1
<1>12. CASE PostOverlong
  <2>1. Asking("search") /\ UNCHANGED log /\ 413 \in Nat /\ Answer("search", 413, Notice("error"))
        /\ Honest(Notice("error"), log)
    BY <1>9, <1>12 DEF PostOverlong
  <2> QED  BY <1>0, <1>8, <2>1
<1>13. ASSUME NEW f \in Forms, PostNothingTicked(f)  PROVE PageInv'
  <2> DEFINE body == Fragment("nothing", sent[f].asks, {}, Unset, FALSE, {})
  <2>1. Asking(f) /\ UNCHANGED log /\ 200 \in Nat /\ Answer(f, 200, body)
    BY <1>13 DEF PostNothingTicked
  <2>2. Honest(body, log)
    BY EmptyIsHonest DEF Fragment
  <2> HIDE DEF body
  <2> QED  BY <1>8, <2>1, <2>2
<1>14. ASSUME NEW f \in Forms, PostFound(f)  PROVE PageInv'
  <2> DEFINE r == sent[f].asks
             ticked == SelectedStatuses(r.ticked)
             filter == FiltersFromForm(r.ticked, TRUE)
  <2>1. Asking(f) /\ ticked # {}
    BY <1>14 DEF PostFound
  <2>2. PICK hits \in SUBSET Matching(filter, r.rail), kept \in BOOLEAN :
          LET row == IF r.keyup \/ ~kept THEN Unset ELSE sent[f].number
          IN /\ log' = IF row = Unset THEN log ELSE [log EXCEPT ![row] = Logged(hits)]
             /\ Answer(f, 200, Fragment(KindOf(hits), r, hits, row, r.rail, filter))
    BY <1>14 DEF PostFound
  <2> DEFINE row == IF r.keyup \/ ~kept THEN Unset ELSE sent[f].number
             body == Fragment(KindOf(hits), r, hits, row, r.rail, filter)
  <2>3. \A c \in hits : StatusOf[c] \in r.ticked /\ (r.rail => c \in InRepo)
    <3> DEFINE marked == TRUE
    <3>0. /\ marked \in BOOLEAN /\ filter = FiltersFromForm(r.ticked, marked)
          /\ ticked = SelectedStatuses(IF marked THEN r.ticked ELSE DefaultStatuses)
      OBVIOUS
    <3> HIDE DEF marked, filter, ticked
    <3>1. \A c \in hits : StatusOf[c] \in ticked /\ (r.rail => c \in InRepo)
      BY <2>1, <3>0, FoundWasAsked
    <3> USE DEF ticked
    <3> QED  BY <3>1 DEF SelectedStatuses
  <2>4. /\ body.cards = hits /\ body.asked = r /\ body.row = row
    BY DEF Fragment
  <2>5. /\ log' = IF row = Unset THEN log ELSE [log EXCEPT ![row] = Logged(hits)]
        /\ Answer(f, 200, body) /\ row \in {Unset, sent[f].number}
    BY <2>2
  <2>6. /\ sent[f].number \in Numbers /\ sent[f].number <= searches
        /\ log[sent[f].number].state = "absent"
    BY <1>0, <2>1, PageAssumption DEF Asking, Pending, LogType, Numbers
  <2> HIDE DEF r, filter, row, body, ticked
  <2>7. UNCHANGED <<vote, live, notes, searches>>
    BY <2>5 DEF Answer
  <2>8. CASE row = Unset
    <3>1. UNCHANGED log /\ Honest(body, log) /\ 200 \in Nat
      BY <2>3, <2>4, <2>5, <2>8 DEF Honest
    <3> QED  BY <1>8, <2>1, <2>5, <3>1
  <2>9. CASE row = sent[f].number /\ row # Unset
    <3>1. /\ log' = [n \in Numbers |-> log'[n]]
          /\ log'[row] = [cards |-> hits, state |-> "open"]
          /\ \A n \in Numbers \ {row} : log'[n] = log[n]
      <4>1. log' = [log EXCEPT ![row] = [cards |-> hits, state |-> "open"]]
        BY <2>5, <2>9 DEF Logged
      <4>2. log = [n \in Numbers |-> log[n]] /\ row \in Numbers
        BY <1>0, <2>6, <2>9 DEF LogType
      <4> QED  BY <4>1, <4>2
    <3>2. row \in Numbers /\ row <= searches /\ log[row].state = "absent"
      BY <2>6, <2>9
    <3>3. LogType'
      <4>1. \A n \in Numbers : log'[n] = [cards |-> log'[n].cards, state |-> log'[n].state]
        BY <1>0, <3>1 DEF LogType
      <4>2. \A n \in Numbers : n > searches => log'[n].state = "absent"
        BY <1>0, <3>1, <3>2 DEF LogType, Numbers
      <4> QED  BY <1>0, <2>7, <3>1, <4>1, <4>2 DEF LogType, Numbers
    <3>4. RowsKept(log, log')
      BY <3>1, <3>2 DEF RowsKept
    <3>5. Honest(body, log')
      BY <2>3, <2>4, <3>1, <3>2 DEF Honest
    <3>6. ASSUME NEW g \in Forms \ {f}, Asking(g)
          PROVE  log'[sent[g].number].state = "absent"
      <4>1. sent[f] # Unset /\ sent[g] # Unset /\ sent[g].number # row
        BY <1>0, <2>1, <2>9, <3>6 DEF Asking, Apart
      <4>2. sent[g].number \in Numbers /\ log[sent[g].number].state = "absent"
        BY <1>0, <3>6, PageAssumption DEF Asking, Pending, LogType, Numbers
      <4> QED  BY <3>1, <4>1, <4>2
    <3>7. 200 \in Nat
      OBVIOUS
    <3>8. AskInv'
      BY <1>0, <2>1, <2>5, <3>3, <3>4, <3>5, <3>6, <3>7, AnswerKeeps
    <3> QED  BY <1>0, <2>7, <3>4, <3>8, VotesKeep DEF PageInv
  <2> QED  BY <2>5, <2>8, <2>9
<1>15. ASSUME NEW n \in 1 .. MaxSearches, EndSearch(n)  PROVE PageInv'
  <2>1. PICK end \in {"kept", "lost"} : log' = [log EXCEPT ![n].state = end]
    BY <1>15 DEF EndSearch
  <2>2. /\ log[n].state = "open" /\ n \in Numbers
        /\ UNCHANGED <<sent, shown, vote, live, notes, searches>>
    BY <1>15 DEF EndSearch, page, Numbers
  <2>3. /\ log' = [m \in Numbers |-> log'[m]]
        /\ log'[n] = [cards |-> log[n].cards, state |-> end]
        /\ \A m \in Numbers \ {n} : log'[m] = log[m]
    <3>1. /\ log = [m \in Numbers |-> log[m]]
          /\ log[n] = [cards |-> log[n].cards, state |-> log[n].state]
      BY <1>0, <2>2 DEF LogType
    <3> QED  BY <2>1, <2>2, <3>1
  <2>4. RowsKept(log, log')
    BY <2>2, <2>3 DEF RowsKept
  <2>5. LogType'
    <3>1. \A m \in Numbers : log'[m] = [cards |-> log'[m].cards, state |-> log'[m].state]
      BY <1>0, <2>3 DEF LogType
    <3>2. \A m \in Numbers : m > searches => log'[m].state = "absent"
      BY <1>0, <2>2, <2>3 DEF LogType
    <3> QED  BY <1>0, <2>2, <2>3, <3>1, <3>2 DEF LogType
  <2>6. ASSUME NEW f \in Forms  PROVE Pending(f)'
    <3>1. Pending(f) /\ sent' = sent /\ searches' = searches
      BY <1>0, <2>2
    <3>2. sent[f] # Unset => sent[f].number \in Numbers
      BY <1>0, <3>1, PageAssumption DEF Pending, LogType, Numbers
    <3>3. sent[f] # Unset /\ sent[f].status = Unset => log'[sent[f].number].state = "absent"
      BY <2>2, <2>3, <3>1, <3>2 DEF Pending
    <3>4. sent[f] # Unset /\ sent[f].status # Unset => Honest(sent[f].body, log')
      BY <2>4, <3>1, StaysHonest DEF Pending
    <3> QED  BY <3>1, <3>3, <3>4 DEF Pending
  <2>7. Apart' /\ Honest(shown, log)' /\ sent' = [f \in Forms |-> sent'[f]]
    BY <1>0, <2>2, <2>4, StaysHonest DEF Apart
  <2> QED  BY <1>0, <2>2, <2>4, <2>5, <2>6, <2>7, VotesKeep DEF PageInv, AskInv
<1>16. ASSUME NEW newform, NEW body, Turn(newform, body), UNCHANGED log, Honest(body, log)
       PROVE  PageInv'
  <2>1. /\ searches < MaxSearches /\ searches' = searches + 1 /\ shown' = body
        /\ sent' = [f \in Forms |-> Unset] /\ UNCHANGED <<vote, live, log, notes>>
    BY <1>16 DEF Turn
  <2>2. LogType'
    BY <1>0, <2>1, PageAssumption DEF LogType, Numbers
  <2>3. (\A f \in Forms : Pending(f)') /\ Apart' /\ sent' = [f \in Forms |-> sent'[f]]
    BY <2>1 DEF Pending, Apart
  <2>4. Honest(shown, log)'
    BY <1>16, <2>1
  <2> QED  BY <1>0, <2>1, <2>2, <2>3, <2>4, VotesKeep, SameRows DEF PageInv, AskInv
<1>17. CASE GetFails
  BY <1>9, <1>16, <1>17 DEF GetFails, Turn
<1>18. ASSUME NEW l \in Link, GetBlank(l)  PROVE PageInv'
  BY <1>9, <1>16, <1>18 DEF GetBlank, Turn
<1>19. ASSUME NEW l \in Link, GetNothingTicked(l)  PROVE PageInv'
  <2> DEFINE body == Fragment("nothing", AskOf(l), {}, Unset, l.rail, {})
  <2>1. Turn(FormOf(l), body) /\ UNCHANGED log
    BY <1>19 DEF GetNothingTicked, Turn
  <2>2. Honest(body, log)
    BY EmptyIsHonest DEF Fragment
  <2> HIDE DEF body
  <2> QED  BY <1>16, <2>1, <2>2
<1>20. ASSUME NEW l \in Link, GetFound(l)  PROVE PageInv'
  <2> DEFINE filter == FiltersFromForm(l.status, Marked(l))
             ticked == Selection(l)
  <2>1. PICK hits \in SUBSET Matching(filter, l.rail) :
          Turn(FormOf(l), Fragment(KindOf(hits), AskOf(l), hits, Unset, l.rail, filter))
    BY <1>20 DEF GetFound
  <2> DEFINE body == Fragment(KindOf(hits), AskOf(l), hits, Unset, l.rail, filter)
  <2>2. ticked # {} /\ ticked = SelectedStatuses(IF Marked(l) THEN l.status ELSE DefaultStatuses)
    BY <1>20, PageAssumption DEF GetFound, Selection, SelectedStatuses
  <2>3. Marked(l) \in BOOLEAN
    BY DEF Marked
  <2>4. \A c \in hits : StatusOf[c] \in ticked /\ (l.rail => c \in InRepo)
    BY <2>2, <2>3, FoundWasAsked
  <2>5. /\ body.cards = hits /\ body.row = Unset
        /\ body.asked.ticked = ticked /\ body.asked.rail = l.rail
    BY DEF Fragment, AskOf, Search
  <2>6. Turn(FormOf(l), body) /\ UNCHANGED log
    BY <2>1 DEF Turn
  <2> HIDE DEF body, ticked, filter
  <2>7. Honest(body, log)
    BY <2>4, <2>5 DEF Honest
  <2> QED  BY <1>16, <2>6, <2>7
<1>21. ASSUME UNCHANGED <<sent, shown, log, searches>>, VoteInv'  PROVE PageInv'
  BY <1>0, <1>21, AsksKeep DEF PageInv
<1>22. ASSUME NEW v \in notes  PROVE NoteHolds(v)
  BY <1>0 DEF VoteInv
<1>23. CASE Vote
  <2>1. PICK c \in shown.cards : vote' = [row |-> shown.row, card |-> c, state |-> "sent"]
    BY <1>23 DEF Vote
  <2>2. shown.row # Unset /\ UNCHANGED <<sent, shown, live, log, notes, searches>>
    BY <1>23 DEF Vote, page
  <2>3. VoteHolds'
    BY <1>0, <2>1, <2>2 DEF VoteHolds, Honest
  <2>4. \A v \in notes' : NoteHolds(v)'
    BY <1>22, <2>2 DEF NoteHolds
  <2> QED  BY <1>21, <2>2, <2>3, <2>4 DEF VoteInv
<1>24. CASE RefuseVote
  <2>1. vote' = Unset /\ UNCHANGED <<sent, shown, live, log, notes, searches>>
    BY <1>24 DEF RefuseVote, page
  <2>2. \A v \in notes' : NoteHolds(v)'
    BY <1>22, <2>1 DEF NoteHolds
  <2> QED  BY <1>21, <2>1, <2>2 DEF VoteInv, VoteHolds
<1>25. CASE InsertVote
  <2>1. /\ vote # Unset /\ vote' = [vote EXCEPT !.state = "noted"]
        /\ log[vote.row].state = "kept" /\ vote.card \in live
        /\ UNCHANGED <<sent, shown, live, log, notes, searches>>
    BY <1>25 DEF InsertVote, KeysHold, page
  <2>2. vote' = [row |-> vote.row, card |-> vote.card, state |-> "noted"]
    BY <1>0, <2>1 DEF VoteHolds
  <2>3. VoteHolds'
    BY <1>0, <2>1, <2>2 DEF VoteHolds
  <2>4. \A v \in notes' : NoteHolds(v)'
    BY <1>22, <2>1 DEF NoteHolds
  <2> QED  BY <1>21, <2>1, <2>3, <2>4 DEF VoteInv
<1>26. CASE EndVote
  <2>1. /\ vote # Unset /\ vote.state = "noted" /\ vote' = Unset
        /\ UNCHANGED <<sent, shown, live, log, searches>>
        /\ notes' \subseteq notes \cup {[row |-> vote.row, card |-> vote.card]}
    BY <1>26 DEF EndVote, page
  <2>2. NoteHolds([row |-> vote.row, card |-> vote.card])
    BY <1>0, <2>1 DEF VoteHolds, NoteHolds
  <2>3. \A v \in notes' : NoteHolds(v)
    BY <1>22, <2>1, <2>2
  <2>4. \A v \in notes' : NoteHolds(v)'
    BY <2>1, <2>3 DEF NoteHolds
  <2> QED  BY <1>21, <2>1, <2>4 DEF VoteInv, VoteHolds
<1>27. CASE Reingest
  <2>1. PICK c \in live :
          /\ ~(vote # Unset /\ vote.state = "noted" /\ vote.card = c)
          /\ live' = live \ {c}
          /\ notes' = {[v EXCEPT !.card = IF v.card = c THEN Unset ELSE v.card] : v \in notes}
    BY <1>27 DEF Reingest
  <2>2. UNCHANGED <<sent, shown, vote, log, searches>>
    BY <1>27 DEF Reingest, page
  <2>3. VoteHolds'
    BY <1>0, <2>1, <2>2 DEF VoteHolds
  <2>4. ASSUME NEW w \in notes'  PROVE NoteHolds(w)'
    <3>1. PICK v \in notes : w = [v EXCEPT !.card = IF v.card = c THEN Unset ELSE v.card]
      BY <2>1
    <3>2. /\ w = [row |-> v.row, card |-> IF v.card = c THEN Unset ELSE v.card]
          /\ NoteHolds(v)
      BY <1>22, <3>1 DEF NoteHolds
    <3> QED  BY <2>1, <2>2, <3>2 DEF NoteHolds
  <2> QED  BY <1>21, <2>2, <2>3, <2>4 DEF VoteInv
<1>28. CASE UNCHANGED searchpage
  BY <1>1, <1>28 DEF searchpage, page
<1> QED  BY <1>4, <1>5, <1>6, <1>7, <1>10, <1>11, <1>12, <1>13, <1>14, <1>15, <1>17, <1>18,
            <1>19, <1>20, <1>23, <1>24, <1>25, <1>26, <1>27, <1>28 DEF PageNext

(* What is on the page was asked for: for any corpus, statuses and number  *)
(* of searches, whichever way a request came and in whatever order the     *)
(* answers did.                                                            *)
THEOREM OnlyWhatWasAskedIsShown == PageSpec => []OnlyWhatWasAsked
<1>1. PageInv => OnlyWhatWasAsked
  BY DEF PageInv, AskInv, Honest, OnlyWhatWasAsked
<1> QED  BY <1>1, PageStarts, PageStepKeeps, PTL DEF PageSpec

(* A recorded vote is about a search on record and a card it found, which  *)
(* still exists, or about none any more: although the page is answered     *)
(* before the search's row is committed.                                   *)
THEOREM FeedbackIsAboutTheSearch == PageSpec => []FeedbackIsAboutItsSearch
<1>1. PageInv => FeedbackIsAboutItsSearch
  BY DEF PageInv, VoteInv, NoteHolds, FeedbackIsAboutItsSearch
<1> QED  BY <1>1, PageStarts, PageStepKeeps, PTL DEF PageSpec

=============================================================================
