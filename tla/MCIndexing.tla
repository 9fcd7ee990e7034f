----------------------------- MODULE MCIndexing -----------------------------
(***************************************************************************)
(* What must end while a source is indexed: the calls that write documents *)
(* and vectors (Corpus), and the fan-out one of them waits for meanwhile   *)
(* (Embedding).  To Corpus the fan-out is one step with any outcome, so    *)
(* they share no state; focus says which of them moves in a behaviour.     *)
(***************************************************************************)
EXTENDS MCCorpus, Embedding

VARIABLE focus
indexing == <<vars, embedding, focus>>

IndexingInit ==
  /\ focus \in {"calls", "fan-out"}
  /\ focus # "calls" => chunk = [d \in Docs |-> NoRows]
  /\ Init
  /\ focus # "fan-out" => provider = "http"
  /\ EmbeddingInit

OfCalls(A) == focus = "calls" /\ A /\ UNCHANGED <<embedding, focus>>
FanOut == focus = "fan-out" /\ EmbeddingNext /\ UNCHANGED <<vars, focus>>
(* The call is over; a fan-out may not stop anywhere else.                 *)
AfterReturn == focus = "fan-out" /\ returned /\ UNCHANGED indexing
IndexingNext == OfCalls(Next) \/ FanOut \/ AfterReturn

(* The fairness of FairSpec and of EmbeddingSpec.                          *)
IndexingSpec ==
  /\ IndexingInit /\ [][IndexingNext]_indexing
  /\ \A c \in Calls : /\ WF_indexing(OfCalls(Steps(c)))
                      /\ WF_indexing(OfCalls(DeadlockVictim(c)))
  /\ WF_indexing(FanOut)

(* The fan-out ends, whatever fails in it (batched.py, both providers): no *)
(* permit and no lock is lost, and no batch retries for ever.              *)
FanOutReturns == focus = "fan-out" ~> returned
=============================================================================
