------------------------------ MODULE HydeCache ------------------------------
(***************************************************************************)
(* HyDE query expansion (retrieval/hyde): a gate that picks the queries    *)
(* worth expanding, an in-process cache of pseudo-documents with a time to *)
(* live and LRU eviction, and the generator behind it.  expand is a        *)
(* coroutine: it looks the cache up, awaits the generator on a miss, and   *)
(* stores what it got, so that requests interleave at that await.          *)
(*                                                                         *)
(* A query is its cache key (provider, model and the query in lower case   *)
(* with its spaces collapsed) and what the gate counts in it, which        *)
(* queries with one key need not share: jargon is told by upper case.  A   *)
(* text is named by the request whose generator call returned it.          *)
(*                                                                         *)
(* A definition whose name starts with Mut is the definition after it with *)
(* a plausible bug; the properties are shown to catch it.                  *)
(***************************************************************************)
EXTENDS Naturals, Sequences, SequencesExt

CONSTANTS
  Askers,          \* searches that may arrive
  Queries,         \* [key, words, jargon, imperative]
  TokenThreshold,  \* KILN_HYDE_QUERY_TOKEN_THRESHOLD
  HydeTtl,         \* KILN_HYDE_CACHE_TTL_SECONDS
  MaxEntries,      \* KILN_HYDE_CACHE_MAX_ENTRIES
  NoText,          \* pseudo_doc = None
  MaxHydeClock     \* last instant of the model's clock (bound of the model)

ASSUME HydeAssumption ==
  HydeTtl \in Nat \ {0} /\ MaxEntries \in Nat \ {0} /\ NoText \notin Askers

VARIABLES
  generator,  \* the engine has a generator
  cached,     \* _store: [key, at, text], least recently used first
  stage,      \* stage[a]: where search a is in expand
  query,      \* query[a]
  pseudo,     \* pseudo[a]: the pseudo_doc it was given
  hydeClock,  \* time.monotonic()
  kept,       \* history: kept[a]: when a's text was put in the cache
  looked      \* history: looked[a]: when the cache served a

hyde == <<generator, cached, stage, query, pseudo, hydeClock, kept, looked>>

NoQuery == [key |-> "", words |-> 0, jargon |-> 0, imperative |-> FALSE]

HydeInit ==
  /\ generator \in BOOLEAN
  /\ cached = <<>>
  /\ stage = [a \in Askers |-> "new"]
  /\ query = [a \in Askers |-> NoQuery]
  /\ pseudo = [a \in Askers |-> NoText]
  /\ hydeClock = 0
  /\ kept = [a \in Askers |-> 0] /\ looked = [a \in Askers |-> 0]

(* should_hyde: short, or more than 0.4 of its words look like jargon, or  *)
(* it starts like a question; never an empty query.                        *)
ShouldHyde(q) ==
  /\ q.words > 0
  /\ q.words < TokenThreshold \/ 5 * q.jargon > 2 * q.words \/ q.imperative

(* _store is an OrderedDict: it holds a key once.                          *)
Found(key)   == \E i \in 1..Len(cached) : cached[i].key = key
Place(key)   == CHOOSE i \in 1..Len(cached) : cached[i].key = key
Entry(key)   == cached[Place(key)]
Without(key) == IF Found(key) THEN RemoveAt(cached, Place(key)) ELSE cached

MutExpired(e) == hydeClock - e.at > HydeTtl + 1
(* get(): an entry is served at an age of exactly the time to live.        *)
Expired(e) == hydeClock - e.at > HydeTtl

(* move_to_end                                                             *)
Touched(e) == Append(Without(e.key), e)

(* put(): a new last entry with a timestamp of its own, and popitem from   *)
(* the front when it is one too many.                                      *)
Stored(e) == LET all == Append(Without(e.key), e)
             IN  IF Len(all) > MaxEntries THEN Tail(all) ELSE all

(* expand() up to the await: the gate, the absent generator, and get(),    *)
(* which deletes what has expired.                                         *)
Skip(a, q) ==
  /\ ~ShouldHyde(q) \/ ~generator
  /\ stage' = [stage EXCEPT ![a] = "done"]
  /\ UNCHANGED <<cached, pseudo, looked>>
CacheHit(a, q) ==
  /\ ShouldHyde(q) /\ generator
  /\ Found(q.key) /\ ~Expired(Entry(q.key))
  /\ cached' = Touched(Entry(q.key))
  /\ pseudo' = [pseudo EXCEPT ![a] = Entry(q.key).text]
  /\ looked' = [looked EXCEPT ![a] = hydeClock]
  /\ stage' = [stage EXCEPT ![a] = "done"]
CacheMiss(a, q) ==
  /\ ShouldHyde(q) /\ generator
  /\ Found(q.key) => Expired(Entry(q.key))
  /\ cached' = Without(q.key)
  /\ stage' = [stage EXCEPT ![a] = "generating"]
  /\ UNCHANGED <<pseudo, looked>>
Expand(a) ==
  /\ stage[a] = "new"
  /\ \E q \in Queries :
       /\ query' = [query EXCEPT ![a] = q]
       /\ Skip(a, q) \/ CacheHit(a, q) \/ CacheMiss(a, q)
  /\ UNCHANGED <<generator, hydeClock, kept>>

(* The generator returns a text: stored under the key the search came      *)
(* with, over the text of whoever asked the same meanwhile.                *)
Generated(a) ==
  /\ stage[a] = "generating"
  /\ cached' = Stored([key |-> query[a].key, at |-> hydeClock, text |-> a])
  /\ kept' = [kept EXCEPT ![a] = hydeClock]
  /\ pseudo' = [pseudo EXCEPT ![a] = a]
  /\ stage' = [stage EXCEPT ![a] = "done"]
  /\ UNCHANGED <<generator, query, hydeClock, looked>>

(* It raises, or returns nothing but spaces: bare retrieval, and nothing   *)
(* is cached.  A search that is cancelled ends the same way.               *)
Degrade(a) ==
  /\ stage[a] = "generating"
  /\ stage' = [stage EXCEPT ![a] = "done"]
  /\ UNCHANGED <<generator, cached, query, pseudo, hydeClock, kept, looked>>

HydeTick ==
  /\ hydeClock < MaxHydeClock
  /\ hydeClock' = hydeClock + 1
  /\ UNCHANGED <<generator, cached, stage, query, pseudo, kept, looked>>

HydeNext ==
  \/ \E a \in Askers : Expand(a) \/ Generated(a) \/ Degrade(a)
  \/ HydeTick
HydeSpec == HydeInit /\ [][HydeNext]_hyde
-----------------------------------------------------------------------------
(* "Same query -> same pseudo-doc until the entry ages out": a search is   *)
(* given a text made for a query with its own key, by its own call or by   *)
(* one whose text was stored no more than the time to live before, in      *)
(* whatever order the calls returned; and all this only if the gate let    *)
(* the query through.                                                      *)
PseudoDocFits ==
  \A a \in Askers : pseudo[a] # NoText =>
    LET b == pseudo[a] IN
    /\ query[b].key = query[a].key
    /\ ShouldHyde(query[a])
    /\ b # a => kept[b] <= looked[a] /\ looked[a] <= kept[b] + HydeTtl
=============================================================================
