----------------------------- MODULE RateLimiter -----------------------------
(***************************************************************************)
(* TokenBucketLimiter (api/rate_limit.py): a token bucket per client, in   *)
(* an OrderedDict of at most MaxBuckets that drops the client heard from   *)
(* least recently.                                                         *)
(*                                                                         *)
(* Time is time.monotonic() in ticks, Second of them to a second, Window   *)
(* to window_seconds.  Tokens are counted in units of 1/Window, so that a  *)
(* bucket gains Capacity units per tick and a hit costs Window of them:    *)
(* the floats of the code are exact rationals here.  hit and retry_after   *)
(* run on the event loop without an await between them, so a refused       *)
(* request is one step.                                                    *)
(*                                                                         *)
(* An observer counts what one client is allowed from an instant of its    *)
(* choice, and anew when the client gets a new bucket.  A definition whose *)
(* name starts with Mut is the definition after it with a plausible bug;   *)
(* the properties are shown to catch it.                                   *)
(***************************************************************************)
EXTENDS Naturals, Sequences

CONSTANTS
  Clients,     \* client_ip() of the requests
  Capacity,    \* tokens in a full bucket
  Window,      \* ticks in which an empty bucket fills up
  Second,      \* ticks in a second
  MaxBuckets,  \* buckets kept
  MaxMono      \* last instant of the model's clock (bound of the model)

ASSUME LimiterAssumption ==
  /\ Capacity \in Nat \ {0} /\ Window \in Nat \ {0} /\ Second \in Nat \ {0}
  /\ MaxBuckets \in Nat \ {0} /\ MaxMono \in Nat

VARIABLES
  order,    \* the keys of _buckets, least recently hit first
  tokens,   \* tokens[k]: units in k's bucket after its last hit
  last,     \* last[k]: last_refill, the instant of k's last hit
  mono,     \* time.monotonic()
  told,     \* told[k]: when the last refusal of k told it to come back, or 0
  observed  \* the observer: client, since when, hits allowed since

limiter == <<order, tokens, last, mono, told, observed>>

Full    == Capacity * Window
Known   == {order[i] : i \in 1..Len(order)}
AtMost(n, m)  == IF n <= m THEN n ELSE m
AtLeast(n, m) == IF n >= m THEN n ELSE m
CeilDiv(n, d) == (n + d - 1) \div d

LimiterInit ==
  /\ order = <<>>
  /\ tokens = [k \in Clients |-> 0]
  /\ last = [k \in Clients |-> 0]
  /\ mono = 0
  /\ told = [k \in Clients |-> 0]
  /\ observed \in [who : Clients, since : {0}, spent : {0}]

(* move_to_end, or a new last entry and popitem(last=False) when it is one *)
(* too many.                                                               *)
Ordered(k) ==
  IF k \in Known
    THEN LET at == CHOOSE i \in 1..Len(order) : order[i] = k
         IN  [i \in 1..Len(order) |->
                IF i < at THEN order[i] ELSE IF i < Len(order) THEN order[i + 1] ELSE k]
    ELSE IF Len(order) < MaxBuckets THEN Append(order, k) ELSE Append(Tail(order), k)

MutRefilled(k) == IF k \in Known THEN tokens[k] + (mono - last[k]) * Capacity ELSE Full
(* What a hit finds in the bucket: a new one is full.                      *)
Refilled(k) ==
  IF k \in Known THEN AtMost(Full, tokens[k] + (mono - last[k]) * Capacity) ELSE Full

MutRetryAfter(units) == AtLeast(1, (Window - units) \div (Capacity * Second))
(* retry_after of a bucket with that many units, fewer than a hit costs.   *)
RetryAfter(units) == AtLeast(1, CeilDiv(Window - units, Capacity * Second))

(* Tokens left by a hit: one is taken if there is one.                     *)
Taken(k) == IF Refilled(k) >= Window THEN Refilled(k) - Window ELSE Refilled(k)

(* raise_429_if_limited: hit, and retry_after when it says no.             *)
Hit(k) ==
  LET allowed == Refilled(k) >= Window IN
  /\ order' = Ordered(k)
  /\ tokens' = [tokens EXCEPT ![k] = Taken(k)]
  /\ last' = [last EXCEPT ![k] = mono]
  /\ told' = [told EXCEPT ![k] =
                IF allowed THEN 0 ELSE mono + RetryAfter(Refilled(k)) * Second]
  /\ observed' =
       IF k # observed.who THEN observed
       ELSE IF k \notin Known THEN [who |-> k, since |-> mono, spent |-> 1]
       ELSE [who   |-> k,
             since |-> observed.since,
             spent |-> IF allowed THEN observed.spent + 1 ELSE observed.spent]
  /\ UNCHANGED mono

(* The observer starts to count again.                                     *)
Observe ==
  /\ observed' = [who |-> observed.who, since |-> mono, spent |-> 0]
  /\ UNCHANGED <<order, tokens, last, mono, told>>

MonoTick ==
  /\ mono < MaxMono
  /\ mono' = mono + 1
  /\ UNCHANGED <<order, tokens, last, told, observed>>

LimiterNext == (\E k \in Clients : Hit(k)) \/ Observe \/ MonoTick
LimiterSpec == LimiterInit /\ [][LimiterNext]_limiter
-----------------------------------------------------------------------------
LimiterTypeOK ==
  /\ order \in Seq(Clients)
  /\ tokens \in [Clients -> Nat]
  /\ last \in [Clients -> Nat]
  /\ mono \in Nat
  /\ told \in [Clients -> Nat]
  /\ observed \in [who : Clients, since : Nat, spent : Nat]

(* In any stretch of time, for as long as it keeps its bucket, a client is *)
(* allowed a full bucket and what Capacity per Window amounts to.          *)
RateIsBounded ==
  observed.spent * Window <= Full + (mono - observed.since) * Capacity

(* A client that comes back when Retry-After said, or later, and has not   *)
(* been answered since, is not refused again.                              *)
RetryAfterSuffices ==
  [][\A k \in Clients :
       told[k] # 0 /\ told[k] <= mono => told'[k] \in {0, told[k]}]_limiter

(* The inductive invariant.                                                *)
TokensFit == \A k \in Clients : tokens[k] <= Full /\ last[k] <= mono
PromisesKept ==
  \A k \in Clients : k \in Known /\ told[k] # 0 =>
    /\ last[k] <= told[k]
    /\ Window <= tokens[k] + (told[k] - last[k]) * Capacity
ObservedFits ==
  LET k == observed.who IN
  /\ observed.since <= mono
  /\ IF observed.since <= last[k]
       THEN observed.spent * Window + tokens[k]
              <= Full + (last[k] - observed.since) * Capacity
       ELSE observed.spent = 0
LimiterInv ==
  /\ LimiterTypeOK
  /\ TokensFit
  /\ PromisesKept
  /\ ObservedFits
=============================================================================
