---------------------------- MODULE ProcessProofs ----------------------------
(* Proofs about what lives and dies with a process.                        *)
(*                                                                         *)
(* RateLimiter, for any clients, capacity, window and number of buckets:   *)
(* LimiterInv is inductive, and with it the rate is bounded over any       *)
(* stretch of time and Retry-After is kept.                                *)
(*                                                                         *)
(* RegistryCache, for any numbers of requests, dimensions and ingestion    *)
(* runs and any RegistryTtl: RegistryInv is inductive, and with it what a  *)
(* request is told was true less than RegistryTtl before the request       *)
(* arrived.                                                                *)
(*                                                                         *)
(* Startup, for any fleet of instances, any deployments and any number of  *)
(* revisions and restarts: a revision is applied once, and whoever serves  *)
(* has the schema, the clients and the environment it needs.               *)
(*                                                                         *)
(* HydeCache, for any searches, queries and limits: HydeInv is inductive,  *)
(* so that every text a search is given was made for its own key and is    *)
(* young enough, and the store stays a bounded dict.                       *)
EXTENDS RateLimiter, RegistryCache, Startup, HydeCache, SequenceTheorems, TLAPS

----------------------------------------------------------------------------
(* RateLimiter.                                                            *)

(* What passes in two stretches of time passes in both together.           *)
LEMMA Stretches ==
  ASSUME NEW x \in Nat, NEW y \in Nat, NEW z \in Nat, NEW c \in Nat, x <= y, y <= z
  PROVE  /\ (z - y) * c + (y - x) * c = (z - x) * c
         /\ (y - x) * c <= (z - x) * c
         /\ (z - y) * c \in Nat /\ (y - x) * c \in Nat /\ (z - x) * c \in Nat
<1>1. PICK p \in Nat : y = x + p
  BY x <= y
<1>2. PICK q \in Nat : z = y + q
  BY y <= z
<1>3. y - x = p /\ z - y = q /\ z - x = p + q
  BY <1>1, <1>2
<1>4. (p + q) * c = p * c + q * c /\ p * c \in Nat /\ q * c \in Nat
  BY <1>1, <1>2
<1>5. QED
  BY <1>3, <1>4

(* Rounding up covers what is rounded.                                     *)
LEMMA CeilCovers ==
  ASSUME NEW n \in Nat, NEW d \in Nat \ {0}
  PROVE  CeilDiv(n, d) \in Nat /\ n <= CeilDiv(n, d) * d
<1>1. n + d - 1 \in Nat /\ d > 0
  OBVIOUS
<1>2. (n + d - 1) \div d \in Nat
  BY <1>1
<1>3. n + d - 1 < d * ((n + d - 1) \div d) + d
  BY <1>1
<1>4. QED
  BY <1>2, <1>3 DEF CeilDiv

(* A refused client finds a token after as many seconds as it was told.    *)
LEMMA RetryAfterCovers ==
  ASSUME NEW u \in Nat, u < Window
  PROVE  /\ RetryAfter(u) \in Nat
         /\ Window <= u + (RetryAfter(u) * Second) * Capacity
<1>1. Window - u \in Nat /\ Capacity * Second \in Nat \ {0}
  BY LimiterAssumption
<1>2. PICK c \in Nat : c = CeilDiv(Window - u, Capacity * Second) /\ Window - u <= c * (Capacity * Second)
  BY <1>1, CeilCovers
<1>3. RetryAfter(u) \in Nat /\ c <= RetryAfter(u)
  BY <1>2 DEF RetryAfter, AtLeast
<1>4. c * (Capacity * Second) <= RetryAfter(u) * (Capacity * Second)
  BY <1>1, <1>2, <1>3
<1>5. RetryAfter(u) * (Capacity * Second) = (RetryAfter(u) * Second) * Capacity
  BY <1>3, LimiterAssumption
<1>6. (RetryAfter(u) * Second) * Capacity \in Nat
  BY <1>3, LimiterAssumption
<1>7. QED
  BY <1>2, <1>3, <1>4, <1>5, <1>6, LimiterAssumption

(* A full bucket holds a token at least.                                   *)
LEMMA FullCoversAHit == Full \in Nat /\ Window <= Full /\ Window \in Nat /\ Capacity \in Nat
<1>1. Capacity \in Nat /\ Window \in Nat /\ Capacity >= 1
  BY LimiterAssumption
<1>2. PICK c \in Nat : Capacity = c + 1
  BY <1>1
<1>3. Capacity * Window = c * Window + Window /\ c * Window \in Nat
  BY <1>1, <1>2
<1>4. QED
  BY <1>1, <1>3 DEF Full

(* A hit brings the client to the end of the dict, and nobody else in.     *)
LEMMA OrderedKnows ==
  ASSUME order \in Seq(Clients), NEW k \in Clients
  PROVE  /\ Ordered(k) \in Seq(Clients)
         /\ \A i \in 1..Len(Ordered(k)) : Ordered(k)[i] \in Known \cup {k}
<1>1. CASE k \in Known
  <2>1. PICK spot \in Nat : Ordered(k) = [i \in 1..Len(order) |->
                IF i < spot THEN order[i] ELSE IF i < Len(order) THEN order[i + 1] ELSE k]
    <3>1. DEFINE spot == CHOOSE i \in 1..Len(order) : order[i] = k
    <3>2. \E i \in 1..Len(order) : order[i] = k
      BY <1>1 DEF Known
    <3>3. spot \in Nat
      BY <3>2
    <3>4. QED
      BY <1>1, <3>3 DEF Ordered
  <2>2. Len(order) \in Nat /\ \A i \in 1..Len(order) : order[i] \in Known /\ order[i] \in Clients
    BY DEF Known
  <2>3. \A i \in 1..Len(order) : i < Len(order) => i + 1 \in 1..Len(order)
    BY <2>2
  <2>4. \A i \in 1..Len(order) : Ordered(k)[i] \in Clients /\ Ordered(k)[i] \in Known \cup {k}
    BY <2>1, <2>2, <2>3
  <2>5. Ordered(k) \in [1..Len(order) -> Clients]
    BY <2>1, <2>2, <2>3
  <2>6. Ordered(k) \in Seq(Clients) /\ Len(Ordered(k)) = Len(order)
    BY <2>2, <2>5, SMT
  <2>7. QED
    BY <2>4, <2>6
<1>2. CASE k \notin Known /\ Len(order) < MaxBuckets
  <2>1. Ordered(k) = Append(order, k)
    BY <1>2 DEF Ordered
  <2>2. QED
    BY <2>1 DEF Known
<1>3. CASE k \notin Known /\ ~(Len(order) < MaxBuckets)
  <2>1. Ordered(k) = Append(Tail(order), k) /\ order # <<>>
    BY <1>3, LimiterAssumption DEF Ordered
  <2>2. Tail(order) \in Seq(Clients) /\ Len(Tail(order)) = Len(order) - 1 /\ Len(order) \in Nat
    BY <2>1
  <2>3. \A i \in 1..Len(Tail(order)) : Tail(order)[i] = order[i + 1] /\ i + 1 \in 1..Len(order)
    BY <2>1, <2>2
  <2>4. PICK t \in Seq(Clients) :
          t = Tail(order) /\ \A i \in 1..Len(t) : t[i] \in Known
    <3>1. \A i \in 1..Len(Tail(order)) : Tail(order)[i] \in Known
      BY <2>3, Zenon DEF Known
    <3>2. QED
      BY <2>2, <3>1
  <2>5. Ordered(k) = Append(t, k)
    BY <2>1, <2>4
  <2>6. \A i \in 1..Len(Append(t, k)) :
          Append(t, k)[i] = k \/ (i \in 1..Len(t) /\ Append(t, k)[i] = t[i])
    OBVIOUS
  <2>7. Append(t, k) \in Seq(Clients)
    OBVIOUS
  <2>8. QED
    BY <2>4, <2>5, <2>6, <2>7
<1>4. QED
  BY <1>1, <1>2, <1>3

(* What a hit finds: never more than a full bucket, never less than what   *)
(* the time since the last hit has brought.                                *)
LEMMA RefilledFits ==
  ASSUME LimiterInv, NEW k \in Clients
  PROVE  /\ Refilled(k) \in Nat /\ Refilled(k) <= Full
         /\ k \in Known =>
              Refilled(k) = Full \/ Refilled(k) = tokens[k] + (mono - last[k]) * Capacity
         /\ k \in Known => Refilled(k) <= tokens[k] + (mono - last[k]) * Capacity
         /\ k \notin Known => Refilled(k) = Full
<1>1. tokens[k] \in Nat /\ last[k] \in Nat /\ mono \in Nat /\ last[k] <= mono
  BY DEF LimiterInv, LimiterTypeOK, TokensFit
<1>2. (mono - last[k]) * Capacity \in Nat
  BY <1>1, FullCoversAHit, Stretches
<1>3. PICK r \in Nat : r = tokens[k] + (mono - last[k]) * Capacity
  BY <1>1, <1>2
<1>4. Refilled(k) = IF k \in Known THEN AtMost(Full, r) ELSE Full
  BY <1>3 DEF Refilled
<1>5. QED
  BY <1>3, <1>4, FullCoversAHit DEF AtMost

(* What a hit leaves in a bucket: one token less, or what was there.       *)
LEMMA TakenFits ==
  ASSUME LimiterInv, NEW k \in Clients
  PROVE  /\ Taken(k) \in Nat /\ Taken(k) <= Full
         /\ Refilled(k) >= Window => Taken(k) + Window = Refilled(k)
         /\ Refilled(k) < Window => Taken(k) = Refilled(k)
  BY RefilledFits, FullCoversAHit DEF Taken

(* The bucket of a client that waited as it was told holds a token.        *)
LEMMA PromiseHolds ==
  ASSUME LimiterInv, NEW k \in Clients, told[k] # 0, told[k] <= mono
  PROVE  Refilled(k) >= Window
<1>1. CASE k \notin Known
  BY <1>1, RefilledFits, FullCoversAHit
<1>2. CASE k \in Known
  <2>1. /\ last[k] <= told[k] /\ Window <= tokens[k] + (told[k] - last[k]) * Capacity
        /\ tokens[k] \in Nat /\ last[k] \in Nat /\ told[k] \in Nat /\ mono \in Nat
    BY <1>2 DEF LimiterInv, PromisesKept, LimiterTypeOK
  <2>2. /\ (told[k] - last[k]) * Capacity <= (mono - last[k]) * Capacity
        /\ (told[k] - last[k]) * Capacity \in Nat /\ (mono - last[k]) * Capacity \in Nat
    BY <2>1, FullCoversAHit, Stretches
  <2>3. Window <= tokens[k] + (mono - last[k]) * Capacity
    BY <2>1, <2>2, FullCoversAHit
  <2>4. QED
    BY <1>2, <2>3, RefilledFits, FullCoversAHit
<1>3. QED
  BY <1>1, <1>2

(* What a hit does to each variable.                                       *)
LEMMA HitParts ==
  ASSUME LimiterInv, NEW k \in Clients, Hit(k)
  PROVE  /\ order' \in Seq(Clients) /\ \A i \in 1..Len(order') : order'[i] \in Known \cup {k}
         /\ tokens' = [tokens EXCEPT ![k] = Taken(k)]
         /\ last' = [last EXCEPT ![k] = mono]
         /\ mono' = mono
         /\ Refilled(k) >= Window => told' = [told EXCEPT ![k] = 0]
         /\ Refilled(k) < Window =>
              told' = [told EXCEPT ![k] = mono + RetryAfter(Refilled(k)) * Second]
         /\ k # observed.who => observed' = observed
         /\ k = observed.who /\ k \notin Known =>
              observed' = [who |-> k, since |-> mono, spent |-> 1]
         /\ k = observed.who /\ k \in Known =>
              observed' = [who |-> k, since |-> observed.since,
                           spent |-> IF Refilled(k) >= Window THEN observed.spent + 1
                                                              ELSE observed.spent]
<1>1. order' = Ordered(k) /\ order \in Seq(Clients)
  BY DEF Hit, LimiterInv, LimiterTypeOK
<1>2. order' \in Seq(Clients) /\ \A i \in 1..Len(order') : order'[i] \in Known \cup {k}
  BY <1>1, OrderedKnows
<1>3. Refilled(k) \in Nat /\ Window \in Nat
  BY RefilledFits, FullCoversAHit
<1>4. Refilled(k) < Window <=> ~(Refilled(k) >= Window)
  BY <1>3
<1>5. /\ told' = [told EXCEPT ![k] =
                    IF Refilled(k) >= Window THEN 0 ELSE mono + RetryAfter(Refilled(k)) * Second]
      /\ tokens' = [tokens EXCEPT ![k] = Taken(k)]
      /\ last' = [last EXCEPT ![k] = mono]
      /\ mono' = mono
  BY DEF Hit
<1>6. observed' =
       IF k # observed.who THEN observed
       ELSE IF k \notin Known THEN [who |-> k, since |-> mono, spent |-> 1]
       ELSE [who   |-> k,
             since |-> observed.since,
             spent |-> IF Refilled(k) >= Window THEN observed.spent + 1 ELSE observed.spent]
  BY DEF Hit
<1>7. /\ Refilled(k) >= Window => told' = [told EXCEPT ![k] = 0]
      /\ Refilled(k) < Window =>
           told' = [told EXCEPT ![k] = mono + RetryAfter(Refilled(k)) * Second]
  BY <1>4, <1>5
<1>8. QED
  BY <1>2, <1>5, <1>6, <1>7, Zenon

(* A limiter begins with no buckets.                                       *)
LEMMA LimiterInvInit == LimiterInit => LimiterInv
<1>1. ASSUME LimiterInit PROVE LimiterTypeOK
  BY <1>1 DEF LimiterInit, LimiterTypeOK
<1>2. ASSUME LimiterInit PROVE TokensFit /\ PromisesKept
  BY <1>2, FullCoversAHit DEF LimiterInit, TokensFit, PromisesKept
<1>3. ASSUME LimiterInit PROVE ObservedFits
  <2>1. observed.who \in Clients /\ observed.since = 0 /\ observed.spent = 0
    BY <1>3 DEF LimiterInit
  <2>2. tokens[observed.who] = 0 /\ last[observed.who] = 0 /\ mono = 0
    BY <1>3, <2>1 DEF LimiterInit
  <2>3. 0 * Window = 0 /\ (0 - 0) * Capacity = 0
    BY FullCoversAHit
  <2>4. QED
    BY <2>1, <2>2, <2>3, FullCoversAHit DEF ObservedFits
<1>4. QED
  BY <1>1, <1>2, <1>3 DEF LimiterInv

(* A hit leaves well-typed buckets, none of them overfull.                 *)
LEMMA HitKeepsTypes ==
  ASSUME LimiterInv, NEW k \in Clients, Hit(k)
  PROVE  LimiterTypeOK' /\ TokensFit'
<1>1. /\ tokens \in [Clients -> Nat] /\ last \in [Clients -> Nat] /\ mono \in Nat
      /\ told \in [Clients -> Nat]
      /\ observed \in [who : Clients, since : Nat, spent : Nat]
  BY DEF LimiterInv, LimiterTypeOK
<1>2. Taken(k) \in Nat /\ Taken(k) <= Full
  BY TakenFits
<1>3. tokens' \in [Clients -> Nat] /\ last' \in [Clients -> Nat] /\ mono' \in Nat
  <2>1. /\ tokens' = [tokens EXCEPT ![k] = Taken(k)]
        /\ last' = [last EXCEPT ![k] = mono] /\ mono' = mono
    BY HitParts
  <2>2. QED
    BY <1>1, <1>2, <2>1
<1>4. told' \in [Clients -> Nat]
  <2>1. CASE Refilled(k) >= Window
    BY <1>1, <2>1, HitParts, SMTT(30)
  <2>2. CASE Refilled(k) < Window
    <3>1. RetryAfter(Refilled(k)) * Second \in Nat
      BY <2>2, RefilledFits, RetryAfterCovers, LimiterAssumption
    <3>2. PICK x \in Nat : x = mono + RetryAfter(Refilled(k)) * Second
      BY <1>1, <3>1
    <3>3. told' = [told EXCEPT ![k] = x]
      BY <2>2, <3>2, HitParts, Zenon
    <3>4. QED
      BY <1>1, <3>3
  <2>3. QED
    BY <2>1, <2>2, RefilledFits, FullCoversAHit
<1>5. observed' \in [who : Clients, since : Nat, spent : Nat]
  <2>1. CASE k # observed.who
    BY <1>1, <2>1, HitParts
  <2>2. CASE k = observed.who /\ k \notin Known
    BY <1>1, <2>2, HitParts
  <2>3. CASE k = observed.who /\ k \in Known
    <3>1. PICK n : n = IF Refilled(k) >= Window THEN observed.spent + 1 ELSE observed.spent
      OBVIOUS
    <3>2. n \in Nat
      BY <1>1, <3>1
    <3>3. observed' = [who |-> k, since |-> observed.since, spent |-> n]
      BY <2>3, <3>1, HitParts, Zenon
    <3>4. QED
      BY <1>1, <3>2, <3>3
  <2>4. QED
    BY <2>1, <2>2, <2>3
<1>6. TokensFit'
  <2>1. ASSUME NEW j \in Clients PROVE tokens'[j] <= Full /\ last'[j] <= mono'
    <3>1. CASE j = k
      BY <1>1, <1>2, <3>1, HitParts
    <3>2. CASE j # k
      BY <1>1, <3>2, HitParts DEF LimiterInv, TokensFit
    <3>3. QED
      BY <3>1, <3>2
  <2>2. QED
    BY <2>1 DEF TokensFit, Full
<1>7. QED
  BY <1>3, <1>4, <1>5, <1>6, HitParts DEF LimiterTypeOK

(* A hit keeps the promises made by Retry-After, and makes one that can be *)
(* kept.                                                                   *)
LEMMA HitKeepsPromises ==
  ASSUME LimiterInv, NEW k \in Clients, Hit(k)
  PROVE  PromisesKept'
<1>1. /\ tokens \in [Clients -> Nat] /\ last \in [Clients -> Nat] /\ mono \in Nat
      /\ told \in [Clients -> Nat]
  BY DEF LimiterInv, LimiterTypeOK
<1>2. ASSUME NEW j \in Clients, j \in Known', told'[j] # 0
      PROVE  /\ last'[j] <= told'[j]
             /\ Window <= tokens'[j] + (told'[j] - last'[j]) * Capacity
  <2>1. CASE j # k
    <3>1. \E x : told' = [told EXCEPT ![k] = x]
      BY DEF Hit
    <3>2. told'[j] = told[j]
      BY <1>1, <2>1, <3>1
    <3>3. tokens'[j] = tokens[j] /\ last'[j] = last[j]
      BY <1>1, <2>1, HitParts
    <3>4. j \in Known
      <4>1. PICK i \in 1..Len(order') : order'[i] = j
        BY <1>2 DEF Known
      <4>2. QED
        BY <2>1, <4>1, HitParts
    <3>5. QED
      BY <1>2, <3>2, <3>3, <3>4 DEF LimiterInv, PromisesKept
  <2>2. CASE j = k
    <3>1. Refilled(k) < Window
      BY <1>1, <1>2, <2>2, HitParts, RefilledFits, FullCoversAHit
    <3>2. PICK w \in Nat : w = RetryAfter(Refilled(k)) * Second
      BY <3>1, RefilledFits, RetryAfterCovers, LimiterAssumption
    <3>3. /\ told'[k] = mono + w /\ last'[k] = mono /\ tokens'[k] = Refilled(k)
      BY <1>1, <3>1, <3>2, HitParts, TakenFits
    <3>4. Window <= Refilled(k) + w * Capacity
      BY <3>1, <3>2, RefilledFits, RetryAfterCovers
    <3>5. (mono + w) - mono = w
      BY <1>1, <3>2
    <3>6. QED
      BY <1>1, <2>2, <3>2, <3>3, <3>4, <3>5
  <2>3. QED
    BY <2>1, <2>2
<1>3. QED
  BY <1>2 DEF PromisesKept

(* An allowed hit takes its token out of the observed bucket.              *)
LEMMA HitKeepsCount ==
  ASSUME LimiterInv, NEW k \in Clients, Hit(k)
  PROVE  ObservedFits'
<1>1. /\ tokens \in [Clients -> Nat] /\ last \in [Clients -> Nat] /\ mono \in Nat
      /\ observed \in [who : Clients, since : Nat, spent : Nat]
      /\ observed.since <= mono /\ mono' = mono
  BY HitParts DEF LimiterInv, LimiterTypeOK, ObservedFits
<1>2. CASE k # observed.who
  <2>1. /\ observed' = observed /\ tokens'[observed.who] = tokens[observed.who]
        /\ last'[observed.who] = last[observed.who]
    BY <1>1, <1>2, HitParts
  <2>2. QED
    BY <1>1, <2>1 DEF LimiterInv, ObservedFits, Full
<1>3. CASE k = observed.who /\ k \notin Known
  <2>1. observed'.who = k /\ observed'.since = mono /\ observed'.spent = 1
    BY <1>3, HitParts
  <2>2. last'[k] = mono /\ tokens'[k] = Taken(k) /\ Taken(k) + Window = Full
    BY <1>1, <1>3, HitParts, TakenFits, RefilledFits, FullCoversAHit
  <2>3. 1 * Window = Window /\ (mono - mono) * Capacity = 0
    BY <1>1, FullCoversAHit
  <2>4. QED
    BY <1>1, <2>1, <2>2, <2>3, FullCoversAHit, TakenFits DEF ObservedFits, Full
<1>4. CASE k = observed.who /\ k \in Known
  <2>1. PICK n \in Nat, s \in Nat, a \in Nat :
          /\ n = observed.spent /\ s = observed.since
          /\ a = IF Refilled(k) >= Window THEN n + 1 ELSE n
    BY <1>1
  <2>2. observed'.who = k /\ observed'.since = s /\ observed'.spent = a
    BY <1>4, <2>1, HitParts
  <2>3. last'[k] = mono /\ tokens'[k] = Taken(k) /\ s <= mono
    BY <1>1, <2>1, HitParts
  <2>4. n * Window \in Nat /\ a * Window \in Nat
    BY <2>1, FullCoversAHit
  <2>5. Taken(k) \in Nat /\ Refilled(k) \in Nat
    BY TakenFits, RefilledFits
  <2>6. PICK b \in Nat, e \in Nat, t \in Nat, r \in Nat :
          /\ b = n * Window /\ e = a * Window /\ t = Taken(k) /\ r = Refilled(k)
    BY <2>4, <2>5
  <2>7. (n + 1) * Window = n * Window + Window
    BY <2>1, FullCoversAHit
  <2>8. e + t = b + r
    BY <2>1, <2>6, <2>7, TakenFits, FullCoversAHit
  <2>9. (mono - s) * Capacity \in Nat
    BY <1>1, <2>1, <2>3, FullCoversAHit, Stretches
  <2>10. b + r <= Full + (mono - s) * Capacity
    <3>1. CASE s <= last[k]
      <4>1. b + tokens[k] <= Full + (last[k] - s) * Capacity
        BY <1>4, <2>1, <2>6, <3>1 DEF LimiterInv, ObservedFits
      <4>2. r <= tokens[k] + (mono - last[k]) * Capacity
        BY <1>4, <2>6, RefilledFits
      <4>3. last[k] <= mono /\ last[k] \in Nat /\ tokens[k] \in Nat
        BY <1>1 DEF LimiterInv, TokensFit
      <4>4. /\ (mono - last[k]) * Capacity + (last[k] - s) * Capacity = (mono - s) * Capacity
            /\ (mono - last[k]) * Capacity \in Nat /\ (last[k] - s) * Capacity \in Nat
        BY <1>1, <2>1, <3>1, <4>3, FullCoversAHit, Stretches
      <4>5. QED
        BY <2>6, <2>9, <4>1, <4>2, <4>3, <4>4, FullCoversAHit
    <3>2. CASE ~(s <= last[k])
      <4>1. n = 0
        BY <1>4, <2>1, <3>2 DEF LimiterInv, ObservedFits
      <4>2. b = 0
        BY <2>6, <4>1, FullCoversAHit
      <4>3. QED
        BY <2>6, <2>9, <4>2, RefilledFits, FullCoversAHit
    <3>3. QED
      BY <3>1, <3>2
  <2>11. e + t <= Full + (mono - s) * Capacity
    BY <2>8, <2>10
  <2>12. QED
    BY <1>1, <2>2, <2>3, <2>6, <2>11 DEF ObservedFits, Full
<1>5. QED
  BY <1>2, <1>3, <1>4

(* The observer begins to count with the bucket as it is.                  *)
LEMMA ObserveKeepsInv ==
  ASSUME LimiterInv, Observe
  PROVE  LimiterInv'
<1>1. /\ observed' = [who |-> observed.who, since |-> mono, spent |-> 0]
      /\ UNCHANGED <<order, tokens, last, mono, told>>
  BY DEF Observe
<1>2. /\ observed.who \in Clients /\ mono \in Nat
      /\ tokens[observed.who] \in Nat /\ tokens[observed.who] <= Full
      /\ last[observed.who] \in Nat /\ last[observed.who] <= mono
  BY DEF LimiterInv, LimiterTypeOK, TokensFit
<1>3. LimiterTypeOK' /\ TokensFit'
  BY <1>1, <1>2 DEF LimiterInv, LimiterTypeOK, TokensFit, Full
<1>4. PromisesKept'
  BY <1>1 DEF LimiterInv, PromisesKept, Known
<1>5. ObservedFits'
  <2>1. observed'.who = observed.who /\ observed'.since = mono /\ observed'.spent = 0
    BY <1>1
  <2>2. 0 * Window = 0 /\ (mono - mono) * Capacity = 0
    BY <1>2, FullCoversAHit
  <2>3. ASSUME mono <= last[observed.who]
        PROVE  0 * Window + tokens[observed.who]
                 <= Full + (last[observed.who] - mono) * Capacity
    <3>1. last[observed.who] = mono
      BY <1>2, <2>3
    <3>2. QED
      BY <1>2, <2>2, <3>1, FullCoversAHit
  <2>4. /\ observed'.since <= mono'
        /\ IF observed'.since <= last'[observed'.who]
             THEN observed'.spent * Window + tokens'[observed'.who]
                    <= Full + (last'[observed'.who] - observed'.since) * Capacity
             ELSE observed'.spent = 0
    BY <1>1, <1>2, <2>1, <2>3
  <2>5. QED
    BY <2>4 DEF ObservedFits, Full
<1>6. QED
  BY <1>3, <1>4, <1>5 DEF LimiterInv

(* Time refills what it promised.                                          *)
LEMMA MonoTickKeepsInv ==
  ASSUME LimiterInv, MonoTick
  PROVE  LimiterInv'
<1>1. mono' = mono + 1 /\ UNCHANGED <<order, tokens, last, told, observed>>
  BY DEF MonoTick
<1>2. mono \in Nat /\ observed.since \in Nat /\ observed.since <= mono
      /\ \A k \in Clients : last[k] \in Nat /\ last[k] <= mono /\ tokens[k] <= Full
  BY DEF LimiterInv, LimiterTypeOK, TokensFit, ObservedFits
<1>3. LimiterTypeOK'
  BY <1>1 DEF LimiterInv, LimiterTypeOK
<1>4. TokensFit'
  BY <1>1, <1>2 DEF TokensFit, Full
<1>5. PromisesKept'
  BY <1>1 DEF LimiterInv, PromisesKept, Known
<1>6. ObservedFits'
  BY <1>1, <1>2 DEF LimiterInv, ObservedFits, Full
<1>7. QED
  BY <1>3, <1>4, <1>5, <1>6 DEF LimiterInv

(* The buckets, the promises of Retry-After and the observer's count.      *)
THEOREM LimiterInvariance == LimiterSpec => []LimiterInv
<1>1. LimiterInv /\ [LimiterNext]_limiter => LimiterInv'
  <2>1. ASSUME LimiterInv, NEW k \in Clients, Hit(k) PROVE LimiterInv'
    BY <2>1, HitKeepsTypes, HitKeepsPromises, HitKeepsCount DEF LimiterInv
  <2>2. ASSUME LimiterInv, UNCHANGED limiter PROVE LimiterInv'
    BY <2>2 DEF limiter, LimiterInv, LimiterTypeOK, TokensFit, PromisesKept, ObservedFits,
                Known, Full
  <2>3. QED
    BY <2>1, <2>2, ObserveKeepsInv, MonoTickKeepsInv DEF LimiterNext
<1>2. QED
  BY <1>1, LimiterInvInit, PTL DEF LimiterSpec

(* hit() lets no client have more than its bucket and the rate allow, over *)
(* any stretch of time in which its bucket is not evicted.                 *)
THEOREM TheRateIsBounded == LimiterSpec => []RateIsBounded
<1>1. ASSUME LimiterInv PROVE RateIsBounded
  <2>1. PICK k \in Clients, s \in Nat, n \in Nat :
          k = observed.who /\ s = observed.since /\ n = observed.spent
    BY <1>1 DEF LimiterInv, LimiterTypeOK
  <2>2. /\ s <= mono /\ mono \in Nat /\ last[k] \in Nat /\ last[k] <= mono
        /\ tokens[k] \in Nat
    BY <1>1, <2>1 DEF LimiterInv, LimiterTypeOK, TokensFit, ObservedFits
  <2>3. n * Window \in Nat /\ (mono - s) * Capacity \in Nat
    BY <2>1, <2>2, FullCoversAHit, Stretches
  <2>4. n * Window <= Full + (mono - s) * Capacity
    <3>1. CASE s <= last[k]
      <4>1. n * Window + tokens[k] <= Full + (last[k] - s) * Capacity
        BY <1>1, <2>1, <3>1 DEF LimiterInv, ObservedFits
      <4>2. (last[k] - s) * Capacity <= (mono - s) * Capacity /\ (last[k] - s) * Capacity \in Nat
        BY <2>1, <2>2, <3>1, FullCoversAHit, Stretches
      <4>3. QED
        BY <2>2, <2>3, <4>1, <4>2, FullCoversAHit
    <3>2. CASE ~(s <= last[k])
      <4>1. n = 0
        BY <1>1, <2>1, <3>2 DEF LimiterInv, ObservedFits
      <4>2. n * Window = 0
        BY <4>1, FullCoversAHit
      <4>3. QED
        BY <2>3, <4>2, FullCoversAHit
    <3>3. QED
      BY <3>1, <3>2
  <2>5. QED
    BY <2>1, <2>4 DEF RateIsBounded
<1>2. QED
  BY <1>1, LimiterInvariance, PTL

(* retry_after() tells a refused client a time at which, or after which,   *)
(* hit() lets it in, evicted or not.                                       *)
THEOREM RetryAfterIsKept == LimiterSpec => RetryAfterSuffices
<1>1. ASSUME LimiterInv, [LimiterNext]_limiter,
             NEW k \in Clients, told[k] # 0, told[k] <= mono
      PROVE  told'[k] \in {0, told[k]}
  <2>1. told \in [Clients -> Nat]
    BY <1>1 DEF LimiterInv, LimiterTypeOK
  <2>2. ASSUME NEW j \in Clients, Hit(j) PROVE told'[k] \in {0, told[k]}
    <3>1. CASE j = k
      BY <1>1, <2>1, <2>2, <3>1, PromiseHolds, HitParts
    <3>2. CASE j # k
      <4>1. \E x : told' = [told EXCEPT ![j] = x]
        BY <2>2 DEF Hit
      <4>2. QED
        BY <2>1, <3>2, <4>1
    <3>3. QED
      BY <3>1, <3>2
  <2>3. CASE UNCHANGED told
    BY <2>3
  <2>4. QED
    BY <1>1, <2>2, <2>3 DEF LimiterNext, Observe, MonoTick, limiter
<1>2. LimiterInv /\ [LimiterNext]_limiter =>
        [\A k \in Clients :
           told[k] # 0 /\ told[k] <= mono => told'[k] \in {0, told[k]}]_limiter
  BY <1>1
<1>3. QED
  BY <1>2, LimiterInvariance, PTL DEF LimiterSpec, RetryAfterSuffices

----------------------------------------------------------------------------
(* RegistryCache.                                                          *)
Payloads == [Dimensions -> 0..MaxVersion + 1]

(* A payload of which nothing is read yet is one.                          *)
LEMMA NothingIsAPayload == Nothing \in Payloads
  BY RegistryAssumption DEF Nothing, Unread, Payloads

(* What was true at an instant stays so when a version ends.               *)
LEMMA IngestKeepsTruth ==
  ASSUME RegistryInv, Ingest, NEW v \in Nat, NEW t \in Nat,
         TrueAfter(v, t), t <= wall
  PROVE  TrueAfter(v, t)'
<1>1. /\ version \in Nat /\ version' = version + 1 /\ version \in 0..MaxVersion
      /\ ended' = [ended EXCEPT ![version] = wall] /\ wall \in Nat /\ wall' = wall
      /\ ended \in [0..MaxVersion -> Nat]
  BY RegistryAssumption DEF RegistryInv, RegistryTypeOK, Ingest
<1>2. v <= version /\ (v < version => t <= ended[v])
  BY DEF TrueAfter
<1>3. CASE v = version
  BY <1>1, <1>3, RegistryAssumption DEF TrueAfter
<1>4. CASE v < version
  <2>1. ended'[v] = ended[v] /\ v <= version'
    BY <1>1, <1>4, RegistryAssumption
  <2>2. QED
    BY <1>2, <1>4, <2>1 DEF TrueAfter
<1>5. QED
  BY <1>1, <1>2, <1>3, <1>4

(* The cache begins empty.                                                 *)
LEMMA RegistryInvInit == RegistryInit => RegistryInv
<1>1. ASSUME RegistryInit PROVE RegistryTypeOK
  BY <1>1, NothingIsAPayload, RegistryAssumption
  DEF RegistryInit, RegistryTypeOK, Phases, Never, Payloads
<1>2. ASSUME RegistryInit PROVE CacheHonest /\ PastKept
  BY <1>2, RegistryAssumption DEF RegistryInit, CacheHonest, PastKept, Never
<1>3. ASSUME RegistryInit PROVE RowsHonest /\ StaleWindow
  BY <1>3, RegistryAssumption DEF RegistryInit, RowsHonest, StaleWindow, Nothing, Unread
<1>4. QED
  BY <1>1, <1>2, <1>3 DEF RegistryInv

(* A request that finds the cache young enough is sent it, at built +      *)
(* RegistryTtl at the latest; any other starts to build.                   *)
LEMMA RequestKeepsInv ==
  ASSUME RegistryInv, NEW r \in Readers, Request(r)
  PROVE  RegistryInv'
<1>1. /\ phase[r] = "new"
      /\ arrived' = [arrived EXCEPT ![r] = wall]
      /\ first' = [first EXCEPT ![r] = version]
      /\ UNCHANGED <<version, ended, wall, built, payload, rows>>
  BY DEF Request
<1>2. \/ /\ phase' = [phase EXCEPT ![r] = "build"] /\ UNCHANGED answer
      \/ /\ phase' = [phase EXCEPT ![r] = "done"] /\ ~TtlExpired
         /\ answer' = [answer EXCEPT ![r] = payload]
  BY DEF Request
<1>3. RegistryTypeOK'
  <2>1. /\ arrived' \in [Readers -> 0..MaxWall] /\ first' \in [Readers -> 0..MaxVersion]
    BY <1>1 DEF RegistryInv, RegistryTypeOK
  <2>2. phase' \in [Readers -> Phases] /\ answer' \in [Readers -> [Dimensions -> 0..MaxVersion + 1]]
    BY <1>2 DEF RegistryInv, RegistryTypeOK, Phases
  <2>3. QED
    BY <1>1, <2>1, <2>2 DEF RegistryInv, RegistryTypeOK
<1>4. CacheHonest' /\ PastKept'
  BY <1>1 DEF RegistryInv, CacheHonest, PastKept, TrueAfter, Never, Nothing, Unread
<1>5. RowsHonest'
  <2>1. ASSUME NEW q \in Readers, NEW d \in Dimensions
        PROVE  /\ arrived'[q] <= wall' /\ first'[q] <= version'
               /\ rows'[q][d] # Unread => TrueAfter(rows[q][d], arrived[q])' /\ first'[q] <= rows'[q][d]
               /\ phase'[q] # "build" => rows'[q][d] = Unread
    <3>1. CASE q = r
      <4>1. rows'[q][d] = Unread
        BY <1>1, <3>1 DEF RegistryInv, RowsHonest
      <4>2. /\ arrived'[q] = wall /\ wall' = wall /\ wall \in Nat
            /\ first'[q] = version /\ version' = version /\ version \in Nat
        BY <1>1, <3>1, RegistryAssumption DEF RegistryInv, RegistryTypeOK
      <4>3. QED
        BY <4>1, <4>2
    <3>2. CASE q # r
      <4>1. arrived'[q] = arrived[q] /\ first'[q] = first[q] /\ phase'[q] = phase[q]
        BY <1>1, <1>2, <3>2 DEF RegistryInv, RegistryTypeOK
      <4>2. QED
        BY <1>1, <4>1 DEF RegistryInv, RowsHonest, TrueAfter
    <3>3. QED
      BY <3>1, <3>2
  <2>2. QED
    BY <2>1 DEF RowsHonest, Unread
<1>6. StaleWindow'
  <2>1. ASSUME NEW q \in Readers, NEW d \in Dimensions, phase'[q] = "done"
        PROVE  /\ answer'[q][d] <= version'
               /\ answer'[q][d] < first'[q] => arrived'[q] < ended'[answer'[q][d]] + RegistryTtl
    <3>1. CASE q = r
      <4>1. ~TtlExpired /\ answer'[q] = payload /\ arrived'[q] = wall /\ first'[q] = version
        BY <1>1, <1>2, <2>1, <3>1 DEF RegistryInv, RegistryTypeOK
      <4>2. built # Never /\ wall < built + RegistryTtl /\ built \in Nat /\ wall \in Nat /\ RegistryTtl \in Nat
        BY <4>1, RegistryAssumption DEF RegistryInv, RegistryTypeOK, TtlExpired
      <4>3. payload[d] <= version /\ (payload[d] < version => built <= ended[payload[d]])
        BY <4>2 DEF RegistryInv, CacheHonest, TrueAfter
      <4>4. payload[d] \in Nat /\ version \in 0..MaxVersion /\ ended \in [0..MaxVersion -> Nat]
        <5>1. RegistryTypeOK
          BY DEF RegistryInv
        <5>2. version \in 0..MaxVersion /\ ended \in [0..MaxVersion -> Nat]
          BY <5>1 DEF RegistryTypeOK
        <5>3. payload[d] \in Nat
          BY <5>1, RegistryAssumption DEF RegistryTypeOK
        <5> QED  BY <5>2, <5>3
      <4>5. payload[d] < version => ended[payload[d]] \in Nat
        BY <4>4, RegistryAssumption
      <4>6. QED
        BY <1>1, <4>1, <4>2, <4>3, <4>4, <4>5
    <3>2. CASE q # r
      <4>1. /\ arrived'[q] = arrived[q] /\ first'[q] = first[q] /\ phase'[q] = phase[q]
            /\ answer'[q] = answer[q]
        BY <1>1, <1>2, <3>2 DEF RegistryInv, RegistryTypeOK
      <4>2. QED
        BY <1>1, <2>1, <4>1 DEF RegistryInv, StaleWindow
    <3>3. QED
      BY <3>1, <3>2
  <2>2. QED
    BY <2>1 DEF StaleWindow
<1>7. QED
  BY <1>3, <1>4, <1>5, <1>6 DEF RegistryInv

(* A SELECT counts the corpus of its moment, which is no earlier than the  *)
(* request's arrival.                                                      *)
LEMMA AggregateKeepsInv ==
  ASSUME RegistryInv, NEW r \in Readers, NEW e \in Dimensions, Aggregate(r, e)
  PROVE  RegistryInv'
<1>1. /\ phase[r] = "build" /\ rows[r][e] = Unread
      /\ rows' = [rows EXCEPT ![r] = [rows[r] EXCEPT ![e] = version]]
      /\ UNCHANGED <<version, ended, wall, built, payload, phase, arrived, answer, first>>
  BY DEF Aggregate
<1>2. /\ rows \in [Readers -> [Dimensions -> 0..MaxVersion + 1]] /\ version \in 0..MaxVersion
      /\ first[r] \in Nat
  BY RegistryAssumption DEF RegistryInv, RegistryTypeOK
<1>3. rows' \in [Readers -> [Dimensions -> 0..MaxVersion + 1]]
  BY <1>1, <1>2, RegistryAssumption
<1>4. RegistryTypeOK'
  BY <1>1, <1>3 DEF RegistryInv, RegistryTypeOK
<1>5. CacheHonest' /\ PastKept' /\ StaleWindow'
  BY <1>1 DEF RegistryInv, CacheHonest, PastKept, StaleWindow, TrueAfter, Never, Nothing, Unread
<1>6. RowsHonest'
  <2>1. ASSUME NEW q \in Readers, NEW d \in Dimensions
        PROVE  /\ arrived'[q] <= wall' /\ first'[q] <= version'
               /\ rows'[q][d] # Unread => TrueAfter(rows[q][d], arrived[q])' /\ first'[q] <= rows'[q][d]
               /\ phase'[q] # "build" => rows'[q][d] = Unread
    <3>1. CASE q = r /\ d = e
      <4>1. rows'[q][d] = version /\ phase'[q] = "build"
        BY <1>1, <1>2, <3>1
      <4>2. first[q] <= version /\ arrived[q] <= wall
        BY <3>1 DEF RegistryInv, RowsHonest
      <4>3. QED
        BY <1>1, <1>2, <3>1, <4>1, <4>2 DEF TrueAfter
    <3>2. CASE ~ (q = r /\ d = e)
      <4>1. rows'[q][d] = rows[q][d]
        BY <1>1, <1>2, <3>2
      <4>2. QED
        BY <1>1, <4>1 DEF RegistryInv, RowsHonest, TrueAfter
    <3>3. QED
      BY <3>1, <3>2
  <2>2. QED
    BY <2>1 DEF RowsHonest, Unread
<1>7. QED
  BY <1>4, <1>5, <1>6 DEF RegistryInv


(* The payload is as old as the request's arrival, and so says built_at.   *)
LEMMA PublishKeepsInv ==
  ASSUME RegistryInv, NEW r \in Readers, Publish(r)
  PROVE  RegistryInv'
<1>1. /\ phase[r] = "build" /\ \A d \in Dimensions : rows[r][d] # Unread
      /\ payload' = rows[r] /\ built' = arrived[r]
      /\ answer' = [answer EXCEPT ![r] = rows[r]]
      /\ phase' = [phase EXCEPT ![r] = "done"]
      /\ rows' = [rows EXCEPT ![r] = Nothing]
      /\ UNCHANGED <<version, ended, wall, arrived, first>>
  BY DEF Publish
<1>2. RegistryTypeOK'
  BY <1>1, NothingIsAPayload, RegistryAssumption, SMTT(30)
  DEF RegistryInv, RegistryTypeOK, Phases, Payloads
<1>3. \A d \in Dimensions :
        /\ TrueAfter(rows[r][d], arrived[r]) /\ first[r] <= rows[r][d]
        /\ rows[r][d] \in Nat /\ first[r] \in Nat
  BY <1>1, RegistryAssumption DEF RegistryInv, RowsHonest, RegistryTypeOK
<1>4. CacheHonest'
  <2>1. arrived[r] <= wall
    BY RegistryAssumption DEF RegistryInv, RowsHonest
  <2>2. arrived[r] \in 0..MaxWall /\ built' # Never
    BY <1>1, RegistryAssumption DEF RegistryInv, RegistryTypeOK, Never
  <2>3. QED
    BY <1>1, <1>3, <2>1, <2>2 DEF CacheHonest, TrueAfter, Never
<1>5. RowsHonest'
  <2>1. ASSUME NEW q \in Readers, NEW d \in Dimensions
        PROVE  /\ arrived'[q] <= wall' /\ first'[q] <= version'
               /\ rows'[q][d] # Unread => TrueAfter(rows[q][d], arrived[q])' /\ first'[q] <= rows'[q][d]
               /\ phase'[q] # "build" => rows'[q][d] = Unread
    <3>1. CASE q = r
      BY <1>1, <3>1 DEF RegistryInv, RegistryTypeOK, RowsHonest, Nothing
    <3>2. CASE q # r
      <4>1. rows'[q] = rows[q] /\ phase'[q] = phase[q]
        BY <1>1, <3>2 DEF RegistryInv, RegistryTypeOK
      <4>2. QED
        BY <1>1, <4>1 DEF RegistryInv, RowsHonest, TrueAfter
    <3>3. QED
      BY <3>1, <3>2
  <2>2. QED
    BY <2>1 DEF RowsHonest, Unread
<1>6. StaleWindow'
  <2>1. ASSUME NEW q \in Readers, NEW d \in Dimensions, phase'[q] = "done"
        PROVE  /\ answer'[q][d] <= version'
               /\ answer'[q][d] < first'[q] => arrived'[q] < ended'[answer'[q][d]] + RegistryTtl
    <3>1. CASE q = r
      <4>1. answer'[q] = rows[r] /\ first'[q] = first[r] /\ version' = version
        BY <1>1, <3>1 DEF RegistryInv, RegistryTypeOK
      <4>2. QED
        BY <1>3, <4>1 DEF TrueAfter
    <3>2. CASE q # r
      <4>1. answer'[q] = answer[q] /\ phase'[q] = phase[q]
        BY <1>1, <3>2 DEF RegistryInv, RegistryTypeOK
      <4>2. QED
        BY <1>1, <2>1, <4>1 DEF RegistryInv, StaleWindow
    <3>3. QED
      BY <3>1, <3>2
  <2>2. QED
    BY <2>1 DEF StaleWindow
<1>7. PastKept'
  BY <1>1 DEF RegistryInv, PastKept
<1>8. QED
  BY <1>2, <1>4, <1>5, <1>6, <1>7 DEF RegistryInv

(* A build that fails publishes nothing.                                   *)
LEMMA FailBuildKeepsInv ==
  ASSUME RegistryInv, NEW r \in Readers, FailBuild(r)
  PROVE  RegistryInv'
<1>1. /\ phase[r] = "build"
      /\ phase' = [phase EXCEPT ![r] = "failed"]
      /\ rows' = [rows EXCEPT ![r] = Nothing]
      /\ UNCHANGED <<version, ended, wall, built, payload, arrived, answer, first>>
  BY DEF FailBuild
<1>2. RegistryTypeOK'
  BY <1>1, NothingIsAPayload DEF RegistryInv, RegistryTypeOK, Phases, Payloads
<1>3. CacheHonest' /\ PastKept'
  BY <1>1 DEF RegistryInv, CacheHonest, PastKept, TrueAfter, Never, Nothing, Unread
<1>4. \A q \in Readers : q # r => phase'[q] = phase[q] /\ rows'[q] = rows[q]
  BY <1>1 DEF RegistryInv, RegistryTypeOK
<1>5. rows'[r] = Nothing /\ phase'[r] = "failed"
  BY <1>1 DEF RegistryInv, RegistryTypeOK
<1>6. StaleWindow'
  BY <1>1, <1>4, <1>5 DEF RegistryInv, StaleWindow
<1>7. RowsHonest'
  <2>1. ASSUME NEW q \in Readers, NEW d \in Dimensions
        PROVE  /\ arrived'[q] <= wall' /\ first'[q] <= version'
               /\ rows'[q][d] # Unread => TrueAfter(rows[q][d], arrived[q])' /\ first'[q] <= rows'[q][d]
               /\ phase'[q] # "build" => rows'[q][d] = Unread
    <3>1. CASE q = r
      BY <1>1, <1>5, <3>1 DEF RegistryInv, RowsHonest, Nothing
    <3>2. CASE q # r
      BY <1>1, <1>4, <3>2 DEF RegistryInv, RowsHonest, TrueAfter
    <3>3. QED
      BY <3>1, <3>2
  <2>2. QED
    BY <2>1 DEF RowsHonest, Unread
<1>8. QED
  BY <1>2, <1>3, <1>6, <1>7 DEF RegistryInv

(* A version that ends now was right until now, later than any built_at or *)
(* arrival; versions that ended before are not touched.                    *)
LEMMA IngestKeepsInv ==
  ASSUME RegistryInv, Ingest
  PROVE  RegistryInv'
<1>1. /\ version < MaxVersion /\ version' = version + 1
      /\ ended' = [ended EXCEPT ![version] = wall]
      /\ UNCHANGED <<wall, built, payload, phase, arrived, rows, answer, first>>
  BY DEF Ingest
<1>2. /\ version \in 0..MaxVersion /\ ended \in [0..MaxVersion -> Nat] /\ wall \in Nat
      /\ MaxVersion \in Nat
  BY RegistryAssumption DEF RegistryInv, RegistryTypeOK
<1>3. RegistryTypeOK'
  <2>1. version' \in 0..MaxVersion /\ ended' \in [0..MaxVersion -> Nat]
    BY <1>1, <1>2
  <2>2. QED
    BY <1>1, <2>1 DEF RegistryInv, RegistryTypeOK
<1>4. CacheHonest'
  <2>1. ASSUME built # Never
        PROVE  built <= wall /\ \A d \in Dimensions : TrueAfter(payload[d], built)'
    <3>1. built \in Nat /\ \A d \in Dimensions : payload[d] \in Nat
      BY RegistryAssumption DEF RegistryInv, RegistryTypeOK
    <3>2. built <= wall /\ \A d \in Dimensions : TrueAfter(payload[d], built)
      BY <2>1 DEF RegistryInv, CacheHonest
    <3>3. \A d \in Dimensions : TrueAfter(payload[d], built)'
      <4>1. ASSUME NEW d \in Dimensions PROVE TrueAfter(payload[d], built)'
        <5>1. /\ TrueAfter(payload[d], built) /\ payload[d] \in Nat /\ built \in Nat
              /\ payload' = payload /\ built' = built
          BY <1>1, <3>1, <3>2
        <5>2. \A v \in Nat, t \in Nat : TrueAfter(v, t) /\ t <= wall => 
                 v <= version' /\ (v < version' => t <= ended'[v])
          BY IngestKeepsTruth DEF TrueAfter
        <5>3. QED
          BY <3>2, <5>1, <5>2 DEF TrueAfter
      <4>2. QED
        BY <4>1
    <3>4. QED
      BY <3>2, <3>3
  <2>2. QED
    BY <1>1, <2>1 DEF RegistryInv, CacheHonest, Never, Nothing, Unread
<1>5. RowsHonest'
  <2>1. ASSUME NEW q \in Readers, NEW d \in Dimensions
        PROVE  /\ arrived'[q] <= wall' /\ first'[q] <= version'
               /\ rows'[q][d] # Unread => TrueAfter(rows[q][d], arrived[q])' /\ first'[q] <= rows'[q][d]
               /\ phase'[q] # "build" => rows'[q][d] = Unread
    <3>1. /\ rows[q][d] \in Nat /\ arrived[q] \in Nat /\ first[q] \in Nat
          /\ arrived[q] <= wall /\ first[q] <= version
      BY RegistryAssumption DEF RegistryInv, RegistryTypeOK, RowsHonest
    <3>2. \A v \in Nat, t \in Nat : TrueAfter(v, t) /\ t <= wall =>
             v <= version' /\ (v < version' => t <= ended'[v])
      BY IngestKeepsTruth DEF TrueAfter
    <3>3. first'[q] <= version'
      BY <1>1, <1>2, <3>1
    <3>4. QED
      BY <1>1, <3>1, <3>2, <3>3 DEF RegistryInv, RowsHonest, TrueAfter
  <2>2. QED
    BY <2>1 DEF RowsHonest, Unread
<1>6. StaleWindow'
  <2>1. ASSUME NEW q \in Readers, NEW d \in Dimensions, phase'[q] = "done"
        PROVE  /\ answer'[q][d] <= version'
               /\ answer'[q][d] < first'[q] => arrived'[q] < ended'[answer'[q][d]] + RegistryTtl
    <3>1. /\ answer[q][d] \in Nat /\ first[q] \in Nat /\ first[q] <= version
          /\ answer[q][d] <= version
          /\ answer[q][d] < first[q] => arrived[q] < ended[answer[q][d]] + RegistryTtl
      BY <1>1, <2>1, RegistryAssumption
      DEF RegistryInv, RegistryTypeOK, RowsHonest, StaleWindow
    <3>2. answer[q][d] < first[q] => ended'[answer[q][d]] = ended[answer[q][d]]
      BY <1>1, <1>2, <3>1
    <3>3. QED
      BY <1>1, <1>2, <3>1, <3>2
  <2>2. QED
    BY <2>1 DEF StaleWindow
<1>7. PastKept'
  <2>1. ASSUME NEW v \in 0..MaxVersion, v < version' PROVE ended'[v] <= wall'
    BY <1>1, <1>2, <2>1 DEF RegistryInv, PastKept
  <2>2. QED
    BY <2>1 DEF PastKept
<1>8. QED
  BY <1>3, <1>4, <1>5, <1>6, <1>7 DEF RegistryInv

(* Time only makes what is cached older.                                   *)
LEMMA WallTickKeepsInv ==
  ASSUME RegistryInv, WallTick
  PROVE  RegistryInv'
<1>1. /\ wall < MaxWall /\ wall' = wall + 1
      /\ UNCHANGED <<version, ended, built, payload, phase, arrived, rows, answer, first>>
  BY DEF WallTick
<1>2. /\ wall \in Nat /\ built \in Nat
      /\ \A v \in 0..MaxVersion : ended[v] \in Nat
      /\ \A r \in Readers : arrived[r] \in Nat
  BY RegistryAssumption DEF RegistryInv, RegistryTypeOK
<1>3. RegistryTypeOK'
  BY <1>1, RegistryAssumption DEF RegistryInv, RegistryTypeOK
<1>4. CacheHonest'
  BY <1>1, <1>2 DEF RegistryInv, CacheHonest, TrueAfter, Never, Nothing, Unread
<1>5. RowsHonest'
  BY <1>1, <1>2 DEF RegistryInv, RowsHonest, TrueAfter, Unread
<1>6. StaleWindow' /\ PastKept'
  BY <1>1, <1>2 DEF RegistryInv, StaleWindow, PastKept
<1>7. QED
  BY <1>3, <1>4, <1>5, <1>6 DEF RegistryInv

(* What is cached, and what a build has counted so far, was right at the   *)
(* instant that built_at says, or will say.                                *)
THEOREM RegistryInvariance == RegistrySpec => []RegistryInv
<1>1. RegistryInv /\ [RegistryNext]_registry => RegistryInv'
  <2>1. ASSUME RegistryInv, NEW r \in Readers,
               Request(r) \/ Publish(r) \/ FailBuild(r) \/ \E d \in Dimensions : Aggregate(r, d)
        PROVE  RegistryInv'
    BY <2>1, RequestKeepsInv, PublishKeepsInv, FailBuildKeepsInv, AggregateKeepsInv
  <2>2. ASSUME RegistryInv, UNCHANGED registry PROVE RegistryInv'
    BY <2>2 DEF registry, RegistryInv, RegistryTypeOK, CacheHonest, RowsHonest, PastKept,
                StaleWindow, TrueAfter, Never, Nothing, Unread
  <2>3. QED
    BY <2>1, <2>2, IngestKeepsInv, WallTickKeepsInv DEF RegistryNext
<1>2. QED
  BY <1>1, RegistryInvInit, PTL DEF RegistrySpec

(* The registry route never tells a request what was wrong RegistryTtl     *)
(* before it arrived, or earlier.                                          *)
THEOREM StalenessIsBounded == RegistrySpec => []StaleWindow
<1>1. RegistryInv => StaleWindow
  BY DEF RegistryInv
<1>2. QED
  BY <1>1, RegistryInvariance, PTL

----------------------------------------------------------------------------
(* Startup.                                                                *)
Places == {"down", "lock", "read", "upgrade", "build", "probe", "configure", "serving"}
Migrated == {"build", "probe", "configure", "serving"}

StartupType ==
  /\ schema \in 0..Revisions
  /\ applied \in [1..Revisions -> Nat]
  /\ deployed \in [Instances -> Deployments]
  /\ at \in [Instances -> Places]
  /\ saw \in [Instances -> 0..Revisions]
  /\ ambient \in [Instances -> SUBSET Ambient]
  /\ opened = [i \in Instances |-> opened[i]]
  /\ embedding = [i \in Instances |-> embedding[i]]
  /\ hydeOn \in [Instances -> BOOLEAN]

(* Whoever is past the lock holds it, and what it has read is still so.    *)
Serialized(i) ==
  /\ at[i] \in {"read", "upgrade"} => migrator = i
  /\ at[i] = "upgrade" => saw[i] = schema /\ schema <= deployed[i].head
(* What an instance has got hold of on its way to serving.                 *)
Equipped(i) ==
  /\ at[i] \in {"down", "lock", "read", "upgrade"} => opened[i] = {}
  /\ at[i] # "down" => MayStart(deployed[i])
  /\ at[i] \in {"lock", "read", "upgrade"} => deployed[i].url = "set" /\ deployed[i].migrate
  /\ at[i] \in Migrated =>
       /\ ambient[i] \subseteq {"root"}
       /\ IF deployed[i].migrate /\ deployed[i].url = "set"
            THEN deployed[i].head <= schema ELSE ambient[i] = {}
       /\ deployed[i].url = "set" <=> "db" \in opened[i]
  /\ at[i] = "down" => ambient[i] = {}
  /\ at[i] = "configure" => embedding[i] # "unknown"
  /\ at[i] = "serving" /\ deployed[i].kind = "api" => embedding[i] # "unknown"
  /\ hydeOn[i] => at[i] = "serving" /\ "generator" \in opened[i]

StartupInv ==
  /\ StartupType /\ RevisionsApplyOnce
  /\ \A i \in Instances : Serialized(i) /\ Equipped(i)

(* A fleet that has not started holds nothing.                             *)
LEMMA StartupStarts == StartupInit => StartupInv
<1> SUFFICES ASSUME StartupInit  PROVE StartupInv
  OBVIOUS
<1>1. StartupType
  BY StartupAssumption DEF StartupInit, StartupType, Places
<1>2. RevisionsApplyOnce
  BY DEF StartupInit, RevisionsApplyOnce
<1>3. ASSUME NEW i \in Instances  PROVE Serialized(i) /\ Equipped(i)
  BY DEF StartupInit, Serialized, Equipped, Migrated
<1> QED  BY <1>1, <1>2, <1>3 DEF StartupInv

(* The other instances, while one moves: the schema only grows, and only   *)
(* under the lock.                                                         *)
LEMMA OthersKeep ==
  ASSUME StartupInv, NEW i \in Instances, NEW j \in Instances, j # i,
         deployed' = deployed, at'[j] = at[j], saw'[j] = saw[j], ambient'[j] = ambient[j],
         opened'[j] = opened[j], embedding'[j] = embedding[j], hydeOn'[j] = hydeOn[j],
         schema' \in 0..Revisions, schema <= schema',
         schema' = schema \/ migrator = i,
         migrator = j => migrator' = j
  PROVE  Serialized(j)' /\ Equipped(j)'
<1>1. Serialized(j) /\ Equipped(j) /\ schema \in 0..Revisions
  BY DEF StartupInv, StartupType
<1>2. Serialized(j)'
  BY <1>1 DEF Serialized
<1>3. deployed[j].head \in 1..Revisions
  BY StartupAssumption DEF StartupInv, StartupType
<1>4. deployed[j].head <= schema => deployed[j].head <= schema'
  BY <1>1, <1>3, StartupAssumption
<1>5. Equipped(j)'
  BY <1>1, <1>4 DEF Equipped, MayStart
<1> QED  BY <1>2, <1>5

(* StartupInv is inductive.                                                *)
LEMMA StartupStepKeeps == StartupInv /\ [StartupNext]_startup => StartupInv'
<1> SUFFICES ASSUME StartupInv, [StartupNext]_startup  PROVE StartupInv'
  OBVIOUS
<1>0. StartupType /\ RevisionsApplyOnce
  BY DEF StartupInv
<1>1. ASSUME UNCHANGED <<database, deployed, memory>>  PROVE StartupInv'
  <2>1. /\ schema' = schema /\ applied' = applied /\ migrator' = migrator /\ deployed' = deployed
        /\ at' = at /\ saw' = saw /\ ambient' = ambient /\ opened' = opened
        /\ embedding' = embedding /\ hydeOn' = hydeOn
    BY <1>1 DEF database, memory
  <2>2. StartupType' /\ RevisionsApplyOnce'
    BY <1>0, <2>1 DEF StartupType, RevisionsApplyOnce
  <2>3. ASSUME NEW i \in Instances  PROVE Serialized(i)' /\ Equipped(i)'
    <3>1. Serialized(i) /\ Equipped(i)
      BY DEF StartupInv
    <3> QED  BY <2>1, <3>1 DEF Serialized, Equipped, MayStart
  <2> QED  BY <2>2, <2>3 DEF StartupInv
<1>2. ASSUME NEW i \in Instances,
             \/ Refuse(i) \/ Start(i)
             \/ Lock(i) \/ ReadVersion(i) \/ Upgrade(i) \/ MigrationFails(i)
             \/ Build(i) \/ Probe(i) \/ Configure(i) \/ BuildFails(i)
             \/ Stop(i)
      PROVE  StartupInv'
  <2>0. /\ Serialized(i) /\ Equipped(i) /\ i # Unheld
        /\ deployed[i] \in Deployments /\ deployed[i].head \in 1..Revisions
        /\ schema \in 0..Revisions /\ saw[i] \in 0..Revisions
    BY StartupAssumption DEF StartupInv, StartupType, Unheld
  (* A step that leaves the schema and its revisions alone.                *)
  <2>1. ASSUME UNCHANGED <<schema, applied, deployed>>,
               NEW a \in Places, Moves(i, a),
               NEW s \in 0..Revisions, saw' = [saw EXCEPT ![i] = s],
               NEW m \in SUBSET Ambient, ambient' = [ambient EXCEPT ![i] = m],
               NEW o, opened' = [opened EXCEPT ![i] = o],
               NEW e, embedding' = [embedding EXCEPT ![i] = e],
               NEW h \in BOOLEAN, hydeOn' = [hydeOn EXCEPT ![i] = h],
               \A j \in Instances \ {i} : migrator = j => migrator' = j,
               Serialized(i)', Equipped(i)'
        PROVE  StartupInv'
    <3>1. StartupType' /\ RevisionsApplyOnce'
      BY <1>0, <2>1 DEF StartupType, RevisionsApplyOnce, Moves
    <3>2. ASSUME NEW j \in Instances, j # i  PROVE Serialized(j)' /\ Equipped(j)'
      <4>1. /\ at'[j] = at[j] /\ saw'[j] = saw[j] /\ ambient'[j] = ambient[j]
            /\ opened'[j] = opened[j] /\ embedding'[j] = embedding[j] /\ hydeOn'[j] = hydeOn[j]
        BY <1>0, <2>1, <3>2 DEF StartupType, Moves
      <4>2. schema' \in 0..Revisions /\ schema <= schema'
        BY <2>0, <2>1, StartupAssumption
      <4> QED  BY <2>1, <3>2, <4>1, <4>2, OthersKeep
    <3> QED  BY <2>1, <3>1, <3>2 DEF StartupInv
  <2>2. /\ saw = [saw EXCEPT ![i] = saw[i]] /\ ambient = [ambient EXCEPT ![i] = ambient[i]]
        /\ ambient[i] \in SUBSET Ambient
        /\ opened = [opened EXCEPT ![i] = opened[i]]
        /\ embedding = [embedding EXCEPT ![i] = embedding[i]]
        /\ hydeOn = [hydeOn EXCEPT ![i] = hydeOn[i]] /\ hydeOn[i] \in BOOLEAN
        /\ at = [at EXCEPT ![i] = at[i]] /\ at[i] \in Places
    BY <1>0 DEF StartupType
  (* The process is gone.                                                  *)
  <2>3. ASSUME Ends(i), UNCHANGED deployed  PROVE StartupInv'
    <3>1. /\ UNCHANGED <<schema, applied, deployed>> /\ Moves(i, "down") /\ "down" \in Places
          /\ 0 \in 0..Revisions /\ {} \in SUBSET Ambient /\ saw' = [saw EXCEPT ![i] = 0]
          /\ ambient' = [ambient EXCEPT ![i] = {}]
          /\ opened' = [opened EXCEPT ![i] = {}]
          /\ embedding' = [embedding EXCEPT ![i] = "unknown"]
          /\ hydeOn' = [hydeOn EXCEPT ![i] = FALSE]
          /\ migrator' = IF migrator = i THEN Unheld ELSE migrator
      BY <2>3, StartupAssumption DEF Ends, Places
    <3>2. /\ at'[i] = "down" /\ ambient'[i] = {} /\ opened'[i] = {}
          /\ embedding'[i] = "unknown" /\ hydeOn'[i] = FALSE
      BY <1>0, <3>1 DEF StartupType, Moves
    <3>3. Serialized(i)' /\ Equipped(i)'
      BY <3>2 DEF Serialized, Equipped, Migrated
    <3> QED  BY <2>1, <3>1, <3>3
  <2>4. CASE Refuse(i)
    BY <1>1, <2>4 DEF Refuse
  <2>5. CASE Start(i)
    <3>1. /\ at[i] = "down" /\ MayStart(deployed[i])
          /\ UNCHANGED <<schema, applied, migrator, deployed, saw, embedding, hydeOn>>
      BY <2>5 DEF Start, database
    <3>2. opened[i] = {} /\ ambient[i] = {} /\ ~hydeOn[i]
      BY <2>0, <3>1 DEF Equipped
    <3>3. CASE /\ deployed[i].url = "set" /\ deployed[i].migrate
               /\ Moves(i, "lock") /\ ambient' = [ambient EXCEPT ![i] = Ambient]
               /\ UNCHANGED opened
      <4>1. at'[i] = "lock" /\ opened'[i] = {} /\ "lock" \in Places
        BY <1>0, <3>2, <3>3 DEF StartupType, Moves, Places
      <4>2. Serialized(i)' /\ Equipped(i)'
        BY <3>1, <3>2, <3>3, <4>1 DEF Serialized, Equipped, Migrated, MayStart
      <4> QED  BY <2>0, <2>1, <2>2, <3>1, <3>3, <4>1, <4>2
    <3>4. CASE /\ ~(deployed[i].url = "set" /\ deployed[i].migrate)
               /\ Moves(i, "build") /\ UNCHANGED ambient
               /\ Opens(i, IF deployed[i].url = "set" THEN {"db"} ELSE {})
      <4> DEFINE o == IF deployed[i].url = "set" THEN {"db"} ELSE {}
      <4>1. at'[i] = "build" /\ "build" \in Places /\ opened' = [opened EXCEPT ![i] = o]
        BY <1>0, <3>2, <3>4 DEF StartupType, Moves, Places, Opens
      <4>2. opened'[i] = o
        BY <1>0, <4>1 DEF StartupType
      <4>3. Serialized(i)' /\ Equipped(i)'
        BY <3>1, <3>2, <3>4, <4>1, <4>2 DEF Serialized, Equipped, Migrated, MayStart
      <4> HIDE DEF o
      <4> QED  BY <2>0, <2>1, <2>2, <3>1, <3>4, <4>1, <4>3
    <3> QED  BY <2>5, <3>3, <3>4 DEF Start
  <2>6. CASE Lock(i)
    <3>1. /\ at[i] = "lock" /\ migrator = Unheld /\ migrator' = i /\ Moves(i, "read")
          /\ UNCHANGED <<schema, applied, deployed, saw, ambient, opened, embedding, hydeOn>>
      BY <2>6 DEF Lock
    <3>2. at'[i] = "read" /\ "read" \in Places
      BY <1>0, <3>1 DEF StartupType, Moves, Places
    <3>3. Serialized(i)' /\ Equipped(i)'
      BY <2>0, <3>1, <3>2 DEF Serialized, Equipped, Migrated, MayStart
    <3>4. \A j \in Instances \ {i} : migrator = j => migrator' = j
      BY <3>1, StartupAssumption DEF Unheld
    <3> QED  BY <2>0, <2>1, <2>2, <3>1, <3>2, <3>3, <3>4
  <2>7. CASE ReadVersion(i)
    <3>1. /\ at[i] = "read" /\ schema <= deployed[i].head /\ Moves(i, "upgrade")
          /\ saw' = [saw EXCEPT ![i] = schema]
          /\ UNCHANGED <<schema, applied, migrator, deployed, ambient, opened, embedding, hydeOn>>
      BY <2>7 DEF ReadVersion, database
    <3>2. at'[i] = "upgrade" /\ saw'[i] = schema /\ "upgrade" \in Places
      BY <1>0, <3>1 DEF StartupType, Moves, Places
    <3>3. Serialized(i)' /\ Equipped(i)'
      BY <2>0, <3>1, <3>2 DEF Serialized, Equipped, Migrated, MayStart
    <3> QED  BY <2>0, <2>1, <2>2, <3>1, <3>2, <3>3
  <2>8. CASE Upgrade(i)
    <3>1. /\ at[i] = "upgrade" /\ schema' = deployed[i].head /\ migrator' = Unheld
          /\ applied' = [v \in 1..Revisions |->
               IF saw[i] < v /\ v <= deployed[i].head THEN applied[v] + 1 ELSE applied[v]]
          /\ ambient' = [ambient EXCEPT ![i] = @ \ PutBack]
          /\ Opens(i, {"db"}) /\ Moves(i, "build")
          /\ UNCHANGED <<deployed, saw, embedding, hydeOn>>
      BY <2>8 DEF Upgrade
    <3>2. migrator = i /\ saw[i] = schema /\ schema <= deployed[i].head
      BY <2>0, <3>1 DEF Serialized
    <3>3. /\ opened[i] = {} /\ ~hydeOn[i]
          /\ deployed[i].url = "set" /\ deployed[i].migrate /\ MayStart(deployed[i])
      BY <2>0, <3>1 DEF Equipped
    <3>4. /\ at'[i] = "build" /\ ambient'[i] \subseteq {"root"} /\ opened'[i] = {"db"}
          /\ schema' \in 0..Revisions /\ schema <= schema'
      <4>1. ambient'[i] = ambient[i] \ PutBack /\ ambient[i] \subseteq Ambient
        BY <1>0, <3>1 DEF StartupType
      <4>2. ambient'[i] \subseteq {"root"}
        BY <4>1 DEF Ambient, PutBack
      <4>3. at'[i] = "build" /\ opened'[i] = {"db"}
        BY <1>0, <3>1, <3>3 DEF StartupType, Moves, Opens
      <4>4. schema' \in 0..Revisions /\ schema <= schema'
        BY <2>0, <3>1, <3>2, StartupAssumption
      <4> QED  BY <4>2, <4>3, <4>4
    <3>5. StartupType'
      <4>1. applied' \in [1..Revisions -> Nat]
        BY <1>0, <3>1 DEF StartupType
      <4>2. at' \in [Instances -> Places] /\ opened' = [j \in Instances |-> opened'[j]]
            /\ ambient' \in [Instances -> SUBSET Ambient]
        BY <1>0, <3>1 DEF StartupType, Moves, Opens, Places
      <4> QED  BY <1>0, <3>1, <3>4, <4>1, <4>2 DEF StartupType
    <3>6. RevisionsApplyOnce'
      <4>1. ASSUME NEW v \in 1..Revisions
            PROVE  applied'[v] = IF v <= schema' THEN 1 ELSE 0
        <5>1. v \in Nat /\ schema \in Nat /\ deployed[i].head \in Nat
              /\ applied[v] = IF v <= schema THEN 1 ELSE 0
          BY <1>0, <2>0, StartupAssumption DEF RevisionsApplyOnce
        <5>2. applied'[v] = IF schema < v /\ v <= deployed[i].head THEN applied[v] + 1
                            ELSE applied[v]
          BY <3>1, <3>2
        <5> QED  BY <3>1, <3>2, <5>1, <5>2
      <4> QED  BY <4>1 DEF RevisionsApplyOnce
    <3>7. Serialized(i)' /\ Equipped(i)'
      <4>1. schema' \in Nat /\ deployed'[i].head <= schema'
        BY <2>0, <3>1, StartupAssumption
      <4> QED  BY <3>1, <3>3, <3>4, <4>1 DEF Serialized, Equipped, Migrated, MayStart
    <3>8. ASSUME NEW j \in Instances, j # i  PROVE Serialized(j)' /\ Equipped(j)'
      <4>1. /\ at'[j] = at[j] /\ saw'[j] = saw[j] /\ ambient'[j] = ambient[j]
            /\ opened'[j] = opened[j] /\ embedding'[j] = embedding[j] /\ hydeOn'[j] = hydeOn[j]
        BY <1>0, <3>1, <3>8 DEF StartupType, Moves, Opens
      <4>2. deployed' = deployed /\ (migrator = j => migrator' = j)
        BY <3>1, <3>2, <3>8
      <4> QED  BY <3>2, <3>4, <3>8, <4>1, <4>2, OthersKeep
    <3> QED  BY <3>5, <3>6, <3>7, <3>8 DEF StartupInv
  <2>9. CASE MigrationFails(i)
    BY <2>3, <2>9 DEF MigrationFails
  <2>10. CASE Build(i)
    <3>1. /\ at[i] = "build" /\ Opens(i, ClientsOf(deployed[i]))
          /\ Moves(i, IF deployed[i].kind = "api" THEN "probe" ELSE "serving")
          /\ UNCHANGED <<schema, applied, migrator, deployed, saw, ambient, embedding, hydeOn>>
      BY <2>10 DEF Build, database
    <3> DEFINE o == opened[i] \cup ClientsOf(deployed[i])
               a == IF deployed[i].kind = "api" THEN "probe" ELSE "serving"
    <3>2. /\ at'[i] = a /\ a \in Places /\ opened' = [opened EXCEPT ![i] = o] /\ opened'[i] = o
      BY <1>0, <3>1 DEF StartupType, Moves, Places, Opens
    <3>3. "db" \in o <=> "db" \in opened[i]
      BY DEF ClientsOf
    <3>4. ~hydeOn[i]
      BY <2>0, <3>1 DEF Equipped
    <3>5. Serialized(i)' /\ Equipped(i)'
      <4> HIDE DEF o
      <4> QED  BY <2>0, <3>1, <3>2, <3>3, <3>4 DEF Serialized, Equipped, Migrated, MayStart
    <3>6. Moves(i, a)
      BY <3>1
    <3> HIDE DEF o, a
    <3> QED  BY <2>0, <2>1, <2>2, <3>1, <3>2, <3>5, <3>6
  <2>11. CASE Probe(i)
    <3>1. /\ at[i] = "probe" /\ Moves(i, "configure")
          /\ UNCHANGED <<schema, applied, migrator, deployed, saw, ambient, opened, hydeOn>>
      BY <2>11 DEF Probe, database
    <3>2. PICK e \in {"ok", "failing", "not_configured"} :
            embedding' = [embedding EXCEPT ![i] = e]
      BY <2>11 DEF Probe
    <3>3. at'[i] = "configure" /\ embedding'[i] = e /\ "configure" \in Places
      BY <1>0, <3>1, <3>2 DEF StartupType, Moves, Places
    <3>4. Serialized(i)' /\ Equipped(i)'
      BY <2>0, <3>1, <3>2, <3>3 DEF Serialized, Equipped, Migrated, MayStart
    <3> QED  BY <2>0, <2>1, <2>2, <3>1, <3>2, <3>3, <3>4
  <2>12. CASE Configure(i)
    <3> DEFINE h == deployed[i].hyde /\ "generator" \in opened[i]
    <3>1. /\ at[i] = "configure" /\ Moves(i, "serving") /\ hydeOn' = [hydeOn EXCEPT ![i] = h]
          /\ UNCHANGED <<schema, applied, migrator, deployed, saw, ambient, opened, embedding>>
      BY <2>12 DEF Configure, database
    <3>2. at'[i] = "serving" /\ hydeOn'[i] = h /\ "serving" \in Places
      BY <1>0, <3>1 DEF StartupType, Moves, Places
    <3>3. h \in BOOLEAN /\ (h => "generator" \in opened[i])
      OBVIOUS
    <3> HIDE DEF h
    <3>4. Serialized(i)' /\ Equipped(i)'
      BY <2>0, <3>1, <3>2, <3>3 DEF Serialized, Equipped, Migrated, MayStart
    <3> QED  BY <2>0, <2>1, <2>2, <3>1, <3>2, <3>3, <3>4
  <2>13. CASE BuildFails(i) \/ Stop(i)
    BY <2>3, <2>13 DEF BuildFails, Stop
  <2> QED  BY <1>2, <2>4, <2>5, <2>6, <2>7, <2>8, <2>9, <2>10, <2>11, <2>12, <2>13
<1>3. UNCHANGED startup => UNCHANGED <<database, deployed, memory>>
  BY DEF startup
<1> QED  BY <1>1, <1>2, <1>3 DEF StartupNext

(* run_migrations and create_app: whoever migrates holds the lock, what it *)
(* has read of the version is still so, and each place on the way to       *)
(* serving has what it needs.                                              *)
THEOREM StartupInvariance == StartupSpec => []StartupInv
  BY StartupStarts, StartupStepKeeps, PTL DEF StartupSpec

(* However many instances start together, fail, crash or ship an older     *)
(* release: every revision up to the database's is applied, and once.      *)
THEOREM RevisionsAreAppliedOnce == StartupSpec => []RevisionsApplyOnce
<1>1. StartupInv => RevisionsApplyOnce
  BY DEF StartupInv
<1> QED  BY <1>1, StartupInvariance, PTL

(* Whoever is past its migration has the tables of its release, its URL,   *)
(* its settings, its loggers but for the root's handlers and level, and    *)
(* its clients, and a ready API an embedding client that is absent or      *)
(* worked.                                                                 *)
THEOREM ServersHaveTheirSchema == StartupSpec => []ServesItsSchema
<1>1. StartupInv => ServesItsSchema
  <2> SUFFICES ASSUME StartupInv, NEW i \in Instances
      PROVE  /\ at[i] \in Migrated =>
                  /\ ambient[i] \subseteq {"root"}
                  /\ IF deployed[i].migrate /\ deployed[i].url = "set"
                       THEN deployed[i].head <= schema ELSE ambient[i] = {}
                  /\ deployed[i].url = "set" <=> "db" \in opened[i]
             /\ at[i] = "serving" =>
                  /\ deployed[i].kind = "worker" => "db" \in opened[i]
                  /\ deployed[i].kind = "api" /\ Ready(i) => embedding[i] # "unknown"
                  /\ hydeOn[i] => "generator" \in opened[i]
    BY DEF ServesItsSchema, Migrated
  <2>1. Equipped(i)
    BY DEF StartupInv
  <2> QED  BY <2>1 DEF Equipped, MayStart, Migrated
<1> QED  BY <1>1, StartupInvariance, PTL

----------------------------------------------------------------------------
(* HydeCache.                                                              *)
HydeEntry == [key : {q.key : q \in Queries}, at : Nat, text : Askers]

HydeTypeOK ==
  /\ generator \in BOOLEAN
  /\ cached \in Seq(HydeEntry)
  /\ stage \in [Askers -> {"new", "generating", "done"}]
  /\ query \in [Askers -> Queries \cup {NoQuery}]
  /\ pseudo \in [Askers -> Askers \cup {NoText}]
  /\ hydeClock \in Nat
  /\ kept \in [Askers -> Nat] /\ looked \in [Askers -> Nat]

(* The store is a dict of at most MaxEntries keys.                         *)
CacheIsADict ==
  /\ Len(cached) <= MaxEntries
  /\ \A i, j \in 1..Len(cached) : cached[i].key = cached[j].key => i = j

(* A text in the cache was put there, under the key of its own query, by a *)
(* search that has ended.                                                  *)
Filed(e) ==
  /\ stage[e.text] = "done"
  /\ query[e.text].key = e.key
  /\ kept[e.text] = e.at /\ e.at <= hydeClock
EntriesFiled == \A i \in 1..Len(cached) : Filed(cached[i])

(* A search waits for the generator only if the gate let it through; a     *)
(* search has no text before it ends, and the text it has is that of one   *)
(* that has ended.                                                         *)
GateKept == \A a \in Askers : stage[a] = "generating" => ShouldHyde(query[a])
TextsLast == \A a \in Askers : pseudo[a] # NoText =>
                                 stage[a] = "done" /\ stage[pseudo[a]] = "done"

HydeInv ==
  HydeTypeOK /\ CacheIsADict /\ EntriesFiled /\ GateKept /\ TextsLast /\ PseudoDocFits

(* del: what is left are the other entries, in their order.                *)
LEMMA Removed ==
  ASSUME NEW S, NEW s \in Seq(S), NEW i \in 1..Len(s)
  PROVE  /\ RemoveAt(s, i) \in Seq(S)
         /\ Len(RemoveAt(s, i)) = Len(s) - 1
         /\ \A j \in 1..(Len(s) - 1) : RemoveAt(s, i)[j] = IF j < i THEN s[j] ELSE s[j + 1]
<1> DEFINE front == SubSeq(s, 1, i - 1)
           back == SubSeq(s, i + 1, Len(s))
<1>1. front \in Seq(S) /\ Len(front) = i - 1 /\ \A j \in 1..(i - 1) : front[j] = s[j]
  OBVIOUS
<1>2. /\ back \in Seq(S) /\ Len(back) = Len(s) - i
      /\ \A j \in 1..(Len(s) - i) : back[j] = s[j + i]
  OBVIOUS
<1>3. RemoveAt(s, i) = front \o back
  BY DEF RemoveAt
<1>4. i \in Nat /\ Len(s) \in Nat /\ 1 <= i /\ i <= Len(s)
  OBVIOUS
<1> HIDE DEF front, back
<1>5. /\ front \o back \in Seq(S) /\ Len(front \o back) = Len(front) + Len(back)
      /\ \A j \in 1..(Len(front) + Len(back)) :
           (front \o back)[j] = IF j <= Len(front) THEN front[j] ELSE back[j - Len(front)]
  BY <1>1, <1>2, ConcatProperties
<1>6. Len(front) + Len(back) = Len(s) - 1
  BY <1>1, <1>2, <1>4
<1>7. ASSUME NEW j \in 1..(Len(s) - 1)
      PROVE  (front \o back)[j] = IF j < i THEN s[j] ELSE s[j + 1]
  <2>1. CASE j < i
    <3>1. j \in 1..(i - 1) /\ j <= Len(front)
      BY <1>1, <1>4, <2>1
    <3>2. QED
      BY <1>1, <1>5, <1>6, <2>1, <3>1
  <2>2. CASE ~(j < i)
    <3>1. /\ j - (i - 1) \in 1..(Len(s) - i) /\ ~(j <= Len(front))
          /\ j - (i - 1) + i = j + 1
      BY <1>1, <1>4, <2>2
    <3>2. (front \o back)[j] = back[j - (i - 1)]
      BY <1>1, <1>5, <1>6, <3>1
    <3>3. QED
      BY <1>2, <2>2, <3>1, <3>2
  <2>3. QED
    BY <2>1, <2>2
<1>8. QED
  BY <1>3, <1>5, <1>6, <1>7

(* Without one of its keys the store is the other entries of the store.    *)
LEMMA WithoutKey ==
  ASSUME HydeInv, NEW key
  PROVE  /\ Without(key) \in Seq(HydeEntry) /\ Len(Without(key)) <= Len(cached)
         /\ \A i \in 1..Len(Without(key)) : \E j \in 1..Len(cached) : Without(key)[i] = cached[j]
         /\ \A i \in 1..Len(Without(key)) : Without(key)[i].key # key
         /\ \A i, j \in 1..Len(Without(key)) :
              Without(key)[i].key = Without(key)[j].key => i = j
<1>1. cached \in Seq(HydeEntry) /\ Len(cached) \in Nat
  BY DEF HydeInv, HydeTypeOK
<1>2. \A i, j \in 1..Len(cached) : cached[i].key = cached[j].key => i = j
  BY DEF HydeInv, CacheIsADict
<1>3. CASE ~Found(key)
  BY <1>1, <1>2, <1>3 DEF Without, Found
<1>4. CASE Found(key)
  <2> DEFINE p == Place(key)
  <2>1. p \in 1..Len(cached) /\ cached[p].key = key
    BY <1>4 DEF Found, Place
  <2>2. Without(key) = RemoveAt(cached, p)
    BY <1>4 DEF Without
  <2> HIDE DEF p
  <2>3. /\ Without(key) \in Seq(HydeEntry) /\ Len(Without(key)) = Len(cached) - 1
        /\ \A j \in 1..(Len(cached) - 1) :
             Without(key)[j] = IF j < p THEN cached[j] ELSE cached[j + 1]
    BY <1>1, <2>1, <2>2, Removed
  <2> DEFINE Old(i) == IF i < p THEN i ELSE i + 1
             left == Without(key)
  <2>4. /\ Len(left) \in Nat /\ Len(left) <= Len(cached)
        /\ \A i \in 1..Len(left) :
             /\ Old(i) \in 1..Len(cached) /\ Old(i) # p /\ left[i] = cached[Old(i)]
             /\ \A j \in 1..Len(left) : Old(i) = Old(j) => i = j
    BY <1>1, <2>1, <2>3
  <2> HIDE DEF left, Old
  <2>5. /\ \A i \in 1..Len(left) : \E j \in 1..Len(cached) : left[i] = cached[j]
        /\ \A i \in 1..Len(left) : left[i].key # key
        /\ \A i, j \in 1..Len(left) : left[i].key = left[j].key => i = j
    BY <1>2, <2>1, <2>4, SMTT(30)
  <2>6. QED
    BY <2>3, <2>4, <2>5 DEF left
<1>5. QED
  BY <1>3, <1>4

(* The entry of a key the store holds.                                     *)
LEMMA FoundEntry ==
  ASSUME HydeInv, NEW key, Found(key)
  PROVE  Entry(key) \in HydeEntry /\ Entry(key).key = key /\ Filed(Entry(key))
<1>1. Place(key) \in 1..Len(cached) /\ cached[Place(key)].key = key
  BY DEF Found, Place
<1>2. QED
  BY <1>1 DEF Entry, HydeInv, HydeTypeOK, EntriesFiled

(* The store begins empty.                                                 *)
LEMMA HydeInvInit == HydeInit => HydeInv
<1>1. ASSUME HydeInit PROVE HydeTypeOK
  BY <1>1 DEF HydeInit, HydeTypeOK
<1>2. ASSUME HydeInit PROVE CacheIsADict /\ EntriesFiled
  BY <1>2, HydeAssumption DEF HydeInit, CacheIsADict, EntriesFiled
<1>3. ASSUME HydeInit PROVE GateKept /\ TextsLast /\ PseudoDocFits
  BY <1>3 DEF HydeInit, GateKept, TextsLast, PseudoDocFits
<1>4. QED
  BY <1>1, <1>2, <1>3 DEF HydeInv

(* A store the last one's entries make, with what was filed untouched.     *)
LEMMA FewerEntries ==
  ASSUME HydeInv, NEW key, cached' = Without(key), NEW a \in Askers, stage[a] # "done",
         UNCHANGED <<kept, hydeClock>>,
         \A b \in Askers \ {a} : stage'[b] = stage[b] /\ query'[b] = query[b]
  PROVE  CacheIsADict' /\ EntriesFiled'
<1>1. CacheIsADict'
  <2>1. /\ Len(cached) <= MaxEntries /\ Len(cached) \in Nat /\ MaxEntries \in Nat
    BY HydeAssumption DEF HydeInv, HydeTypeOK, CacheIsADict
  <2>2. /\ cached' \in Seq(HydeEntry) /\ Len(cached') <= Len(cached)
        /\ \A i, j \in 1..Len(cached') : cached'[i].key = cached'[j].key => i = j
    BY WithoutKey
  <2>3. Len(cached') \in Nat
    BY <2>2
  <2>4. QED
    BY <2>1, <2>2, <2>3 DEF CacheIsADict
<1>2. ASSUME NEW i \in 1..Len(cached'), NEW x, x = cached'[i] PROVE Filed(x)'
  <2>1. PICK j \in 1..Len(cached) : x = cached[j]
    BY <1>2, WithoutKey
  <2>2. cached[j] \in HydeEntry /\ Filed(cached[j])
    <3>1. cached \in Seq(HydeEntry) /\ EntriesFiled
      BY DEF HydeInv, HydeTypeOK
    <3>2. cached[j] \in HydeEntry
      BY <3>1
    <3>3. Filed(cached[j])
      BY <3>1, Zenon DEF EntriesFiled
    <3>4. QED
      BY <3>2, <3>3
  <2>3. cached[j].text \in Askers \ {a}
    BY <2>2 DEF HydeEntry, Filed
  <2>4. QED
    BY <2>1, <2>2, <2>3 DEF Filed
<1>3. QED
  BY <1>1, <1>2 DEF EntriesFiled, Filed

(* A new last entry of a key the store no longer holds.                    *)
LEMMA LastEntry ==
  ASSUME HydeInv, NEW e \in HydeEntry, NEW a \in Askers, stage[a] # "done",
         Filed(e)', hydeClock' = hydeClock,
         \A b \in Askers \ {a} :
           stage'[b] = stage[b] /\ query'[b] = query[b] /\ kept'[b] = kept[b],
         \/ cached' = Append(Without(e.key), e) /\ Found(e.key)
         \/ cached' = Stored(e)
  PROVE  cached' \in Seq(HydeEntry) /\ CacheIsADict' /\ EntriesFiled'
<1> DEFINE rest == Without(e.key)
           all == Append(rest, e)
           new == IF Len(all) > MaxEntries THEN Tail(all) ELSE all
<1>1. /\ rest \in Seq(HydeEntry) /\ Len(rest) <= Len(cached) /\ Len(cached) <= MaxEntries
      /\ \A i \in 1..Len(rest) : \E j \in 1..Len(cached) : rest[i] = cached[j]
      /\ \A i \in 1..Len(rest) : rest[i].key # e.key
      /\ \A i, j \in 1..Len(rest) : rest[i].key = rest[j].key => i = j
  BY WithoutKey DEF HydeInv, CacheIsADict
<1>2. Found(e.key) => Len(rest) < Len(cached)
  <2>1. ASSUME Found(e.key) PROVE Len(rest) = Len(cached) - 1
    <3>1. Place(e.key) \in 1..Len(cached) /\ rest = RemoveAt(cached, Place(e.key))
      BY <2>1 DEF Found, Place, Without
    <3>2. cached \in Seq(HydeEntry)
      BY DEF HydeInv, HydeTypeOK
    <3>3. QED
      BY <3>1, <3>2, Removed
  <2>2. Len(cached) \in Nat /\ Len(rest) \in Nat
    BY <1>1 DEF HydeInv, HydeTypeOK
  <2> HIDE DEF rest
  <2>3. QED
    BY <2>1, <2>2
<1>3. ASSUME NEW i \in 1..Len(rest), NEW x, x = rest[i] PROVE Filed(x)'
  <2>1. PICK j \in 1..Len(cached) : x = cached[j]
    BY <1>1, <1>3
  <2>2. cached[j] \in HydeEntry /\ Filed(cached[j])
    <3>1. cached \in Seq(HydeEntry) /\ EntriesFiled
      BY DEF HydeInv, HydeTypeOK
    <3>2. cached[j] \in HydeEntry
      BY <3>1
    <3>3. Filed(cached[j])
      BY <3>1, Zenon DEF EntriesFiled
    <3>4. QED
      BY <3>2, <3>3
  <2>3. cached[j].text \in Askers \ {a}
    BY <2>2 DEF HydeEntry, Filed
  <2>4. QED
    BY <2>1, <2>2, <2>3 DEF Filed
<1>4. cached' = new
  <2>1. Len(cached) \in Nat /\ MaxEntries \in Nat
    BY HydeAssumption DEF HydeInv, HydeTypeOK
  <2> HIDE DEF rest
  <2>2. Len(all) = Len(rest) + 1 /\ Len(rest) \in Nat
    BY <1>1
  <2>3. Found(e.key) => ~(Len(all) > MaxEntries)
    BY <1>1, <1>2, <2>1, <2>2
  <2>4. QED
    BY <2>3 DEF Stored, rest
<1> HIDE DEF rest
<1>5. /\ all \in Seq(HydeEntry) /\ Len(all) = Len(rest) + 1
      /\ all[Len(rest) + 1] = e /\ \A i \in 1..Len(rest) : all[i] = rest[i]
  BY <1>1
<1>6. /\ \A i \in 1..Len(all) : \A x : x = all[i] => Filed(x)'
      /\ \A i, j \in 1..Len(all) : all[i].key = all[j].key => i = j
  <2>1. Len(rest) \in Nat
    BY <1>1
  <2>2. \A i \in 1..Len(all) : i = Len(rest) + 1 \/ i \in 1..Len(rest)
    BY <1>5, <2>1
  <2>3. ASSUME NEW i \in 1..Len(all), NEW x, x = all[i] PROVE Filed(x)'
    BY <1>3, <1>5, <2>2, <2>3
  <2>4. ASSUME NEW i \in 1..Len(all), NEW j \in 1..Len(all), all[i].key = all[j].key
        PROVE  i = j
    BY <1>1, <1>5, <2>2, <2>4
  <2>5. QED
    BY <2>3, <2>4
<1>7. /\ MaxEntries \in Nat /\ Len(all) <= MaxEntries + 1
  <2>1. Len(cached) \in Nat /\ MaxEntries \in Nat /\ Len(rest) \in Nat
    BY <1>1, HydeAssumption DEF HydeInv, HydeTypeOK
  <2>2. QED
    BY <1>1, <1>5, <2>1
<1> HIDE DEF all
<1>8. /\ new \in Seq(HydeEntry) /\ Len(new) <= MaxEntries
      /\ \/ Len(new) = Len(all) /\ \A i \in 1..Len(new) : new[i] = all[i]
         \/ Len(new) = Len(all) - 1 /\ \A i \in 1..Len(new) : new[i] = all[i + 1]
  BY <1>5, <1>7
<1> HIDE DEF new
<1>9. PICK k \in {0, 1} : Len(new) = Len(all) - k /\ \A i \in 1..Len(new) : new[i] = all[i + k]
  BY <1>5, <1>8
<1>10. \A i \in 1..Len(new) : i + k \in 1..Len(all) /\ i \in Nat
  BY <1>5, <1>9
<1>11. ASSUME NEW i \in 1..Len(new), NEW x, x = new[i] PROVE Filed(x)'
  BY <1>6, <1>9, <1>10, <1>11
<1>12. ASSUME NEW i \in 1..Len(new), NEW j \in 1..Len(new), new[i].key = new[j].key
       PROVE  i = j
  <2>1. i + k = j + k
    BY <1>6, <1>9, <1>10, <1>12
  <2>2. QED
    BY <1>10, <2>1
<1>13. CacheIsADict'
  BY <1>4, <1>8, <1>12 DEF CacheIsADict
<1>14. EntriesFiled'
  BY <1>4, <1>11 DEF EntriesFiled, Filed
<1>15. QED
  BY <1>4, <1>8, <1>13, <1>14

(* What a step leaves of the searches that take no part in it.             *)
LEMMA TextsStay ==
  ASSUME HydeInv, NEW a \in Askers, stage[a] # "done",
         NEW b \in Askers \ {a}, pseudo[b] # NoText
  PROVE  pseudo[b] \in Askers \ {a}
BY DEF HydeInv, HydeTypeOK, TextsLast

(* One search moves: the others keep what they were promised.              *)
LEMMA SearchMoves ==
  ASSUME HydeInv, HydeTypeOK', NEW a \in Askers, stage[a] # "done",
         \A b \in Askers \ {a} :
           /\ stage'[b] = stage[b] /\ query'[b] = query[b] /\ pseudo'[b] = pseudo[b]
           /\ kept'[b] = kept[b] /\ looked'[b] = looked[b],
         CacheIsADict', EntriesFiled',
         stage'[a] = "generating" => ShouldHyde(query'[a]),
         pseudo'[a] # NoText =>
           /\ stage'[a] = "done" /\ stage'[pseudo'[a]] = "done"
           /\ query'[pseudo'[a]].key = query'[a].key
           /\ ShouldHyde(query'[a])
           /\ pseudo'[a] # a =>
                /\ kept'[pseudo'[a]] <= looked'[a]
                /\ looked'[a] <= kept'[pseudo'[a]] + HydeTtl
  PROVE  HydeInv'
<1>1. GateKept'
  BY DEF GateKept, HydeInv
<1>2. ASSUME NEW b \in Askers, pseudo'[b] # NoText
      PROVE  /\ stage'[b] = "done" /\ stage'[pseudo'[b]] = "done"
             /\ query'[pseudo'[b]].key = query'[b].key
             /\ ShouldHyde(query'[b])
             /\ pseudo'[b] # b =>
                  /\ kept'[pseudo'[b]] <= looked'[b]
                  /\ looked'[b] <= kept'[pseudo'[b]] + HydeTtl
  <2>1. CASE b = a
    BY <1>2, <2>1
  <2>2. CASE b # a
    <3>1. pseudo[b] # NoText /\ pseudo'[b] = pseudo[b] /\ pseudo[b] \in Askers \ {a}
      BY <1>2, <2>2, TextsStay
    <3>2. stage[b] = "done" /\ stage[pseudo[b]] = "done"
      BY <3>1 DEF HydeInv, TextsLast
    <3>3. /\ query[pseudo[b]].key = query[b].key /\ ShouldHyde(query[b])
          /\ pseudo[b] # b => kept[pseudo[b]] <= looked[b] /\ looked[b] <= kept[pseudo[b]] + HydeTtl
      BY <3>1 DEF HydeInv, PseudoDocFits
    <3>4. QED
      BY <2>2, <3>1, <3>2, <3>3
  <2>3. QED
    BY <2>1, <2>2
<1>3. TextsLast' /\ PseudoDocFits'
  BY <1>2 DEF TextsLast, PseudoDocFits
<1>4. QED
  BY <1>1, <1>3 DEF HydeInv

(* The gate turns the search away, or there is no generator.               *)
LEMMA SkipKeepsInv ==
  ASSUME HydeInv, NEW a \in Askers, stage[a] = "new", NEW q \in Queries,
         query' = [query EXCEPT ![a] = q], Skip(a, q),
         UNCHANGED <<generator, hydeClock, kept>>
  PROVE  HydeInv'
<1>1. /\ stage' = [stage EXCEPT ![a] = "done"] /\ UNCHANGED <<cached, pseudo, looked>>
  BY DEF Skip
<1>2. HydeTypeOK'
  BY <1>1 DEF HydeInv, HydeTypeOK
<1>3. CacheIsADict'
  BY <1>1 DEF HydeInv, CacheIsADict
<1>4. EntriesFiled'
  <2>1. ASSUME NEW i \in 1..Len(cached) PROVE Filed(cached[i])'
    <3>1. cached[i] \in HydeEntry /\ Filed(cached[i])
      BY DEF HydeInv, HydeTypeOK, EntriesFiled
    <3>2. QED
      BY <1>1, <3>1 DEF Filed, HydeEntry, HydeInv, HydeTypeOK
  <2>2. QED
    BY <1>1, <2>1 DEF EntriesFiled
<1>5. pseudo'[a] = NoText
  BY <1>1 DEF HydeInv, TextsLast
<1>6. stage'[a] = "done"
  BY <1>1 DEF HydeInv, HydeTypeOK
<1>7. \A b \in Askers \ {a} :
        /\ stage'[b] = stage[b] /\ query'[b] = query[b] /\ pseudo'[b] = pseudo[b]
        /\ kept'[b] = kept[b] /\ looked'[b] = looked[b]
  BY <1>1 DEF HydeInv, HydeTypeOK
<1>8. QED
  BY <1>2, <1>3, <1>4, <1>5, <1>6, <1>7, SearchMoves

(* The cache serves the search: the entry has its key and is no older than *)
(* the time to live.                                                       *)
LEMMA HitKeepsInv ==
  ASSUME HydeInv, NEW a \in Askers, stage[a] = "new", NEW q \in Queries,
         query' = [query EXCEPT ![a] = q], CacheHit(a, q),
         UNCHANGED <<generator, hydeClock, kept>>
  PROVE  HydeInv'
<1> PICK e : e = Entry(q.key)
  OBVIOUS
<1>1. /\ ShouldHyde(q) /\ ~Expired(e) /\ Found(q.key)
      /\ cached' = Append(Without(e.key), e)
      /\ pseudo' = [pseudo EXCEPT ![a] = e.text]
      /\ looked' = [looked EXCEPT ![a] = hydeClock]
      /\ stage' = [stage EXCEPT ![a] = "done"]
  BY DEF CacheHit, Touched
<1>2. e \in HydeEntry /\ e.key = q.key /\ Filed(e)
  BY <1>1, FoundEntry
<1>3. e.text \in Askers /\ e.text # a /\ e.at \in Nat
  BY <1>2 DEF HydeEntry, Filed
<1>4. \A b \in Askers \ {a} :
        /\ stage'[b] = stage[b] /\ query'[b] = query[b] /\ pseudo'[b] = pseudo[b]
        /\ kept'[b] = kept[b] /\ looked'[b] = looked[b]
  BY <1>1 DEF HydeInv, HydeTypeOK
<1>5. Filed(e)'
  BY <1>2, <1>3, <1>4 DEF Filed
<1>6. cached' \in Seq(HydeEntry) /\ CacheIsADict' /\ EntriesFiled'
  BY <1>1, <1>2, <1>4, <1>5, LastEntry
<1>7. HydeTypeOK'
  BY <1>1, <1>3, <1>6 DEF HydeInv, HydeTypeOK
<1>8. /\ stage'[a] = "done" /\ pseudo'[a] = e.text /\ query'[a] = q /\ looked'[a] = hydeClock
  BY <1>1 DEF HydeInv, HydeTypeOK
<1>9. /\ stage'[e.text] = "done" /\ query'[e.text].key = q.key
      /\ kept'[e.text] = e.at
  BY <1>2, <1>3, <1>4 DEF Filed
<1>10. e.at <= hydeClock /\ hydeClock <= e.at + HydeTtl
  <2>1. e.at <= hydeClock /\ ~(hydeClock - e.at > HydeTtl)
    BY <1>1, <1>2 DEF Filed, Expired
  <2>2. hydeClock \in Nat /\ HydeTtl \in Nat
    BY HydeAssumption DEF HydeInv, HydeTypeOK
  <2>3. QED
    BY <1>3, <2>1, <2>2
<1>11. QED
  BY <1>1, <1>4, <1>6, <1>7, <1>8, <1>9, <1>10, SearchMoves, SMTT(30)

(* The search goes to the generator.                                       *)
LEMMA MissKeepsInv ==
  ASSUME HydeInv, NEW a \in Askers, stage[a] = "new", NEW q \in Queries,
         query' = [query EXCEPT ![a] = q], CacheMiss(a, q),
         UNCHANGED <<generator, hydeClock, kept>>
  PROVE  HydeInv'
<1>1. /\ ShouldHyde(q) /\ cached' = Without(q.key)
      /\ stage' = [stage EXCEPT ![a] = "generating"]
      /\ UNCHANGED <<pseudo, looked>>
  BY DEF CacheMiss
<1>2. \A b \in Askers \ {a} :
        /\ stage'[b] = stage[b] /\ query'[b] = query[b] /\ pseudo'[b] = pseudo[b]
        /\ kept'[b] = kept[b] /\ looked'[b] = looked[b]
  BY <1>1 DEF HydeInv, HydeTypeOK
<1>3. CacheIsADict' /\ EntriesFiled'
  BY <1>1, <1>2, FewerEntries
<1>4. HydeTypeOK'
  BY <1>1, WithoutKey DEF HydeInv, HydeTypeOK
<1>5. query'[a] = q /\ pseudo'[a] = NoText
  BY <1>1 DEF HydeInv, HydeTypeOK, TextsLast
<1>6. QED
  BY <1>1, <1>2, <1>3, <1>4, <1>5, SearchMoves

(* The generator's text is stored under the key the search came with.      *)
LEMMA GeneratedKeepsInv ==
  ASSUME HydeInv, NEW a \in Askers, Generated(a)
  PROVE  HydeInv'
<1> PICK e : e = [key |-> query[a].key, at |-> hydeClock, text |-> a]
  OBVIOUS
<1>1. /\ stage[a] = "generating" /\ cached' = Stored(e)
      /\ kept' = [kept EXCEPT ![a] = hydeClock]
      /\ pseudo' = [pseudo EXCEPT ![a] = a]
      /\ stage' = [stage EXCEPT ![a] = "done"]
      /\ UNCHANGED <<generator, query, hydeClock, looked>>
  BY DEF Generated
<1>2. ShouldHyde(query[a])
  BY <1>1 DEF HydeInv, GateKept
<1>3. query[a] \in Queries
  <2>1. ~ShouldHyde(NoQuery)
    BY DEF ShouldHyde, NoQuery
  <2>2. QED
    BY <1>2, <2>1 DEF HydeInv, HydeTypeOK
<1>4. e \in HydeEntry
  BY <1>3 DEF HydeEntry, HydeInv, HydeTypeOK
<1>5. \A b \in Askers \ {a} :
        /\ stage'[b] = stage[b] /\ query'[b] = query[b] /\ pseudo'[b] = pseudo[b]
        /\ kept'[b] = kept[b] /\ looked'[b] = looked[b]
  BY <1>1 DEF HydeInv, HydeTypeOK
<1>6. Filed(e)'
  BY <1>1 DEF Filed, HydeInv, HydeTypeOK
<1>7. cached' \in Seq(HydeEntry) /\ CacheIsADict' /\ EntriesFiled'
  BY <1>1, <1>4, <1>5, <1>6, LastEntry
<1>8. HydeTypeOK'
  BY <1>1, <1>7 DEF HydeInv, HydeTypeOK
<1>9. stage'[a] = "done" /\ pseudo'[a] = a /\ query' = query
  BY <1>1 DEF HydeInv, HydeTypeOK
<1>10. QED
  BY <1>2, <1>1, <1>5, <1>7, <1>8, <1>9, SearchMoves

(* Bare retrieval: nothing is stored.                                      *)
LEMMA DegradeKeepsInv ==
  ASSUME HydeInv, NEW a \in Askers, Degrade(a)
  PROVE  HydeInv'
<1>1. /\ stage[a] = "generating" /\ stage' = [stage EXCEPT ![a] = "done"]
      /\ UNCHANGED <<generator, cached, query, pseudo, hydeClock, kept, looked>>
  BY DEF Degrade
<1>2. HydeTypeOK' /\ CacheIsADict'
  BY <1>1 DEF HydeInv, HydeTypeOK, CacheIsADict
<1>3. \A b \in Askers : stage[b] = "done" => stage'[b] = "done"
  BY <1>1 DEF HydeInv, HydeTypeOK
<1>4. EntriesFiled'
  <2>1. ASSUME NEW i \in 1..Len(cached) PROVE Filed(cached[i])'
    <3>1. cached[i] \in HydeEntry /\ Filed(cached[i])
      BY DEF HydeInv, HydeTypeOK, EntriesFiled
    <3>2. QED
      BY <1>1, <1>3, <3>1 DEF Filed, HydeEntry
  <2>2. QED
    BY <1>1, <2>1 DEF EntriesFiled
<1>5. pseudo'[a] = NoText /\ stage'[a] = "done"
  BY <1>1 DEF HydeInv, HydeTypeOK, TextsLast
<1>6. \A b \in Askers \ {a} :
        /\ stage'[b] = stage[b] /\ query'[b] = query[b] /\ pseudo'[b] = pseudo[b]
        /\ kept'[b] = kept[b] /\ looked'[b] = looked[b]
  BY <1>1 DEF HydeInv, HydeTypeOK
<1>7. QED
  BY <1>1, <1>2, <1>4, <1>5, <1>6, SearchMoves

(* HydeInv is inductive.                                                   *)
LEMMA HydeStep ==
  ASSUME HydeInv, [HydeNext]_hyde
  PROVE  HydeInv'
<1>1. ASSUME NEW a \in Askers, Expand(a) PROVE HydeInv'
  <2>1. PICK q \in Queries :
          query' = [query EXCEPT ![a] = q] /\ (Skip(a, q) \/ CacheHit(a, q) \/ CacheMiss(a, q))
    BY <1>1 DEF Expand
  <2>2. stage[a] = "new" /\ UNCHANGED <<generator, hydeClock, kept>>
    BY <1>1 DEF Expand
  <2>3. QED
    BY <2>1, <2>2, SkipKeepsInv, HitKeepsInv, MissKeepsInv
<1>2. ASSUME HydeTick PROVE HydeInv'
  <2>1. hydeClock' = hydeClock + 1 /\ hydeClock \in Nat
        /\ UNCHANGED <<generator, cached, stage, query, pseudo, kept, looked>>
    BY <1>2 DEF HydeTick, HydeInv, HydeTypeOK
  <2>2. HydeTypeOK' /\ CacheIsADict' /\ GateKept' /\ TextsLast' /\ PseudoDocFits'
    BY <2>1 DEF HydeInv, HydeTypeOK, CacheIsADict, GateKept, TextsLast, PseudoDocFits
  <2>3. EntriesFiled'
    <3>1. ASSUME NEW i \in 1..Len(cached) PROVE Filed(cached[i])'
      <4>1. cached[i] \in HydeEntry /\ Filed(cached[i])
        BY DEF HydeInv, HydeTypeOK, EntriesFiled
      <4>2. QED
        BY <2>1, <4>1 DEF Filed, HydeEntry
    <3>2. QED
      BY <2>1, <3>1 DEF EntriesFiled
  <2>4. QED
    BY <2>2, <2>3 DEF HydeInv
<1>3. ASSUME UNCHANGED hyde PROVE HydeInv'
  BY <1>3 DEF hyde, HydeInv, HydeTypeOK, CacheIsADict, EntriesFiled, Filed, GateKept, TextsLast,
     PseudoDocFits
<1>4. QED
  BY <1>1, <1>2, <1>3, GeneratedKeepsInv, DegradeKeepsInv DEF HydeNext

(* The inductive invariant of the HyDE cache.                              *)
LEMMA HydeInvariance == HydeSpec => []HydeInv
<1>1. HydeInv /\ [HydeNext]_hyde => HydeInv'
  BY HydeStep
<1>2. QED
  BY HydeInvInit, <1>1, PTL DEF HydeSpec

(* HydeEngine.expand: a search is given a text made for its own key, at    *)
(* most HydeTtl after it was stored, whatever the order of the calls.      *)
THEOREM PseudoDocsFit == HydeSpec => []PseudoDocFits
<1>1. HydeInv => PseudoDocFits
  BY DEF HydeInv
<1>2. QED
  BY <1>1, HydeInvariance, PTL

(* HydeCache: the store never holds a key twice nor more than MaxEntries.  *)
THEOREM CacheStaysADict == HydeSpec => []CacheIsADict
<1>1. HydeInv => CacheIsADict
  BY DEF HydeInv
<1>2. QED
  BY <1>1, HydeInvariance, PTL

=============================================================================
