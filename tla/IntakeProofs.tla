---------------------------- MODULE IntakeProofs ----------------------------
(***************************************************************************)
(* What a fetch accounts for, takes and leaves behind, for any number of   *)
(* threads, any sources and any caps; and what the parser makes of a file, *)
(* for any documents, any limit and any cost of joining blocks.            *)
(***************************************************************************)
EXTENDS Fetch, Chunking, FiniteSetTheorems, SequenceTheorems, WellFoundedInduction, TLAPS

----------------------------------------------------------------------------
(* Induction over an interval, and functions defined by recursion over it. *)

(* A set of numbers that has one has a least.                              *)
LEMMA LeastNumber ==
  ASSUME NEW T, T \subseteq Nat, T # {}
  PROVE  \E x \in T : \A y \in T : x <= y
<1>1. PICK R : R = OpToRel(<, Nat)
  BY Zenon
<1>2. IsWellFoundedOn(R, Nat)
  BY NatLessThanWellFounded, <1>1, Zenon
<1>3. \A x, y \in T : y < x => <<y, x>> \in R
  BY <1>1 DEF OpToRel
<1>4. \E x \in T : \A y \in T : ~(<<y, x>> \in R)
  BY <1>2, WFMin, Zenon
<1>5. \E x \in T : \A y \in T : ~(y < x)
  BY <1>4, <1>3, Zenon
<1>6. QED
  BY <1>5

(* What holds at lo and passes from each number to the next holds to hi.   *)
LEMMA Climb ==
  ASSUME NEW lo \in Nat, NEW hi \in Nat, NEW T, lo \in T,
         \A n \in (lo + 1) .. hi : n - 1 \in T => n \in T
  PROVE  lo .. hi \subseteq T
<1> DEFINE Missed == (lo .. hi) \ T
<1>1. SUFFICES ASSUME Missed # {} PROVE FALSE
  OBVIOUS
<1>2. Missed \subseteq Nat
  OBVIOUS
<1>3. PICK m \in Missed : \A y \in Missed : m <= y
  <2> HIDE DEF Missed
  <2>1. QED
    BY <1>1, <1>2, LeastNumber
<1>4. m \in (lo + 1) .. hi /\ m - 1 \in lo .. hi
  BY <1>3
<1>5. m - 1 \in T
  BY <1>3, <1>4
<1>6. QED
  BY <1>3, <1>4, <1>5

(* g follows step from x0 at lo, as far as m.                              *)
Follows(g, lo, m, x0, step) ==
  g[lo] = x0 /\ \A n \in (lo + 1) .. m : g[n] = step[<<n, g[n - 1]>>]

(* A recursion over an interval defines a function.                        *)
LEMMA Recursion ==
  ASSUME NEW lo \in Nat, NEW hi \in Nat, lo <= hi, NEW S, NEW x0 \in S,
         NEW step \in [((lo + 1) .. hi) \X S -> S]
  PROVE  \E g \in [lo .. hi -> S] : Follows(g, lo, hi, x0, step)
<1> DEFINE T == {m \in lo .. hi : \E g \in [lo .. m -> S] : Follows(g, lo, m, x0, step)}
<1>1. lo \in T
  <2> DEFINE g == [n \in lo .. lo |-> x0]
  <2>1. g \in [lo .. lo -> S] /\ Follows(g, lo, lo, x0, step)
    BY DEF Follows
  <2>2. lo \in lo .. hi
    OBVIOUS
  <2> HIDE DEF g
  <2>3. QED
    BY <2>1, <2>2
<1>2. ASSUME NEW m \in (lo + 1) .. hi, m - 1 \in T
      PROVE  m \in T
  <2>1. PICK g \in [lo .. (m - 1) -> S] : Follows(g, lo, m - 1, x0, step)
    BY <1>2
  <2> DEFINE k == [n \in lo .. m |-> IF n = m THEN step[<<m, g[m - 1]>>] ELSE g[n]]
  <2>2. m \in Nat /\ lo < m /\ m <= hi /\ m - 1 \in lo .. (m - 1) /\ m \in lo .. hi
    OBVIOUS
  <2>3. k \in [lo .. m -> S]
    BY <2>2
  <2>4. ASSUME NEW n \in (lo + 1) .. m PROVE k[n] = step[<<n, k[n - 1]>>]
    <3>1. k[n - 1] = g[n - 1]
      BY <2>2
    <3>2. CASE n = m
      <4>1. k[m] = step[<<m, g[m - 1]>>]
        BY <2>2
      <4> HIDE DEF k
      <4>2. QED
        BY <3>1, <3>2, <4>1
    <3>3. CASE n # m
      <4>1. n \in (lo + 1) .. (m - 1) /\ n \in lo .. m
        BY <2>2, <3>3
      <4>2. k[n] = g[n] /\ g[n] = step[<<n, g[n - 1]>>]
        BY <2>1, <3>3, <4>1 DEF Follows
      <4>3. QED
        BY <3>1, <4>2
    <3>4. QED
      BY <3>2, <3>3
  <2>5. k[lo] = x0
    BY <2>1, <2>2 DEF Follows
  <2> HIDE DEF k
  <2>6. Follows(k, lo, m, x0, step)
    BY <2>4, <2>5 DEF Follows
  <2>7. QED
    BY <2>2, <2>3, <2>6
<1> HIDE DEF T
<1>3. lo .. hi \subseteq T
  BY <1>1, <1>2, Climb
<1>4. hi \in T
  BY <1>3
<1>5. QED
  BY <1>4 DEF T

(* How many numbers of a set an interval has: one more with the next.      *)
LEMMA CountUpTo ==
  ASSUME NEW a \in Nat, NEW j \in Nat, a <= j, NEW G
  PROVE  /\ IsFiniteSet(G \cap (a .. j)) /\ IsFiniteSet(G \cap (a .. (j - 1)))
         /\ Cardinality(G \cap (a .. j)) \in Nat /\ Cardinality(G \cap (a .. (j - 1))) \in Nat
         /\ Cardinality(G \cap (a .. j)) =
              Cardinality(G \cap (a .. (j - 1))) + (IF j \in G THEN 1 ELSE 0)
<1> DEFINE A == G \cap (a .. (j - 1))
           B == G \cap (a .. j)
<1>1. IsFiniteSet(A) /\ IsFiniteSet(B)
  <2>1. IsFiniteSet(a .. j) /\ A \in SUBSET (a .. j) /\ B \in SUBSET (a .. j)
    BY FS_Interval
  <2> HIDE DEF A, B
  <2>2. QED
    BY <2>1, FS_Subset
<1>2. B = (IF j \in G THEN A \cup {j} ELSE A) /\ j \notin A
  BY Z3
<1> HIDE DEF A, B
<1>3. Cardinality(A) \in Nat /\ Cardinality(B) \in Nat
  BY <1>1, FS_CardinalityType
<1>4. Cardinality(A \cup {j}) = Cardinality(A) + 1
  BY <1>1, <1>2, FS_AddElement
<1>5. Cardinality(B) = Cardinality(A) + (IF j \in G THEN 1 ELSE 0)
  BY <1>2, <1>3, <1>4
<1>6. QED
  BY <1>1, <1>3, <1>5, Zenon DEF A, B

----------------------------------------------------------------------------
(* Fetch.                                                                  *)
Phases == {"start", "clone", "walk", "url", "guard", "pin", "get"} \cup Done
Reasons == {"symlink_escape", "excluded_by_pattern", "unsupported_file_type", "too_large"}
Returned == [item : Nat, size : Nat]
Passed == [item : Nat, reason : Reasons]

FetchType ==
  /\ source \in [Fetchers -> Sources]
  /\ at \in [Fetchers -> Nat \ {0}]
  /\ phase \in [Fetchers -> Phases]
  /\ files \in [Fetchers -> Seq(Returned)]
  /\ skipped \in [Fetchers -> Seq(Passed)]

(* The items before the current one, each on one list.                     *)
Accounted(f) ==
  /\ ItemsOf(files[f]) \cup ItemsOf(skipped[f]) = 1 .. (at[f] - 1)
  /\ ItemsOf(files[f]) \cap ItemsOf(skipped[f]) = {}
  /\ Len(files[f]) + Len(skipped[f]) = at[f] - 1

(* A fetch looks at an item only while there is one, in the way of its     *)
(* kind of source: what is true of it at item n in phase p.                *)
Fits(f, n, p) ==
  /\ n <= Len(Items(f)) + 1
  /\ p \in {"guard", "pin", "get"} => n <= Len(Items(f))
  /\ p \in {"clone", "walk"} => source[f].kind # "http"
  /\ p \in {"url", "guard", "pin", "get"} => source[f].kind = "http"
  /\ p = "returned" => n = Len(Items(f)) + 1
InStep(f) == Fits(f, at[f], phase[f])

FetchInv == FetchType /\ \A f \in Fetchers : Accounted(f) /\ InStep(f)

(* A list that gets one more entry is about one more item.                 *)
LEMMA ItemsOfAppend ==
  ASSUME NEW S, NEW s \in Seq(S), NEW e \in S
  PROVE  /\ ItemsOf(Append(s, e)) = ItemsOf(s) \cup {e.item}
         /\ Len(Append(s, e)) = Len(s) + 1
         /\ Append(s, e) \in Seq(S)
<1>1. /\ Len(Append(s, e)) = Len(s) + 1 /\ Append(s, e) \in Seq(S) /\ Len(s) \in Nat
      /\ \A k \in 1 .. Len(s) : Append(s, e)[k] = s[k]
      /\ Append(s, e)[Len(s) + 1] = e
  OBVIOUS
<1>2. 1 .. (Len(s) + 1) = (1 .. Len(s)) \cup {Len(s) + 1}
  BY <1>1
<1>3. ItemsOf(Append(s, e)) = {Append(s, e)[k].item : k \in 1 .. (Len(s) + 1)}
  BY <1>1 DEF ItemsOf
<1> QED  BY <1>1, <1>2, <1>3 DEF ItemsOf

(* Taking or skipping the current item moves it to one list.               *)
LEMMA SkipAccounts ==
  ASSUME FetchType, NEW f \in Fetchers, Accounted(f), NEW reason \in Reasons, Skip(f, reason)
  PROVE  /\ files' \in [Fetchers -> Seq(Returned)] /\ skipped' \in [Fetchers -> Seq(Passed)]
         /\ at' \in [Fetchers -> Nat \ {0}] /\ at'[f] = at[f] + 1
         /\ Accounted(f)'
         /\ \A g \in Fetchers \ {f} :
              files'[g] = files[g] /\ skipped'[g] = skipped[g] /\ at'[g] = at[g]
<1> DEFINE e == [item |-> at[f], reason |-> reason]
<1>1. /\ skipped' = [skipped EXCEPT ![f] = Append(skipped[f], e)]
      /\ at' = [at EXCEPT ![f] = at[f] + 1] /\ files' = files
  BY DEF Skip
<1>2. at[f] \in Nat \ {0} /\ skipped[f] \in Seq(Passed) /\ files[f] \in Seq(Returned) /\ e \in Passed
  BY DEF FetchType, Passed
<1>3. /\ ItemsOf(Append(skipped[f], e)) = ItemsOf(skipped[f]) \cup {at[f]}
      /\ Len(Append(skipped[f], e)) = Len(skipped[f]) + 1
      /\ Append(skipped[f], e) \in Seq(Passed)
  BY <1>2, ItemsOfAppend
<1>4. skipped'[f] = Append(skipped[f], e) /\ at'[f] = at[f] + 1 /\ files'[f] = files[f]
  BY <1>1 DEF FetchType
<1> HIDE DEF e
<1>5. Len(files[f]) \in Nat /\ Len(skipped[f]) \in Nat
  BY <1>2
<1>6. Accounted(f)'
  <2> DEFINE old == 1 .. (at[f] - 1)
             a == Len(files[f])    b == Len(skipped[f])    n == at[f]
             a1 == Len(files'[f])  b1 == Len(skipped'[f])  n1 == at'[f]
  <2>1. 1 .. (at'[f] - 1) = old \cup {at[f]} /\ at[f] \notin old
    BY <1>2, <1>4
  <2>2. /\ ItemsOf(files[f]) \cup ItemsOf(skipped[f]) = old
        /\ ItemsOf(files[f]) \cap ItemsOf(skipped[f]) = {}
    BY DEF Accounted
  <2>3. /\ ItemsOf(skipped'[f]) = ItemsOf(skipped[f]) \cup {at[f]} /\ ItemsOf(files'[f]) = ItemsOf(files[f])
    BY <1>3, <1>4
  <2> HIDE DEF old
  <2>4. /\ ItemsOf(files'[f]) \cup ItemsOf(skipped'[f]) = old \cup {at[f]}
        /\ ItemsOf(files'[f]) \cap ItemsOf(skipped'[f]) = {}
    BY <2>1, <2>2, <2>3
  <2>5. a1 = a /\ b1 = b + 1 /\ n1 = n + 1
    BY <1>3, <1>4, Zenon
  <2>6. a \in Nat /\ b \in Nat /\ n \in Nat /\ a + b = n - 1
    BY <1>2, <1>5 DEF Accounted
  <2> HIDE DEF a, b, n, a1, b1, n1
  <2>7. a1 + b1 = n1 - 1
    BY <2>5, <2>6
  <2> QED  BY <2>1, <2>4, <2>7 DEF Accounted, a1, b1, n1
<1> QED  BY <1>1, <1>2, <1>3, <1>4, <1>6 DEF FetchType

(* An item that is taken is on the list of its own fetch, and the fetch is *)
(* past it.                                                                *)
LEMMA KeepAccounts ==
  ASSUME FetchType, NEW f \in Fetchers, Accounted(f), NEW size \in Nat, Keep(f, size)
  PROVE  /\ files' \in [Fetchers -> Seq(Returned)] /\ skipped' \in [Fetchers -> Seq(Passed)]
         /\ at' \in [Fetchers -> Nat \ {0}] /\ at'[f] = at[f] + 1
         /\ Accounted(f)'
         /\ \A g \in Fetchers \ {f} :
              files'[g] = files[g] /\ skipped'[g] = skipped[g] /\ at'[g] = at[g]
<1> DEFINE e == [item |-> at[f], size |-> size]
<1>1. /\ files' = [files EXCEPT ![f] = Append(files[f], e)]
      /\ at' = [at EXCEPT ![f] = at[f] + 1] /\ skipped' = skipped
  BY DEF Keep
<1>2. at[f] \in Nat \ {0} /\ skipped[f] \in Seq(Passed) /\ files[f] \in Seq(Returned) /\ e \in Returned
  BY DEF FetchType, Returned
<1>3. /\ ItemsOf(Append(files[f], e)) = ItemsOf(files[f]) \cup {at[f]}
      /\ Len(Append(files[f], e)) = Len(files[f]) + 1
      /\ Append(files[f], e) \in Seq(Returned)
  BY <1>2, ItemsOfAppend
<1>4. files'[f] = Append(files[f], e) /\ at'[f] = at[f] + 1 /\ skipped'[f] = skipped[f]
  BY <1>1 DEF FetchType
<1> HIDE DEF e
<1>5. Len(files[f]) \in Nat /\ Len(skipped[f]) \in Nat
  BY <1>2
<1>6. Accounted(f)'
  <2> DEFINE old == 1 .. (at[f] - 1)
             a == Len(files[f])    b == Len(skipped[f])    n == at[f]
             a1 == Len(files'[f])  b1 == Len(skipped'[f])  n1 == at'[f]
  <2>1. 1 .. (at'[f] - 1) = old \cup {at[f]} /\ at[f] \notin old
    BY <1>2, <1>4
  <2>2. /\ ItemsOf(files[f]) \cup ItemsOf(skipped[f]) = old
        /\ ItemsOf(files[f]) \cap ItemsOf(skipped[f]) = {}
    BY DEF Accounted
  <2>3. /\ ItemsOf(files'[f]) = ItemsOf(files[f]) \cup {at[f]} /\ ItemsOf(skipped'[f]) = ItemsOf(skipped[f])
    BY <1>3, <1>4
  <2> HIDE DEF old
  <2>4. /\ ItemsOf(files'[f]) \cup ItemsOf(skipped'[f]) = old \cup {at[f]}
        /\ ItemsOf(files'[f]) \cap ItemsOf(skipped'[f]) = {}
    BY <2>1, <2>2, <2>3
  <2>5. a1 = a + 1 /\ b1 = b /\ n1 = n + 1
    BY <1>3, <1>4, Zenon
  <2>6. a \in Nat /\ b \in Nat /\ n \in Nat /\ a + b = n - 1
    BY <1>2, <1>5 DEF Accounted
  <2> HIDE DEF a, b, n, a1, b1, n1
  <2>7. a1 + b1 = n1 - 1
    BY <2>5, <2>6
  <2> QED  BY <2>1, <2>4, <2>7 DEF Accounted, a1, b1, n1
<1> QED  BY <1>1, <1>2, <1>3, <1>4, <1>6 DEF FetchType


(* A step that leaves the item where it is.                                *)
LEMMA MoveKeeps ==
  ASSUME FetchInv, NEW f \in Fetchers, NEW p \in Phases, Proceed(f, p),
         UNCHANGED <<source, at, files, skipped>>, Fits(f, at[f], p)
  PROVE  FetchInv'
<1>1. /\ phase' \in [Fetchers -> Phases] /\ phase'[f] = p
      /\ \A g \in Fetchers \ {f} : phase'[g] = phase[g]
  BY DEF FetchInv, FetchType, Proceed
<1>2. FetchType'
  BY <1>1 DEF FetchInv, FetchType
<1>3. ASSUME NEW g \in Fetchers  PROVE Accounted(g)'
  <2>1. Accounted(g) /\ files' = files /\ skipped' = skipped /\ at' = at
    BY DEF FetchInv
  <2> QED  BY <2>1 DEF Accounted, ItemsOf
<1>4. ASSUME NEW g \in Fetchers  PROVE InStep(g)'
  <2>1. CASE g = f
    BY <1>1, <2>1 DEF InStep, Fits, Items
  <2>2. CASE g # f
    <3>1. InStep(g) /\ phase'[g] = phase[g]
      BY <1>1, <2>2 DEF FetchInv
    <3> QED  BY <3>1 DEF InStep, Fits, Items
  <2> QED  BY <2>1, <2>2
<1> QED  BY <1>2, <1>3, <1>4 DEF FetchInv

(* A step that puts the item on one of the lists.                          *)
LEMMA AccountKeeps ==
  ASSUME FetchInv, NEW f \in Fetchers, NEW p \in Phases, Proceed(f, p), UNCHANGED source,
         (\E reason \in Reasons : Skip(f, reason)) \/ (\E size \in Nat : Keep(f, size)),
         Fits(f, at[f] + 1, p)
  PROVE  FetchInv'
<1>1. /\ phase' \in [Fetchers -> Phases] /\ phase'[f] = p
      /\ \A g \in Fetchers \ {f} : phase'[g] = phase[g]
  BY DEF FetchInv, FetchType, Proceed
<1>2. FetchType /\ Accounted(f)
  BY DEF FetchInv
<1>3. /\ files' \in [Fetchers -> Seq(Returned)] /\ skipped' \in [Fetchers -> Seq(Passed)]
      /\ at' \in [Fetchers -> Nat \ {0}] /\ at'[f] = at[f] + 1
      /\ Accounted(f)'
      /\ \A g \in Fetchers \ {f} :
           files'[g] = files[g] /\ skipped'[g] = skipped[g] /\ at'[g] = at[g]
  <2>1. ASSUME NEW reason \in Reasons, Skip(f, reason)  PROVE <1>3!:
    BY <1>2, <2>1, SkipAccounts
  <2>2. ASSUME NEW size \in Nat, Keep(f, size)  PROVE <1>3!:
    BY <1>2, <2>2, KeepAccounts
  <2> QED  BY <2>1, <2>2
<1>4. FetchType'
  BY <1>1, <1>2, <1>3 DEF FetchType
<1>5. ASSUME NEW g \in Fetchers, g # f  PROVE Accounted(g)' /\ InStep(g)'
  <2>1. Accounted(g) /\ InStep(g)
    BY DEF FetchInv
  <2>2. /\ files'[g] = files[g] /\ skipped'[g] = skipped[g] /\ at'[g] = at[g]
        /\ phase'[g] = phase[g] /\ source' = source
    BY <1>1, <1>3, <1>5
  <2>3. Accounted(g)'
    BY <2>1, <2>2, Zenon DEF Accounted
  <2>4. InStep(g)'
    BY <2>1, <2>2 DEF InStep, Fits, Items
  <2> QED  BY <2>3, <2>4
<1>6. InStep(f)'
  BY <1>1, <1>3 DEF InStep, Fits, Items
<1> QED  BY <1>3, <1>4, <1>5, <1>6 DEF FetchInv

(* A fetch that has not begun has accounted for nothing.                   *)
LEMMA FetchStarts == FetchInit => FetchInv
<1> SUFFICES ASSUME FetchInit  PROVE FetchInv
  OBVIOUS
<1>1. FetchType
  BY DEF FetchInit, Unfetched, FetchType, Phases
<1>2. ASSUME NEW f \in Fetchers  PROVE Accounted(f)
  <2>1. at[f] = 1 /\ files[f] = <<>> /\ skipped[f] = <<>>
    BY DEF FetchInit, Unfetched
  <2>2. ItemsOf(<<>>) = {} /\ Len(<<>>) = 0 /\ 1 .. (1 - 1) = {}
    BY DEF ItemsOf
  <2> QED  BY <2>1, <2>2 DEF Accounted
<1>3. ASSUME NEW f \in Fetchers  PROVE InStep(f)
  <2>1. at[f] = 1 /\ phase[f] = "start" /\ Len(Items(f)) \in Nat
    BY SourcesAssumption DEF FetchInit, Unfetched, Items
  <2> QED  BY <2>1 DEF InStep, Fits
<1> QED  BY <1>1, <1>2, <1>3 DEF FetchInv

(* The first of the reasons is one of the four.                            *)
LEMMA FirstReason ==
  ASSUME NEW file, SkipReasons(file) # <<>>
  PROVE  SkipReasons(file)[1] \in Reasons
<1> DEFINE a == IF "escapes" \in file.marks THEN <<"symlink_escape">> ELSE <<>>
           b == IF file.marks \cap {"dotfile", "not_included", "excluded"} # {}
                THEN <<"excluded_by_pattern">> ELSE <<>>
           c == IF "other_suffix" \in file.marks THEN <<"unsupported_file_type">> ELSE <<>>
           d == IF file.size > MaxFileBytes THEN <<"too_large">> ELSE <<>>
<1>0. /\ <<>> \in Seq(Reasons)
      /\ <<"symlink_escape">> \in Seq(Reasons) /\ <<"excluded_by_pattern">> \in Seq(Reasons)
      /\ <<"unsupported_file_type">> \in Seq(Reasons) /\ <<"too_large">> \in Seq(Reasons)
  <2>1. {"symlink_escape", "excluded_by_pattern", "unsupported_file_type", "too_large"}
          \subseteq Reasons
    BY DEF Reasons
  <2> HIDE DEF Reasons
  <2> QED  BY <2>1
<1>1. /\ a \in Seq(Reasons) /\ b \in Seq(Reasons) /\ c \in Seq(Reasons) /\ d \in Seq(Reasons)
  BY <1>0, Zenon
<1>2. SkipReasons(file) = a \o b \o c \o d
  BY DEF SkipReasons
<1> HIDE DEF a, b, c, d
<1>3. a \o b \o c \o d \in Seq(Reasons)
  BY <1>1
<1> QED  BY <1>2, <1>3

(* FetchInv is inductive.                                                  *)
LEMMA FetchStepKeeps == FetchInv /\ [FetchNext]_fetching => FetchInv'
<1> SUFFICES ASSUME FetchInv, [FetchNext]_fetching  PROVE FetchInv'
  OBVIOUS
<1>1. ASSUME UNCHANGED fetching  PROVE FetchInv'
  <2>1. source' = source /\ at' = at /\ phase' = phase /\ files' = files /\ skipped' = skipped
    BY <1>1 DEF fetching
  <2>2. FetchType'
    BY <2>1 DEF FetchInv, FetchType
  <2>3. ASSUME NEW f \in Fetchers  PROVE Accounted(f)' /\ InStep(f)'
    <3>1. Accounted(f) /\ InStep(f)
      BY DEF FetchInv
    <3>2. Accounted(f)'
      <4>1. files'[f] = files[f] /\ skipped'[f] = skipped[f] /\ at'[f] = at[f]
        BY <2>1
      <4>2. ItemsOf(files[f])' = ItemsOf(files[f]) /\ ItemsOf(skipped[f])' = ItemsOf(skipped[f])
        BY <4>1, Zenon DEF ItemsOf
      <4> QED  BY <3>1, <4>1, <4>2 DEF Accounted
    <3>3. InStep(f)'
      BY <2>1, <3>1 DEF InStep, Fits, Items
    <3> QED  BY <3>2, <3>3
  <2> QED  BY <2>2, <2>3 DEF FetchInv
<1>2. ASSUME NEW f \in Fetchers, FetchStep(f)  PROVE FetchInv'
  <2>0. /\ at[f] \in Nat \ {0} /\ phase[f] \in Phases /\ source[f] \in Sources
        /\ phase = [phase EXCEPT ![f] = phase[f]]
    BY DEF FetchInv, FetchType
  <2>1. Len(Items(f)) \in Nat
    BY <2>0, SourcesAssumption DEF Items
  <2>2. Fits(f, at[f], phase[f])
    BY DEF FetchInv, InStep
  <2>3. CASE OpenLocal(f)
    <3>1. PICK p \in {"walk", "failed"} : Proceed(f, p)
      BY <2>3 DEF OpenLocal
    <3>2. UNCHANGED <<source, at, files, skipped>> /\ source[f].kind # "http"
      BY <2>3 DEF OpenLocal
    <3>3. Fits(f, at[f], p)
      BY <2>2, <3>2 DEF Fits
    <3> QED  BY <3>1, <3>2, <3>3, MoveKeeps DEF Phases, Done
  <2>4. CASE StartClone(f)
    <3>1. Proceed(f, "clone") /\ UNCHANGED <<source, at, files, skipped>> /\ source[f].kind # "http"
      BY <2>4 DEF StartClone
    <3>2. Fits(f, at[f], "clone")
      BY <2>2, <3>1 DEF Fits
    <3> QED  BY <3>1, <3>2, MoveKeeps DEF Phases
  <2>5. CASE EndClone(f)
    <3>1. PICK p \in {"walk", "failed"} : Proceed(f, p)
      BY <2>5 DEF EndClone
    <3>2. UNCHANGED <<source, at, files, skipped>> /\ phase[f] = "clone"
      BY <2>5 DEF EndClone
    <3>3. Fits(f, at[f], p)
      BY <2>2, <3>2 DEF Fits
    <3> QED  BY <3>1, <3>2, <3>3, MoveKeeps DEF Phases, Done
  <2>6. CASE WalkFile(f)
    <3>1. /\ phase[f] = "walk" /\ at[f] <= Len(Items(f)) /\ UNCHANGED source
      BY <2>6 DEF WalkFile
    <3>2. source[f].kind # "http"
      BY <2>2, <3>1 DEF Fits
    <3>3. Item(f).size \in Nat
      BY <2>0, <2>1, <3>1, <3>2, SourcesAssumption DEF Item, Items
    <3>4. Fits(f, at[f] + 1, "walk") /\ Fits(f, at[f], "cap_exceeded")
      BY <2>0, <2>1, <3>1, <3>2 DEF Fits
    <3>5. CASE SkipReasons(Item(f)) # <<>> /\ Skip(f, SkipReasons(Item(f))[1]) /\ UNCHANGED phase
      <4>1. SkipReasons(Item(f))[1] \in Reasons
        BY <3>5, FirstReason
      <4>2. Proceed(f, "walk")
        BY <2>0, <3>1, <3>5 DEF Proceed
      <4> QED  BY <3>1, <3>4, <3>5, <4>1, <4>2, AccountKeeps DEF Phases
    <3>6. CASE Refuse(f)
      BY <3>1, <3>4, <3>6, MoveKeeps DEF Refuse, Phases, Done
    <3>7. CASE Keep(f, Item(f).size) /\ UNCHANGED phase
      <4>1. Proceed(f, "walk")
        BY <2>0, <3>1, <3>7 DEF Proceed
      <4> QED  BY <3>1, <3>3, <3>4, <3>7, <4>1, AccountKeeps DEF Phases
    <3> QED  BY <2>6, <3>5, <3>6, <3>7 DEF WalkFile
  <2>6a. CASE FileFails(f) \/ UrlFails(f)
    <3>1. Proceed(f, "failed") /\ UNCHANGED <<source, at, files, skipped>>
      BY <2>6a DEF FileFails, UrlFails
    <3>2. Fits(f, at[f], "failed")
      BY <2>2, <2>6a DEF Fits, FileFails, UrlFails
    <3> QED  BY <3>1, <3>2, MoveKeeps DEF Phases, Done
  <2>7. CASE EndWalk(f)
    <3>1. /\ Proceed(f, "returned") /\ UNCHANGED <<source, at, files, skipped>>
          /\ at[f] > Len(Items(f))
      BY <2>7 DEF EndWalk
    <3>2. Fits(f, at[f], "returned")
      BY <2>0, <2>1, <2>2, <3>1 DEF Fits
    <3> QED  BY <3>1, <3>2, MoveKeeps DEF Phases, Done
  <2>8. CASE NextUrl(f)
    <3>1. /\ Proceed(f, "guard") /\ UNCHANGED <<source, at, files, skipped>>
          /\ at[f] <= Len(Items(f)) /\ source[f].kind = "http"
      BY <2>8 DEF NextUrl
    <3>2. Fits(f, at[f], "guard")
      BY <2>2, <3>1 DEF Fits
    <3> QED  BY <3>1, <3>2, MoveKeeps DEF Phases
  <2>9. CASE EndUrls(f)
    <3>1. /\ Proceed(f, "returned") /\ UNCHANGED <<source, at, files, skipped>>
          /\ at[f] > Len(Items(f))
      BY <2>9 DEF EndUrls
    <3>2. Fits(f, at[f], "returned")
      BY <2>0, <2>1, <2>2, <3>1 DEF Fits
    <3> QED  BY <3>1, <3>2, MoveKeeps DEF Phases, Done
  <2>10. CASE Guard(f)
    <3>1. phase[f] = "guard" /\ UNCHANGED source
      BY <2>10 DEF Guard
    <3>2. Fits(f, at[f], "pin") /\ Fits(f, at[f] + 1, "url")
      BY <2>0, <2>1, <2>2, <3>1 DEF Fits
    <3>3. CASE Proceed(f, "pin") /\ UNCHANGED <<at, files, skipped>>
      BY <3>1, <3>2, <3>3, MoveKeeps DEF Phases
    <3>4. CASE Skip(f, "excluded_by_pattern") /\ Proceed(f, "url")
      BY <3>1, <3>2, <3>4, AccountKeeps DEF Phases, Reasons
    <3> QED  BY <2>10, <3>3, <3>4 DEF Guard
  <2>11. CASE Pin(f)
    <3>1. phase[f] = "pin" /\ Proceed(f, "get") /\ UNCHANGED <<source, at, files, skipped>>
      BY <2>11 DEF Pin
    <3>2. Fits(f, at[f], "get")
      BY <2>2, <3>1 DEF Fits
    <3> QED  BY <3>1, <3>2, MoveKeeps DEF Phases
  <2>12. ASSUME phase[f] = "get"
         PROVE  /\ \A p \in {"guard", "cap_exceeded", "failed"} : Fits(f, at[f], p)
                /\ Fits(f, at[f] + 1, "url")
    BY <2>0, <2>1, <2>2, <2>12 DEF Fits
  <2>13. CASE GetNothing(f)
    <3>1. PICK reason \in {"excluded_by_pattern", "too_large"} : Skip(f, reason)
      BY <2>13 DEF GetNothing
    <3>2. phase[f] = "get" /\ Proceed(f, "url") /\ UNCHANGED source /\ reason \in Reasons
      BY <2>13, <3>1 DEF GetNothing, Reasons
    <3> QED  BY <2>12, <3>1, <3>2, AccountKeeps DEF Phases
  <2>14. CASE GetRedirect(f)
    <3>1. phase[f] = "get" /\ UNCHANGED source
      BY <2>14 DEF GetRedirect
    <3>2. CASE Proceed(f, "guard") /\ UNCHANGED <<at, files, skipped>>
      BY <2>12, <3>1, <3>2, MoveKeeps DEF Phases
    <3>3. CASE Skip(f, "excluded_by_pattern") /\ Proceed(f, "url")
      BY <2>12, <3>1, <3>3, AccountKeeps DEF Phases, Reasons
    <3>4. CASE Proceed(f, "failed") /\ UNCHANGED <<at, files, skipped>>
      BY <2>12, <3>1, <3>4, MoveKeeps DEF Phases, Done
    <3> QED  BY <2>14, <3>2, <3>3, <3>4 DEF GetRedirect
  <2>15. CASE GetBody(f)
    <3>1. phase[f] = "get" /\ UNCHANGED source
      BY <2>15 DEF GetBody
    <3>2. PICK size \in 0 .. MaxFileBytes : Refuse(f) \/ (Keep(f, size) /\ Proceed(f, "url"))
      BY <2>15 DEF GetBody
    <3>3. size \in Nat
      BY <3>2, CapsAssumption
    <3>4. CASE Refuse(f)
      BY <2>12, <3>1, <3>4, MoveKeeps DEF Refuse, Phases, Done
    <3>5. CASE Keep(f, size) /\ Proceed(f, "url")
      BY <2>12, <3>1, <3>3, <3>5, AccountKeeps DEF Phases
    <3> QED  BY <3>2, <3>4, <3>5
  <2> QED  BY <1>2, <2>3, <2>4, <2>5, <2>6, <2>6a, <2>7, <2>8, <2>9, <2>10, <2>11,
              <2>13, <2>14, <2>15 DEF FetchStep
<1> QED  BY <1>1, <1>2 DEF FetchNext

(* FetchResult ("skipped records every file the connector saw but did not  *)
(* return"): whatever the tree, the server's answers and the interleaving  *)
(* of the threads, every item a fetch has seen is on exactly one of its    *)
(* lists, once, and a result that is returned covers them all.             *)
THEOREM EveryItemIsAccounted == FetchSpec => []EveryItemAccounted
<1>1. FetchInv => EveryItemAccounted
  BY DEF FetchInv, Accounted, InStep, Fits, EveryItemAccounted
<1> QED  BY <1>1, FetchStarts, FetchStepKeeps, PTL DEF FetchSpec

----------------------------------------------------------------------------
(* What a fetch leaves behind.  Two threads may read each other's pin and  *)
(* put that back, so the invariant is one thread's: a pin is in place only *)
(* while a request is under way, and what is put back is the real resolver.*)
OneThread == \A f, g \in Fetchers : f = g

LeavesNothing(f) ==
  /\ phase[f] \in {"pin", "get"} => saved[f] = RealResolver
  /\ tempdir[f] => phase[f] \in {"clone", "walk"}
Unpinned ==
  (\A f \in Fetchers : phase[f] # "get") => resolver = RealResolver /\ holder = Nobody
PinInv ==
  /\ phase \in [Fetchers -> Phases] /\ tempdir \in [Fetchers -> BOOLEAN]
  /\ DOMAIN saved = Fetchers /\ saved = [f \in Fetchers |-> saved[f]]
  /\ \A f \in Fetchers : LeavesNothing(f)
  /\ Unpinned

(* What a step of the one thread leaves, from what it does to its phase.   *)
LEMMA PinStep ==
  ASSUME OneThread, PinInv, NEW f \in Fetchers, NEW p \in Phases, Proceed(f, p),
         NEW t \in BOOLEAN, tempdir' = [tempdir EXCEPT ![f] = t],
         NEW r, saved' = [saved EXCEPT ![f] = r],
         t => p \in {"clone", "walk"},
         p \in {"pin", "get"} => r = RealResolver,
         p # "get" => resolver' = RealResolver /\ holder' = Nobody
  PROVE  PinInv'
<1>1. /\ phase' \in [Fetchers -> Phases] /\ phase'[f] = p
      /\ tempdir' \in [Fetchers -> BOOLEAN] /\ tempdir'[f] = t
      /\ DOMAIN saved' = Fetchers /\ saved' = [g \in Fetchers |-> saved'[g]] /\ saved'[f] = r
  BY DEF PinInv, Proceed
<1>2. \A g \in Fetchers : g = f
  BY DEF OneThread
<1>3. ASSUME NEW g \in Fetchers  PROVE LeavesNothing(g)'
  BY <1>1, <1>2 DEF LeavesNothing
<1>4. Unpinned'
  BY <1>1 DEF Unpinned
<1> QED  BY <1>1, <1>3, <1>4 DEF PinInv

(* At first the resolver is the process's own and no clone is there.       *)
LEMMA PinStarts == FetchInit => PinInv
  BY DEF FetchInit, Unfetched, PinInv, LeavesNothing, Unpinned, Phases

(* PinInv is inductive where one thread fetches.                           *)
LEMMA PinStepKeeps == ASSUME OneThread  PROVE PinInv /\ [FetchNext]_fetching => PinInv'
<1> SUFFICES ASSUME PinInv, [FetchNext]_fetching  PROVE PinInv'
  OBVIOUS
<1>1. ASSUME UNCHANGED fetching  PROVE PinInv'
  BY <1>1 DEF fetching, pins, PinInv, LeavesNothing, Unpinned
<1>2. ASSUME NEW f \in Fetchers, FetchStep(f)  PROVE PinInv'
  <2>0. /\ phase[f] \in Phases /\ tempdir[f] \in BOOLEAN
        /\ phase = [phase EXCEPT ![f] = phase[f]]
        /\ tempdir = [tempdir EXCEPT ![f] = tempdir[f]]
        /\ saved = [saved EXCEPT ![f] = saved[f]]
        /\ phase[f] # "get" => resolver = RealResolver /\ holder = Nobody
    <3>1. \A g \in Fetchers : g = f
      BY DEF OneThread
    <3> QED  BY <3>1 DEF PinInv, Unpinned
  <2>1. LeavesNothing(f)
    BY DEF PinInv
  <2>15. {"clone", "walk", "failed", "cap_exceeded", "returned"} \subseteq Phases
    BY DEF Phases, Done
  <2>16. ASSUME UNCHANGED <<saved, resolver, holder>>, phase[f] # "get",
                NEW t \in BOOLEAN, tempdir' = [tempdir EXCEPT ![f] = t],
                NEW p \in Phases \ {"pin", "get"}, Proceed(f, p), t => p \in {"clone", "walk"}
         PROVE  PinInv'
    <3>1. saved' = [saved EXCEPT ![f] = saved[f]] /\ resolver' = RealResolver /\ holder' = Nobody
      BY <2>0, <2>16
    <3> DEFINE r == saved[f]
    <3>2. saved' = [saved EXCEPT ![f] = r]
      BY <3>1
    <3> HIDE DEF r
    <3> QED  BY <2>16, <3>1, <3>2, PinStep
  <2>2. CASE OpenLocal(f)
    <3>1. PICK p \in {"walk", "failed"} : Proceed(f, p)
      BY <2>2 DEF OpenLocal
    <3>2. phase[f] = "start" /\ UNCHANGED <<tempdir, saved, resolver, holder>>
      BY <2>2 DEF OpenLocal, pins
    <3>3. tempdir[f] = FALSE
      BY <2>0, <2>1, <3>2 DEF LeavesNothing
    <3> QED  BY <2>0, <3>1, <3>2, <3>3, PinStep DEF Phases, Done
  <2>3. CASE StartClone(f)
    <3>1. /\ phase[f] = "start" /\ Proceed(f, "clone") /\ UNCHANGED <<saved, resolver, holder>>
          /\ tempdir' = [tempdir EXCEPT ![f] = TRUE]
      BY <2>3 DEF StartClone, pins
    <3> QED  BY <2>15, <2>16, <3>1
  <2>4. CASE EndClone(f)
    <3>1. PICK ok \in BOOLEAN :
            /\ Proceed(f, IF ok THEN "walk" ELSE "failed")
            /\ tempdir' = [tempdir EXCEPT ![f] = ok]
      BY <2>4 DEF EndClone
    <3>2. phase[f] = "clone" /\ UNCHANGED <<saved, resolver, holder>>
      BY <2>4 DEF EndClone, pins
    <3>3. CASE ok
      BY <2>15, <2>16, <3>1, <3>2, <3>3
    <3>4. CASE ~ok
      BY <2>15, <2>16, <3>1, <3>2, <3>4
    <3> QED  BY <3>3, <3>4
  <2>5. CASE WalkFile(f)
    <3>1. phase[f] = "walk" /\ UNCHANGED <<saved, resolver, holder>>
      BY <2>5 DEF WalkFile, pins
    <3>2. CASE UNCHANGED <<phase, tempdir>>
      <4>1. Proceed(f, "walk")
        BY <2>0, <3>1, <3>2 DEF Proceed
      <4> QED  BY <2>0, <3>1, <3>2, <4>1, PinStep DEF Phases
    <3>3. CASE Refuse(f) /\ tempdir' = [tempdir EXCEPT ![f] = FALSE]
      BY <2>15, <2>16, <3>1, <3>3 DEF Refuse
    <3> QED  BY <2>5, <3>2, <3>3 DEF WalkFile
  <2>6. CASE EndWalk(f)
    <3>1. /\ phase[f] = "walk" /\ Proceed(f, "returned") /\ UNCHANGED <<saved, resolver, holder>>
          /\ tempdir' = [tempdir EXCEPT ![f] = FALSE]
      BY <2>6 DEF EndWalk, pins
    <3> QED  BY <2>15, <2>16, <3>1
  <2>6a. CASE FileFails(f)
    <3>1. /\ phase[f] = "walk" /\ Proceed(f, "failed") /\ UNCHANGED <<saved, resolver, holder>>
          /\ tempdir' = [tempdir EXCEPT ![f] = FALSE]
      BY <2>6a DEF FileFails, pins
    <3> QED  BY <2>15, <2>16, <3>1
  <2>6b. CASE UrlFails(f)
    <3>1. /\ phase[f] \in {"start", "url"} /\ Proceed(f, "failed")
          /\ UNCHANGED <<tempdir, saved, resolver, holder>>
      BY <2>6b DEF UrlFails, pins
    <3>2. tempdir[f] = FALSE
      BY <2>0, <2>1, <3>1 DEF LeavesNothing
    <3>3. tempdir' = [tempdir EXCEPT ![f] = FALSE]
      BY <2>0, <3>1, <3>2
    <3> QED  BY <2>15, <2>16, <3>1, <3>3
  <2>7. CASE NextUrl(f)
    <3>1. /\ phase[f] \in {"start", "url"} /\ Proceed(f, "guard")
          /\ UNCHANGED <<tempdir, saved, resolver, holder>>
      BY <2>7 DEF NextUrl, pins
    <3>2. tempdir[f] = FALSE
      BY <2>0, <2>1, <3>1 DEF LeavesNothing
    <3> QED  BY <2>0, <3>1, <3>2, PinStep DEF Phases
  <2>8. CASE EndUrls(f)
    <3>1. /\ phase[f] \in {"start", "url"} /\ Proceed(f, "returned")
          /\ UNCHANGED <<tempdir, saved, resolver, holder>>
      BY <2>8 DEF EndUrls, pins
    <3>2. tempdir[f] = FALSE
      BY <2>0, <2>1, <3>1 DEF LeavesNothing
    <3> QED  BY <2>0, <3>1, <3>2, PinStep DEF Phases, Done
  <2>9. CASE Guard(f)
    <3>1. phase[f] = "guard" /\ UNCHANGED <<tempdir, resolver, holder>>
      BY <2>9 DEF Guard
    <3>2. tempdir[f] = FALSE /\ resolver = RealResolver /\ holder = Nobody
      BY <2>0, <2>1, <3>1 DEF LeavesNothing
    <3>3. CASE saved' = [saved EXCEPT ![f] = resolver] /\ Proceed(f, "pin")
      BY <2>0, <3>1, <3>2, <3>3, PinStep DEF Phases
    <3>4. CASE Proceed(f, "url") /\ UNCHANGED saved
      BY <2>0, <3>1, <3>2, <3>4, PinStep DEF Phases
    <3> QED  BY <2>9, <3>3, <3>4 DEF Guard
  <2>10. CASE Pin(f)
    <3>1. phase[f] = "pin" /\ Proceed(f, "get") /\ UNCHANGED <<tempdir, saved>>
      BY <2>10 DEF Pin
    <3>2. tempdir[f] = FALSE /\ saved[f] = RealResolver
      BY <2>0, <2>1, <3>1 DEF LeavesNothing
    <3> QED  BY <2>0, <3>1, <3>2, PinStep DEF Phases
  <2>11. ASSUME phase[f] = "get", Unpin(f), UNCHANGED <<tempdir, saved>>,
                NEW p \in {"url", "guard", "failed", "cap_exceeded"}, Proceed(f, p)
         PROVE  PinInv'
    <3>1. tempdir[f] = FALSE /\ resolver' = RealResolver /\ holder' = Nobody
      BY <2>0, <2>1, <2>11 DEF LeavesNothing, Unpin
    <3>2. p \in Phases /\ p \notin {"pin", "get"}
      BY DEF Phases, Done
    <3> QED  BY <2>0, <2>11, <3>1, <3>2, PinStep
  <2>12. CASE GetNothing(f)
    BY <2>11, <2>12 DEF GetNothing
  <2>13. CASE GetRedirect(f)
    BY <2>11, <2>13 DEF GetRedirect
  <2>14. CASE GetBody(f)
    BY <2>11, <2>14 DEF GetBody, Refuse
  <2> QED  BY <1>2, <2>2, <2>3, <2>4, <2>5, <2>6, <2>6a, <2>6b, <2>7, <2>8, <2>9, <2>10, <2>12,
              <2>13, <2>14 DEF FetchStep
<1> QED  BY <1>1, <1>2 DEF FetchNext

(* pin_dns and the temporary directories: in a process whose fetches are   *)
(* one thread's, whichever way each ends, the resolver is the real one     *)
(* again, its lock is free and no clone is left on the disk.               *)
THEOREM NothingIsLeftBehind ==
  ASSUME OneThread  PROVE FetchSpec => []NothingLeftBehind
<1>1. PinInv => NothingLeftBehind
  BY DEF PinInv, Unpinned, LeavesNothing, NothingLeftBehind, Done
<1> QED  BY <1>1, PinStarts, PinStepKeeps, PTL DEF FetchSpec

----------------------------------------------------------------------------
(* What a fetch takes.                                                     *)

(* Sum adds the sizes up from the first.                                   *)
LEMMA SumRuns ==
  ASSUME NEW s, Len(s) \in Nat, \A k \in 1 .. Len(s) : s[k].size \in Nat
  PROVE  \E u \in [0 .. Len(s) -> Nat] :
           /\ u[0] = 0 /\ Sum(s) = u[Len(s)]
           /\ \A n \in 1 .. Len(s) : u[n] = u[n - 1] + s[n].size
<1> DEFINE N == Len(s)
           step == [p \in ((0 + 1) .. N) \X Nat |-> p[2] + s[p[1]].size]
<1>1. step \in [((0 + 1) .. N) \X Nat -> Nat]
  OBVIOUS
<1>2. \A n \in 1 .. N, x \in Nat : step[<<n, x>>] = x + s[n].size
  OBVIOUS
<1>3. 0 \in Nat /\ N \in Nat /\ 0 <= N
  OBVIOUS
<1> HIDE DEF step, N
<1>4. PICK g \in [0 .. N -> Nat] : Follows(g, 0, N, 0, step)
  BY <1>1, <1>3, Recursion
<1>5. \A n \in 1 .. N : g[n] = g[n - 1] + s[n].size
  <2>1. ASSUME NEW n \in 1 .. N PROVE g[n] = step[<<n, g[n - 1]>>] /\ g[n - 1] \in Nat
    BY <1>3, <1>4 DEF Follows
  <2>2. QED
    BY <1>2, <2>1
<1>6. g[0] = 0
  BY <1>4 DEF Follows
<1>7. g = [n \in 0 .. N |-> IF n = 0 THEN 0 ELSE g[n - 1] + s[n].size]
  BY <1>3, <1>5, <1>6
<1> DEFINE u == CHOOSE f : f = [n \in 0 .. N |-> IF n = 0 THEN 0 ELSE f[n - 1] + s[n].size]
<1>8. u = [n \in 0 .. N |-> IF n = 0 THEN 0 ELSE u[n - 1] + s[n].size]
  BY <1>7, Zenon
<1>9. Sum(s) = u[N]
  BY DEF Sum, N
<1> HIDE DEF u
<1>10. u[0] = 0 /\ \A n \in 1 .. N : u[n] = u[n - 1] + s[n].size
  BY <1>3, <1>8
<1>11. \A n \in 0 .. N : u[n] = g[n]
  <2> DEFINE T == {n \in 0 .. N : u[n] = g[n]}
  <2>1. 0 \in T
    BY <1>3, <1>6, <1>10
  <2>2. \A n \in (0 + 1) .. N : n - 1 \in T => n \in T
    BY <1>5, <1>10
  <2> HIDE DEF T
  <2>3. 0 .. N \subseteq T
    BY <1>3, <2>1, <2>2, Climb
  <2>4. QED
    BY <2>3 DEF T
<1>12. Sum(s) = g[N]
  BY <1>3, <1>9, <1>11
<1>13. QED
  BY <1>4, <1>5, <1>6, <1>12 DEF N

(* Nothing sums up to zero, and one more size adds to the sum.             *)
LEMMA SumOfNone ==
  ASSUME NEW s, Len(s) = 0
  PROVE  Sum(s) = 0
BY SumRuns

(* The bytes of a list with one more entry.                                *)
LEMMA SumOfMore ==
  ASSUME NEW s, NEW t, Len(s) \in Nat, Len(t) = Len(s) + 1,
         \A k \in 1 .. Len(s) : s[k].size \in Nat /\ t[k].size = s[k].size,
         t[Len(t)].size \in Nat
  PROVE  Sum(s) \in Nat /\ Sum(t) = Sum(s) + t[Len(t)].size
<1> DEFINE N == Len(s)
<1>1. Len(t) \in Nat /\ \A k \in 1 .. Len(t) : t[k].size \in Nat
  BY Z3
<1>2. PICK u \in [0 .. N -> Nat] :
        u[0] = 0 /\ Sum(s) = u[N] /\ \A n \in 1 .. N : u[n] = u[n - 1] + s[n].size
  BY SumRuns
<1>3. PICK v \in [0 .. (N + 1) -> Nat] :
        /\ v[0] = 0 /\ Sum(t) = v[N + 1]
        /\ \A n \in 1 .. (N + 1) : v[n] = v[n - 1] + t[n].size
  <2>1. PICK w \in [0 .. Len(t) -> Nat] :
          w[0] = 0 /\ Sum(t) = w[Len(t)] /\ \A n \in 1 .. Len(t) : w[n] = w[n - 1] + t[n].size
    BY <1>1, SumRuns
  <2>2. QED
    BY <2>1, Zenon
<1>4. N \in Nat
  OBVIOUS
<1>5. \A n \in 1 .. N : t[n].size = s[n].size
  OBVIOUS
<1> HIDE DEF N
<1>6. \A n \in 0 .. N : u[n] = v[n]
  <2> DEFINE T == {n \in 0 .. N : u[n] = v[n]}
  <2>1. 0 \in T
    BY <1>2, <1>3, <1>4
  <2>2. \A n \in (0 + 1) .. N : n - 1 \in T => n \in T
    BY <1>2, <1>3, <1>4, <1>5
  <2> HIDE DEF T
  <2>3. 0 .. N \subseteq T
    BY <1>4, <2>1, <2>2, Climb
  <2>4. QED
    BY <2>3 DEF T
<1>7. Sum(t) = Sum(s) + t[N + 1].size
  BY <1>2, <1>3, <1>4, <1>6
<1>8. QED
  BY <1>2, <1>4, <1>7 DEF N

(* A file no test stops fits the cap on a file.                            *)
LEMMA NoReason ==
  ASSUME NEW file, SkipReasons(file) = <<>>, file.size \in Nat
  PROVE  file.size <= MaxFileBytes
<1> DEFINE a == IF "escapes" \in file.marks THEN <<"symlink_escape">> ELSE <<>>
           b == IF file.marks \cap {"dotfile", "not_included", "excluded"} # {}
                THEN <<"excluded_by_pattern">> ELSE <<>>
           c == IF "other_suffix" \in file.marks THEN <<"unsupported_file_type">> ELSE <<>>
           d == IF file.size > MaxFileBytes THEN <<"too_large">> ELSE <<>>
<1>0. /\ <<>> \in Seq(Reasons) /\ <<"symlink_escape">> \in Seq(Reasons)
      /\ <<"excluded_by_pattern">> \in Seq(Reasons)
      /\ <<"unsupported_file_type">> \in Seq(Reasons) /\ <<"too_large">> \in Seq(Reasons)
      /\ Len(<<"too_large">>) = 1
  <2>1. "symlink_escape" \in Reasons /\ "excluded_by_pattern" \in Reasons
        /\ "unsupported_file_type" \in Reasons /\ "too_large" \in Reasons
    BY DEF Reasons
  <2>2. \A S, x : x \in S => <<x>> \in Seq(S) /\ Len(<<x>>) = 1 /\ <<>> \in Seq(S)
    OBVIOUS
  <2>3. QED
    BY <2>1, <2>2, Zenon
<1>1. /\ a \in Seq(Reasons) /\ b \in Seq(Reasons) /\ c \in Seq(Reasons) /\ d \in Seq(Reasons)
      /\ file.size > MaxFileBytes => Len(d) = 1
  BY <1>0, Zenon
<1>2. a \o b \o c \o d = <<>>
  BY DEF SkipReasons
<1> HIDE DEF a, b, c, d
<1>3. /\ a \o b \o c \in Seq(Reasons)
      /\ Len((a \o b \o c) \o d) = Len(a \o b \o c) + Len(d)
  <2>1. a \o b \in Seq(Reasons)
    BY <1>1, ConcatProperties
  <2>2. (a \o b) \o c \in Seq(Reasons)
    BY <1>1, <2>1, ConcatProperties
  <2>3. QED
    BY <1>1, <2>2, ConcatProperties
<1>4. Len((a \o b \o c) \o d) = 0 /\ Len(a \o b \o c) \in Nat /\ Len(d) \in Nat
  BY <1>1, <1>2, <1>3
<1>5. Len(d) = 0
  BY <1>3, <1>4
<1>6. QED
  BY <1>1, <1>5, CapsAssumption

(* The files wanted of the first items, and their bytes.                   *)
LEMMA WantedNone ==
  ASSUME NEW items
  PROVE  Cardinality(Wanted(items, 0)) = 0 /\ WantedBytes(items, 0) = 0
<1>1. Wanted(items, 0) = {}
  BY DEF Wanted
<1> DEFINE s == [k \in 1 .. 0 |->
                   [size |-> IF k \in Wanted(items, 0) THEN items[k].size ELSE 0]]
<1>2. s = <<>>
  OBVIOUS
<1>3. Len(s) = 0
  BY <1>2
<1>4. WantedBytes(items, 0) = Sum(s)
  BY DEF WantedBytes
<1> HIDE DEF s
<1>5. QED
  BY <1>1, <1>3, <1>4, FS_EmptySet, SumOfNone

(* What a walk would have to take grows by the item it looks at, or not at *)
(* all.                                                                    *)
LEMMA WantedNext ==
  ASSUME NEW items, NEW i \in Nat \ {0}, \A k \in 1 .. i : items[k].size \in Nat
  PROVE  LET one == SkipReasons(items[i]) = <<>>
         IN  /\ Cardinality(Wanted(items, i - 1)) \in Nat /\ WantedBytes(items, i - 1) \in Nat
             /\ Cardinality(Wanted(items, i)) =
                  Cardinality(Wanted(items, i - 1)) + IF one THEN 1 ELSE 0
             /\ WantedBytes(items, i) =
                  WantedBytes(items, i - 1) + IF one THEN items[i].size ELSE 0
<1> DEFINE one == SkipReasons(items[i]) = <<>>
           G == {k \in Nat : SkipReasons(items[k]) = <<>>}
           Size(k, n) == IF k \in Wanted(items, n) THEN items[k].size ELSE 0
           s == [k \in 1 .. (i - 1) |-> [size |-> Size(k, i - 1)]]
           t == [k \in 1 .. i |-> [size |-> Size(k, i)]]
<1>1. Wanted(items, i) = G \cap (1 .. i) /\ Wanted(items, i - 1) = G \cap (1 .. (i - 1))
  BY DEF Wanted
<1>2. i \in G <=> one
  OBVIOUS
<1>3. /\ Cardinality(Wanted(items, i - 1)) \in Nat
      /\ Cardinality(Wanted(items, i)) =
           Cardinality(Wanted(items, i - 1)) + IF one THEN 1 ELSE 0
  <2> HIDE DEF G, one
  <2>1. 1 \in Nat /\ i \in Nat /\ 1 <= i
    OBVIOUS
  <2>2. /\ Cardinality(G \cap (1 .. (i - 1))) \in Nat
        /\ Cardinality(G \cap (1 .. i)) =
             Cardinality(G \cap (1 .. (i - 1))) + (IF i \in G THEN 1 ELSE 0)
    BY <2>1, CountUpTo
  <2>3. QED
    BY <1>1, <1>2, <2>2, Zenon
<1>4. Len(s) = i - 1 /\ Len(t) = i /\ i - 1 \in Nat
  OBVIOUS
<1>5. \A k \in 1 .. (i - 1) : Size(k, i) = Size(k, i - 1) /\ Size(k, i) \in Nat
  BY DEF Wanted
<1>6. Size(i, i) = (IF one THEN items[i].size ELSE 0) /\ Size(i, i) \in Nat
  BY DEF Wanted
<1>7. /\ \A k \in 1 .. (i - 1) : s[k].size = Size(k, i - 1) /\ t[k].size = Size(k, i)
      /\ t[i].size = Size(i, i)
  <2> HIDE DEF Size
  <2>1. QED
    OBVIOUS
<1>8. WantedBytes(items, i) = Sum(t) /\ WantedBytes(items, i - 1) = Sum(s)
  BY DEF WantedBytes
<1> HIDE DEF s, t, Size
<1>9. Sum(s) \in Nat /\ Sum(t) = Sum(s) + t[Len(t)].size
  <2>1. /\ Len(s) \in Nat /\ Len(t) = Len(s) + 1 /\ t[Len(t)].size \in Nat
        /\ \A k \in 1 .. Len(s) : s[k].size \in Nat /\ t[k].size = s[k].size
    BY <1>4, <1>5, <1>6, <1>7
  <2>2. QED
    BY <2>1, SumOfMore
<1>10. QED
  BY <1>3, <1>4, <1>6, <1>7, <1>8, <1>9

(* What a walk has taken are the files wanted of the items before the      *)
(* current one.                                                            *)
Tallied(f) ==
  source[f].kind # "http" =>
    /\ Len(files[f]) = Cardinality(Wanted(Items(f), at[f] - 1))
    /\ Sum(files[f]) = WantedBytes(Items(f), at[f] - 1)
Within(f) ==
  /\ Len(files[f]) <= MaxFiles /\ Sum(files[f]) <= MaxRepoBytes
  /\ \A k \in 1 .. Len(files[f]) : files[f][k].size <= MaxFileBytes
Overfull(f) ==
  \/ Cardinality(Wanted(Items(f), at[f])) > MaxFiles
  \/ WantedBytes(Items(f), at[f]) > MaxRepoBytes
Capped(f) ==
  /\ Tallied(f) /\ Within(f)
  /\ source[f].kind # "http" /\ phase[f] = "cap_exceeded" => Overfull(f)
CapsInv == FetchInv /\ \A f \in Fetchers : Capped(f)

(* A fetch whose lists stay as they are, and which refuses a tree only     *)
(* when it is overfull.                                                    *)
LEMMA CapsStay ==
  ASSUME NEW f \in Fetchers, Capped(f), source' = source,
         files'[f] = files[f], at'[f] = at[f],
         phase'[f] = "cap_exceeded" /\ source[f].kind # "http" =>
           phase[f] = "cap_exceeded" \/ Overfull(f)
  PROVE  Capped(f)'
<1>1. Items(f)' = Items(f)
  BY DEF Items
<1>2. Tallied(f)'
  BY <1>1 DEF Capped, Tallied
<1>3. Within(f)'
  BY DEF Capped, Within
<1>4. Overfull(f)' = Overfull(f)
  BY <1>1 DEF Overfull
<1>5. QED
  BY <1>2, <1>3, <1>4 DEF Capped

(* One more file, within the caps.                                         *)
LEMMA CapsKeep ==
  ASSUME CapsInv, NEW f \in Fetchers, NEW size \in 0 .. MaxFileBytes, Keep(f, size),
         ~OverBytes(f, size), ~OverFiles(f), source' = source,
         at[f] <= Len(Items(f)), phase'[f] # "cap_exceeded",
         source[f].kind # "http" =>
           SkipReasons(Item(f)) = <<>> /\ size = Item(f).size
  PROVE  Capped(f)'
<1> DEFINE s == files[f]  e == [item |-> at[f], size |-> size]
           t == Append(s, e)
<1>1. /\ s \in Seq(Returned) /\ at[f] \in Nat \ {0} /\ size \in Nat /\ e \in Returned
      /\ source[f] \in Sources
  BY CapsAssumption DEF CapsInv, FetchInv, FetchType, Returned
<1>2. files'[f] = t /\ at'[f] = at[f] + 1 /\ Items(f)' = Items(f)
  BY DEF CapsInv, FetchInv, FetchType, Keep, Items
<1>3. /\ t \in Seq(Returned) /\ Len(t) = Len(s) + 1 /\ t[Len(t)] = e /\ Len(s) \in Nat
      /\ \A k \in 1 .. Len(s) : t[k] = s[k] /\ s[k].size \in Nat
  <2>1. /\ t \in Seq(Returned) /\ Len(t) = Len(s) + 1 /\ t[Len(t)] = e /\ Len(s) \in Nat
        /\ \A k \in 1 .. Len(s) : t[k] = s[k] /\ s[k] \in Returned
    <3> HIDE DEF e
    <3>1. QED
      BY <1>1
  <2>2. \A r \in Returned : r.size \in Nat
    BY DEF Returned
  <2>3. QED
    BY <2>1, <2>2
<1>4. e.size = size
  OBVIOUS
<1> HIDE DEF e, t
<1>5. Sum(s) \in Nat /\ Sum(t) = Sum(s) + size
  <2>1. /\ Len(t) = Len(s) + 1 /\ t[Len(t)].size \in Nat
        /\ \A k \in 1 .. Len(s) : s[k].size \in Nat /\ t[k].size = s[k].size
    BY <1>1, <1>3, <1>4
  <2>2. QED
    BY <1>3, <1>4, <2>1, SumOfMore
<1>6. Within(f) /\ Tallied(f)
  BY DEF CapsInv, Capped
<1>7. Within(f)'
  <2>1. Len(s) < MaxFiles /\ Sum(s) + size <= MaxRepoBytes
    BY <1>1, <1>3, <1>5, CapsAssumption DEF OverFiles, OverBytes
  <2>2. \A k \in 1 .. Len(t) : k = Len(t) \/ k \in 1 .. Len(s)
    BY <1>3
  <2>3. \A k \in 1 .. Len(t) : t[k].size <= MaxFileBytes
    BY <1>3, <1>4, <1>6, <2>2 DEF Within
  <2>4. Len(t) <= MaxFiles /\ Sum(t) <= MaxRepoBytes
    BY <1>3, <1>5, <2>1, CapsAssumption
  <2>5. QED
    BY <1>2, <2>3, <2>4 DEF Within
<1>8. Tallied(f)'
  <2>1. SUFFICES ASSUME source[f].kind # "http"
                 PROVE  /\ Len(t) = Cardinality(Wanted(Items(f), at[f]))
                        /\ Sum(t) = WantedBytes(Items(f), at[f])
    <3>1. at'[f] - 1 = at[f]
      BY <1>1, <1>2
    <3>2. QED
      BY <1>2, <3>1 DEF Tallied
  <2>2. \A k \in 1 .. Len(Items(f)) : Items(f)[k].size \in Nat
    BY <1>1, <2>1, SourcesAssumption DEF Items
  <2>3. \A k \in 1 .. at[f] : Items(f)[k].size \in Nat
    <3>1. Len(Items(f)) \in Nat
      BY <1>1, SourcesAssumption DEF Items
    <3>2. QED
      BY <1>1, <2>2, <3>1
  <2>4. SkipReasons(Items(f)[at[f]]) = <<>> /\ size = Items(f)[at[f]].size
    BY <2>1 DEF Item
  <2>5. /\ Cardinality(Wanted(Items(f), at[f])) = Cardinality(Wanted(Items(f), at[f] - 1)) + 1
        /\ WantedBytes(Items(f), at[f]) = WantedBytes(Items(f), at[f] - 1) + size
    BY <1>1, <2>3, <2>4, WantedNext
  <2>6. QED
    BY <1>3, <1>5, <1>6, <2>1, <2>5 DEF Tallied
<1>9. QED
  BY <1>7, <1>8 DEF Capped

(* A skipped item: not one a walk wants.                                   *)
LEMMA CapsSkip ==
  ASSUME CapsInv, NEW f \in Fetchers, NEW reason, Skip(f, reason), source' = source,
         at[f] <= Len(Items(f)), phase'[f] # "cap_exceeded",
         source[f].kind # "http" => SkipReasons(Item(f)) # <<>>
  PROVE  Capped(f)'
<1>1. /\ at[f] \in Nat \ {0} /\ source[f] \in Sources
      /\ files'[f] = files[f] /\ at'[f] = at[f] + 1 /\ Items(f)' = Items(f)
  BY DEF CapsInv, FetchInv, FetchType, Skip, Items
<1>2. Within(f) /\ Tallied(f)
  BY DEF CapsInv, Capped
<1>3. Within(f)'
  BY <1>1, <1>2 DEF Within
<1>4. Tallied(f)'
  <2>1. SUFFICES ASSUME source[f].kind # "http"
                 PROVE  /\ Len(files[f]) = Cardinality(Wanted(Items(f), at[f]))
                        /\ Sum(files[f]) = WantedBytes(Items(f), at[f])
    <3>1. at'[f] - 1 = at[f]
      BY <1>1
    <3>2. QED
      BY <1>1, <3>1 DEF Tallied
  <2>2. \A k \in 1 .. at[f] : Items(f)[k].size \in Nat
    <3>1. Len(Items(f)) \in Nat /\ \A k \in 1 .. Len(Items(f)) : Items(f)[k].size \in Nat
      BY <1>1, <2>1, SourcesAssumption DEF Items
    <3>2. QED
      BY <1>1, <3>1
  <2>3. SkipReasons(Items(f)[at[f]]) # <<>>
    BY <2>1 DEF Item
  <2>4. /\ Cardinality(Wanted(Items(f), at[f])) = Cardinality(Wanted(Items(f), at[f] - 1)) + 0
        /\ WantedBytes(Items(f), at[f]) = WantedBytes(Items(f), at[f] - 1) + 0
        /\ Cardinality(Wanted(Items(f), at[f] - 1)) \in Nat
        /\ WantedBytes(Items(f), at[f] - 1) \in Nat
    BY <1>1, <2>2, <2>3, WantedNext
  <2>5. QED
    BY <1>2, <2>1, <2>4 DEF Tallied
<1>5. QED
  BY <1>3, <1>4 DEF Capped

(* A walk that refuses its tree has come to a file that breaks a cap.      *)
LEMMA RefusedOverfull ==
  ASSUME CapsInv, NEW f \in Fetchers, source[f].kind # "http", at[f] <= Len(Items(f)),
         SkipReasons(Item(f)) = <<>>, OverBytes(f, Item(f).size) \/ OverFiles(f)
  PROVE  Overfull(f)
<1>1. at[f] \in Nat \ {0} /\ source[f] \in Sources /\ files[f] \in Seq(Returned)
  BY DEF CapsInv, FetchInv, FetchType
<1>2. \A k \in 1 .. at[f] : Items(f)[k].size \in Nat
  <2>1. Len(Items(f)) \in Nat /\ \A k \in 1 .. Len(Items(f)) : Items(f)[k].size \in Nat
    BY <1>1, SourcesAssumption DEF Items
  <2>2. QED
    BY <1>1, <2>1
<1>3. SkipReasons(Items(f)[at[f]]) = <<>> /\ Item(f).size = Items(f)[at[f]].size
  BY DEF Item
<1>4. /\ Cardinality(Wanted(Items(f), at[f])) = Cardinality(Wanted(Items(f), at[f] - 1)) + 1
      /\ WantedBytes(Items(f), at[f]) = WantedBytes(Items(f), at[f] - 1) + Item(f).size
      /\ Cardinality(Wanted(Items(f), at[f] - 1)) \in Nat
  BY <1>1, <1>2, <1>3, WantedNext
<1>5. /\ Len(files[f]) = Cardinality(Wanted(Items(f), at[f] - 1))
      /\ Sum(files[f]) = WantedBytes(Items(f), at[f] - 1)
  BY DEF CapsInv, Capped, Tallied
<1>6. QED
  BY <1>4, <1>5, CapsAssumption DEF Overfull, OverBytes, OverFiles

(* A fetch that has not begun is within its caps.                          *)
LEMMA CapsStart == FetchInit => CapsInv
<1>1. SUFFICES ASSUME FetchInit, NEW f \in Fetchers PROVE Capped(f)
  BY FetchStarts DEF CapsInv
<1>2. files[f] = <<>> /\ at[f] - 1 = 0 /\ phase[f] = "start"
  BY <1>1 DEF FetchInit, Unfetched
<1>3. Sum(<<>>) = 0 /\ Len(<<>>) = 0
  BY SumOfNone
<1>4. QED
  BY <1>2, <1>3, WantedNone, CapsAssumption DEF Capped, Tallied, Within

(* CapsInv is inductive.                                                   *)
LEMMA CapsStep == CapsInv /\ [FetchNext]_fetching => CapsInv'
<1>1. SUFFICES ASSUME CapsInv, [FetchNext]_fetching, NEW g \in Fetchers PROVE Capped(g)'
  BY FetchStepKeeps DEF CapsInv
<1>2. Capped(g) /\ g \in Fetchers
  BY <1>1 DEF CapsInv
<1>3. CASE UNCHANGED fetching
  BY <1>2, <1>3, CapsStay DEF fetching
<1>4. ASSUME NEW f \in Fetchers, FetchStep(f), f # g PROVE Capped(g)'
  <2>1. source' = source /\ files'[g] = files[g] /\ at'[g] = at[g] /\ phase'[g] = phase[g]
    BY <1>1, <1>4 DEF FetchStep, OpenLocal, StartClone, EndClone, WalkFile, FileFails,
       EndWalk, NextUrl, UrlFails, EndUrls, Guard, Pin, GetNothing, GetRedirect, GetBody, Proceed,
       Skip, Keep, Refuse,
       CapsInv, FetchInv, FetchType
  <2>2. QED
    BY <1>2, <2>1, CapsStay
<1>5. ASSUME FetchStep(g) PROVE Capped(g)'
  <2>1. /\ phase \in [Fetchers -> Phases] /\ at[g] \in Nat \ {0} /\ source[g] \in Sources
        /\ Len(Items(g)) \in Nat /\ Fits(g, at[g], phase[g])
    BY <1>1, SourcesAssumption DEF CapsInv, FetchInv, FetchType, InStep, Items
  <2>2. CASE \/ OpenLocal(g) \/ StartClone(g) \/ EndClone(g) \/ FileFails(g) \/ EndWalk(g)
             \/ NextUrl(g) \/ UrlFails(g) \/ EndUrls(g) \/ Pin(g)
    <3>1. source' = source /\ files' = files /\ at' = at /\ phase'[g] # "cap_exceeded"
      BY <2>1, <2>2 DEF OpenLocal, StartClone, EndClone, FileFails, EndWalk, NextUrl, UrlFails,
         EndUrls, Pin, Proceed
    <3>2. QED
      BY <1>2, <3>1, CapsStay
  <2>3. CASE WalkFile(g)
    <3>1. phase[g] = "walk" /\ at[g] <= Len(Items(g)) /\ source' = source
      BY <2>3 DEF WalkFile
    <3>2. source[g].kind # "http"
      BY <2>1, <3>1 DEF Fits
    <3>3. Item(g).size \in Nat
      BY <2>1, <3>1, <3>2, SourcesAssumption DEF Item, Items
    <3>4. CASE SkipReasons(Item(g)) # <<>> /\ Skip(g, SkipReasons(Item(g))[1]) /\ phase' = phase
      BY <1>1, <3>1, <3>4, CapsSkip
    <3>5. CASE /\ SkipReasons(Item(g)) = <<>> /\ Refuse(g)
               /\ OverBytes(g, Item(g).size) \/ OverFiles(g)
      <4>1. Overfull(g)
        BY <1>1, <3>1, <3>2, <3>5, RefusedOverfull
      <4>2. QED
        BY <1>2, <3>1, <3>5, <4>1, CapsStay DEF Refuse
    <3>6. CASE /\ SkipReasons(Item(g)) = <<>> /\ Keep(g, Item(g).size) /\ phase' = phase
               /\ ~OverBytes(g, Item(g).size) /\ ~OverFiles(g)
      <4>1. Item(g).size \in 0 .. MaxFileBytes
        BY <3>3, <3>6, NoReason, CapsAssumption
      <4>2. QED
        BY <1>1, <3>1, <3>6, <4>1, CapsKeep
    <3>7. QED
      BY <2>3, <3>4, <3>5, <3>6 DEF WalkFile
  <2>4. ASSUME phase[g] \in {"guard", "get"}, source' = source,
               NEW reason, Skip(g, reason), Proceed(g, "url"), source[g].kind = "http"
        PROVE  Capped(g)'
    <3>1. at[g] <= Len(Items(g)) /\ phase'[g] = "url"
      BY <2>1, <2>4 DEF Fits, Proceed
    <3>2. QED
      BY <1>1, <2>4, <3>1, CapsSkip
  <2>5. ASSUME source' = source, UNCHANGED <<at, files>>,
               NEW p, Proceed(g, p), p # "cap_exceeded" \/ source[g].kind = "http"
        PROVE  Capped(g)'
    <3>1. phase'[g] = p
      BY <2>1, <2>5 DEF Proceed
    <3>2. QED
      BY <1>2, <2>5, <3>1, CapsStay
  <2>6. CASE Guard(g)
    <3>1. phase[g] = "guard" /\ source' = source /\ source[g].kind = "http"
      BY <2>1, <2>6 DEF Guard, Fits
    <3>2. CASE Proceed(g, "pin") /\ UNCHANGED <<at, files, skipped>>
      BY <2>5, <3>1, <3>2
    <3>3. CASE Skip(g, "excluded_by_pattern") /\ Proceed(g, "url")
      BY <2>4, <3>1, <3>3
    <3>4. QED
      BY <2>6, <3>2, <3>3 DEF Guard
  <2>7. CASE GetNothing(g)
    BY <2>1, <2>4, <2>7 DEF GetNothing, Fits
  <2>8. CASE GetRedirect(g)
    <3>1. phase[g] = "get" /\ source' = source /\ source[g].kind = "http"
      BY <2>1, <2>8 DEF GetRedirect, Fits
    <3>2. CASE Proceed(g, "guard") /\ UNCHANGED <<at, files, skipped>>
      BY <2>5, <3>1, <3>2
    <3>3. CASE Skip(g, "excluded_by_pattern") /\ Proceed(g, "url")
      BY <2>4, <3>1, <3>3
    <3>4. CASE Proceed(g, "failed") /\ UNCHANGED <<at, files, skipped>>
      BY <2>5, <3>1, <3>4
    <3>5. QED
      BY <2>8, <3>2, <3>3, <3>4 DEF GetRedirect
  <2>9. CASE GetBody(g)
    <3>1. phase[g] = "get" /\ source' = source /\ source[g].kind = "http"
      BY <2>1, <2>9 DEF GetBody, Fits
    <3>2. PICK size \in 0 .. MaxFileBytes :
            \/ Refuse(g)
            \/ ~OverBytes(g, size) /\ ~OverFiles(g) /\ Keep(g, size) /\ Proceed(g, "url")
      BY <2>9 DEF GetBody
    <3>3. CASE Refuse(g)
      BY <2>5, <3>1, <3>3 DEF Refuse
    <3>4. CASE ~OverBytes(g, size) /\ ~OverFiles(g) /\ Keep(g, size) /\ Proceed(g, "url")
      <4>1. at[g] <= Len(Items(g)) /\ phase'[g] = "url"
        BY <2>1, <3>1, <3>4 DEF Fits, Proceed
      <4>2. QED
        BY <1>1, <3>1, <3>4, <4>1, CapsKeep
    <3>5. QED
      BY <3>2, <3>3, <3>4
  <2>10. QED
    BY <1>5, <2>2, <2>3, <2>6, <2>7, <2>8, <2>9 DEF FetchStep
<1>6. QED
  BY <1>1, <1>3, <1>4, <1>5 DEF FetchNext

(* IngestionCaps: whatever the sources and the answers, no result exceeds  *)
(* one of the three caps, and a walk refuses a tree exactly when the files *)
(* it would have to take do.                                               *)
THEOREM CapsStayExact == FetchSpec => []CapsAreExact
<1>1. ASSUME CapsInv, NEW f \in Fetchers, source[f].kind # "http", phase[f] = "returned"
      PROVE  Len(files[f]) = Cardinality(Wanted(Items(f), Len(Items(f))))
  <2>1. at[f] = Len(Items(f)) + 1 /\ Len(Items(f)) \in Nat
    BY <1>1, SourcesAssumption DEF CapsInv, FetchInv, FetchType, InStep, Fits, Items
  <2>2. at[f] - 1 = Len(Items(f))
    BY <2>1
  <2>3. QED
    BY <1>1, <2>2 DEF CapsInv, Capped, Tallied
<1>2. CapsInv => CapsAreExact
  BY <1>1 DEF CapsInv, Capped, Within, Overfull, CapsAreExact
<1>3. QED
  BY <1>2, CapsStart, CapsStep, PTL DEF FetchSpec

----------------------------------------------------------------------------
(* Chunking.                                                               *)
BlockType == [kind : BlockKinds, first : Nat, last : Nat]
SectionType == [heading_path : Seq(Nat), from : Nat, to : Nat]
ChunkType == [heading_path : Seq(Nat), from : Nat, to : Nat, tokens : Int]

ChunkingType ==
  /\ doc \in Documents
  /\ stage \in {"frontmatter", "refused", "scan", "group", "chunk", "pack", "done"}
  /\ place \in Nat \ {0}
  /\ blocks \in Seq(BlockType)
  /\ path \in Seq(Nat)
  /\ current \in SectionType
  /\ sections \in Seq(SectionType)
  /\ buf \in [from : Nat, to : Nat]
  /\ chunks \in Seq(ChunkType)

(* The lines of a document, and that a heading has a level.                *)
LEMMA LinesTyped ==
  ASSUME doc \in Documents
  PROVE  /\ Last \in Nat
         /\ \A i \in 1 .. Last : Line(i) \in LineType /\ (Heading(i) => Line(i).n > 0)
BY DocumentsAssumption DEF Last, Lines, Line, Heading

(* A block goes on up to the first line that does not continue it.         *)
LEMMA ThroughStops ==
  ASSUME doc \in Documents, NEW i \in 1 .. Last, NEW C
  PROVE  /\ Through(i, C) \in i .. Last
         /\ (i + 1) .. Through(i, C) \subseteq C
         /\ Through(i, C) = Last \/ Through(i, C) + 1 \notin C
<1> DEFINE T == {j \in i .. Last : j = Last \/ j + 1 \notin C}
           Stops(j) == (i + 1) .. j \subseteq C /\ (j = Last \/ j + 1 \notin C)
<1>1. Last \in Nat
  BY LinesTyped
<1>2. T \subseteq Nat /\ Last \in T
  BY <1>1
<1>3. PICK j \in T : \A y \in T : j <= y
  <2> HIDE DEF T
  <2>1. QED
    BY <1>2, LeastNumber
<1>4. ASSUME NEW k \in (i + 1) .. j PROVE k \in C
  <2>1. k - 1 \in i .. Last /\ k - 1 # Last /\ k - 1 < j /\ (k - 1) + 1 = k
    BY <1>1
  <2>2. k - 1 \notin T
    BY <1>1, <1>3, <2>1
  <2>3. QED
    BY <2>1, <2>2
<1>5. j \in i .. Last /\ Stops(j)
  BY <1>4
<1>6. Through(i, C) = CHOOSE x \in i .. Last : Stops(x)
  BY DEF Through
<1> HIDE DEF Stops
<1>7. Through(i, C) \in i .. Last /\ Stops(Through(i, C))
  BY <1>5, <1>6
<1>8. QED
  BY <1>7 DEF Stops

(* The block that starts at a line: it ends there or at a later line.      *)
LEMMA BlockEnds ==
  ASSUME doc \in Documents, NEW i \in 1 .. Last
  PROVE  /\ BlockAt(i) \in BlockType
         /\ BlockAt(i).first = i /\ BlockAt(i).last \in i .. Last
         /\ BlockAt(i).kind = "heading" => Heading(i)
         /\ BlockAt(i).kind = "code" => OpensFence(i) /\ BlockAt(i).last = CodeEnd(i)
<1> DEFINE B(kind, last) == [kind |-> kind, first |-> i, last |-> last]
<1>1. Last \in Nat /\ i \in i .. Last
  BY LinesTyped
<1>2. CodeEnd(i) \in i .. Last /\ ListEnd(i) \in i .. Last /\ ParagraphEnd(i) \in i .. Last
  BY ThroughStops DEF CodeEnd, ListEnd, ParagraphEnd
<1>3. OpensTable(i) => TableEnd(i) \in i .. Last
  <2>1. ASSUME OpensTable(i) PROVE i + 1 \in 1 .. Last
    BY <1>1, <2>1 DEF OpensTable
  <2>2. OpensTable(i) => TableEnd(i) \in (i + 1) .. Last
    BY <2>1, ThroughStops DEF TableEnd
  <2>3. QED
    BY <1>1, <2>2
<1>4. \/ OpensFence(i) /\ BlockAt(i) = B("code", CodeEnd(i))
      \/ Heading(i) /\ BlockAt(i) = B("heading", i)
      \/ OpensTable(i) /\ BlockAt(i) = B("table", TableEnd(i))
      \/ BlockAt(i) = B("list", ListEnd(i))
      \/ BlockAt(i) = B("paragraph", ParagraphEnd(i))
  <2>1. Heading(i) => ~OpensFence(i)
    BY DEF Heading, OpensFence, Fence, Fences
  <2>2. OpensTable(i) => ~OpensFence(i) /\ ~Heading(i)
    BY DEF OpensTable, HasPipe, Heading, OpensFence, Fence, Fences
  <2>3. ListItem(i) => ~OpensFence(i) /\ ~Heading(i) /\ ~OpensTable(i)
    BY DEF ListItem, OpensTable, HasPipe, Heading, OpensFence, Fence, Fences
  <2>4. QED
    BY <2>1, <2>2, <2>3 DEF BlockAt
<1>5. \A kind \in BlockKinds, last \in i .. Last :
        /\ B(kind, last) \in BlockType
        /\ B(kind, last).first = i /\ B(kind, last).last = last /\ B(kind, last).kind = kind
  BY <1>1 DEF BlockType
<1> HIDE DEF B
<1>6. QED
  BY <1>1, <1>2, <1>3, <1>4, <1>5 DEF BlockKinds

(* What the stack of headings p says of block b: it names all its          *)
(* ancestors, in order and none deeper than its level; an entry has been   *)
(* followed by deeper headings than its place only; and there is nothing   *)
(* else, each at its level, where no level is skipped.                     *)
AncestryUpTo(p, b) ==
  /\ Ancestors(b) \subseteq Entries(p)
  /\ \A i, j \in 1 .. Len(p) : i < j => p[i] < p[j]
  /\ \A k \in 1 .. Len(p) : p[k] \in 1 .. b /\ IsHeading(p[k]) /\ k <= Level(p[k])
  /\ \A k \in 1 .. Len(p) : \A h \in (p[k] + 1) .. b : IsHeading(h) => Level(h) > k
  /\ ~LevelSkipped(b) => \A k \in 1 .. Len(p) : p[k] \in Ancestors(b) /\ Level(p[k]) = k

(* Blocks that are no headings have the ancestors of the block before.     *)
LEMMA AncestryPlain ==
  ASSUME NEW p \in Seq(Nat), NEW b \in Nat, NEW c \in Nat, b <= c, AncestryUpTo(p, b),
         \A k \in (b + 1) .. c : ~IsHeading(k)
  PROVE  AncestryUpTo(p, c)
<1>1. \A h \in 1 .. c : IsHeading(h) => h \in 1 .. b
  OBVIOUS
<1>2. \A h \in 1 .. b : h \in 1 .. c /\ (h + 1) .. b \subseteq (h + 1) .. c
  OBVIOUS
<1>3. \A h \in 1 .. b : \A k \in (h + 1) .. c : IsHeading(k) => k \in (h + 1) .. b
  OBVIOUS
<1>4. Ancestors(c) = Ancestors(b)
  BY <1>1, <1>2, <1>3 DEF Ancestors
<1>5. ~LevelSkipped(c) => ~LevelSkipped(b)
  BY <1>2 DEF LevelSkipped
<1>6. ASSUME NEW k \in 1 .. Len(p), NEW h \in (p[k] + 1) .. c, IsHeading(h)
      PROVE  Level(h) > k
  <2>1. p[k] \in 1 .. b
    BY DEF AncestryUpTo
  <2>2. h \in (p[k] + 1) .. b
    BY <1>6, <2>1
  <2>3. QED
    BY <1>6, <2>2 DEF AncestryUpTo
<1>7. QED
  BY <1>2, <1>4, <1>5, <1>6 DEF AncestryUpTo

(* A heading goes on the part of the stack that Kept leaves for its level. *)
LEMMA AncestryPush ==
  ASSUME NEW p \in Seq(Nat), NEW b \in Nat, AncestryUpTo(p, b), IsHeading(b + 1),
         \A k \in 1 .. (b + 1) : IsHeading(k) => Level(k) \in Nat \ {0},
         NEW m \in Nat,
         m = IF Level(b + 1) - 1 < Len(p) THEN Level(b + 1) - 1 ELSE Len(p)
  PROVE  AncestryUpTo(Append(SubSeq(p, 1, m), b + 1), b + 1)
<1> DEFINE c == b + 1
           L == Level(c)
           q == Append(SubSeq(p, 1, m), c)
<1>1. c \in Nat /\ c \in 1 .. c /\ c = b + 1 /\ L \in Nat \ {0} /\ Len(p) \in Nat
  OBVIOUS
<1>2. /\ m <= L - 1 /\ m <= Len(p) /\ (L - 1 <= Len(p) => m = L - 1)
      /\ m = L - 1 \/ m = Len(p)
  BY <1>1
<1>3. SubSeq(p, 1, m) \in Seq(Nat) /\ Len(SubSeq(p, 1, m)) = m
      /\ \A k \in 1 .. m : SubSeq(p, 1, m)[k] = p[k]
  BY <1>2
<1>4. /\ Len(q) = m + 1 /\ q[m + 1] = c
      /\ \A k \in 1 .. m : q[k] = p[k] /\ k \in 1 .. Len(p)
  BY <1>1, <1>2, <1>3
<1>5. \A k \in 1 .. Len(q) : k \in 1 .. m \/ k = m + 1
  BY <1>4
<1>6. ASSUME NEW h \in Ancestors(c), h # c
      PROVE  h \in Ancestors(b) /\ Level(h) < L
  <2>1. h \in 1 .. b /\ c \in (h + 1) .. c /\ (h + 1) .. b \subseteq (h + 1) .. c
    BY <1>1, <1>6 DEF Ancestors
  <2>2. QED
    BY <2>1 DEF Ancestors
<1>7. ASSUME NEW h \in Ancestors(b), Level(h) < L
      PROVE  h \in Ancestors(c)
  <2>1. h \in 1 .. c /\ \A k \in (h + 1) .. c : k \in (h + 1) .. b \/ k = c
    BY <1>1 DEF Ancestors
  <2>2. \A k \in (h + 1) .. c : IsHeading(k) => Level(k) > Level(h)
    <3>1. Level(h) \in Nat
      BY DEF Ancestors
    <3>2. QED
      BY <1>1, <1>7, <2>1, <3>1 DEF Ancestors
  <2>3. QED
    BY <2>1, <2>2 DEF Ancestors
<1>8. c \in Ancestors(c)
  <2>1. (c + 1) .. c = {}
    BY <1>1
  <2>2. QED
    BY <1>1, <2>1 DEF Ancestors
<1> HIDE DEF c, L, q
<1>9. \A k \in 1 .. Len(p) : p[k] \in 1 .. b /\ IsHeading(p[k]) /\ k <= Level(p[k])
  BY DEF AncestryUpTo
<1>10. Ancestors(c) \subseteq Entries(q)
  <2>1. ASSUME NEW h \in Ancestors(c) PROVE \E k \in 1 .. Len(q) : h = q[k]
    <3>1. CASE h = c
      BY <1>1, <1>4, <3>1
    <3>2. CASE h # c
      <4>1. h \in Ancestors(b) /\ Level(h) < L
        BY <1>6, <3>2
      <4>2. PICK k \in 1 .. Len(p) : h = p[k]
        BY <4>1 DEF AncestryUpTo, Entries
      <4>3. k <= Level(h) /\ Level(h) \in Nat
        BY <1>1, <1>9, <4>2 DEF Ancestors
      <4>4. k \in 1 .. m
        BY <1>1, <1>2, <4>1, <4>3
      <4>5. QED
        BY <1>4, <4>2, <4>4
    <3>3. QED
      BY <3>1, <3>2
  <2>2. QED
    BY <2>1 DEF Entries
<1>11. \A i, j \in 1 .. Len(q) : i < j => q[i] < q[j]
  <2>1. ASSUME NEW i \in 1 .. Len(q), NEW j \in 1 .. Len(q), i < j PROVE q[i] < q[j]
    <3>1. i \in 1 .. m
      BY <1>4, <1>5, <2>1
    <3>2. CASE j \in 1 .. m
      BY <1>4, <2>1, <3>1, <3>2 DEF AncestryUpTo
    <3>3. CASE j = m + 1
      <4>1. q[i] \in 1 .. b
        BY <1>4, <1>9, <3>1
      <4>2. QED
        BY <1>1, <1>4, <3>3, <4>1
    <3>4. QED
      BY <1>5, <3>2, <3>3
  <2>2. QED
    BY <2>1
<1>12. \A k \in 1 .. Len(q) : q[k] \in 1 .. c /\ IsHeading(q[k]) /\ k <= Level(q[k])
  <2>1. ASSUME NEW k \in 1 .. m PROVE q[k] \in 1 .. c /\ IsHeading(q[k]) /\ k <= Level(q[k])
    <3>1. q[k] = p[k] /\ k \in 1 .. Len(p)
      BY <1>4
    <3>2. p[k] \in 1 .. b /\ IsHeading(p[k]) /\ k <= Level(p[k])
      BY <1>9, <3>1
    <3>3. p[k] \in 1 .. c
      BY <1>1, <3>2
    <3>4. QED
      BY <3>1, <3>2, <3>3
  <2>2. IsHeading(c) /\ m + 1 <= L
    BY <1>1, <1>2 DEF c
  <2>3. QED
    BY <1>1, <1>4, <1>5, <2>1, <2>2 DEF L
<1>13. ASSUME ~LevelSkipped(c), NEW k \in 1 .. Len(q)
       PROVE  q[k] \in Ancestors(c) /\ Level(q[k]) = k
  <2>1. ~LevelSkipped(b)
    BY <1>1, <1>13 DEF LevelSkipped
  <2>2. \A i \in 1 .. Len(p) : p[i] \in Ancestors(b) /\ Level(p[i]) = i
    BY <2>1 DEF AncestryUpTo
  <2>3. CASE k \in 1 .. m
    <3>1. Level(p[k]) < L
      BY <1>1, <1>2, <1>4, <2>2, <2>3
    <3>2. QED
      BY <1>4, <1>7, <2>2, <2>3, <3>1
  <2>4. CASE k = m + 1
    <3>1. L - 1 <= Len(p)
      <4>1. CASE L = 1
        BY <1>1, <4>1
      <4>2. CASE L # 1
        <5>1. PICK a \in Ancestors(c) : Level(a) = L - 1
          BY <1>1, <1>13, <4>2 DEF LevelSkipped, L, c
        <5>2. a # c
          BY <1>1, <5>1 DEF L
        <5>3. a \in Ancestors(b)
          BY <1>6, <5>1, <5>2
        <5>4. PICK i \in 1 .. Len(p) : a = p[i]
          BY <5>3 DEF AncestryUpTo, Entries
        <5>5. i = L - 1
          BY <2>2, <5>1, <5>4
        <5>6. QED
          BY <1>1, <5>5
      <4>3. QED
        BY <4>1, <4>2
    <3>2. m + 1 = L
      BY <1>1, <1>2, <3>1
    <3>3. QED
      BY <1>4, <1>8, <2>4, <3>2 DEF L
  <2>5. QED
    BY <1>5, <2>3, <2>4
<1>14. ASSUME NEW k \in 1 .. Len(q), NEW h \in (q[k] + 1) .. c, IsHeading(h)
       PROVE  Level(h) > k
  <2>1. CASE k \in 1 .. m
    <3>1. q[k] = p[k] /\ k \in 1 .. Len(p) /\ p[k] \in 1 .. b
      BY <1>4, <1>9, <2>1
    <3>2. CASE h = c
      BY <1>1, <1>2, <2>1, <3>2 DEF L
    <3>3. CASE h # c
      <4>1. h \in (p[k] + 1) .. b
        BY <1>1, <3>1, <3>3
      <4>2. QED
        BY <1>14, <3>1, <4>1 DEF AncestryUpTo
    <3>4. QED
      BY <3>2, <3>3
  <2>2. CASE k = m + 1
    BY <1>1, <1>4, <2>2
  <2>3. QED
    BY <1>5, <2>1, <2>2
<1>15. AncestryUpTo(q, c)
  BY <1>10, <1>11, <1>12, <1>13, <1>14 DEF AncestryUpTo
<1>16. QED
  BY <1>15 DEF q, c

(* Running sums over an interval exist, and are numbers.                   *)
LEMMA SumsExist ==
  ASSUME NEW lo \in Nat, NEW hi \in Nat, lo <= hi, NEW w \in [(lo + 1) .. hi -> Int]
  PROVE  \E g : g = [n \in lo .. hi |-> IF n = lo THEN 0 ELSE g[n - 1] + w[n]]
<1> DEFINE step == [p \in ((lo + 1) .. hi) \X Int |-> p[2] + w[p[1]]]
<1>1. step \in [((lo + 1) .. hi) \X Int -> Int]
  OBVIOUS
<1>2. \A n \in (lo + 1) .. hi, x \in Int : step[<<n, x>>] = x + w[n]
  OBVIOUS
<1> HIDE DEF step
<1>3. PICK g \in [lo .. hi -> Int] : Follows(g, lo, hi, 0, step)
  <2>1. 0 \in Int
    OBVIOUS
  <2>2. QED
    BY <1>1, <2>1, Recursion
<1>4. ASSUME NEW n \in (lo + 1) .. hi PROVE g[n] = g[n - 1] + w[n]
  <2>1. g[n] = step[<<n, g[n - 1]>>] /\ g[n - 1] \in Int
    BY <1>3 DEF Follows
  <2>2. QED
    BY <1>2, <2>1
<1>5. ASSUME NEW n \in lo .. hi
      PROVE  g[n] = IF n = lo THEN 0 ELSE g[n - 1] + w[n]
  <2>1. CASE n = lo
    BY <1>3, <2>1 DEF Follows
  <2>2. CASE n # lo
    BY <1>4, <2>2
  <2>3. QED
    BY <2>1, <2>2
<1>6. g = [n \in lo .. hi |-> IF n = lo THEN 0 ELSE g[n - 1] + w[n]]
  BY <1>3, <1>5
<1>7. QED
  BY <1>6

(* Running sums of integers are integers.                                  *)
LEMMA SumsTyped ==
  ASSUME NEW lo \in Nat, NEW hi \in Nat, lo <= hi, NEW w \in [(lo + 1) .. hi -> Int],
         NEW u, u = [n \in lo .. hi |-> IF n = lo THEN 0 ELSE u[n - 1] + w[n]]
  PROVE  u \in [lo .. hi -> Int]
<1> DEFINE T == {n \in lo .. hi : u[n] \in Int}
<1>1. lo \in T
  OBVIOUS
<1>2. \A n \in (lo + 1) .. hi : n - 1 \in T => n \in T
  <2>1. ASSUME NEW n \in (lo + 1) .. hi, u[n - 1] \in Int PROVE u[n] \in Int
    <3>1. u[n] = u[n - 1] + w[n]
      OBVIOUS
    <3>2. QED
      BY <2>1, <3>1
  <2>2. QED
    BY <2>1
<1> HIDE DEF T
<1>3. lo .. hi \subseteq T
  BY <1>1, <1>2, Climb
<1>4. \A n \in lo .. hi : u[n] \in Int
  BY <1>3 DEF T
<1>5. u = [n \in lo .. hi |-> u[n]]
  OBVIOUS
<1>6. QED
  BY <1>4, <1>5

(* The tokens up to a line.                                                *)
LEMMA TokensTyped ==
  ASSUME doc \in Documents
  PROVE  \A i \in 0 .. Last : TokensTo[i] \in Int
<1> DEFINE w == [n \in (0 + 1) .. Last |-> Line(n).tokens]
<1>1. Last \in Nat /\ 0 \in Nat /\ 0 <= Last
  BY LinesTyped
<1>2. w \in [(0 + 1) .. Last -> Int]
  BY LinesTyped DEF LineType
<1> DEFINE u == CHOOSE f : f = [n \in 0 .. Last |-> IF n = 0 THEN 0 ELSE f[n - 1] + Line(n).tokens]
<1>3. \A f : f = [n \in 0 .. Last |-> IF n = 0 THEN 0 ELSE f[n - 1] + Line(n).tokens]
             <=> f = [n \in 0 .. Last |-> IF n = 0 THEN 0 ELSE f[n - 1] + w[n]]
  <2>1. ASSUME NEW f
        PROVE  [n \in 0 .. Last |-> IF n = 0 THEN 0 ELSE f[n - 1] + Line(n).tokens]
                 = [n \in 0 .. Last |-> IF n = 0 THEN 0 ELSE f[n - 1] + w[n]]
    BY <1>1
  <2>2. QED
    BY <2>1, Zenon
<1>4. \E f : f = [n \in 0 .. Last |-> IF n = 0 THEN 0 ELSE f[n - 1] + Line(n).tokens]
  <2> HIDE DEF w
  <2>1. \E f : f = [n \in 0 .. Last |-> IF n = 0 THEN 0 ELSE f[n - 1] + w[n]]
    BY <1>1, <1>2, SumsExist
  <2>2. QED
    BY <1>3, <2>1, ZenonT(40)
<1>5. u = [n \in 0 .. Last |-> IF n = 0 THEN 0 ELSE u[n - 1] + Line(n).tokens]
  BY <1>4, Zenon
<1>6. TokensTo = u
  BY DEF TokensTo
<1> HIDE DEF u, w
<1>7. u \in [0 .. Last -> Int]
  <2>1. u = [n \in 0 .. Last |-> IF n = 0 THEN 0 ELSE u[n - 1] + w[n]]
    BY <1>3, <1>5, Zenon
  <2>2. QED
    BY <1>1, <1>2, <2>1, SumsTyped
<1>8. QED
  BY <1>6, <1>7

(* The tokens of a range of blocks, added up from the first.               *)
LEMMA PackedRuns ==
  ASSUME NEW s, s.from \in Nat \ {0}, s.to \in Nat, s.from <= s.to + 1,
         \A b \in s.from .. s.to : BlockTokens(b) \in Int
  PROVE  \E u \in [(s.from - 1) .. s.to -> Int] :
           /\ u[s.from - 1] = 0 /\ PackedTokens(s) = u[s.to]
           /\ \A b \in s.from .. s.to : u[b] = u[b - 1] + BlockTokens(b)
<1> DEFINE lo == s.from - 1
           hi == s.to
           w == [b \in (lo + 1) .. hi |-> BlockTokens(b)]
<1>1. /\ lo \in Nat /\ hi \in Nat /\ lo <= hi /\ lo + 1 = s.from
      /\ \A b \in lo .. hi : b < s.from <=> b = lo
  OBVIOUS
<1>2. w \in [(lo + 1) .. hi -> Int]
  BY <1>1
<1> DEFINE u == CHOOSE f : f = [b \in lo .. hi |-> IF b < s.from THEN 0
                                                   ELSE f[b - 1] + BlockTokens(b)]
<1>3. PackedTokens(s) = u[hi]
  BY DEF PackedTokens
<1>4. \A f : f = [b \in lo .. hi |-> IF b < s.from THEN 0 ELSE f[b - 1] + BlockTokens(b)]
             <=> f = [b \in lo .. hi |-> IF b = lo THEN 0 ELSE f[b - 1] + w[b]]
  <2>1. ASSUME NEW f
        PROVE  [b \in lo .. hi |-> IF b < s.from THEN 0 ELSE f[b - 1] + BlockTokens(b)]
                 = [b \in lo .. hi |-> IF b = lo THEN 0 ELSE f[b - 1] + w[b]]
    <3>1. \A b \in lo .. hi : b # lo => b \in (lo + 1) .. hi /\ w[b] = BlockTokens(b)
      BY <1>1
    <3> HIDE DEF w, lo, hi
    <3>2. QED
      BY <1>1, <3>1
  <2>2. QED
    BY <2>1, Zenon
<1> HIDE DEF w, lo, hi
<1>5. \E f : f = [b \in lo .. hi |-> IF b < s.from THEN 0 ELSE f[b - 1] + BlockTokens(b)]
  <2>1. lo \in Nat /\ hi \in Nat /\ lo <= hi
    BY <1>1
  <2>2. PICK x \in Nat : x = lo
    BY <2>1
  <2>3. PICK y \in Nat : y = hi
    BY <2>1
  <2>4. PICK z \in [(x + 1) .. y -> Int] : z = w
    BY <1>2, <2>2, <2>3
  <2>5. \E f : f = [n \in x .. y |-> IF n = x THEN 0 ELSE f[n - 1] + z[n]]
    <3>1. x <= y
      BY <2>1, <2>2, <2>3
    <3>2. QED
      BY <2>4, <3>1, SumsExist
  <2>6. \E f : f = [b \in lo .. hi |-> IF b = lo THEN 0 ELSE f[b - 1] + w[b]]
    BY <2>2, <2>3, <2>4, <2>5, Zenon
  <2>7. QED
    BY <1>4, <2>6, Zenon
<1>6. u = [b \in lo .. hi |-> IF b < s.from THEN 0 ELSE u[b - 1] + BlockTokens(b)]
  BY <1>5, Zenon
<1> HIDE DEF u
<1>7. u \in [lo .. hi -> Int]
  <2>1. u = [b \in lo .. hi |-> IF b = lo THEN 0 ELSE u[b - 1] + w[b]]
    BY <1>4, <1>6, Zenon
  <2>2. QED
    BY <1>1, <1>2, <2>1, SumsTyped
<1>8. u[lo] = 0 /\ \A b \in s.from .. hi : u[b] = u[b - 1] + BlockTokens(b)
  <2>1. lo \in lo .. hi /\ \A b \in s.from .. hi : b \in lo .. hi /\ ~(b < s.from)
    BY <1>1
  <2>2. QED
    BY <1>1, <1>6, <2>1
<1>9. QED
  BY <1>3, <1>7, <1>8 DEF lo, hi

(* A range with one block more has its tokens more.                        *)
LEMMA PackedMore ==
  ASSUME NEW s, NEW t, s.from \in Nat \ {0}, s.to \in Nat, s.from <= s.to + 1,
         t.from = s.from, t.to = s.to + 1,
         \A b \in t.from .. t.to : BlockTokens(b) \in Int
  PROVE  PackedTokens(s) \in Int /\ PackedTokens(t) = PackedTokens(s) + BlockTokens(t.to)
<1> DEFINE lo == s.from - 1
           hi == s.to
<1>1. /\ lo \in Nat /\ hi \in Nat /\ lo <= hi /\ t.to = hi + 1 /\ t.from - 1 = lo
      /\ \A b \in s.from .. hi : b \in t.from .. t.to
  OBVIOUS
<1>2. PICK u \in [lo .. hi -> Int] :
        /\ u[lo] = 0 /\ PackedTokens(s) = u[hi]
        /\ \A b \in s.from .. hi : u[b] = u[b - 1] + BlockTokens(b)
  <2>1. \A b \in s.from .. s.to : BlockTokens(b) \in Int
    BY <1>1
  <2>2. QED
    BY <2>1, PackedRuns
<1>3. PICK v \in [lo .. (hi + 1) -> Int] :
        /\ v[lo] = 0 /\ PackedTokens(t) = v[hi + 1]
        /\ \A b \in s.from .. (hi + 1) : v[b] = v[b - 1] + BlockTokens(b)
  <2>1. t.from \in Nat \ {0} /\ t.to \in Nat /\ t.from <= t.to + 1
    BY <1>1
  <2>2. PICK v \in [(t.from - 1) .. t.to -> Int] :
          /\ v[t.from - 1] = 0 /\ PackedTokens(t) = v[t.to]
          /\ \A b \in t.from .. t.to : v[b] = v[b - 1] + BlockTokens(b)
    BY <2>1, PackedRuns
  <2>3. QED
    BY <1>1, <2>2, Zenon
<1>4. lo + 1 = s.from
  OBVIOUS
<1> HIDE DEF lo, hi
<1>5. \A b \in lo .. hi : u[b] = v[b]
  <2> DEFINE T == {b \in lo .. hi : u[b] = v[b]}
  <2>1. lo \in T
    BY <1>1, <1>2, <1>3
  <2>2. \A b \in (lo + 1) .. hi : b - 1 \in T => b \in T
    <3>1. \A b \in (lo + 1) .. hi : b \in s.from .. hi /\ b \in s.from .. (hi + 1) /\ b \in lo .. hi
      BY <1>1, <1>4
    <3>2. QED
      BY <1>2, <1>3, <3>1
  <2> HIDE DEF T
  <2>3. lo .. hi \subseteq T
    BY <1>1, <2>1, <2>2, Climb
  <2>4. QED
    BY <2>3 DEF T
<1>6. u[hi] = v[hi] /\ u[hi] \in Int
  BY <1>1, <1>2, <1>5
<1>7. v[hi + 1] = v[(hi + 1) - 1] + BlockTokens(hi + 1) /\ (hi + 1) - 1 = hi
  BY <1>1, <1>3, <1>4
<1>8. QED
  BY <1>1, <1>2, <1>3, <1>6, <1>7

(* One line of a code block, on the stack of the fences open before it.    *)
NextFences(before, line) ==
  LET top == before[Len(before)]
  IN IF before = <<>> \/ line.kind # top.kind THEN before
     ELSE IF line.info THEN Append(before, line)
     ELSE IF line.n >= top.n THEN SubSeq(before, 1, Len(before) - 1)
     ELSE before

(* One line leaves a stack of lines.                                       *)
LEMMA NextFencesTyped ==
  ASSUME NEW before \in Seq(LineType), NEW line \in LineType
  PROVE  NextFences(before, line) \in Seq(LineType)
<1>1. Append(before, line) \in Seq(LineType)
  OBVIOUS
<1>2. before # <<>> => SubSeq(before, 1, Len(before) - 1) \in Seq(LineType)
  OBVIOUS
<1>3. QED
  BY <1>1, <1>2 DEF NextFences

(* OpenFences is the run of these stacks from the line that opens.         *)
LEMMA FencesFollow ==
  ASSUME doc \in Documents, NEW i \in 1 .. Last
  PROVE  /\ OpenFences(i)[i] = <<Line(i)>>
         /\ \A j \in (i + 1) .. Last :
              OpenFences(i)[j] = NextFences(OpenFences(i)[j - 1], Line(j))
         /\ \A j \in i .. Last : OpenFences(i)[j] \in Seq(LineType)
<1> DEFINE S == Seq(LineType)
           step == [p \in ((i + 1) .. Last) \X S |-> NextFences(p[2], Line(p[1]))]
           x0 == <<Line(i)>>
<1>1. /\ Last \in Nat /\ i \in Nat /\ i <= Last
      /\ \A j \in i .. Last : Line(j) \in LineType
  BY LinesTyped
<1>2. x0 \in S
  <2>1. Line(i) \in LineType
    BY <1>1
  <2> HIDE DEF LineType
  <2>2. QED
    BY <2>1
<1>3. \A j \in (i + 1) .. Last, x \in S : NextFences(x, Line(j)) \in S
  BY <1>1, NextFencesTyped
<1> HIDE DEF S, x0
<1>4. step \in [((i + 1) .. Last) \X S -> S]
  BY <1>3
<1>5. \A j \in (i + 1) .. Last, x \in S : step[<<j, x>>] = NextFences(x, Line(j))
  OBVIOUS
<1> HIDE DEF step
<1>6. PICK g \in [i .. Last -> S] : Follows(g, i, Last, x0, step)
  BY <1>1, <1>2, <1>4, Recursion
<1>7. ASSUME NEW j \in (i + 1) .. Last PROVE g[j] = NextFences(g[j - 1], Line(j))
  <2>1. g[j] = step[<<j, g[j - 1]>>] /\ g[j - 1] \in S
    BY <1>1, <1>6 DEF Follows
  <2>2. QED
    BY <1>5, <2>1
<1>8. g[i] = x0
  BY <1>6 DEF Follows
<1> DEFINE Stacks(f) == [j \in i .. Last |-> IF j = i THEN x0 ELSE NextFences(f[j - 1], Line(j))]
           u == CHOOSE f : f = Stacks(f)
<1>9. g = Stacks(g)
  <2>1. ASSUME NEW j \in i .. Last
        PROVE  g[j] = IF j = i THEN x0 ELSE NextFences(g[j - 1], Line(j))
    <3>1. CASE j = i
      BY <1>8, <3>1
    <3>2. CASE j # i
      BY <1>1, <1>7, <3>2
    <3>3. QED
      BY <3>1, <3>2
  <2>2. QED
    BY <1>6, <2>1
<1>10. u = Stacks(u)
  <2> HIDE DEF Stacks
  <2>1. QED
    BY <1>9, Zenon
<1>11. OpenFences(i) = u
  BY DEF OpenFences, NextFences, x0
<1> HIDE DEF u
<1>12. u[i] = x0 /\ \A j \in (i + 1) .. Last : u[j] = NextFences(u[j - 1], Line(j))
  <2>1. i \in i .. Last /\ \A j \in (i + 1) .. Last : j \in i .. Last /\ j # i
    BY <1>1
  <2>2. QED
    BY <1>10, <2>1
<1>13. \A j \in i .. Last : u[j] \in S
  <2> DEFINE T == {j \in i .. Last : u[j] \in S}
  <2>1. i \in T
    BY <1>1, <1>2, <1>12
  <2>2. \A j \in (i + 1) .. Last : j - 1 \in T => j \in T
    BY <1>1, <1>3, <1>12
  <2> HIDE DEF T
  <2>3. i .. Last \subseteq T
    BY <1>1, <2>1, <2>2, Climb
  <2>4. QED
    BY <2>3 DEF T
<1>14. QED
  BY <1>11, <1>12, <1>13 DEF S, x0

(* The fences of the kind of line i after it, with and without an info     *)
(* string.                                                                 *)
SameFence(i, k) == Fence(k) /\ Line(k).kind = Line(i).kind
Infos(i) == {k \in Nat : SameFence(i, k) /\ Line(k).info}
Bares(i) == {k \in Nat : SameFence(i, k) /\ ~Line(k).info}
InfosTo(i, j) == Cardinality(Infos(i) \cap ((i + 1) .. j))
BaresTo(i, j) == Cardinality(Bares(i) \cap ((i + 1) .. j))

(* Between fences of one length, as many are open as opened and not shut.  *)
LEMMA FencesBalance ==
  ASSUME doc \in Documents, NEW i \in 1 .. Last, OpensFence(i), NEW last \in i .. Last,
         \A k \in (i + 1) .. last : OpenFences(i)[k - 1] # <<>>,
         \A k \in i .. last : SameFence(i, k) => Line(k).n = Line(i).n
  PROVE  \A j \in i .. last :
           /\ InfosTo(i, j) \in Nat /\ BaresTo(i, j) \in Nat
           /\ Len(OpenFences(i)[j]) + BaresTo(i, j) = 1 + InfosTo(i, j)
<1> DEFINE o == OpenFences(i)
           Alike(s) == \A x \in 1 .. Len(s) : s[x].kind = Line(i).kind /\ s[x].n = Line(i).n
           Balanced(j) == /\ InfosTo(i, j) \in Nat /\ BaresTo(i, j) \in Nat
                          /\ Len(o[j]) + BaresTo(i, j) = 1 + InfosTo(i, j)
           T == {j \in i .. last : Alike(o[j]) /\ Balanced(j)}
<1>1. /\ Last \in Nat /\ i \in Nat /\ last \in Nat /\ i <= last /\ last <= Last
      /\ \A j \in i .. Last : Line(j) \in LineType
      /\ Line(i).kind \in Fences
  BY LinesTyped DEF OpensFence, Fence
<1>2. /\ o[i] = <<Line(i)>> /\ \A j \in i .. Last : o[j] \in Seq(LineType)
      /\ \A j \in (i + 1) .. Last : o[j] = NextFences(o[j - 1], Line(j))
  BY FencesFollow
<1> HIDE DEF o
<1>3. i \in T
  <2>1. (i + 1) .. i = {}
    BY <1>1
  <2>2. InfosTo(i, i) = 0 /\ BaresTo(i, i) = 0
    BY <2>1, FS_EmptySet DEF InfosTo, BaresTo
  <2>3. Len(o[i]) = 1 /\ o[i][1] = Line(i)
    BY <1>2
  <2>4. Alike(o[i])
    BY <2>3
  <2>5. QED
    BY <1>1, <2>2, <2>3, <2>4
<1>4. ASSUME NEW j \in (i + 1) .. last, j - 1 \in T
      PROVE  j \in T
  <2> DEFINE s == o[j - 1]
             n == Len(s)
  <2>1. /\ j \in Nat /\ i + 1 <= j /\ i + 1 \in Nat /\ j - 1 \in i .. Last /\ j \in i .. Last
        /\ j \in (i + 1) .. Last /\ j \in i .. last
    BY <1>1
  <2>2. /\ s \in Seq(LineType) /\ s # <<>> /\ Alike(s) /\ o[j] = NextFences(s, Line(j))
        /\ Line(j) \in LineType
    BY <1>1, <1>2, <1>4, <2>1 DEF o
  <2>3. n \in Nat \ {0} /\ s[n].kind = Line(i).kind /\ s[n].n = Line(i).n
    BY <2>2
  <2>4. /\ InfosTo(i, j - 1) \in Nat /\ BaresTo(i, j - 1) \in Nat
        /\ n + BaresTo(i, j - 1) = 1 + InfosTo(i, j - 1)
    BY <1>4
  <2>5. /\ InfosTo(i, j) = InfosTo(i, j - 1) + (IF j \in Infos(i) THEN 1 ELSE 0)
        /\ BaresTo(i, j) = BaresTo(i, j - 1) + (IF j \in Bares(i) THEN 1 ELSE 0)
    <3>1. InfosTo(i, j) = InfosTo(i, j - 1) + (IF j \in Infos(i) THEN 1 ELSE 0)
      <4>1. PICK G : G = Infos(i)
        OBVIOUS
      <4>2. /\ Cardinality(G \cap ((i + 1) .. j)) =
                 Cardinality(G \cap ((i + 1) .. (j - 1))) + (IF j \in G THEN 1 ELSE 0)
        BY <2>1, CountUpTo
      <4>3. QED
        BY <4>1, <4>2, Zenon DEF InfosTo
    <3>2. BaresTo(i, j) = BaresTo(i, j - 1) + (IF j \in Bares(i) THEN 1 ELSE 0)
      <4>1. PICK G : G = Bares(i)
        OBVIOUS
      <4>2. /\ Cardinality(G \cap ((i + 1) .. j)) =
                 Cardinality(G \cap ((i + 1) .. (j - 1))) + (IF j \in G THEN 1 ELSE 0)
        BY <2>1, CountUpTo
      <4>3. QED
        BY <4>1, <4>2, Zenon DEF BaresTo
    <3>3. QED
      BY <3>1, <3>2
  <2>6. SameFence(i, j) <=> Line(j).kind = Line(i).kind
    BY <1>1 DEF SameFence, Fence
  <2>7. CASE Line(j).kind # Line(i).kind
    <3>1. o[j] = s
      BY <2>2, <2>3, <2>7 DEF NextFences
    <3>2. j \notin Infos(i) /\ j \notin Bares(i)
      BY <2>6, <2>7 DEF Infos, Bares
    <3>3. InfosTo(i, j) = InfosTo(i, j - 1) /\ BaresTo(i, j) = BaresTo(i, j - 1)
      BY <2>4, <2>5, <3>2
    <3>4. QED
      BY <1>4, <2>1, <2>4, <3>1, <3>3
  <2>8. CASE Line(j).kind = Line(i).kind /\ Line(j).info
    <3>1. o[j] = Append(s, Line(j)) /\ Line(j).n = Line(i).n
      BY <2>1, <2>2, <2>3, <2>6, <2>8 DEF NextFences
    <3>2. j \in Infos(i) /\ j \notin Bares(i)
      BY <2>1, <2>6, <2>8 DEF Infos, Bares
    <3>3. /\ Len(o[j]) = n + 1 /\ o[j][n + 1] = Line(j)
          /\ \A x \in 1 .. n : o[j][x] = s[x]
      BY <2>2, <3>1
    <3>4. Alike(o[j])
      <4>1. \A x \in 1 .. Len(o[j]) : x = n + 1 \/ x \in 1 .. n
        BY <2>3, <3>3
      <4>2. QED
        BY <2>2, <2>8, <3>1, <3>3, <4>1
    <3>5. Balanced(j)
      <4>1. InfosTo(i, j) = InfosTo(i, j - 1) + 1
        BY <2>5, <3>2
      <4>2. BaresTo(i, j) = BaresTo(i, j - 1)
        BY <2>4, <2>5, <3>2
      <4>3. Len(o[j]) = n + 1
        BY <3>3
      <4> HIDE DEF n, s
      <4>4. QED
        BY <2>3, <2>4, <4>1, <4>2, <4>3
    <3>6. QED
      BY <2>1, <3>4, <3>5
  <2>9. CASE Line(j).kind = Line(i).kind /\ ~Line(j).info
    <3>1. Line(j).n = Line(i).n /\ Line(j).n \in Nat
      BY <2>1, <2>2, <2>6, <2>9 DEF LineType
    <3>2. o[j] = SubSeq(s, 1, n - 1)
      BY <2>2, <2>3, <2>9, <3>1 DEF NextFences
    <3>3. j \in Bares(i) /\ j \notin Infos(i)
      BY <2>1, <2>6, <2>9 DEF Infos, Bares
    <3>4. /\ Len(o[j]) = n - 1 /\ \A x \in 1 .. (n - 1) : o[j][x] = s[x] /\ x \in 1 .. n
      BY <2>2, <2>3, <3>2
    <3>5. Alike(o[j])
      BY <2>2, <3>4
    <3>6. Balanced(j)
      <4>1. InfosTo(i, j) = InfosTo(i, j - 1) + 0
        BY <2>5, <3>3
      <4>2. BaresTo(i, j) = BaresTo(i, j - 1) + 1
        BY <2>5, <3>3
      <4> HIDE DEF n, s
      <4>3. QED
        BY <2>3, <2>4, <3>4, <4>1, <4>2
    <3>7. QED
      BY <2>1, <3>5, <3>6
  <2>10. QED
    BY <2>7, <2>8, <2>9
<1> HIDE DEF T
<1>5. i .. last \subseteq T
  BY <1>1, <1>3, <1>4, Climb
<1>6. QED
  BY <1>5 DEF T, o

(* CodeEnd: the block goes on until the fences balance.                    *)
LEMMA CodeEndsBalanced ==
  ASSUME doc \in Documents, NEW i \in 1 .. Last, OpensFence(i), NEW last, last = CodeEnd(i),
         \A k \in i .. last : SameFence(i, k) => Line(k).n = Line(i).n
  PROVE  /\ last = Last \/ BaresTo(i, last) = 1 + InfosTo(i, last)
         /\ \A j \in i .. (last - 1) : BaresTo(i, j) < 1 + InfosTo(i, j)
<1> DEFINE o == OpenFences(i)
           C == {k \in (i + 1) .. Last : o[k - 1] # <<>>}
<1>1. Last \in Nat /\ i \in Nat
  BY LinesTyped
<1>2. last = Through(i, C)
  BY DEF CodeEnd
<1>3. last \in i .. Last /\ (i + 1) .. last \subseteq C /\ (last = Last \/ last + 1 \notin C)
  BY <1>2, ThroughStops
<1>4. \A k \in (i + 1) .. last : o[k - 1] # <<>>
  BY <1>3
<1>5. \A j \in i .. last :
           /\ InfosTo(i, j) \in Nat /\ BaresTo(i, j) \in Nat
           /\ Len(o[j]) + BaresTo(i, j) = 1 + InfosTo(i, j)
  BY <1>3, <1>4, FencesBalance
<1>6. \A j \in i .. last : o[j] \in Seq(LineType)
  BY <1>1, <1>3, FencesFollow
<1>7. last = Last \/ o[last] = <<>>
  <2>1. ASSUME last # Last PROVE o[last] = <<>>
    <3>1. last + 1 \in (i + 1) .. Last /\ (last + 1) - 1 = last
      BY <1>1, <1>3, <2>1
    <3>2. QED
      BY <1>3, <2>1, <3>1
  <2>2. QED
    BY <2>1
<1> HIDE DEF o
<1>8. last = Last \/ BaresTo(i, last) = 1 + InfosTo(i, last)
  <2>1. ASSUME o[last] = <<>> PROVE Len(o[last]) = 0 /\ last \in i .. last
    BY <1>1, <1>3, <2>1
  <2>2. QED
    BY <1>5, <1>7, <2>1
<1>9. ASSUME NEW j \in i .. (last - 1) PROVE BaresTo(i, j) < 1 + InfosTo(i, j)
  <2>1. j \in i .. last /\ j + 1 \in (i + 1) .. last /\ (j + 1) - 1 = j
    BY <1>1, <1>3
  <2>2. o[j] # <<>> /\ o[j] \in Seq(LineType)
    BY <1>4, <1>6, <2>1
  <2>3. Len(o[j]) \in Nat \ {0}
    BY <2>2
  <2>4. QED
    BY <1>5, <2>1, <2>3
<1>10. QED
  BY <1>8, <1>9

----------------------------------------------------------------------------
(* The blocks as the stages that follow the scanner see them: sets and     *)
(* functions of the file and its blocks alone, which no later stage        *)
(* changes.                                                                *)
CodeWhole(x) ==
  x.kind = "code" /\ (\A k \in x.first .. x.last : SameFence(x.first, k) => Line(k).n = Line(x.first).n)
    => /\ x.last = Last \/ BaresTo(x.first, x.last) = 1 + InfosTo(x.first, x.last)
       /\ \A j \in x.first .. (x.last - 1) : BaresTo(x.first, j) < 1 + InfosTo(x.first, j)
GoodBlocks ==
  {x \in BlockType : /\ x.first \in 1 .. Last /\ x.last \in x.first .. Last
                     /\ x.kind = "heading" => Heading(x.first)
                     /\ CodeWhole(x)}
Headings == {b \in 1 .. Len(blocks) : IsHeading(b)}
LooseBlocks == {b \in 1 .. Len(blocks) : Loose(b)}
Weights == [b \in 1 .. Len(blocks) |-> BlockTokens(b)]
Packed == [r \in (1 .. Len(blocks)) \X (1 .. Len(blocks)) |-> PackedTokens([from |-> r[1], to |-> r[2]])]

(* A section: a heading or the start of the file, and no other heading;    *)
(* its path is as AncestryUpTo says.                                       *)
WholeSections ==
  {s \in SectionType : /\ s.from \in 1 .. Len(blocks) /\ s.to \in s.from .. Len(blocks)
                       /\ s.from = 1 \/ IsHeading(s.from)
                       /\ \A b \in (s.from + 1) .. s.to : ~IsHeading(b)
                       /\ AncestryUpTo(s.heading_path, s.from)}
(* The blocks in hand: over the limit only if they are one block.          *)
GoodRuns ==
  {r \in [from : Nat, to : Nat] :
     /\ r.from \in 1 .. Len(blocks) /\ r.to \in r.from .. Len(blocks)
     /\ PackedTokens(r) > MaxTokens => r.from = r.to}
GoodChunks ==
  {c \in ChunkType : /\ c.from \in 1 .. Len(blocks) /\ c.to \in c.from .. Len(blocks)
                     /\ PackedTokens(c) \in Int
                     /\ PackedTokens(c) > MaxTokens => c.from = c.to
                     /\ PackedTokens(c) <= c.tokens /\ c.tokens <= PackedTokens(c) + Joins(c)
                     /\ AncestryUpTo(c.heading_path, c.from)}

(* What may come next after chunk c.                                       *)
Precedes(c, b) ==
  c.to < b /\ (c.to + 1 = b /\ b \notin Headings => Packed[<<c.from, c.to>>] + Weights[b] > MaxTokens)
Held == {b \in 1 .. Len(blocks) : \E k \in 1 .. Len(chunks) : Holds(chunks[k], b)}

ScanInv ==
  /\ stage \in {"frontmatter", "refused"} => blocks = <<>> /\ place = 1
  /\ stage = "scan" => /\ place <= Last + 1
                       /\ \A b \in 1 .. Len(blocks) : blocks[b].last < place
  /\ \A b \in 1 .. Len(blocks) : blocks[b] \in GoodBlocks
  /\ \A b \in 1 .. (Len(blocks) - 1) : blocks[b].last < blocks[b + 1].first
  /\ \A i \in 1 .. Last :
       \/ Blank(i) \/ (stage = "scan" /\ i >= place) \/ stage \in {"frontmatter", "refused"}
       \/ \E b \in 1 .. Len(blocks) : blocks[b].first <= i /\ i <= blocks[b].last

(* Sections come in order; a block before the section in hand is in one.   *)
GroupInv ==
  /\ stage \in {"frontmatter", "refused", "scan"} =>
       sections = <<>> /\ path = <<>> /\ current = [heading_path |-> <<>>, from |-> 1, to |-> 0]
  /\ \A k \in 1 .. Len(sections) : sections[k] \in WholeSections
  /\ \A k, m \in 1 .. Len(sections) : k < m => sections[k].to < sections[m].from
  /\ stage = "group" =>
       /\ place <= Len(blocks) + 1 /\ current.to = place - 1 /\ current.heading_path = path
       /\ \/ place = 1 /\ path = <<>> /\ current.from = 1
          \/ current \in WholeSections
       /\ \A k \in 1 .. Len(sections) : sections[k].to < current.from
       /\ \A b \in 1 .. Len(blocks) : b < current.from =>
            b \in LooseBlocks \/ \E k \in 1 .. Len(sections) : Holds(sections[k], b)
  /\ stage \in {"chunk", "pack", "done"} =>
       \A b \in 1 .. Len(blocks) :
         b \in LooseBlocks \/ \E k \in 1 .. Len(sections) : Holds(sections[k], b)

(* Chunks come in order, and fill the limit; the blocks of the sections    *)
(* before this one are in chunks, and so are those of this one before the  *)
(* blocks in hand.                                                         *)
PackInv ==
  /\ stage \in {"frontmatter", "refused", "scan", "group"} => chunks = <<>>
  /\ \A k \in 1 .. Len(chunks) : chunks[k] \in GoodChunks
  /\ \A k \in 1 .. (Len(chunks) - 1) : Precedes(chunks[k], chunks[k + 1].from)
  /\ stage \in {"chunk", "pack", "done"} =>
       \A k \in 1 .. Len(sections) : k < place =>
         \A b \in sections[k].from .. sections[k].to : b \in Held
  /\ stage = "chunk" => \A m \in 1 .. Len(sections), k \in 1 .. Len(chunks) :
                          m >= place => chunks[k].to < sections[m].from
  /\ stage = "done" => place > Len(sections)
  /\ stage = "pack" =>
       /\ place <= Len(sections)
       /\ Section.from <= buf.from /\ buf.from <= Section.to /\ buf.to <= Section.to
       /\ buf = NoBlocks(Section.from) \/ buf \in GoodRuns
       /\ \A b \in Section.from .. (buf.from - 1) : b \in Held
       /\ \A k \in 1 .. Len(chunks) : chunks[k].to < buf.from
       /\ chunks # <<>> => Precedes(chunks[Len(chunks)], buf.from)

ChunkingInv == ChunkingType /\ ScanInv /\ GroupInv /\ PackInv

(* The joins of a range of blocks are counted.                             *)
LEMMA JoinsCounted ==
  ASSUME NEW s, s.from \in Nat, s.to \in Nat, s.from <= s.to
  PROVE  Joins(s) \in Nat
<1>1. s.to - s.from \in Nat
  OBVIOUS
<1>2. \A n \in Nat : Glue * n \in Nat
  BY GlueAssumption
<1>3. QED
  BY <1>1, <1>2 DEF Joins

(* A chunk has the tokens of the blocks it was made from.                  *)
LEMMA SameRange ==
  ASSUME NEW s, NEW t, s.from = t.from, s.to = t.to
  PROVE  PackedTokens(s) = PackedTokens(t) /\ Joins(s) = Joins(t)
BY Zenon DEF PackedTokens, Joins

(* What is said of Packed, which the later stages leave alone, is said of  *)
(* the tokens of a range.                                                  *)
LEMMA PackedIsTokens ==
  ASSUME NEW s, s.from \in 1 .. Len(blocks), s.to \in 1 .. Len(blocks)
  PROVE  Packed[<<s.from, s.to>>] = PackedTokens(s)
<1>1. PICK t : t = [from |-> s.from, to |-> s.to]
  OBVIOUS
<1>2. <<s.from, s.to>> \in (1 .. Len(blocks)) \X (1 .. Len(blocks))
      /\ <<s.from, s.to>>[1] = s.from /\ <<s.from, s.to>>[2] = s.to
  OBVIOUS
<1>3. Packed[<<s.from, s.to>>] = PackedTokens(t)
  BY <1>1, <1>2, Zenon DEF Packed
<1>4. t.from = s.from /\ t.to = s.to
  BY <1>1
<1>5. PackedTokens(t) = PackedTokens(s)
  BY <1>4, SameRange
<1>6. QED
  BY <1>3, <1>5

(* What the stages after the scanner see of the blocks stays.              *)
LEMMA LinesStay ==
  ASSUME doc' = doc
  PROVE  /\ Last' = Last
         /\ \A i : Line(i)' = Line(i)
         /\ GoodBlocks' = GoodBlocks
<1>1. Last' = Last /\ \A i : Line(i)' = Line(i)
  BY DEF Last, Lines, Line
<1>2. GoodBlocks' = GoodBlocks
  BY ZenonT(40) DEF GoodBlocks, CodeWhole, InfosTo, BaresTo, Infos, Bares, SameFence, Fence, Heading,
     Last, Lines, Line
<1>3. QED
  BY <1>1, <1>2

(* So do the headings, the weights, and what is whole or good.             *)
LEMMA BlocksStay ==
  ASSUME doc' = doc, blocks' = blocks
  PROVE  /\ Headings' = Headings /\ LooseBlocks' = LooseBlocks /\ Weights' = Weights
         /\ WholeSections' = WholeSections /\ GoodRuns' = GoodRuns /\ GoodChunks' = GoodChunks
         /\ Packed' = Packed
<1>1. Headings' = Headings /\ LooseBlocks' = LooseBlocks
  BY Zenon DEF Headings, LooseBlocks, Loose, IsHeading
<1>2. Weights' = Weights /\ \A b : BlockTokens(b)' = BlockTokens(b)
  <2>1. TokensTo' = TokensTo
    BY Zenon DEF TokensTo, Last, Lines, Line
  <2>2. \A b : BlockTokens(b)' = BlockTokens(b)
    BY <2>1 DEF BlockTokens
  <2>3. Weights' = Weights
    BY <2>1, Zenon DEF Weights, BlockTokens
  <2>4. QED
    BY <2>2, <2>3
<1>3. WholeSections' = WholeSections
  BY ZenonT(40) DEF WholeSections, AncestryUpTo, Ancestors, LevelSkipped, Entries, IsHeading, Level,
    Last, Lines, Line
<1>4. \A r : PackedTokens(r)' = PackedTokens(r)
  BY <1>2, Zenon DEF PackedTokens
<1>5. GoodRuns' = GoodRuns
  BY <1>4, Zenon DEF GoodRuns
<1>6. GoodChunks' = GoodChunks
  BY <1>4, ZenonT(40) DEF GoodChunks, Joins, AncestryUpTo, Ancestors, LevelSkipped, Entries,
    IsHeading, Level, Last, Lines, Line
<1>7. Packed' = Packed
  BY <1>4, Zenon DEF Packed
<1>8. QED
  BY <1>1, <1>2, <1>3, <1>5, <1>6, <1>7

(* A file not yet looked at: no blocks, no sections, no chunks.            *)
LEMMA ChunkingStarts ==
  ASSUME ChunkingInit
  PROVE  ChunkingInv
<1>1. ChunkingType
  BY DEF ChunkingInit, Unparsed, NoBlocks, ChunkingType, SectionType
<1>2. Len(blocks) = 0 /\ Len(sections) = 0 /\ Len(chunks) = 0
  BY DEF ChunkingInit, Unparsed
<1>3. 1 .. 0 = {} /\ 1 .. (0 - 1) = {}
  OBVIOUS
<1>4. ScanInv
  BY <1>2, <1>3 DEF ChunkingInit, Unparsed, ScanInv
<1>5. GroupInv
  BY <1>2, <1>3 DEF ChunkingInit, Unparsed, GroupInv
<1>6. PackInv
  BY <1>2, <1>3 DEF ChunkingInit, Unparsed, PackInv
<1>7. QED
  BY <1>1, <1>4, <1>5, <1>6 DEF ChunkingInv

(* CheckFrontmatter.                                                       *)
LEMMA FrontmatterKeeps ==
  ASSUME ChunkingInv, CheckFrontmatter
  PROVE  ChunkingInv'
<1>1. /\ doc' = doc /\ blocks' = blocks /\ place' = place /\ path' = path /\ current' = current
      /\ sections' = sections /\ buf' = buf /\ chunks' = chunks
      /\ stage = "frontmatter" /\ stage' \in {"refused", "scan"}
  BY DEF CheckFrontmatter
<1>2. /\ blocks = <<>> /\ place = 1 /\ sections = <<>> /\ path = <<>> /\ chunks = <<>>
      /\ current = [heading_path |-> <<>>, from |-> 1, to |-> 0]
      /\ Last \in Nat
  BY <1>1, LinesTyped DEF ChunkingInv, ChunkingType, ScanInv, GroupInv, PackInv
<1>3. Len(blocks) = 0 /\ Len(sections) = 0 /\ Len(chunks) = 0
  BY <1>2
<1>4. 1 .. 0 = {} /\ 1 .. (0 - 1) = {} /\ \A i \in 1 .. Last : i >= 1
  BY <1>2
<1>5. Last' = Last
  BY <1>1, LinesStay
<1>6. ChunkingType'
  BY <1>1 DEF ChunkingInv, ChunkingType
<1>7. ScanInv'
  BY <1>1, <1>2, <1>3, <1>4, <1>5 DEF ScanInv
<1>8. GroupInv'
  BY <1>1, <1>2, <1>3, <1>4 DEF GroupInv
<1>9. PackInv'
  BY <1>1, <1>2, <1>3, <1>4 DEF PackInv
<1>10. QED
  BY <1>6, <1>7, <1>8, <1>9 DEF ChunkingInv

(* The scanner leaves what the other stages keep alone.                    *)
LEMMA ScanningKeeps ==
  ASSUME ChunkingInv, stage = "scan", stage' \in {"scan", "group"}, doc' = doc,
         path' = path, current' = current, sections' = sections, buf' = buf, chunks' = chunks,
         stage' = "group" => place' = 1,
         place' \in Nat \ {0}, blocks' \in Seq(BlockType)
  PROVE  ChunkingType' /\ GroupInv' /\ PackInv'
<1>1. /\ sections = <<>> /\ path = <<>> /\ chunks = <<>>
      /\ current = [heading_path |-> <<>>, from |-> 1, to |-> 0]
  BY DEF ChunkingInv, GroupInv, PackInv
<1>2. Len(sections) = 0 /\ Len(chunks) = 0 /\ current.from = 1 /\ current.to = 0 /\ current.heading_path = <<>>
  BY <1>1
<1>3. 1 .. 0 = {} /\ 1 .. (0 - 1) = {} /\ Len(blocks') \in Nat /\ 1 - 1 = 0
      /\ 1 <= Len(blocks') + 1 /\ \A b \in 1 .. Len(blocks') : ~(b < 1)
  OBVIOUS
<1>4. ChunkingType'
  BY DEF ChunkingInv, ChunkingType
<1>5. GroupInv'
  BY <1>1, <1>2, <1>3 DEF GroupInv
<1>6. PackInv'
  BY <1>1, <1>2, <1>3 DEF PackInv
<1>7. QED
  BY <1>4, <1>5, <1>6

(* SkipBlank: the line passed over is blank.                               *)
LEMMA SkipBlankKeeps ==
  ASSUME ChunkingInv, SkipBlank
  PROVE  ChunkingInv'
<1>1. /\ doc' = doc /\ blocks' = blocks /\ stage = "scan" /\ stage' = "scan" /\ place' = place + 1
      /\ place <= Last /\ Blank(place)
  BY DEF SkipBlank
<1>2. place \in Nat \ {0} /\ Last \in Nat /\ blocks \in Seq(BlockType)
  BY LinesTyped DEF ChunkingInv, ChunkingType
<1>3. ChunkingType' /\ GroupInv' /\ PackInv'
  <2>1. place + 1 \in Nat \ {0}
    BY <1>2
  <2>2. QED
    BY <1>1, <1>2, <2>1, ScanningKeeps DEF SkipBlank
<1>4. Last' = Last /\ GoodBlocks' = GoodBlocks /\ \A i : Line(i)' = Line(i)
  BY <1>1, LinesStay
<1>5. \A b \in 1 .. Len(blocks) : blocks[b].last < place + 1
  <2>1. \A b \in 1 .. Len(blocks) : blocks[b].last \in Nat
    <3>1. \A b \in 1 .. Len(blocks) : blocks[b] \in BlockType
      BY <1>2
    <3>2. QED
      BY <3>1 DEF BlockType
  <2>2. QED
    BY <1>1, <1>2, <2>1 DEF ChunkingInv, ScanInv
<1>6. \A i \in 1 .. Last :
        \/ Blank(i) \/ i >= place + 1
        \/ \E b \in 1 .. Len(blocks) : blocks[b].first <= i /\ i <= blocks[b].last
  <2>1. \A i \in 1 .. Last : i >= place => i = place \/ i >= place + 1
    BY <1>2
  <2>2. QED
    BY <1>1, <2>1 DEF ChunkingInv, ScanInv
<1>7. ScanInv'
  <2>1. place + 1 <= Last + 1
    BY <1>1, <1>2
  <2>2. QED
    BY <1>1, <1>4, <1>5, <1>6, <2>1 DEF ChunkingInv, ScanInv, Blank
<1>8. QED
  BY <1>3, <1>7 DEF ChunkingInv

(* TakeBlock: the new block starts at this line, after the others.         *)
LEMMA TakeBlockKeeps ==
  ASSUME ChunkingInv, TakeBlock
  PROVE  ChunkingInv'
<1>1. PICK x : x = BlockAt(place)
  OBVIOUS
<1>2. /\ doc' = doc /\ stage = "scan" /\ stage' = "scan" /\ place <= Last
      /\ blocks' = Append(blocks, x) /\ place' = x.last + 1
  BY <1>1 DEF TakeBlock
<1>3. place \in Nat \ {0} /\ Last \in Nat /\ blocks \in Seq(BlockType) /\ place \in 1 .. Last /\ doc \in Documents
  BY <1>2, LinesTyped DEF ChunkingInv, ChunkingType
<1>4. /\ x \in BlockType /\ x.first = place /\ x.last \in place .. Last
      /\ x.kind = "heading" => Heading(place)
      /\ x.kind = "code" => OpensFence(place) /\ x.last = CodeEnd(place)
  BY <1>1, <1>3, BlockEnds
<1>5. x \in GoodBlocks
  <2>1. CodeWhole(x)
    BY <1>3, <1>4, CodeEndsBalanced DEF CodeWhole
  <2>2. QED
    BY <1>3, <1>4, <2>1 DEF GoodBlocks
<1>6. ChunkingType' /\ GroupInv' /\ PackInv'
  <2>1. x.last + 1 \in Nat \ {0}
    BY <1>3, <1>4
  <2>2. Append(blocks, x) \in Seq(BlockType)
    BY <1>3, <1>4
  <2>3. QED
    BY <1>2, <2>1, <2>2, ScanningKeeps DEF TakeBlock
<1>7. Last' = Last /\ GoodBlocks' = GoodBlocks /\ \A i : Line(i)' = Line(i)
  BY <1>2, LinesStay
<1> DEFINE n == Len(blocks)
<1>8. /\ n \in Nat /\ Len(blocks') = n + 1 /\ blocks'[n + 1] = x
      /\ \A b \in 1 .. n : blocks'[b] = blocks[b]
      /\ \A b \in 1 .. (n + 1) : b \in 1 .. n \/ b = n + 1
      /\ 1 .. n \subseteq 1 .. (n + 1) /\ n + 1 \in 1 .. (n + 1)
  BY <1>2, <1>3
<1>9. \A b \in 1 .. n : /\ blocks[b] \in GoodBlocks /\ blocks[b].last < place
                        /\ blocks[b].last \in Nat
  <2>1. \A b \in 1 .. n : blocks[b] \in BlockType
    BY <1>3
  <2>2. \A b \in 1 .. n : blocks[b].last \in Nat
    BY <2>1 DEF BlockType
  <2>3. QED
    BY <1>2, <2>2 DEF ChunkingInv, ScanInv
<1>10. \A i \in 1 .. Last :
         \/ Blank(i) \/ i >= place
         \/ \E b \in 1 .. n : blocks[b].first <= i /\ i <= blocks[b].last
  BY <1>2 DEF ChunkingInv, ScanInv
<1>11. \A b \in 1 .. (n - 1) : blocks[b].last < blocks[b + 1].first
  BY DEF ChunkingInv, ScanInv
<1> HIDE DEF n
<1>12. \A b \in 1 .. (n + 1) : blocks'[b] \in GoodBlocks
  BY <1>5, <1>8, <1>9
<1>13. \A b \in 1 .. (n + 1) : blocks'[b].last < x.last + 1
  BY <1>3, <1>4, <1>8, <1>9
<1>14. \A b \in 1 .. n : blocks'[b].last < blocks'[b + 1].first
  <2>1. ASSUME NEW b \in 1 .. n PROVE blocks'[b].last < blocks'[b + 1].first
    <3>1. CASE b = n
      BY <1>4, <1>8, <1>9, <3>1
    <3>2. CASE b # n
      <4>1. b \in 1 .. (n - 1) /\ b + 1 \in 1 .. n
        BY <1>8, <3>2
      <4>2. QED
        BY <1>8, <1>11, <4>1
    <3>3. QED
      BY <3>1, <3>2
  <2>2. QED
    BY <2>1
<1>15. \A i \in 1 .. Last :
         \/ Blank(i) \/ i >= x.last + 1
         \/ \E b \in 1 .. (n + 1) : blocks'[b].first <= i /\ i <= blocks'[b].last
  <2>1. ASSUME NEW i \in 1 .. Last, ~Blank(i), ~(i >= x.last + 1)
        PROVE  \E b \in 1 .. (n + 1) : blocks'[b].first <= i /\ i <= blocks'[b].last
    <3>1. CASE i >= place
      <4>1. x.first <= i /\ i <= x.last
        BY <1>3, <1>4, <2>1, <3>1
      <4>2. QED
        BY <1>8, <4>1
    <3>2. CASE ~(i >= place)
      <4>1. PICK b \in 1 .. n : blocks[b].first <= i /\ i <= blocks[b].last
        BY <1>10, <2>1, <3>2
      <4>2. QED
        BY <1>8, <4>1
    <3>3. QED
      BY <3>1, <3>2
  <2>2. QED
    BY <2>1
<1>16. ScanInv'
  <2>1. x.last + 1 <= Last + 1 /\ (n + 1) - 1 = n
    BY <1>3, <1>4, <1>8
  <2>2. \A i \in 1 .. Last' :
          \/ Blank(i)' \/ (stage' = "scan" /\ i >= place') \/ stage' \in {"frontmatter", "refused"}
          \/ \E b \in 1 .. Len(blocks') : blocks'[b].first <= i /\ i <= blocks'[b].last
    BY <1>2, <1>7, <1>8, <1>15 DEF Blank
  <2>3. \A b \in 1 .. (Len(blocks') - 1) : blocks'[b].last < blocks'[b + 1].first
    BY <1>8, <1>14, <2>1
  <2>4. QED
    BY <1>2, <1>7, <1>8, <1>12, <1>13, <2>1, <2>2, <2>3 DEF ScanInv
<1>17. QED
  BY <1>6, <1>16 DEF ChunkingInv

(* EndScan: no line is left.                                               *)
LEMMA EndScanKeeps ==
  ASSUME ChunkingInv, EndScan
  PROVE  ChunkingInv'
<1>1. /\ doc' = doc /\ blocks' = blocks /\ stage = "scan" /\ stage' = "group" /\ place' = 1
      /\ place > Last
  BY DEF EndScan
<1>2. place \in Nat \ {0} /\ Last \in Nat /\ blocks \in Seq(BlockType) /\ 1 \in Nat \ {0}
  BY LinesTyped DEF ChunkingInv, ChunkingType
<1>3. ChunkingType' /\ GroupInv' /\ PackInv'
  BY <1>1, <1>2, ScanningKeeps DEF EndScan
<1>4. Last' = Last /\ GoodBlocks' = GoodBlocks /\ \A i : Line(i)' = Line(i)
  BY <1>1, LinesStay
<1>5. \A i \in 1 .. Last : ~(i >= place)
  BY <1>1, <1>2
<1>6. ScanInv'
  BY <1>1, <1>4, <1>5 DEF ChunkingInv, ScanInv, Blank
<1>7. QED
  BY <1>3, <1>6 DEF ChunkingInv

(* After the scan the blocks stay as they are.                             *)
LEMMA BlocksScanned ==
  ASSUME ScanInv, doc' = doc, blocks' = blocks, stage \in {"group", "chunk", "pack", "done"},
         stage' \in {"group", "chunk", "pack", "done"}
  PROVE  ScanInv'
<1>1. Last' = Last /\ GoodBlocks' = GoodBlocks /\ \A i : Line(i)' = Line(i)
  BY LinesStay
<1>2. \A i \in 1 .. Last' : Blank(i)' \/ \E b \in 1 .. Len(blocks') : blocks'[b].first <= i /\ i <= blocks'[b].last
  BY <1>1 DEF ScanInv, Blank
<1>3. QED
  BY <1>1, <1>2 DEF ScanInv

(* Every heading among the blocks has a level.                             *)
LEMMA LevelsTyped ==
  ASSUME ChunkingInv
  PROVE  \A b \in 1 .. Len(blocks) : IsHeading(b) => Level(b) \in Nat \ {0}
<1>1. ASSUME NEW b \in 1 .. Len(blocks), IsHeading(b) PROVE Level(b) \in Nat \ {0}
  <2>1. blocks[b] \in GoodBlocks
    BY DEF ChunkingInv, ScanInv
  <2>2. blocks[b].first \in 1 .. Last /\ Heading(blocks[b].first)
    BY <1>1, <2>1 DEF GoodBlocks, IsHeading
  <2>3. Line(blocks[b].first) \in LineType /\ Line(blocks[b].first).n > 0
    BY <2>2, LinesTyped DEF ChunkingInv, ChunkingType
  <2>4. QED
    BY <2>3 DEF Level, LineType
<1>2. QED
  BY <1>1

(* The stack of headings is as AncestryUpTo says of the block before.      *)
LEMMA PathIsAncestry ==
  ASSUME ChunkingInv, stage = "group"
  PROVE  AncestryUpTo(path, place - 1)
<1>1. /\ place \in Nat \ {0} /\ path \in Seq(Nat) /\ current \in SectionType
      /\ current.to = place - 1 /\ current.heading_path = path
      /\ (place = 1 /\ path = <<>>) \/ current \in WholeSections
  BY DEF ChunkingInv, ChunkingType, GroupInv
<1>2. CASE place = 1 /\ path = <<>>
  <2>1. 1 .. (place - 1) = {} /\ 1 .. Len(path) = {}
    BY <1>2
  <2>2. Ancestors(place - 1) = {}
    BY <2>1 DEF Ancestors
  <2>3. QED
    BY <2>1, <2>2 DEF AncestryUpTo
<1>3. CASE current \in WholeSections
  <2>1. /\ current.from \in Nat /\ current.to \in Nat /\ current.from <= current.to
        /\ \A b \in (current.from + 1) .. current.to : ~IsHeading(b)
        /\ AncestryUpTo(path, current.from)
    BY <1>1, <1>3 DEF WholeSections, SectionType
  <2>2. AncestryUpTo(path, current.to)
    BY <1>1, <2>1, AncestryPlain
  <2>3. QED
    BY <1>1, <2>2
<1>4. QED
  BY <1>1, <1>2, <1>3

(* Closed: the sections once the one in hand is closed, at a heading or at *)
(* the end of the blocks.                                                  *)
LEMMA ClosedSections ==
  ASSUME ChunkingInv, stage = "group", place > Len(blocks) \/ IsHeading(place), NEW ss, ss = Closed
  PROVE  /\ ss \in Seq(SectionType)
         /\ \A k \in 1 .. Len(ss) : ss[k] \in WholeSections /\ ss[k].to < place
         /\ \A k, m \in 1 .. Len(ss) : k < m => ss[k].to < ss[m].from
         /\ \A b \in 1 .. Len(blocks) : b < place =>
              b \in LooseBlocks \/ \E k \in 1 .. Len(ss) : Holds(ss[k], b)
<1> DEFINE n == Len(sections)
           E == Len(blocks)
<1>1. /\ place \in Nat \ {0} /\ n \in Nat /\ E \in Nat /\ place <= E + 1
      /\ current \in SectionType /\ sections \in Seq(SectionType)
      /\ current.from \in Nat /\ current.to = place - 1
      /\ (place = 1 /\ current.from = 1) \/ current \in WholeSections
  BY DEF ChunkingInv, ChunkingType, GroupInv, SectionType
<1>2. /\ \A k \in 1 .. n : sections[k] \in WholeSections /\ sections[k].to < current.from
      /\ \A k, m \in 1 .. n : k < m => sections[k].to < sections[m].from
      /\ \A b \in 1 .. E : b < current.from =>
           b \in LooseBlocks \/ \E k \in 1 .. n : Holds(sections[k], b)
  BY DEF ChunkingInv, GroupInv
<1>3. \A s \in WholeSections : /\ s.from \in 1 .. E /\ s.to \in s.from .. E
                               /\ \A b \in (s.from + 1) .. s.to : ~IsHeading(b)
  BY DEF WholeSections
<1>4. ss = IF HasBody(current) THEN Append(sections, current) ELSE sections
  BY DEF Closed
<1>5. current.from <= place
  BY <1>1, <1>3
<1> HIDE DEF n, E
<1>6. \A k \in 1 .. n : sections[k].to < place
  BY <1>1, <1>2, <1>3, <1>5
<1>7. CASE HasBody(current)
  <2>1. current \in WholeSections
    <3>1. ASSUME place = 1, current.from = 1 PROVE FALSE
      <4>1. current.from .. current.to = {}
        BY <1>1, <3>1
      <4>2. QED
        BY <1>7, <4>1 DEF HasBody
    <3>2. QED
      BY <1>1, <3>1
  <2>2. ss = Append(sections, current)
    BY <1>4, <1>7
  <2>3. /\ ss \in Seq(SectionType) /\ Len(ss) = n + 1 /\ ss[n + 1] = current
        /\ \A k \in 1 .. n : ss[k] = sections[k]
        /\ \A k \in 1 .. (n + 1) : k = n + 1 \/ k \in 1 .. n
        /\ n + 1 \in 1 .. (n + 1) /\ 1 .. n \subseteq 1 .. (n + 1)
    BY <1>1, <2>2 DEF n
  <2>4. \A k \in 1 .. Len(ss) : ss[k] \in WholeSections /\ ss[k].to < place
    BY <1>1, <1>2, <1>6, <2>1, <2>3
  <2>5. \A k, m \in 1 .. Len(ss) : k < m => ss[k].to < ss[m].from
    <3>1. ASSUME NEW k \in 1 .. (n + 1), NEW m \in 1 .. (n + 1), k < m PROVE ss[k].to < ss[m].from
      <4>1. k \in 1 .. n
        BY <1>1, <3>1
      <4>2. QED
        BY <1>2, <2>3, <3>1, <4>1
    <3>2. QED
      BY <2>3, <3>1
  <2>6. ASSUME NEW b \in 1 .. E, b < place
        PROVE  b \in LooseBlocks \/ \E k \in 1 .. Len(ss) : Holds(ss[k], b)
    <3>1. CASE b < current.from
      BY <1>2, <2>3, <3>1
    <3>2. CASE ~(b < current.from)
      <4>1. Holds(current, b)
        BY <1>1, <2>6, <3>2 DEF Holds
      <4>2. QED
        BY <2>3, <4>1
    <3>3. QED
      BY <3>1, <3>2
  <2>7. QED
    BY <2>3, <2>4, <2>5, <2>6 DEF E
<1>8. CASE ~HasBody(current)
  <2>1. ss = sections
    BY <1>4, <1>8
  <2>2. ASSUME NEW b \in 1 .. E, b < place
        PROVE  b \in LooseBlocks \/ \E k \in 1 .. Len(ss) : Holds(ss[k], b)
    <3>1. CASE b < current.from
      BY <1>2, <2>1, <3>1 DEF n
    <3>2. CASE ~(b < current.from)
      <4>1. b \in current.from .. current.to /\ current \in WholeSections
        BY <1>1, <2>2, <3>2
      <4>2. \A x \in current.from .. current.to : IsHeading(x)
        BY <1>8 DEF HasBody
      <4>3. current.to = current.from
        <5>1. current.to # current.from => current.to \in (current.from + 1) .. current.to
                                           /\ current.to \in current.from .. current.to
          BY <1>1, <1>3, <4>1
        <5>2. QED
          BY <1>3, <4>1, <4>2, <5>1
      <4>4. b + 1 = place /\ IsHeading(b)
        BY <1>1, <4>1, <4>2, <4>3
      <4>5. b = E \/ IsHeading(b + 1)
        BY <1>1, <4>4 DEF E
      <4>6. QED
        BY <4>4, <4>5 DEF LooseBlocks, Loose, E
    <3>3. QED
      BY <3>1, <3>2
  <2>3. QED
    BY <1>1, <1>2, <1>6, <2>1, <2>2 DEF n, E
<1>9. QED
  BY <1>7, <1>8

(* StartSection: the stack grows by the heading.                           *)
LEMMA StartSectionKeeps ==
  ASSUME ChunkingInv, StartSection
  PROVE  ChunkingInv'
<1> DEFINE E == Len(blocks)
<1>1. /\ doc' = doc /\ blocks' = blocks /\ stage = "group" /\ stage' = "group" /\ place' = place + 1
      /\ place <= E /\ IsHeading(place) /\ buf' = buf /\ chunks' = chunks /\ sections' = Closed
      /\ path' = Append(Kept(Level(place)), place)
      /\ current' = [heading_path |-> path', from |-> place, to |-> place]
  BY DEF StartSection
<1>2. place \in Nat \ {0} /\ E \in Nat /\ place \in 1 .. E /\ path \in Seq(Nat) /\ ChunkingType
  BY <1>1 DEF ChunkingInv, ChunkingType
<1>3. AncestryUpTo(path, place - 1)
  BY <1>1, PathIsAncestry
<1>4. PICK m \in Nat : m = IF Level(place) - 1 < Len(path) THEN Level(place) - 1 ELSE Len(path)
  BY <1>1, <1>2, LevelsTyped
<1>5. path' = Append(SubSeq(path, 1, m), place) /\ path' \in Seq(Nat)
  <2>1. path' = Append(SubSeq(path, 1, m), place)
    BY <1>1, <1>4 DEF Kept
  <2>2. m <= Len(path)
    BY <1>1, <1>2, <1>4, LevelsTyped
  <2>3. SubSeq(path, 1, m) \in Seq(Nat)
    BY <1>2, <2>2
  <2>4. QED
    BY <1>2, <2>1, <2>3
<1>6. PICK b \in Nat : b = place - 1 /\ b + 1 = place
  BY <1>2
<1>7. AncestryUpTo(path', place)
  <2>1. AncestryUpTo(path, b) /\ IsHeading(b + 1)
    BY <1>1, <1>3, <1>6
  <2>2. \A k \in 1 .. (b + 1) : IsHeading(k) => Level(k) \in Nat \ {0}
    <3>1. \A k \in 1 .. (b + 1) : k \in 1 .. E
      BY <1>2, <1>6
    <3>2. QED
      BY <3>1, LevelsTyped
  <2>3. m = IF Level(b + 1) - 1 < Len(path) THEN Level(b + 1) - 1 ELSE Len(path)
    BY <1>4, <1>6
  <2>4. PICK p \in Seq(Nat) : p = path
    BY <1>2
  <2>5. AncestryUpTo(Append(SubSeq(p, 1, m), b + 1), b + 1)
    BY <2>1, <2>2, <2>3, <2>4, AncestryPush
  <2>6. Append(SubSeq(p, 1, m), b + 1) = path' /\ b + 1 = place
    BY <1>5, <1>6, <2>4
  <2> HIDE DEF E
  <2>7. QED
    BY <2>5, <2>6, Zenon
<1>8. current' \in SectionType /\ current'.from = place /\ current'.to = place /\ current'.heading_path = path'
  BY <1>1, <1>2, <1>5 DEF SectionType
<1>9. current' \in WholeSections
  <2>1. (place + 1) .. place = {} /\ place \in place .. E
    BY <1>2
  <2>2. QED
    BY <1>1, <1>2, <1>7, <1>8, <2>1 DEF WholeSections
<1>10. /\ sections' \in Seq(SectionType)
       /\ \A k \in 1 .. Len(sections') : sections'[k] \in WholeSections /\ sections'[k].to < place
       /\ \A k, n \in 1 .. Len(sections') : k < n => sections'[k].to < sections'[n].from
       /\ \A x \in 1 .. E : x < place =>
            x \in LooseBlocks \/ \E k \in 1 .. Len(sections') : Holds(sections'[k], x)
  BY <1>1, ClosedSections
<1>11. WholeSections' = WholeSections /\ LooseBlocks' = LooseBlocks
  BY <1>1, BlocksStay
<1>12. ChunkingType'
  BY <1>1, <1>2, <1>5, <1>8, <1>10 DEF ChunkingType
<1>13. ScanInv'
  BY <1>1, BlocksScanned DEF ChunkingInv
<1>14. GroupInv'
  <2>1. place + 1 <= E + 1 /\ (place + 1) - 1 = place
    BY <1>2
  <2>2. QED
    BY <1>1, <1>8, <1>9, <1>10, <1>11, <2>1 DEF GroupInv, Holds
<1>15. PackInv'
  <2>1. chunks' = <<>>
    BY <1>1 DEF ChunkingInv, PackInv
  <2>2. Len(chunks') = 0 /\ 1 .. 0 = {} /\ 1 .. (0 - 1) = {}
    BY <2>1
  <2>3. QED
    BY <1>1, <2>1, <2>2 DEF PackInv
<1>16. QED
  BY <1>12, <1>13, <1>14, <1>15 DEF ChunkingInv

(* ExtendSection: a block that is no heading joins.                        *)
LEMMA ExtendSectionKeeps ==
  ASSUME ChunkingInv, ExtendSection
  PROVE  ChunkingInv'
<1> DEFINE E == Len(blocks)
<1>1. /\ doc' = doc /\ blocks' = blocks /\ stage = "group" /\ stage' = "group" /\ place' = place + 1
      /\ place <= E /\ ~IsHeading(place) /\ buf' = buf /\ chunks' = chunks /\ sections' = sections
      /\ path' = path /\ current' = [current EXCEPT !.to = place]
  BY DEF ExtendSection
<1>2. /\ place \in Nat \ {0} /\ E \in Nat /\ place \in 1 .. E /\ path \in Seq(Nat)
      /\ current \in SectionType /\ ChunkingType
  BY <1>1 DEF ChunkingInv, ChunkingType
<1>3. /\ current' \in SectionType /\ current'.from = current.from /\ current'.to = place
      /\ current'.heading_path = current.heading_path
  BY <1>1, <1>2 DEF SectionType
<1>4. /\ current.to = place - 1 /\ current.heading_path = path
      /\ (place = 1 /\ path = <<>> /\ current.from = 1) \/ current \in WholeSections
  BY <1>1 DEF ChunkingInv, GroupInv
<1>5. current' \in WholeSections
  <2>1. CASE place = 1 /\ path = <<>> /\ current.from = 1
    <3>1. AncestryUpTo(path, 0)
      BY <1>1, <2>1, PathIsAncestry
    <3>2. \A k \in (0 + 1) .. 1 : ~IsHeading(k)
      BY <1>1, <2>1
    <3>3. AncestryUpTo(path, 1)
      BY <1>2, <3>1, <3>2, AncestryPlain
    <3>4. (1 + 1) .. 1 = {} /\ 1 \in 1 .. E
      BY <1>2, <2>1
    <3>5. QED
      BY <1>3, <1>4, <2>1, <3>3, <3>4 DEF WholeSections
  <2>2. CASE current \in WholeSections
    <3>1. /\ current.from \in 1 .. E /\ current.to \in current.from .. E
          /\ current.from = 1 \/ IsHeading(current.from)
          /\ \A b \in (current.from + 1) .. current.to : ~IsHeading(b)
          /\ AncestryUpTo(current.heading_path, current.from)
      BY <2>2 DEF WholeSections
    <3>2. place \in current.from .. E
          /\ \A b \in (current.from + 1) .. place : b = place \/ b \in (current.from + 1) .. current.to
      BY <1>2, <1>4, <3>1
    <3>3. \A b \in (current.from + 1) .. place : ~IsHeading(b)
      BY <1>1, <3>1, <3>2
    <3>4. QED
      BY <1>3, <3>1, <3>2, <3>3 DEF WholeSections
  <2>3. QED
    BY <1>4, <2>1, <2>2
<1>6. WholeSections' = WholeSections /\ LooseBlocks' = LooseBlocks
  BY <1>1, BlocksStay
<1>7. ChunkingType'
  BY <1>1, <1>2, <1>3 DEF ChunkingType
<1>8. ScanInv'
  BY <1>1, BlocksScanned DEF ChunkingInv
<1>9. GroupInv'
  <2>1. place + 1 <= E + 1 /\ (place + 1) - 1 = place
    BY <1>2
  <2>2. QED
    BY <1>1, <1>3, <1>4, <1>5, <1>6, <2>1 DEF ChunkingInv, GroupInv, Holds
<1>10. PackInv'
  <2>1. chunks' = <<>>
    BY <1>1 DEF ChunkingInv, PackInv
  <2>2. Len(chunks') = 0 /\ 1 .. 0 = {} /\ 1 .. (0 - 1) = {}
    BY <2>1
  <2>3. QED
    BY <1>1, <2>1, <2>2 DEF PackInv
<1>11. QED
  BY <1>7, <1>8, <1>9, <1>10 DEF ChunkingInv

(* EndGroup: every block is in a section or loose.                         *)
LEMMA EndGroupKeeps ==
  ASSUME ChunkingInv, EndGroup
  PROVE  ChunkingInv'
<1> DEFINE E == Len(blocks)
<1>1. /\ doc' = doc /\ blocks' = blocks /\ stage = "group" /\ stage' = "chunk" /\ place' = 1
      /\ place > E /\ buf' = buf /\ chunks' = chunks /\ sections' = Closed
      /\ path' = path /\ current' = current
  BY DEF EndGroup
<1>2. place \in Nat \ {0} /\ E \in Nat /\ ChunkingType
  BY <1>1 DEF ChunkingInv, ChunkingType
<1>3. /\ sections' \in Seq(SectionType)
      /\ \A k \in 1 .. Len(sections') : sections'[k] \in WholeSections
      /\ \A k, n \in 1 .. Len(sections') : k < n => sections'[k].to < sections'[n].from
      /\ \A x \in 1 .. E : x < place =>
           x \in LooseBlocks \/ \E k \in 1 .. Len(sections') : Holds(sections'[k], x)
  BY <1>1, ClosedSections
<1>4. WholeSections' = WholeSections /\ LooseBlocks' = LooseBlocks
  BY <1>1, BlocksStay
<1>5. ChunkingType'
  BY <1>1, <1>2, <1>3 DEF ChunkingType
<1>6. ScanInv'
  BY <1>1, BlocksScanned DEF ChunkingInv
<1>7. GroupInv'
  <2>1. \A x \in 1 .. E : x < place
    BY <1>1, <1>2
  <2>2. QED
    BY <1>1, <1>3, <1>4, <2>1 DEF GroupInv, Holds
<1>8. PackInv'
  <2>1. chunks' = <<>>
    BY <1>1 DEF ChunkingInv, PackInv
  <2>2. Len(chunks') = 0 /\ 1 .. 0 = {} /\ 1 .. (0 - 1) = {} /\ \A k \in 1 .. Len(sections') : ~(k < 1)
    BY <2>1
  <2>3. QED
    BY <1>1, <2>1, <2>2 DEF PackInv
<1>9. QED
  BY <1>5, <1>6, <1>7, <1>8 DEF ChunkingInv

(* After the grouping the sections stay as they are.                       *)
LEMMA SectionsStay ==
  ASSUME ChunkingInv, doc' = doc, blocks' = blocks, path' = path, current' = current, sections' = sections,
         stage \in {"chunk", "pack"}, stage' \in {"chunk", "pack", "done"}
  PROVE  ScanInv' /\ GroupInv'
<1>1. ScanInv'
  BY BlocksScanned DEF ChunkingInv
<1>2. WholeSections' = WholeSections /\ LooseBlocks' = LooseBlocks
  BY BlocksStay
<1>3. GroupInv'
  BY <1>2 DEF ChunkingInv, GroupInv, Holds
<1>4. QED
  BY <1>1, <1>3

(* The tokens of a block.                                                  *)
LEMMA WeightsTyped ==
  ASSUME ChunkingInv
  PROVE  \A b \in 1 .. Len(blocks) : Weights[b] = BlockTokens(b) /\ BlockTokens(b) \in Int
<1>1. ASSUME NEW b \in 1 .. Len(blocks) PROVE BlockTokens(b) \in Int
  <2>1. blocks[b] \in GoodBlocks
    BY DEF ChunkingInv, ScanInv
  <2>2. Last \in Nat /\ doc \in Documents
    BY LinesTyped DEF ChunkingInv, ChunkingType
  <2>3. blocks[b].last \in 0 .. Last /\ blocks[b].first - 1 \in 0 .. Last
    BY <2>1, <2>2 DEF GoodBlocks
  <2>4. QED
    BY <2>2, <2>3, TokensTyped DEF BlockTokens
<1>2. QED
  BY <1>1 DEF Weights

(* The section in hand.                                                    *)
LEMMA SectionTyped ==
  ASSUME ChunkingInv, place <= Len(sections), NEW s, s = Section
  PROVE  /\ s \in SectionType /\ s \in WholeSections /\ s.from \in Nat \ {0} /\ s.to \in Nat /\ s.from <= s.to
         /\ s.from \in 1 .. Len(blocks) /\ s.to \in 1 .. Len(blocks)
         /\ \A b \in (s.from + 1) .. s.to : ~IsHeading(b)
         /\ s.from = 1 \/ s.from \in Headings
         /\ s.heading_path \in Seq(Nat) /\ AncestryUpTo(s.heading_path, s.from)
         /\ \A m \in 1 .. Len(sections) : m > place => s.to < sections[m].from
<1>1. place \in 1 .. Len(sections)
  BY DEF ChunkingInv, ChunkingType
<1>2. s \in WholeSections /\ \A m \in 1 .. Len(sections) : m > place => s.to < sections[m].from
  BY <1>1 DEF ChunkingInv, GroupInv, Section
<1>3. /\ s \in SectionType /\ s.from \in 1 .. Len(blocks) /\ s.to \in s.from .. Len(blocks)
      /\ \A b \in (s.from + 1) .. s.to : ~IsHeading(b)
      /\ s.from = 1 \/ IsHeading(s.from)
      /\ AncestryUpTo(s.heading_path, s.from)
  BY <1>2 DEF WholeSections
<1>4. s.heading_path \in Seq(Nat)
  BY <1>3 DEF SectionType
<1>5. s.from = 1 \/ s.from \in Headings
  BY <1>3 DEF Headings
<1>6. s.from \in Nat \ {0} /\ s.to \in Nat /\ s.from <= s.to /\ s.to \in 1 .. Len(blocks)
  <2>1. Len(blocks) \in Nat
    BY DEF ChunkingInv, ChunkingType
  <2>2. QED
    BY <1>3, <2>1
<1>7. QED
  BY <1>2, <1>3, <1>4, <1>5, <1>6

(* A chunk more.                                                           *)
LEMMA ChunkAdded ==
  ASSUME ChunkingInv, doc' = doc, blocks' = blocks, NEW c \in GoodChunks, chunks' = Append(chunks, c),
         chunks # <<>> => Precedes(chunks[Len(chunks)], c.from)
  PROVE  /\ chunks' \in Seq(ChunkType) /\ chunks' # <<>> /\ chunks'[Len(chunks')] = c
         /\ \A k \in 1 .. Len(chunks') : chunks'[k] \in GoodChunks
         /\ \A k \in 1 .. Len(chunks') : chunks'[k] = c \/ \E j \in 1 .. Len(chunks) : chunks'[k] = chunks[j]
         /\ \A k \in 1 .. (Len(chunks') - 1) : Precedes(chunks'[k], chunks'[k + 1].from)
         /\ Held \subseteq Held' /\ \A b \in c.from .. c.to : b \in Held'
<1> DEFINE n == Len(chunks)
<1>1. chunks \in Seq(ChunkType) /\ n \in Nat /\ c \in ChunkType
  BY DEF ChunkingInv, ChunkingType, GoodChunks
<1>2. /\ chunks' \in Seq(ChunkType) /\ Len(chunks') = n + 1 /\ chunks'[n + 1] = c /\ chunks' # <<>>
      /\ \A k \in 1 .. n : chunks'[k] = chunks[k]
      /\ \A k \in 1 .. (n + 1) : k = n + 1 \/ k \in 1 .. n
      /\ n + 1 \in 1 .. (n + 1) /\ 1 .. n \subseteq 1 .. (n + 1)
      /\ n # 0 => chunks # <<>>
  BY <1>1
<1>3. /\ \A k \in 1 .. n : chunks[k] \in GoodChunks
      /\ \A k \in 1 .. (n - 1) : Precedes(chunks[k], chunks[k + 1].from)
  BY DEF ChunkingInv, PackInv
<1>4. c.from \in 1 .. Len(blocks) /\ c.to \in c.from .. Len(blocks) /\ Len(blocks) \in Nat
  BY DEF GoodChunks, ChunkingInv, ChunkingType
<1>5. \A b \in c.from .. c.to : b \in Held'
  <2>1. \A b \in c.from .. c.to : b \in 1 .. Len(blocks) /\ Holds(c, b)
    BY <1>4 DEF Holds
  <2>2. QED
    BY <1>2, <2>1 DEF Held, Holds
<1>6. Held \subseteq Held'
  <2>1. ASSUME NEW b \in Held PROVE b \in Held'
    <3>1. PICK k \in 1 .. n : b \in 1 .. Len(blocks) /\ Holds(chunks[k], b)
      BY DEF Held
    <3>2. k \in 1 .. Len(chunks') /\ chunks'[k] = chunks[k]
      BY <1>2
    <3>3. QED
      BY <3>1, <3>2 DEF Held, Holds
  <2>2. QED
    BY <2>1
<1> HIDE DEF n
<1>7. ASSUME NEW k \in 1 .. n PROVE Precedes(chunks'[k], chunks'[k + 1].from)
  <2>1. CASE k = n
    <3>1. n # 0
      BY <1>1, <2>1
    <3>2. Precedes(chunks[n], c.from)
      BY <1>2, <3>1 DEF n
    <3>3. QED
      BY <1>2, <2>1, <3>2
  <2>2. CASE k # n
    <3>1. k \in 1 .. (n - 1) /\ k + 1 \in 1 .. n
      BY <1>1, <2>2
    <3>2. QED
      BY <1>2, <1>3, <3>1
  <2>3. QED
    BY <2>1, <2>2
<1>8. (n + 1) - 1 = n
  BY <1>1
<1>9. \A k \in 1 .. Len(chunks') : chunks'[k] = c \/ \E j \in 1 .. Len(chunks) : chunks'[k] = chunks[j]
  BY <1>2 DEF n
<1>10. \A k \in 1 .. Len(chunks') : chunks'[k] \in GoodChunks
  BY <1>2, <1>3
<1>11. QED
  BY <1>2, <1>5, <1>6, <1>7, <1>8, <1>9, <1>10

(* The section in hand may follow the chunks there are.                    *)
LEMMA SectionFollows ==
  ASSUME ChunkingInv, stage = "chunk", place <= Len(sections), NEW s, s = Section
  PROVE  /\ \A k \in 1 .. Len(chunks) : chunks[k].to < s.from
         /\ chunks # <<>> => Precedes(chunks[Len(chunks)], s.from)
<1>1. place \in 1 .. Len(sections) /\ place >= place /\ chunks \in Seq(ChunkType)
  BY DEF ChunkingInv, ChunkingType
<1>2. \A k \in 1 .. Len(chunks) : chunks[k].to < s.from
  BY <1>1 DEF ChunkingInv, PackInv, Section
<1>3. ASSUME chunks # <<>> PROVE Precedes(chunks[Len(chunks)], s.from)
  <2>1. Len(chunks) \in 1 .. Len(chunks)
    BY <1>1, <1>3
  <2>2. PICK c \in GoodChunks : c = chunks[Len(chunks)]
    BY <2>1 DEF ChunkingInv, PackInv
  <2>3. c.to < s.from
    BY <1>2, <2>1, <2>2
  <2>4. c.from >= 1 /\ c.from <= c.to /\ c.to \in Int /\ c.from \in Int
    BY DEF GoodChunks
  <2>5. s.from # 1
    BY <2>3, <2>4
  <2>6. s.from \in Headings
    BY <2>5, SectionTyped
  <2>7. Precedes(c, s.from)
    BY <2>3, <2>6 DEF Precedes
  <2>8. QED
    BY <2>2, <2>7
<1>4. QED
  BY <1>2, <1>3

(* WholeSection: a section under the limit is one chunk.                   *)
LEMMA WholeSectionKeeps ==
  ASSUME ChunkingInv, WholeSection
  PROVE  ChunkingInv'
<1>1. PICK s : s = Section
  OBVIOUS
<1>2. PICK c : c = Piece(s, s.from, s.to, TextTokens(s))
  OBVIOUS
<1>3. /\ doc' = doc /\ blocks' = blocks /\ path' = path /\ current' = current /\ sections' = sections
      /\ buf' = buf /\ stage = "chunk" /\ stage' = "chunk" /\ place' = place + 1
      /\ place <= Len(sections) /\ TextTokens(s) <= MaxTokens /\ chunks' = Append(chunks, c)
  BY <1>1, <1>2 DEF WholeSection
<1>4. /\ s \in SectionType /\ s.from \in Nat \ {0} /\ s.to \in Nat /\ s.from <= s.to
      /\ s.from \in 1 .. Len(blocks) /\ s.to \in 1 .. Len(blocks)
      /\ s.heading_path \in Seq(Nat) /\ AncestryUpTo(s.heading_path, s.from)
      /\ \A m \in 1 .. Len(sections) : m > place => s.to < sections[m].from
  BY <1>1, <1>3, SectionTyped
<1>5. /\ PackedTokens(s) \in Int /\ Joins(s) \in Nat /\ TextTokens(s) \in Int
      /\ TextTokens(s) = PackedTokens(s) + Joins(s)
  <2>1. \A b \in s.from .. s.to : BlockTokens(b) \in Int
    BY <1>4, WeightsTyped
  <2>2. PackedTokens(s) \in Int
    <3>1. s.from <= s.to + 1 /\ s.to \in (s.from - 1) .. s.to
      BY <1>4
    <3>2. PICK u \in [(s.from - 1) .. s.to -> Int] : PackedTokens(s) = u[s.to]
      BY <1>4, <2>1, <3>1, PackedRuns
    <3>3. QED
      BY <3>1, <3>2
  <2>3. Joins(s) \in Nat
    BY <1>4, JoinsCounted
  <2>4. QED
    BY <2>2, <2>3 DEF TextTokens
<1>6. /\ c \in ChunkType /\ c.from = s.from /\ c.to = s.to /\ c.tokens = TextTokens(s)
      /\ c.heading_path = s.heading_path
  BY <1>2, <1>4, <1>5 DEF Piece, ChunkType
<1>7. c \in GoodChunks
  <2>1. PackedTokens(c) = PackedTokens(s) /\ Joins(c) = Joins(s)
    BY <1>6, SameRange
  <2>2. PackedTokens(s) <= TextTokens(s) /\ ~(PackedTokens(s) > MaxTokens)
    BY <1>3, <1>5, MaxTokensAssumption
  <2>3. c.to \in c.from .. Len(blocks)
    BY <1>4, <1>6
  <2>4. QED
    BY <1>4, <1>5, <1>6, <2>1, <2>2, <2>3 DEF GoodChunks
<1>8. /\ \A k \in 1 .. Len(chunks) : chunks[k].to < s.from
      /\ chunks # <<>> => Precedes(chunks[Len(chunks)], s.from)
  BY <1>1, <1>3, SectionFollows
<1>9. /\ chunks' \in Seq(ChunkType)
      /\ \A k \in 1 .. Len(chunks') : chunks'[k] \in GoodChunks
      /\ \A k \in 1 .. Len(chunks') : chunks'[k] = c \/ \E j \in 1 .. Len(chunks) : chunks'[k] = chunks[j]
      /\ \A k \in 1 .. (Len(chunks') - 1) : Precedes(chunks'[k], chunks'[k + 1].from)
      /\ Held \subseteq Held' /\ \A b \in c.from .. c.to : b \in Held'
  BY <1>3, <1>6, <1>7, <1>8, ChunkAdded
<1>10. Headings' = Headings /\ Weights' = Weights /\ Packed' = Packed /\ GoodChunks' = GoodChunks
  BY <1>3, BlocksStay
<1>11. place \in Nat \ {0} /\ Len(sections) \in Nat /\ ChunkingType
  BY DEF ChunkingInv, ChunkingType
<1>12. ChunkingType'
  BY <1>3, <1>9, <1>11 DEF ChunkingType
<1>13. ScanInv' /\ GroupInv'
  BY <1>3, SectionsStay
<1>14. ASSUME NEW k \in 1 .. Len(sections), k < place + 1, NEW b \in sections[k].from .. sections[k].to
       PROVE  b \in Held'
  <2>1. CASE k < place
    BY <1>3, <1>9, <2>1 DEF ChunkingInv, PackInv
  <2>2. CASE ~(k < place)
    <3>1. k = place
      BY <1>11, <1>14, <2>2
    <3>2. QED
      BY <1>1, <1>6, <1>9, <1>14, <3>1 DEF Section
  <2>3. QED
    BY <2>1, <2>2
<1>15. ASSUME NEW m \in 1 .. Len(sections), NEW k \in 1 .. Len(chunks'), m >= place + 1
       PROVE  chunks'[k].to < sections[m].from
  <2>1. m > place /\ m >= place
    BY <1>11, <1>15
  <2>2. CASE chunks'[k] = c
    BY <1>4, <1>6, <2>1, <2>2
  <2>3. CASE \E j \in 1 .. Len(chunks) : chunks'[k] = chunks[j]
    BY <1>3, <2>1, <2>3 DEF ChunkingInv, PackInv
  <2>4. QED
    BY <1>9, <2>2, <2>3
<1>16. PackInv'
  BY <1>3, <1>9, <1>10, <1>14, <1>15 DEF PackInv, Precedes
<1>17. QED
  BY <1>12, <1>13, <1>16 DEF ChunkingInv

(* SplitSection: nothing in hand yet.                                      *)
LEMMA SplitSectionKeeps ==
  ASSUME ChunkingInv, SplitSection
  PROVE  ChunkingInv'
<1>1. PICK s : s = Section
  OBVIOUS
<1>2. /\ doc' = doc /\ blocks' = blocks /\ path' = path /\ current' = current /\ sections' = sections
      /\ chunks' = chunks /\ stage = "chunk" /\ stage' = "pack" /\ place' = place
      /\ place <= Len(sections) /\ buf' = NoBlocks(s.from)
  BY <1>1 DEF SplitSection
<1>3. s.from \in Nat \ {0} /\ s.to \in Nat /\ s.from <= s.to /\ s = sections[place]
  BY <1>1, <1>2, SectionTyped DEF Section
<1>4. buf'.from = s.from /\ buf'.to = s.from - 1 /\ buf' \in [from : Nat, to : Nat]
  BY <1>2, <1>3 DEF NoBlocks
<1>5. ChunkingType'
  BY <1>2, <1>4 DEF ChunkingInv, ChunkingType
<1>6. ScanInv' /\ GroupInv'
  BY <1>2, SectionsStay
<1>7. Headings' = Headings /\ Weights' = Weights /\ Packed' = Packed /\ GoodChunks' = GoodChunks /\ Held' = Held
  <2>1. Held' = Held
    BY <1>2 DEF Held, Holds
  <2>2. QED
    BY <1>2, <2>1, BlocksStay
<1>8. /\ \A k \in 1 .. Len(chunks) : chunks[k].to < s.from
      /\ chunks # <<>> => Precedes(chunks[Len(chunks)], s.from)
  BY <1>1, <1>2, SectionFollows
<1>9. s.from .. (s.from - 1) = {} /\ s.from <= s.from /\ s.from - 1 <= s.to
  BY <1>3
<1>10. PackInv'
  <2>1. /\ \A k \in 1 .. Len(chunks) : chunks[k] \in GoodChunks
        /\ \A k \in 1 .. (Len(chunks) - 1) : Precedes(chunks[k], chunks[k + 1].from)
        /\ \A k \in 1 .. Len(sections) : k < place =>
             \A b \in sections[k].from .. sections[k].to : b \in Held
    BY <1>2 DEF ChunkingInv, PackInv
  <2>2. Section' = s
    BY <1>2, <1>3 DEF Section
  <2>3. QED
    BY <1>2, <1>3, <1>4, <1>7, <1>8, <1>9, <2>1, <2>2 DEF PackInv, Precedes
<1>11. QED
  BY <1>5, <1>6, <1>10 DEF ChunkingInv

(* The blocks in hand, as a chunk.                                         *)
LEMMA FilledIsGood ==
  ASSUME ChunkingInv, stage = "pack", buf.from <= buf.to, NEW c, c = Filled
  PROVE  /\ c \in GoodChunks /\ c.from = buf.from /\ c.to = buf.to /\ c.tokens = PackedTokens(buf)
         /\ PackedTokens(buf) \in Int /\ PackedTokens(c) = PackedTokens(buf)
<1>1. PICK s : s = Section
  OBVIOUS
<1>2. PICK r : r = buf
  OBVIOUS
<1>3. /\ place <= Len(sections) /\ s.from <= r.from /\ r.to <= s.to /\ r.from <= r.to
      /\ r = NoBlocks(s.from) \/ r \in GoodRuns
  BY <1>1, <1>2 DEF ChunkingInv, PackInv
<1>4. /\ s.from \in Nat \ {0} /\ s.to \in Nat /\ s.from <= s.to
      /\ s.from \in 1 .. Len(blocks) /\ s.to \in 1 .. Len(blocks)
      /\ \A b \in (s.from + 1) .. s.to : ~IsHeading(b)
      /\ s.heading_path \in Seq(Nat) /\ AncestryUpTo(s.heading_path, s.from)
  BY <1>1, <1>3, SectionTyped
<1>5. r # NoBlocks(s.from)
  <2>1. NoBlocks(s.from).from = s.from /\ NoBlocks(s.from).to = s.from - 1 /\ ~(s.from <= s.from - 1)
    BY <1>4 DEF NoBlocks
  <2>2. QED
    BY <1>3, <2>1
<1>6. /\ r \in [from : Nat, to : Nat] /\ r.from \in 1 .. Len(blocks) /\ r.to \in r.from .. Len(blocks)
      /\ PackedTokens(r) > MaxTokens => r.from = r.to
  BY <1>3, <1>5 DEF GoodRuns
<1>7. PackedTokens(r) \in Int
  <2>1. \A b \in r.from .. r.to : BlockTokens(b) \in Int
    BY <1>6, WeightsTyped
  <2>2. r.from \in Nat \ {0} /\ r.to \in Nat /\ r.from <= r.to + 1 /\ r.to \in (r.from - 1) .. r.to
    BY <1>6
  <2>3. PICK u \in [(r.from - 1) .. r.to -> Int] : PackedTokens(r) = u[r.to]
    BY <2>1, <2>2, PackedRuns
  <2>4. QED
    BY <2>2, <2>3
<1>8. AncestryUpTo(s.heading_path, r.from)
  <2>1. r.from \in Nat /\ s.from \in Nat /\ \A k \in (s.from + 1) .. r.from : ~IsHeading(k)
    BY <1>3, <1>4, <1>6
  <2>2. QED
    BY <1>3, <1>4, <2>1, AncestryPlain
<1>9. c = Piece(s, r.from, r.to, PackedTokens(r))
  BY <1>1, <1>2 DEF Filled
<1>10. /\ c \in ChunkType /\ c.from = r.from /\ c.to = r.to /\ c.tokens = PackedTokens(r)
       /\ c.heading_path = s.heading_path
  BY <1>4, <1>6, <1>7, <1>9 DEF Piece, ChunkType
<1>11. PackedTokens(c) = PackedTokens(r) /\ Joins(c) = Joins(r) /\ Joins(r) \in Nat
  <2>1. r.from \in Nat /\ r.to \in Nat /\ r.from <= r.to
    BY <1>3, <1>6
  <2>2. QED
    BY <1>10, <2>1, SameRange, JoinsCounted
<1>12. c \in GoodChunks
  BY <1>6, <1>7, <1>8, <1>10, <1>11 DEF GoodChunks
<1>13. QED
  BY <1>2, <1>7, <1>10, <1>11, <1>12

(* PackBlock, when the next block closes the chunk in hand.                *)
LEMMA OverflowKeeps ==
  ASSUME ChunkingInv, PackBlock, Overflows(buf.to + 1)
  PROVE  ChunkingInv'
<1>1. PICK s : s = Section
  OBVIOUS
<1>2. PICK c : c = Filled
  OBVIOUS
<1>3. PICK b : b = buf.to + 1
  OBVIOUS
<1>4. /\ doc' = doc /\ blocks' = blocks /\ path' = path /\ current' = current /\ sections' = sections
      /\ stage = "pack" /\ stage' = "pack" /\ place' = place /\ buf.to < s.to
      /\ chunks' = Append(chunks, c) /\ buf' = [from |-> b, to |-> b]
  BY <1>1, <1>2, <1>3 DEF PackBlock
<1>5. buf.from <= buf.to /\ PackedTokens(buf) + BlockTokens(b) > MaxTokens
  BY <1>3 DEF Overflows
<1>6. /\ c \in GoodChunks /\ c.from = buf.from /\ c.to = buf.to /\ c.tokens = PackedTokens(buf)
      /\ PackedTokens(c) = PackedTokens(buf) /\ PackedTokens(buf) \in Int
  BY <1>2, <1>4, <1>5, FilledIsGood
<1>7. /\ place <= Len(sections) /\ s.from <= buf.from
      /\ \A x \in s.from .. (buf.from - 1) : x \in Held
      /\ \A k \in 1 .. Len(chunks) : chunks[k].to < buf.from
      /\ chunks # <<>> => Precedes(chunks[Len(chunks)], buf.from)
      /\ \A k \in 1 .. Len(sections) : k < place =>
           \A x \in sections[k].from .. sections[k].to : x \in Held
  BY <1>1, <1>4 DEF ChunkingInv, PackInv
<1>8. /\ s.from \in Nat \ {0} /\ s.to \in Nat /\ s.from <= s.to /\ s.to \in 1 .. Len(blocks)
      /\ buf \in [from : Nat, to : Nat] /\ buf.from \in Nat /\ buf.to \in Nat /\ chunks \in Seq(ChunkType)
  BY <1>1, <1>7, SectionTyped DEF ChunkingInv, ChunkingType
<1>9. b \in Nat /\ b \in 1 .. Len(blocks) /\ b = buf.to + 1 /\ b <= s.to /\ s.from <= b /\ buf.from < b
  BY <1>3, <1>4, <1>5, <1>7, <1>8
<1>10. buf' \in [from : Nat, to : Nat] /\ buf'.from = b /\ buf'.to = b
  BY <1>4, <1>9
<1>11. buf' \in GoodRuns
  <2>1. b \in b .. Len(blocks)
    BY <1>9
  <2>2. QED
    BY <1>9, <1>10, <2>1 DEF GoodRuns
<1>12. /\ chunks' \in Seq(ChunkType) /\ chunks' # <<>> /\ chunks'[Len(chunks')] = c
       /\ \A k \in 1 .. Len(chunks') : chunks'[k] \in GoodChunks
       /\ \A k \in 1 .. Len(chunks') : chunks'[k] = c \/ \E j \in 1 .. Len(chunks) : chunks'[k] = chunks[j]
       /\ \A k \in 1 .. (Len(chunks') - 1) : Precedes(chunks'[k], chunks'[k + 1].from)
       /\ Held \subseteq Held' /\ \A x \in c.from .. c.to : x \in Held'
  BY <1>4, <1>6, <1>7, ChunkAdded
<1>13. Headings' = Headings /\ Weights' = Weights /\ Packed' = Packed /\ GoodChunks' = GoodChunks /\ GoodRuns' = GoodRuns
  BY <1>4, BlocksStay
<1>14. Precedes(c, b)
  <2>1. c.from \in 1 .. Len(blocks) /\ c.to \in 1 .. Len(blocks) /\ c.to \in Nat
    BY <1>6, <1>8 DEF GoodChunks
  <2>2. Packed[<<c.from, c.to>>] = PackedTokens(buf)
    BY <1>6, <2>1, PackedIsTokens
  <2>3. Weights[b] = BlockTokens(b)
    BY <1>9 DEF Weights
  <2>4. c.to < b
    BY <1>6, <1>8, <1>9
  <2>5. QED
    BY <1>5, <2>2, <2>3, <2>4 DEF Precedes
<1>15. \A x \in s.from .. (b - 1) : x \in Held'
  <2>1. \A x \in s.from .. (b - 1) : x \in s.from .. (buf.from - 1) \/ x \in c.from .. c.to
    BY <1>6, <1>8, <1>9
  <2>2. QED
    BY <1>7, <1>12, <2>1
<1>16. \A k \in 1 .. Len(chunks') : chunks'[k].to < b
  <2>1. \A k \in 1 .. Len(chunks) : chunks[k].to \in Nat
    <3>1. \A k \in 1 .. Len(chunks) : chunks[k] \in ChunkType
      BY <1>8
    <3>2. QED
      BY <3>1 DEF ChunkType
  <2>2. ASSUME NEW k \in 1 .. Len(chunks) PROVE chunks[k].to < b
    <3>1. chunks[k].to \in Nat /\ chunks[k].to < buf.from
      BY <1>7, <2>1
    <3>2. buf.from \in Nat /\ b \in Nat /\ buf.from < b
      BY <1>8, <1>9
    <3>3. QED
      BY <3>1, <3>2
  <2>3. c.to < b
    BY <1>6, <1>8, <1>9
  <2>4. QED
    BY <1>12, <2>2, <2>3
<1>17. ChunkingType'
  BY <1>4, <1>10, <1>12 DEF ChunkingInv, ChunkingType
<1>18. ScanInv' /\ GroupInv'
  BY <1>4, SectionsStay
<1>19. PackInv'
  <2>1. Section' = s
    BY <1>1, <1>4 DEF Section
  <2>2. \A k \in 1 .. Len(sections') : k < place' =>
          \A x \in sections'[k].from .. sections'[k].to : x \in Held'
    BY <1>4, <1>7, <1>12
  <2>3. /\ \A k \in 1 .. Len(chunks') : chunks'[k] \in GoodChunks'
        /\ \A k \in 1 .. (Len(chunks') - 1) : Precedes(chunks[k], chunks[k + 1].from)'
        /\ chunks' # <<>> => Precedes(chunks[Len(chunks)], buf.from)'
    BY <1>10, <1>12, <1>13, <1>14 DEF Precedes
  <2>4. QED
    BY <1>4, <1>7, <1>9, <1>10, <1>11, <1>13, <1>15, <1>16, <2>1, <2>2, <2>3 DEF PackInv
<1>20. QED
  BY <1>17, <1>18, <1>19 DEF ChunkingInv

(* PackBlock, when the next block joins the chunk in hand or starts it.    *)
LEMMA JoinKeeps ==
  ASSUME ChunkingInv, PackBlock, ~Overflows(buf.to + 1)
  PROVE  ChunkingInv'
<1>1. PICK s : s = Section
  OBVIOUS
<1>2. PICK b : b = buf.to + 1
  OBVIOUS
<1>3. PICK r : r = buf
  OBVIOUS
<1>4. PICK t : t = [r EXCEPT !.to = b]
  OBVIOUS
<1>5. /\ doc' = doc /\ blocks' = blocks /\ path' = path /\ current' = current /\ sections' = sections
      /\ stage = "pack" /\ stage' = "pack" /\ place' = place /\ r.to < s.to
      /\ chunks' = chunks /\ buf' = t
  BY <1>1, <1>2, <1>3, <1>4 DEF PackBlock
<1>6. r.from <= r.to /\ ~IsHeading(b) => ~(PackedTokens(r) + BlockTokens(b) > MaxTokens)
  BY <1>2, <1>3 DEF Overflows
<1>7. /\ place <= Len(sections) /\ s.from <= r.from /\ r.from <= s.to
      /\ r = NoBlocks(s.from) \/ r \in GoodRuns
      /\ \A x \in s.from .. (r.from - 1) : x \in Held
      /\ \A k \in 1 .. Len(chunks) : chunks[k].to < r.from
      /\ chunks # <<>> => Precedes(chunks[Len(chunks)], r.from)
      /\ \A k \in 1 .. Len(chunks) : chunks[k] \in GoodChunks
      /\ \A k \in 1 .. (Len(chunks) - 1) : Precedes(chunks[k], chunks[k + 1].from)
      /\ \A k \in 1 .. Len(sections) : k < place =>
           \A x \in sections[k].from .. sections[k].to : x \in Held
  BY <1>1, <1>3, <1>5 DEF ChunkingInv, PackInv
<1>8. /\ s.from \in Nat \ {0} /\ s.to \in Nat /\ s.from <= s.to /\ s.to \in 1 .. Len(blocks)
      /\ \A x \in (s.from + 1) .. s.to : ~IsHeading(x)
      /\ r \in [from : Nat, to : Nat] /\ r.from \in Nat /\ r.to \in Nat
  BY <1>1, <1>3, <1>7, SectionTyped DEF ChunkingInv, ChunkingType
<1>9. b \in Nat /\ b \in 1 .. Len(blocks) /\ b = r.to + 1 /\ b <= s.to
  BY <1>2, <1>3, <1>5, <1>8
<1>10. t \in [from : Nat, to : Nat] /\ t.from = r.from /\ t.to = b
  BY <1>4, <1>8, <1>9
<1>11. t \in GoodRuns
  <2>1. CASE r = NoBlocks(s.from)
    <3>1. r.from = s.from /\ b = s.from
      BY <1>8, <1>9, <2>1 DEF NoBlocks
    <3>2. b \in b .. Len(blocks)
      BY <1>9
    <3>3. QED
      BY <1>9, <1>10, <3>1, <3>2 DEF GoodRuns
  <2>2. CASE r \in GoodRuns
    <3>1. r.from \in 1 .. Len(blocks) /\ r.from <= r.to
      BY <2>2 DEF GoodRuns
    <3>2. ~IsHeading(b)
      BY <1>7, <1>8, <1>9, <3>1
    <3>3. \A x \in t.from .. t.to : BlockTokens(x) \in Int
      BY <1>9, <1>10, <3>1, WeightsTyped
    <3>4. PackedTokens(r) \in Int /\ PackedTokens(t) = PackedTokens(r) + BlockTokens(t.to)
      <4>1. r.from \in Nat \ {0} /\ r.to \in Nat /\ r.from <= r.to + 1 /\ t.from = r.from /\ t.to = r.to + 1
        BY <1>8, <1>9, <1>10, <3>1
      <4>2. QED
        BY <3>3, <4>1, PackedMore
    <3>5. ~(PackedTokens(t) > MaxTokens)
      BY <1>6, <1>10, <3>1, <3>2, <3>4
    <3>6. b \in r.from .. Len(blocks)
      BY <1>8, <1>9, <3>1
    <3>7. QED
      BY <1>10, <3>1, <3>5, <3>6 DEF GoodRuns
  <2>3. QED
    BY <1>7, <2>1, <2>2
<1>12. Headings' = Headings /\ Weights' = Weights /\ Packed' = Packed /\ GoodChunks' = GoodChunks /\ GoodRuns' = GoodRuns /\ Held' = Held
  <2>1. Held' = Held
    BY <1>5 DEF Held, Holds
  <2>2. QED
    BY <1>5, <2>1, BlocksStay
<1>13. ChunkingType'
  BY <1>5, <1>10 DEF ChunkingInv, ChunkingType
<1>14. ScanInv' /\ GroupInv'
  BY <1>5, SectionsStay
<1>15. PackInv'
  <2>1. Section' = s /\ buf'.from = r.from /\ buf'.to = b
    BY <1>1, <1>5, <1>10 DEF Section
  <2>2. /\ \A k \in 1 .. (Len(chunks') - 1) : Precedes(chunks[k], chunks[k + 1].from)'
        /\ chunks' # <<>> => Precedes(chunks[Len(chunks)], buf.from)'
    BY <1>5, <1>7, <1>12, <2>1 DEF Precedes
  <2>3. QED
    BY <1>5, <1>7, <1>9, <1>11, <1>12, <2>1, <2>2 DEF PackInv
<1>16. QED
  BY <1>13, <1>14, <1>15 DEF ChunkingInv

(* EndPack: the rest of the section is its last chunk.                     *)
LEMMA EndPackKeeps ==
  ASSUME ChunkingInv, EndPack
  PROVE  ChunkingInv'
<1>1. PICK s : s = Section
  OBVIOUS
<1>2. PICK c : c = Filled
  OBVIOUS
<1>3. /\ doc' = doc /\ blocks' = blocks /\ path' = path /\ current' = current /\ sections' = sections
      /\ buf' = buf /\ stage = "pack" /\ stage' = "chunk" /\ place' = place + 1 /\ buf.to = s.to
      /\ chunks' = Append(chunks, c)
  BY <1>1, <1>2 DEF EndPack
<1>4. /\ place <= Len(sections) /\ s.from <= buf.from /\ buf.from <= s.to
      /\ \A x \in s.from .. (buf.from - 1) : x \in Held
      /\ \A k \in 1 .. Len(chunks) : chunks[k].to < buf.from
      /\ chunks # <<>> => Precedes(chunks[Len(chunks)], buf.from)
      /\ \A k \in 1 .. Len(sections) : k < place =>
           \A x \in sections[k].from .. sections[k].to : x \in Held
  BY <1>1, <1>3 DEF ChunkingInv, PackInv
<1>5. /\ s.from \in Nat \ {0} /\ s.to \in Nat /\ buf.from \in Nat /\ buf.to \in Nat
      /\ \A m \in 1 .. Len(sections) : m > place => s.to < sections[m].from
      /\ chunks \in Seq(ChunkType) /\ place \in Nat \ {0} /\ s = sections[place]
  BY <1>1, <1>4, SectionTyped DEF ChunkingInv, ChunkingType, Section
<1>6. c \in GoodChunks /\ c.from = buf.from /\ c.to = buf.to
  <2>1. buf.from <= buf.to
    BY <1>3, <1>4
  <2>2. QED
    BY <1>2, <1>3, <2>1, FilledIsGood
<1>7. /\ chunks' \in Seq(ChunkType)
      /\ \A k \in 1 .. Len(chunks') : chunks'[k] \in GoodChunks
      /\ \A k \in 1 .. Len(chunks') : chunks'[k] = c \/ \E j \in 1 .. Len(chunks) : chunks'[k] = chunks[j]
      /\ \A k \in 1 .. (Len(chunks') - 1) : Precedes(chunks'[k], chunks'[k + 1].from)
      /\ Held \subseteq Held' /\ \A x \in c.from .. c.to : x \in Held'
  BY <1>3, <1>4, <1>6, ChunkAdded
<1>8. Headings' = Headings /\ Weights' = Weights /\ Packed' = Packed /\ GoodChunks' = GoodChunks
  BY <1>3, BlocksStay
<1>9. ChunkingType'
  BY <1>3, <1>5, <1>7 DEF ChunkingInv, ChunkingType
<1>10. ScanInv' /\ GroupInv'
  BY <1>3, SectionsStay
<1>11. ASSUME NEW k \in 1 .. Len(sections), k < place + 1, NEW x \in sections[k].from .. sections[k].to
       PROVE  x \in Held'
  <2>1. CASE k < place
    BY <1>4, <1>7, <2>1
  <2>2. CASE ~(k < place)
    <3>1. k = place
      BY <1>5, <1>11, <2>2
    <3>2. x \in s.from .. (buf.from - 1) \/ x \in c.from .. c.to
      BY <1>3, <1>5, <1>6, <1>11, <3>1
    <3>3. QED
      BY <1>4, <1>7, <3>2
  <2>3. QED
    BY <2>1, <2>2
<1>12. ASSUME NEW m \in 1 .. Len(sections), NEW k \in 1 .. Len(chunks'), m >= place + 1
       PROVE  chunks'[k].to < sections[m].from
  <2>1. s.to < sections[m].from /\ sections[m].from \in Int
    <3>1. sections[m] \in WholeSections
      BY DEF ChunkingInv, GroupInv
    <3>2. sections[m].from \in Int
      BY <3>1 DEF WholeSections
    <3>3. m > place
      BY <1>5, <1>12
    <3>4. QED
      BY <1>5, <3>2, <3>3
  <2>2. CASE chunks'[k] = c
    BY <1>3, <1>6, <2>1, <2>2
  <2>3. ASSUME NEW j \in 1 .. Len(chunks), chunks'[k] = chunks[j] PROVE chunks'[k].to < sections[m].from
    <3>1. chunks[j] \in ChunkType
      BY <1>5
    <3>2. chunks[j].to \in Nat
      BY <3>1 DEF ChunkType
    <3>3. QED
      BY <1>4, <1>5, <2>1, <2>3, <3>2, SMTT(30)
  <2>4. QED
    BY <1>7, <2>2, <2>3
<1>13. PackInv'
  BY <1>3, <1>7, <1>8, <1>11, <1>12 DEF PackInv, Precedes
<1>14. QED
  BY <1>9, <1>10, <1>13 DEF ChunkingInv

(* EndParse: no section is left.                                           *)
LEMMA EndParseKeeps ==
  ASSUME ChunkingInv, EndParse
  PROVE  ChunkingInv'
<1>1. /\ doc' = doc /\ blocks' = blocks /\ path' = path /\ current' = current /\ sections' = sections
      /\ buf' = buf /\ stage = "chunk" /\ stage' = "done" /\ place' = place /\ chunks' = chunks
      /\ place > Len(sections)
  BY DEF EndParse
<1>2. ChunkingType'
  BY <1>1 DEF ChunkingInv, ChunkingType
<1>3. ScanInv' /\ GroupInv'
  BY <1>1, SectionsStay
<1>4. Headings' = Headings /\ Weights' = Weights /\ Packed' = Packed /\ GoodChunks' = GoodChunks /\ Held' = Held
  <2>1. Held' = Held
    BY <1>1 DEF Held, Holds
  <2>2. QED
    BY <1>1, <2>1, BlocksStay
<1>5. PackInv'
  BY <1>1, <1>4 DEF ChunkingInv, PackInv, Precedes
<1>6. QED
  BY <1>2, <1>3, <1>5 DEF ChunkingInv

(* The parser, step by step.                                               *)
LEMMA ChunkingStep ==
  ASSUME ChunkingInv, [ChunkingNext]_chunking
  PROVE  ChunkingInv'
<1>1. CASE UNCHANGED chunking
  <2>1. /\ doc' = doc /\ blocks' = blocks /\ path' = path /\ current' = current /\ sections' = sections
        /\ buf' = buf /\ stage' = stage /\ place' = place /\ chunks' = chunks
    BY <1>1 DEF chunking
  <2>2. /\ Headings' = Headings /\ Weights' = Weights /\ Packed' = Packed /\ GoodChunks' = GoodChunks /\ Held' = Held
        /\ WholeSections' = WholeSections /\ LooseBlocks' = LooseBlocks /\ GoodRuns' = GoodRuns
    <3>1. Held' = Held
      BY <2>1 DEF Held, Holds
    <3>2. QED
      BY <2>1, <3>1, BlocksStay
  <2>3. Last' = Last /\ GoodBlocks' = GoodBlocks /\ \A i : Line(i)' = Line(i)
    BY <2>1, LinesStay
  <2>4. ChunkingType'
    BY <2>1 DEF ChunkingInv, ChunkingType
  <2>5. ScanInv'
    BY <2>1, <2>3 DEF ChunkingInv, ScanInv, Blank
  <2>6. GroupInv'
    BY <2>1, <2>2 DEF ChunkingInv, GroupInv, Holds
  <2>7. PackInv'
    BY <2>1, <2>2 DEF ChunkingInv, PackInv, Precedes, Section
  <2>8. QED
    BY <2>4, <2>5, <2>6, <2>7 DEF ChunkingInv
<1>2. CASE PackBlock
  BY <1>2, OverflowKeeps, JoinKeeps
<1>3. QED
  BY <1>1, <1>2, FrontmatterKeeps, SkipBlankKeeps, TakeBlockKeeps, EndScanKeeps, StartSectionKeeps,
     ExtendSectionKeeps, EndGroupKeeps, WholeSectionKeeps, SplitSectionKeeps, EndPackKeeps, EndParseKeeps
  DEF ChunkingNext

(* The stages of the parser stay in step with each other.                  *)
THEOREM ParserKeepsInStep == ChunkingSpec => []ChunkingInv
<1>1. ChunkingInit => ChunkingInv
  BY ChunkingStarts
<1>2. ChunkingInv /\ [ChunkingNext]_chunking => ChunkingInv'
  BY ChunkingStep
<1>3. QED
  BY <1>1, <1>2, PTL DEF ChunkingSpec

(* No line and no block is lost or repeated by the scanner, the grouping   *)
(* or the splitter.                                                        *)
THEOREM ParserLosesNothing == ChunkingSpec => []NothingLost
<1>1. ASSUME ChunkingInv PROVE NothingLost
  <2>1. ASSUME stage = "done", NEW b \in 1 .. Len(blocks)
        PROVE  Loose(b) \/ \E k \in 1 .. Len(chunks) : Holds(chunks[k], b)
    <3>1. CASE b \in LooseBlocks
      BY <3>1 DEF LooseBlocks
    <3>2. CASE b \notin LooseBlocks
      <4>1. PICK k \in 1 .. Len(sections) : Holds(sections[k], b)
        BY <1>1, <2>1, <3>2 DEF ChunkingInv, GroupInv
      <4>2. place > Len(sections) /\ place \in Nat /\ Len(sections) \in Nat
        BY <1>1, <2>1 DEF ChunkingInv, ChunkingType, PackInv
      <4>3. sections[k] \in WholeSections /\ k < place
        BY <1>1, <4>2 DEF ChunkingInv, GroupInv
      <4>4. b \in sections[k].from .. sections[k].to
        BY <4>1, <4>3 DEF Holds, WholeSections
      <4>5. b \in Held
        BY <1>1, <2>1, <4>3, <4>4 DEF ChunkingInv, PackInv
      <4>6. QED
        BY <4>5 DEF Held
    <3>3. QED
      BY <3>1, <3>2
  <2>2. QED
    BY <1>1, <2>1 DEF ChunkingInv, ScanInv, PackInv, Precedes, NothingLost
<1>2. QED
  BY <1>1, ParserKeepsInStep, PTL

(* A chunk's heading_path holds every heading it stands under, and another *)
(* only below a skipped level, until a heading comes that is no deeper     *)
(* than the place it has there.                                            *)
THEOREM PathsAreAncestry == ChunkingSpec => []HeadingPathIsAncestry
<1>1. ASSUME ChunkingInv PROVE HeadingPathIsAncestry
  <2>1. \A k \in 1 .. Len(chunks) : AncestryUpTo(chunks[k].heading_path, chunks[k].from)
    BY <1>1 DEF ChunkingInv, PackInv, GoodChunks
  <2>2. QED
    BY <2>1 DEF HeadingPathIsAncestry, AncestryUpTo
<1>2. QED
  BY <1>1, ParserKeepsInStep, PTL

(* A chunk's text is over max_tokens by its joins at most unless it is one *)
(* block, the recorded count leaves out no more than those, and a split    *)
(* section's chunk is closed only by a block that did not fit.             *)
THEOREM ChunksKeepTheCap == ChunkingSpec => []ChunksFillTheCap
<1>1. ASSUME ChunkingInv PROVE ChunksFillTheCap
  <2>1. ASSUME NEW k \in 1 .. Len(chunks), NEW c, c = chunks[k]
        PROVE  /\ c.from < c.to => TextTokens(c) <= MaxTokens + Joins(c)
               /\ TextTokens(c) - Joins(c) <= c.tokens /\ c.tokens <= TextTokens(c)
               /\ TextTokens(c) - Joins(c) = PackedTokens(c)
               /\ c.from \in 1 .. Len(blocks) /\ c.to \in 1 .. Len(blocks)
    <3>1. c \in GoodChunks
      BY <1>1, <2>1 DEF ChunkingInv, PackInv
    <3>2. /\ PackedTokens(c) \in Int /\ c.tokens \in Int /\ c.from \in Nat /\ c.to \in Nat
          /\ c.from <= c.to /\ c.from \in 1 .. Len(blocks) /\ c.to \in 1 .. Len(blocks)
          /\ PackedTokens(c) > MaxTokens => c.from = c.to
          /\ PackedTokens(c) <= c.tokens /\ c.tokens <= PackedTokens(c) + Joins(c)
      <4>1. /\ c \in ChunkType /\ c.from \in 1 .. Len(blocks) /\ c.to \in c.from .. Len(blocks)
            /\ PackedTokens(c) \in Int
            /\ PackedTokens(c) > MaxTokens => c.from = c.to
            /\ PackedTokens(c) <= c.tokens /\ c.tokens <= PackedTokens(c) + Joins(c)
        BY <3>1, Zenon DEF GoodChunks
      <4>2. c.tokens \in Int /\ c.from \in Nat /\ c.to \in Nat
        BY <4>1 DEF ChunkType
      <4>3. c.from <= c.to /\ c.to \in 1 .. Len(blocks)
        BY <4>1, <4>2
      <4>4. QED
        BY <4>1, <4>2, <4>3
    <3>3. Joins(c) \in Nat
      BY <3>2, JoinsCounted
    <3>4. QED
      BY <3>2, <3>3, MaxTokensAssumption DEF TextTokens
  <2>2. ASSUME NEW k \in 1 .. (Len(chunks) - 1), chunks[k].to + 1 = chunks[k + 1].from,
               ~IsHeading(chunks[k + 1].from)
        PROVE  TextTokens(chunks[k]) - Joins(chunks[k]) + BlockTokens(chunks[k + 1].from)
                 > MaxTokens
    <3>1. Precedes(chunks[k], chunks[k + 1].from)
      BY <1>1 DEF ChunkingInv, PackInv
    <3>2. k \in 1 .. Len(chunks) /\ k + 1 \in 1 .. Len(chunks)
      BY <1>1 DEF ChunkingInv, ChunkingType
    <3>3. PICK b \in 1 .. Len(blocks) : b = chunks[k + 1].from
      BY <2>1, <3>2
    <3>4. b \notin Headings /\ Weights[b] = BlockTokens(b)
      BY <1>1, <2>2, <3>3, WeightsTyped DEF Headings
    <3>5. Packed[<<chunks[k].from, chunks[k].to>>] + Weights[b] > MaxTokens
      BY <2>2, <3>1, <3>3, <3>4 DEF Precedes
    <3>6. /\ TextTokens(chunks[k]) - Joins(chunks[k]) = PackedTokens(chunks[k])
          /\ Packed[<<chunks[k].from, chunks[k].to>>] = PackedTokens(chunks[k])
      BY <2>1, <3>2, PackedIsTokens
    <3>7. QED
      BY <3>3, <3>4, <3>5, <3>6
  <2>3. QED
    BY <2>1, <2>2 DEF ChunksFillTheCap
<1>2. QED
  BY <1>1, ParserKeepsInStep, PTL

(* A code block between fences of one length ends where its fences         *)
(* balance, and not before.                                                *)
THEOREM CodeBlocksBalance == ChunkingSpec => []CodeStaysWhole
<1>1. ASSUME ChunkingInv PROVE CodeStaysWhole
  <2>1. ASSUME NEW b \in 1 .. Len(blocks), NEW first, first = blocks[b].first, NEW last, last = blocks[b].last,
               blocks[b].kind = "code",
               \A k \in first .. last : SameFence(first, k) => Line(k).n = Line(first).n
        PROVE  /\ \/ last = Last
                  \/ Cardinality({k \in (first + 1) .. last : SameFence(first, k) /\ ~Line(k).info})
                       = 1 + Cardinality({k \in (first + 1) .. last : SameFence(first, k) /\ Line(k).info})
               /\ \A j \in first .. (last - 1) :
                    Cardinality({k \in (first + 1) .. j : SameFence(first, k) /\ ~Line(k).info})
                      < 1 + Cardinality({k \in (first + 1) .. j : SameFence(first, k) /\ Line(k).info})
    <3>1. blocks[b] \in GoodBlocks
      BY <1>1 DEF ChunkingInv, ScanInv
    <3>2. first \in Nat /\ last \in Nat
      BY <2>1, <3>1 DEF GoodBlocks, BlockType
    <3>3. \A j \in Int :
            /\ {k \in (first + 1) .. j : SameFence(first, k) /\ ~Line(k).info} = Bares(first) \cap ((first + 1) .. j)
            /\ {k \in (first + 1) .. j : SameFence(first, k) /\ Line(k).info} = Infos(first) \cap ((first + 1) .. j)
      BY <3>2 DEF Bares, Infos
    <3>4. \A j \in Int :
            /\ Cardinality({k \in (first + 1) .. j : SameFence(first, k) /\ ~Line(k).info}) = BaresTo(first, j)
            /\ Cardinality({k \in (first + 1) .. j : SameFence(first, k) /\ Line(k).info}) = InfosTo(first, j)
      BY <3>3, Zenon DEF BaresTo, InfosTo
    <3>5. /\ last = Last \/ BaresTo(first, last) = 1 + InfosTo(first, last)
          /\ \A j \in first .. (last - 1) : BaresTo(first, j) < 1 + InfosTo(first, j)
      BY <2>1, <3>1 DEF GoodBlocks, CodeWhole
    <3>6. last \in Int /\ \A j \in first .. (last - 1) : j \in Int
      BY <3>2
    <3>7. QED
      BY <3>4, <3>5, <3>6
  <2>2. QED
    BY <2>1, Zenon DEF CodeStaysWhole, SameFence
<1>2. QED
  BY <1>1, ParserKeepsInStep, PTL

============================================================================
