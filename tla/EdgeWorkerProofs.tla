--------------------------- MODULE EdgeWorkerProofs ---------------------------
(***************************************************************************)
(* The edge worker, for any number of requests, documents, sizes, retries   *)
(* and settings: calls are shared and bounded (ReviewsShareCalls), an answer*)
(* is for the document asked about (OwnResultsOnly), and both caches        *)
(* implement BoundedCache (WorkerCachesImplementBounded).                   *)
(*                                                                          *)
(* That is inductive once each cache agrees with itself and holds results   *)
(* made for their keys (CacheInv), the map of calls has the calls that are  *)
(* tracked (MapInv), and a request that waits follows a call on its own     *)
(* document that is under way or has settled (RequestInv).                  *)
(***************************************************************************)
EXTENDS EdgeWorker, CacheListsProofs

-----------------------------------------------------------------------------
(* TtlLruCache.                                                              *)

\* The results made for a document, and their entries.
Own(k) == [key : {k}, weight : Weights]
Entry(k) == [result : Own(k), expiresAt : Int]

\* A cache whose order, map and byte count agree, and whose entries are results
\* made for their keys.
Agrees(c) ==
  /\ c = [order |-> c.order, entries |-> c.entries, bytes |-> c.bytes]
  /\ c.order \in Seq(Keys) /\ IsInjective(c.order)
  /\ ToSet(c.order) = DOMAIN c.entries
  /\ \A k \in DOMAIN c.entries : c.entries[k] \in Entry(k)
  /\ c.bytes = Total(WeightsOf(c), DOMAIN c.entries)

\* A cache that is part of another, entries and account.
Part(d, c) ==
  /\ DOMAIN d.entries \subseteq DOMAIN c.entries
  /\ \A k \in DOMAIN d.entries : d.entries[k] = c.entries[k]
  /\ Len(d.order) <= Len(c.order) /\ d.bytes <= c.bytes

\* What agreement says of the keys and of the sums over them.
LEMMA AgreesSums ==
  ASSUME NEW c, Agrees(c)
  PROVE  /\ DOMAIN c.entries \subseteq Keys /\ IsFiniteSet(DOMAIN c.entries)
         /\ \A k \in DOMAIN c.entries : /\ WeightsOf(c)[k] \in Nat
                                        /\ WeightsOf(c)[k] = c.entries[k].result.weight
         /\ Len(c.order) \in Nat /\ Len(c.order) = Cardinality(DOMAIN c.entries)
         /\ c.bytes \in Nat
  <1>1. /\ IsFiniteSet(ToSet(c.order)) /\ ToSet(c.order) \subseteq Keys
        /\ Len(c.order) \in Nat /\ Cardinality(ToSet(c.order)) = Len(c.order)
    BY ListLength DEF Agrees
  <1>2. \A k \in DOMAIN c.entries : /\ WeightsOf(c)[k] \in Nat
                                    /\ WeightsOf(c)[k] = c.entries[k].result.weight
    BY WeightsAreNat DEF Agrees, WeightsOf, Entry, Own
  <1>3. Total(WeightsOf(c), DOMAIN c.entries) \in Nat
    BY <1>1, <1>2, TotalNat DEF Agrees
  <1> QED BY <1>1, <1>2, <1>3 DEF Agrees

\* remove.
LEMMA RemoveAgrees ==
  ASSUME NEW c, Agrees(c), NEW ks
  PROVE  LET d == RemoveEntries(c, ks) IN
         /\ Agrees(d) /\ Part(d, c) /\ DOMAIN d.entries = DOMAIN c.entries \ ks
         /\ d.bytes = Total(WeightsOf(c), DOMAIN c.entries \ ks)
  <1> DEFINE d == RemoveEntries(c, ks)
             D == DOMAIN c.entries
  <1>1. /\ IsFiniteSet(D) /\ \A k \in D : WeightsOf(c)[k] \in Nat
        /\ Len(c.order) \in Nat /\ Len(c.order) = Cardinality(D) /\ c.bytes \in Nat
    BY AgreesSums
  <1>2. /\ d = [order |-> d.order, entries |-> d.entries, bytes |-> d.bytes]
        /\ d.entries = [k \in D \ ks |-> c.entries[k]]
        /\ d.order = Without(c.order, ks)
        /\ d.bytes = c.bytes - Total(WeightsOf(c), ks \cap D)
    BY DEF RemoveEntries
  <1>3. DOMAIN d.entries = D \ ks /\ \A k \in D \ ks : d.entries[k] = c.entries[k]
    BY <1>2
  <1> HIDE DEF d
  <1>4. d.order \in Seq(Keys) /\ IsInjective(d.order) /\ ToSet(d.order) = ToSet(c.order) \ ks
    BY <1>2, WithoutElements DEF Agrees
  <1>5. /\ Total(WeightsOf(c), D \ ks) = Total(WeightsOf(c), D) - Total(WeightsOf(c), ks \cap D)
        /\ Total(WeightsOf(c), D \ ks) <= Total(WeightsOf(c), D)
    BY <1>1, TotalDifference
  <1>6. Total(WeightsOf(d), D \ ks) = Total(WeightsOf(c), D \ ks)
    <2>1. \A k \in D \ ks : WeightsOf(d)[k] = WeightsOf(c)[k]
      BY <1>3 DEF WeightsOf
    <2>2. IsFiniteSet(D \ ks)
      BY <1>1, FS_Subset
    <2> QED BY <1>1, <2>1, <2>2, TotalAgrees
  <1>7. Agrees(d)
    BY <1>2, <1>3, <1>4, <1>5, <1>6 DEF Agrees
  <1>8. Len(d.order) = Cardinality(D \ ks)
    BY <1>3, <1>7, AgreesSums
  <1>9. Cardinality(D \ ks) <= Cardinality(D)
    BY <1>1, FS_Subset
  <1>10. d.bytes = Total(WeightsOf(c), D \ ks)
    BY <1>3, <1>6, <1>7 DEF Agrees
  <1> QED BY <1>1, <1>2, <1>3, <1>5, <1>7, <1>8, <1>9, <1>10 DEF d, Agrees, Part

\* get: what is due is gone, and a key that is found is the youngest.
LEMMA GotAgrees ==
  ASSUME NEW c, Agrees(c), NEW k
  PROVE  Agrees(Got(c, k)) /\ Part(Got(c, k), c)
  <1> DEFINE d == Pruned(c)
             rest == Without(d.order, {k})
             e == Got(c, k)
  <1>1. Agrees(d) /\ Part(d, c)
    BY RemoveAgrees DEF Pruned
  <1>2. k \in DOMAIN d.entries => e = [d EXCEPT !.order = Append(rest, k)]
    BY DEF Got
  <1>3. k \notin DOMAIN d.entries => e = d
    BY DEF Got
  <1> HIDE DEF d, e
  <1>4. CASE k \in DOMAIN d.entries
    <2> DEFINE list == Append(rest, k)
    <2>1. rest \in Seq(Keys) /\ IsInjective(rest) /\ ToSet(rest) = ToSet(d.order) \ {k}
      BY <1>1, WithoutElements DEF Agrees
    <2>2. k \in Keys
      BY <1>1, <1>4, AgreesSums
    <2> HIDE DEF rest
    <2>3. list \in Seq(Keys) /\ IsInjective(list) /\ ToSet(list) = ToSet(rest) \cup {k}
      BY <2>1, <2>2, JoinsEnd
    <2> HIDE DEF list
    <2>4. e = [d EXCEPT !.order = list]
      BY <1>2, <1>4 DEF list
    <2>5. /\ e = [order |-> e.order, entries |-> e.entries, bytes |-> e.bytes]
          /\ e.order = list /\ e.entries = d.entries /\ e.bytes = d.bytes
      BY <1>1, <2>4 DEF Agrees
    <2>6. WeightsOf(e) = WeightsOf(d)
      BY <2>5 DEF WeightsOf
    <2>7. Agrees(e)
      BY <1>1, <1>4, <2>1, <2>3, <2>5, <2>6 DEF Agrees
    <2>8. Len(e.order) = Len(d.order)
      BY <1>1, <2>5, <2>7, AgreesSums
    <2> QED BY <1>1, <2>5, <2>7, <2>8 DEF Part, e
  <1>5. CASE k \notin DOMAIN d.entries
    BY <1>1, <1>3, <1>5 DEF e
  <1> QED BY <1>4, <1>5

\* The new entry of set.
LEMMA AddedAgrees ==
  ASSUME now \in Int, NEW c, Agrees(c), NEW k \in Keys, k \notin DOMAIN c.entries,
         NEW v \in Own(k)
  PROVE  LET d == Added(c, k, v) IN
         /\ Agrees(d) /\ DOMAIN d.entries = DOMAIN c.entries \cup {k}
         /\ d.entries[k].result = v
         /\ \A j \in DOMAIN c.entries : d.entries[j] = c.entries[j]
  <1> DEFINE x == [result |-> v, expiresAt |-> now + TTL]
             D == DOMAIN c.entries
             d == Added(c, k, v)
  <1>1. /\ d = [order |-> d.order, entries |-> d.entries, bytes |-> d.bytes]
        /\ d.order = Append(c.order, k)
        /\ d.entries = [j \in D \cup {k} |-> IF j = k THEN x ELSE c.entries[j]]
        /\ d.bytes = c.bytes + v.weight
    BY DEF Added
  <1> HIDE DEF d
  <1>2. /\ DOMAIN d.entries = D \cup {k} /\ d.entries[k] = x
        /\ \A j \in D : d.entries[j] = c.entries[j]
    BY <1>1
  <1>3. x \in Entry(k) /\ x.result = v /\ v.weight \in Nat
    <2>1. now + TTL \in Int
      BY SettingsAreInt
    <2>2. v.weight \in Nat
      BY WeightsAreNat DEF Own
    <2> QED BY <2>1, <2>2 DEF Entry
  <1> HIDE DEF x
  <1>4. /\ d.order \in Seq(Keys) /\ IsInjective(d.order)
        /\ ToSet(d.order) = ToSet(c.order) \cup {k}
    BY <1>1, JoinsEnd DEF Agrees
  <1>5. /\ IsFiniteSet(D) /\ c.bytes = Total(WeightsOf(c), D)
        /\ \A j \in D : WeightsOf(c)[j] \in Nat
    BY AgreesSums DEF Agrees
  <1>6. /\ WeightsOf(d)[k] = v.weight /\ WeightsOf(d)[k] \in Nat
        /\ \A j \in D \ {k} : WeightsOf(d)[j] = WeightsOf(c)[j]
    BY <1>2, <1>3 DEF WeightsOf
  <1>7. Total(WeightsOf(d), D \cup {k}) = Total(WeightsOf(c), D) + v.weight
    <2> DEFINE was == WeightsOf(c)
               is == WeightsOf(d)
    <2>1. IsFiniteSet(D) /\ k \notin D
      BY <1>5
    <2>2. is[k] \in Nat
      BY <1>6
    <2>3. \A j \in D : was[j] \in Nat
      BY <1>5
    <2>4. \A j \in D : is[j] = was[j]
      BY <1>6, <2>1
    <2> HIDE DEF was, is, D
    <2>5. Total(is, D \cup {k}) = Total(was, D) + is[k]
      BY <2>1, <2>2, <2>3, <2>4, TotalAdd
    <2> QED BY <1>6, <2>5 DEF was, is, D
  <1>8. Agrees(d)
    BY <1>1, <1>2, <1>3, <1>4, <1>5, <1>7 DEF Agrees
  <1> QED BY <1>2, <1>3, <1>8 DEF d

\* The limits, a negative one being none at all.
LEMMA LimitsNat ==
  /\ Limits.entries \in Nat /\ Limits.bytes \in Nat
  /\ MaxEntries > 0 => Limits.entries = MaxEntries
  /\ MaxBytes > 0 => Limits.bytes = MaxBytes
  <1>1. /\ Max({MaxEntries, 0}) = (IF MaxEntries >= 0 THEN MaxEntries ELSE 0)
        /\ Max({MaxBytes, 0}) = (IF MaxBytes >= 0 THEN MaxBytes ELSE 0)
    BY SettingsAreInt, MaxOfTwo
  <1> QED BY <1>1, SettingsAreInt DEF Limits

\* What the loop of set leaves is within the limits.
LEMMA OverflowFits ==
  ASSUME NEW c, Agrees(c), MaxEntries > 0, MaxBytes > 0
  PROVE  LET d == RemoveEntries(c, Overflow(c)) IN
         Len(d.order) <= MaxEntries /\ d.bytes <= MaxBytes
  <1> DEFINE w == WeightsOf(c)
             D == DOMAIN c.entries
             n == Len(c.order)
             fits(i) == /\ n - i + 1 <= MaxEntries
                        /\ Total(w, ToSet(SubSeq(c.order, i, n))) <= MaxBytes
             F == {i \in 1 .. n : fits(i)}
             kept == D \ Overflow(c)
             d == RemoveEntries(c, Overflow(c))
  <1>1. /\ IsFiniteSet(D) /\ n \in Nat
        /\ c.order \in Seq(Keys) /\ IsInjective(c.order) /\ ToSet(c.order) = D
        /\ DOMAIN c.order = 1 .. n
    BY AgreesSums, LenProperties DEF Agrees
  <1>2. \A k \in D : w[k] \in Nat
    BY AgreesSums
  <1>3. /\ Agrees(d) /\ DOMAIN d.entries = kept /\ d.bytes = Total(w, kept)
    BY RemoveAgrees
  <1>4. Len(d.order) = Cardinality(kept) /\ IsFiniteSet(kept)
    BY <1>3, AgreesSums
  <1>5. \A k \in kept : \E i \in F : k = c.order[i]
    <2>1. \A k \in D : \E i \in 1 .. n : k = c.order[i]
      BY <1>1 DEF ToSet
    <2>2. \A i \in 1 .. n : ~fits(i) => c.order[i] \in Overflow(c)
      BY DEF Overflow
    <2> HIDE DEF fits
    <2> QED BY <2>1, <2>2
  <1> HIDE DEF d, w, fits
  <1>6. CASE F = {}
    <2>1. kept = {}
      BY <1>5, <1>6
    <2>2. Total(w, {}) = 0
      BY TotalEmpty
    <2>3. Cardinality({}) = 0
      BY FS_EmptySet
    <2> HIDE DEF kept
    <2>4. Len(d.order) = 0 /\ d.bytes = 0
      BY <1>3, <1>4, <2>1, <2>2, <2>3
    <2> QED BY <2>4, SettingsAreInt DEF d
  <1>7. CASE F # {}
    <2>1. F \subseteq Nat
      BY <1>1
    <2>2. PICK m \in F : \A i \in F : m <= i
      BY <1>7, <2>1, Least
    <2> DEFINE rest == Stretch(c.order, m, n)
    <2>3. m \in 1 .. n /\ fits(m)
      BY <2>2
    <2>4. /\ ToSet(SubSeq(c.order, m, n)) = rest
          /\ IsFiniteSet(rest) /\ Cardinality(rest) = n - (m - 1)
          /\ ToSet(c.order) \ Stretch(c.order, 1, m - 1) = rest
      <3>1. m - 1 \in 0 .. Len(c.order) /\ m - 1 + 1 = m
        BY <1>1, <2>3
      <3> DEFINE p == m - 1
      <3>2. p \in 0 .. Len(c.order)
        BY <3>1
      <3> HIDE DEF p
      <3>3. /\ ToSet(SubSeq(c.order, p + 1, Len(c.order))) = Stretch(c.order, p + 1, Len(c.order))
            /\ ToSet(c.order) \ Stretch(c.order, 1, p) = Stretch(c.order, p + 1, Len(c.order))
            /\ IsFiniteSet(Stretch(c.order, p + 1, Len(c.order)))
            /\ Cardinality(Stretch(c.order, p + 1, Len(c.order))) = Len(c.order) - p
        BY <1>1, <3>2, CutInTwo
      <3>4. p + 1 = m
        BY <3>1 DEF p
      <3> QED BY <3>3, <3>4 DEF p
    <2>5. kept \subseteq rest
      <3>1. ASSUME NEW k \in kept PROVE k \in rest
        <4>1. PICK i \in F : k = c.order[i]
          BY <1>5
        <4>2. i \in m .. n
          BY <1>1, <2>2, <2>3, <4>1
        <4> QED BY <4>1, <4>2 DEF Stretch
      <3> QED BY <3>1
    <2>6. rest \subseteq D
      BY <1>1, <2>4
    <2> HIDE DEF rest, kept, D, F
    <2>7. Cardinality(kept) <= Cardinality(rest)
      BY <2>4, <2>5, FS_Subset
    <2>8. Total(w, kept) <= Total(w, rest)
      BY <1>2, <2>4, <2>5, <2>6, TotalMonotone
    <2>9. n - m + 1 <= MaxEntries /\ Total(w, rest) <= MaxBytes
      BY <2>3, <2>4 DEF fits
    <2>10. Total(w, rest) \in Nat /\ Total(w, kept) \in Nat
      BY <1>2, <1>4, <2>4, <2>5, <2>6, TotalNat
    <2>11. Cardinality(kept) \in Nat /\ Cardinality(rest) \in Nat
      BY <1>4, <2>4, FS_CardinalityType
    <2>12. Len(d.order) <= MaxEntries
      BY <1>1, <1>4, <2>3, <2>4, <2>7, <2>9, <2>11, SettingsAreInt
    <2>13. d.bytes <= MaxBytes
      BY <1>3, <2>8, <2>9, <2>10, SettingsAreInt
    <2> QED BY <2>12, <2>13 DEF d
  <1> QED BY <1>6, <1>7

\* A cache that agrees with itself, is within the limits, and is empty when disabled.
Sound(c) ==
  /\ Agrees(c)
  /\ Len(c.order) <= Limits.entries /\ c.bytes <= Limits.bytes
  /\ MaxEntries <= 0 \/ TTL <= 0 \/ MaxBytes <= 0 => DOMAIN c.entries = {}

\* A part of a sound cache is sound.
LEMMA PartSound ==
  ASSUME NEW c, Sound(c), NEW d, Agrees(d), Part(d, c)
  PROVE  Sound(d)
  <1>1. /\ Len(d.order) \in Nat /\ Len(c.order) \in Nat /\ Limits.entries \in Nat
        /\ d.bytes \in Nat /\ c.bytes \in Nat /\ Limits.bytes \in Nat
    BY AgreesSums, LimitsNat DEF Sound
  <1> QED BY <1>1 DEF Sound, Part

\* The cache after set: under the key there is the new result or nothing, and
\* nothing else is new.
Renewed(d, c, k, v) ==
  /\ Sound(d)
  /\ k \in DOMAIN d.entries => d.entries[k].result = v
  /\ \A j \in DOMAIN d.entries \ {k} : j \in DOMAIN c.entries /\ d.entries[j] = c.entries[j]

\* set.
LEMMA SetSound ==
  ASSUME now \in Int, NEW r \in Routes, NEW c, Sound(c), NEW k \in Keys, NEW v \in Own(k),
         caches = [x \in Routes |-> caches[x]], current \in [Routes -> [Keys -> Results \cup {None}]],
         SetEntry(r, c, k, v)
  PROVE  /\ caches' = [x \in Routes |-> caches'[x]]
         /\ \A x \in Routes : x # r => caches'[x] = caches[x]
         /\ Renewed(caches'[r], c, k, v)
         /\ current' = [current EXCEPT ![r] = [current[r] EXCEPT ![k] = v]]
         /\ current' \in [Routes -> [Keys -> Results \cup {None}]]
  <1> DEFINE off == MaxEntries <= 0 \/ TTL <= 0 \/ MaxBytes <= 0
             a == Pruned(c)
             b == RemoveEntries(a, {k})
             e == Added(b, k, v)
             d == IF off THEN c
                  ELSE IF v.weight > MaxBytes THEN b
                  ELSE RemoveEntries(e, Overflow(e))
  <1>1. /\ caches' = [caches EXCEPT ![r] = d]
        /\ current' = [current EXCEPT ![r] = [current[r] EXCEPT ![k] = v]]
    BY DEF SetEntry
  <1>2. Agrees(a) /\ Part(a, c)
    BY RemoveAgrees DEF Pruned, Sound
  <1> HIDE DEF a
  <1>3. Agrees(b) /\ Part(b, a) /\ k \notin DOMAIN b.entries
    <2>1. Agrees(b) /\ Part(b, a) /\ DOMAIN b.entries = DOMAIN a.entries \ {k}
      BY <1>2, RemoveAgrees
    <2> HIDE DEF b
    <2> QED BY <2>1
  <1> HIDE DEF b
  <1>4. Sound(a)
    BY <1>2, PartSound
  <1>5. Sound(b)
    BY <1>3, <1>4, PartSound
  <1>6. \A j \in DOMAIN b.entries : j \in DOMAIN c.entries /\ b.entries[j] = c.entries[j]
    BY <1>2, <1>3 DEF Part
  <1>7. ASSUME off PROVE Renewed(d, c, k, v)
    <2>1. DOMAIN c.entries = {}
      BY <1>7 DEF Sound
    <2> QED BY <1>7, <2>1 DEF Renewed
  <1>8. ASSUME ~off, v.weight > MaxBytes PROVE Renewed(d, c, k, v)
    BY <1>3, <1>5, <1>6, <1>8 DEF Renewed
  <1>9. ASSUME ~off, ~(v.weight > MaxBytes) PROVE Renewed(d, c, k, v)
    <2> DEFINE f == RemoveEntries(e, Overflow(e))
    <2>1. /\ Agrees(e) /\ DOMAIN e.entries = DOMAIN b.entries \cup {k}
          /\ e.entries[k].result = v
          /\ \A j \in DOMAIN b.entries : e.entries[j] = b.entries[j]
      BY <1>3, AddedAgrees
    <2> HIDE DEF e
    <2>2. Agrees(f) /\ Part(f, e)
      BY <2>1, RemoveAgrees
    <2>3. MaxEntries > 0 /\ MaxBytes > 0
      BY <1>9, SettingsAreInt
    <2>4. Len(f.order) <= MaxEntries /\ f.bytes <= MaxBytes
      BY <2>1, <2>3, OverflowFits
    <2> HIDE DEF f
    <2>5. Sound(f)
      BY <1>9, <2>2, <2>3, <2>4, LimitsNat DEF Sound
    <2>6. Renewed(f, c, k, v)
      BY <1>6, <2>1, <2>2, <2>5 DEF Renewed, Part
    <2> QED BY <1>9, <2>6 DEF f
  <1>10. Renewed(d, c, k, v)
    BY <1>7, <1>8, <1>9
  <1> HIDE DEF d
  <1>11. caches' = [x \in Routes |-> IF x = r THEN d ELSE caches[x]]
    BY <1>1
  <1>12. /\ caches' = [x \in Routes |-> caches'[x]]
         /\ caches'[r] = d /\ \A x \in Routes : x # r => caches'[x] = caches[x]
    BY <1>11
  <1>13. v \in Results
    BY DEF Own, Results
  <1>14. current' \in [Routes -> [Keys -> Results \cup {None}]]
    <2>1. [current[r] EXCEPT ![k] = v] \in [Keys -> Results \cup {None}]
      BY <1>13
    <2> HIDE DEF Results
    <2> QED BY <1>1, <2>1
  <1> QED BY <1>1, <1>10, <1>12, <1>14

-----------------------------------------------------------------------------
(* The inductive invariant: the caches, the variables' shapes, the map of    *)
(* calls, and what is known of each request.                                 *)

CacheInv ==
  /\ now \in 0 .. MaxTime
  /\ caches = [r \in Routes |-> caches[r]]
  /\ current \in [Routes -> [Keys -> Results \cup {None}]]
  /\ \A r \in Routes : Sound(caches[r])

Shapes ==
  /\ route \in [Requests -> Routes]
  /\ pc \in [Requests -> PCs]
  /\ key \in [Requests -> Keys \cup {None}]
  /\ tracked \in [Requests -> BOOLEAN]
  /\ attempt \in [Requests -> 0 .. MaxRetries]
  /\ promise \in [Requests -> Results \cup Errors(AllFailures) \cup {None}]
  /\ follows \in [Requests -> 0 .. N]
  /\ answer \in [Requests -> Results \cup Errors(Codes) \cup {None}]

MapInv ==
  /\ DOMAIN inflight \subseteq Keys /\ IsFiniteSet(DOMAIN inflight)
  /\ Cardinality(DOMAIN inflight) <= MaxInflight
  /\ \A k \in DOMAIN inflight : /\ inflight[k] \in Requests /\ pc[inflight[k]] \in CallPCs
                                 /\ tracked[inflight[k]] /\ key[inflight[k]] = k

\* A request that waits follows one that has the same document and is on its call
\* or has ended it with a settled promise.
RequestInv(q) ==
  /\ tracked[q] => /\ pc[q] \in CallPCs
                   /\ key[q] \in DOMAIN inflight /\ inflight[key[q]] = q
  /\ pc[q] \notin {"new", "reading", "answered"} => key[q] \in Keys
  /\ pc[q] \in {"new", "reading", "hashing"} => promise[q] = None
  /\ promise[q] # None => promise[q] \in Own(key[q]) \cup Errors(AllFailures)
  /\ pc[q] = "settled" => promise[q] # None
  /\ pc[q] # "answered" => answer[q] = None
  /\ answer[q] \in Results => answer[q].key = key[q]
  /\ pc[q] = "waiting" =>
       /\ follows[q] \in Requests /\ key[follows[q]] = key[q]
       /\ pc[follows[q]] \in CallPCs \cup {"answered"}
       /\ pc[follows[q]] = "answered" => promise[follows[q]] # None

EInv ==
  /\ CacheInv
  /\ Shapes
  /\ MapInv
  /\ \A q \in Requests : RequestInv(q)

\* An error is no result.
LEMMA ErrorsDiffer ==
  /\ \A code : Error(code) \notin Results
  /\ \A x \in Errors(AllFailures) : x \notin Results
  BY DEF Error, Errors, Results

\* An error is not the missing value.
LEMMA ErrorNotNone == \A x \in Errors(AllFailures) : x # None
  BY NoneIsNil DEF Errors

\* The worker before the first request.
LEMMA EInvInit == Init => EInv
  <1> SUFFICES ASSUME Init PROVE EInv
    OBVIOUS
  <1>1. ASSUME NEW r \in Routes PROVE Sound(caches[r])
    <2> DEFINE c == EmptyCache
    <2>1. caches[r] = c
      BY DEF Init
    <2>2. /\ c = [order |-> c.order, entries |-> c.entries, bytes |-> c.bytes]
          /\ c.order = <<>> /\ c.entries = <<>> /\ c.bytes = 0
      BY DEF EmptyCache
    <2> HIDE DEF c
    <2>3. /\ DOMAIN c.entries = {} /\ c.order \in Seq(Keys) /\ Len(c.order) = 0
          /\ IsInjective(c.order) /\ ToSet(c.order) = {}
      BY <2>2 DEF IsInjective, ToSet
    <2>4. Total(WeightsOf(c), {}) = 0
      BY TotalEmpty
    <2>5. Agrees(c)
      BY <2>2, <2>3, <2>4 DEF Agrees
    <2> QED BY <2>1, <2>2, <2>3, <2>5, LimitsNat DEF Sound
  <1>2. CacheInv
    BY <1>1, LimitsAreNat DEF CacheInv, Init
  <1>3. Shapes
    <2>1. route \in [Requests -> Routes]
      BY DEF Init, Routes
    <2>2. attempt \in [Requests -> 0 .. MaxRetries] /\ follows \in [Requests -> 0 .. N]
      BY LimitsAreNat, NIsNat DEF Init
    <2>3. pc \in [Requests -> PCs]
      BY DEF Init, PCs
    <2>4. tracked \in [Requests -> BOOLEAN]
      BY DEF Init
    <2> QED BY <2>1, <2>2, <2>3, <2>4 DEF Shapes, Init
  <1>4. MapInv
    <2>1. DOMAIN inflight = {}
      BY DEF Init
    <2> QED BY <2>1, FS_EmptySet, LimitsAreNat DEF MapInv
  <1>5. \A q \in Requests : RequestInv(q)
    <2> SUFFICES ASSUME NEW q \in Requests PROVE RequestInv(q)
      OBVIOUS
    <2>1. /\ pc[q] = "new" /\ ~tracked[q] /\ promise[q] = None /\ answer[q] = None
      BY DEF Init
    <2>2. None \notin Results
      BY NoneIsNil DEF Results
    <2> QED BY <2>1, <2>2 DEF RequestInv
  <1> QED BY <1>2, <1>3, <1>4, <1>5 DEF EInv

-----------------------------------------------------------------------------
(* What a step does to the cache of a route.                                 *)

\* It forgets entries, or gives a new result to one key.
Looked(r) ==
  /\ current'[r] = current[r]
  /\ Sound(caches'[r]) /\ Part(caches'[r], caches[r])

Renews(r, k, v) ==
  /\ current'[r] = [current[r] EXCEPT ![k] = v]
  /\ Renewed(caches'[r], caches[r], k, v)

\* Every step leaves the caches in order, and looks at, renews or leaves alone
\* the cache of each route.
LEMMA CachesStep ==
  ASSUME EInv, [Next]_vars
  PROVE  /\ CacheInv'
         /\ \A r \in Routes : Looked(r) \/ \E k \in Keys : \E v \in Own(k) : Renews(r, k, v)
  <1> DEFINE Done == /\ CacheInv'
                     /\ \A r \in Routes : \/ Looked(r)
                                           \/ \E k \in Keys : \E v \in Own(k) : Renews(r, k, v)
  <1>1. /\ now \in Int /\ caches = [r \in Routes |-> caches[r]]
        /\ current \in [Routes -> [Keys -> Results \cup {None}]]
        /\ \A r \in Routes : Sound(caches[r])
    BY LimitsAreNat DEF EInv, CacheInv
  <1>2. \A r \in Routes : Part(caches[r], caches[r])
    BY <1>1, AgreesSums DEF Sound, Part
  <1>3. now' \in 0 .. MaxTime
    <2>1. now \in 0 .. MaxTime
      BY DEF EInv, CacheInv
    <2>2. now' = now \/ (now < MaxTime /\ now' = now + 1)
      BY DEF Next, Handling, Admit, Refuse, Analyze, ReviewBegins, ReviewHit, ReviewJoins,
             ReviewCalls, CallSucceeds, CallFails, Retry, CallerResumes, WaiterResumes, Tick, vars
    <2> QED BY <2>1, <2>2, LimitsAreNat
  <1>4. ASSUME caches' = caches, current' = current PROVE Done
    BY <1>1, <1>2, <1>3, <1>4 DEF CacheInv, Looked, Sound, Agrees
  <1>5. ASSUME NEW r \in Routes, NEW k, caches' = [caches EXCEPT ![r] = Got(caches[r], k)], current' = current
        PROVE  Done
    <2> DEFINE e == Got(caches[r], k)
    <2>1. Agrees(e) /\ Part(e, caches[r])
      BY <1>1, GotAgrees DEF Sound
    <2>2. Sound(e)
      BY <1>1, <2>1, PartSound
    <2> HIDE DEF e
    <2>3. caches' = [x \in Routes |-> IF x = r THEN e ELSE caches[x]]
      BY <1>1, <1>5 DEF e
    <2>4. caches' = [x \in Routes |-> caches'[x]]
      BY <2>3
    <2>5. ASSUME NEW x \in Routes PROVE Sound(caches'[x]) /\ Looked(x)
      <3>1. caches'[x] = IF x = r THEN e ELSE caches[x]
        BY <2>3
      <3>2. Sound(caches'[x]) /\ Part(caches'[x], caches[x])
        BY <1>1, <1>2, <2>1, <2>2, <3>1
      <3> QED BY <1>5, <3>2 DEF Looked
    <2> QED BY <1>1, <1>3, <1>5, <2>4, <2>5 DEF CacheInv, Sound, Agrees
  <1>6. ASSUME NEW r \in Routes, NEW c, Sound(c), Part(c, caches[r]),
               NEW k \in Keys, NEW v \in Own(k), SetEntry(r, c, k, v)
        PROVE  Done
    <2>1. /\ caches' = [x \in Routes |-> caches'[x]]
          /\ \A x \in Routes : x # r => caches'[x] = caches[x]
          /\ Renewed(caches'[r], c, k, v)
          /\ current' = [current EXCEPT ![r] = [current[r] EXCEPT ![k] = v]]
          /\ current' \in [Routes -> [Keys -> Results \cup {None}]]
      BY <1>1, <1>6, SetSound
    <2>2. current'[r] = [current[r] EXCEPT ![k] = v] /\ \A x \in Routes : x # r => current'[x] = current[x]
      BY <1>1, <2>1
    <2>3. Renewed(caches'[r], caches[r], k, v)
      BY <1>6, <2>1 DEF Renewed, Part
    <2>4. ASSUME NEW x \in Routes
          PROVE  /\ Sound(caches'[x])
                 /\ Looked(x) \/ \E j \in Keys : \E w \in Own(j) : Renews(x, j, w)
      <3>1. CASE x = r
        BY <2>2, <2>3, <3>1 DEF Renews, Renewed
      <3>2. CASE x # r
        BY <1>1, <1>2, <2>1, <2>2, <3>2 DEF Looked
      <3> QED BY <3>1, <3>2
    <2> QED BY <1>3, <2>1, <2>4 DEF CacheInv, Sound, Agrees
  <1> HIDE DEF Done
  <1>7. ASSUME NEW q \in Requests, NEW k \in Keys, Analyze(q, k) PROVE Done
    <2> DEFINE r == "analyze"
               c == Got(caches[r], k)
    <2>1. r \in Routes
      BY DEF Routes
    <2>2. \/ caches' = [caches EXCEPT ![r] = c] /\ current' = current
          \/ \E v \in [key : {k}, weight : Weights] : SetEntry(r, c, k, v)
      BY <1>7 DEF Analyze
    <2>3. Agrees(c) /\ Part(c, caches[r])
      BY <1>1, <2>1, GotAgrees DEF Sound
    <2>4. Sound(c)
      BY <1>1, <2>1, <2>3, PartSound
    <2>5. CASE caches' = [caches EXCEPT ![r] = c] /\ current' = current
      BY <1>5, <2>1, <2>5
    <2>6. ASSUME NEW v \in Own(k), SetEntry(r, c, k, v) PROVE Done
      BY <1>6, <2>1, <2>3, <2>4, <2>6
    <2> QED BY <2>2, <2>5, <2>6 DEF Own
  <1>8. ASSUME NEW q \in Requests, ReviewHit(q) \/ ReviewJoins(q) \/ ReviewCalls(q) PROVE Done
    <2>1. "review" \in Routes
      BY DEF Routes
    <2>2. caches' = [caches EXCEPT !["review"] = Got(caches["review"], key[q])] /\ current' = current
      BY <1>8 DEF ReviewHit, ReviewJoins, ReviewCalls, Missed
    <2> QED BY <1>5, <2>1, <2>2
  <1>9. ASSUME NEW q \in Requests, CallerResumes(q) PROVE Done
    <2>1. "review" \in Routes
      BY DEF Routes
    <2>2. CASE promise[q] \in Errors(AllFailures)
      BY <1>4, <1>9, <2>2 DEF CallerResumes, cacheVars
    <2>3. CASE promise[q] \notin Errors(AllFailures)
      <3>1. key[q] \in Keys /\ promise[q] \in Own(key[q])
        BY <1>9, <2>3 DEF CallerResumes, EInv, RequestInv
      <3>2. SetEntry("review", caches["review"], key[q], promise[q])
        BY <1>9, <2>3 DEF CallerResumes
      <3> QED BY <1>1, <1>2, <1>6, <2>1, <3>1, <3>2
    <2> QED BY <2>2, <2>3
  <1>10. ASSUME NEW q \in Requests, Handling(q) PROVE Done
    <2>1. CASE \/ \E k \in Keys : ReviewBegins(q, k)
               \/ CallSucceeds(q) \/ Retry(q) \/ WaiterResumes(q)
               \/ \E failure \in Failures : CallFails(q, failure)
      BY <1>4, <2>1 DEF ReviewBegins, CallSucceeds, Retry, WaiterResumes, CallFails, cacheVars
    <2> QED BY <1>7, <1>8, <1>9, <1>10, <2>1 DEF Handling
  <1>11. CASE \/ \E q \in Requests : Admit(q)
              \/ \E q \in Requests, code \in BadInputs : Refuse(q, code)
              \/ Tick \/ UNCHANGED vars
    <2>1. caches' = caches /\ current' = current
      BY <1>11 DEF Admit, Refuse, Tick, vars, cacheVars
    <2>2. Done
      BY <1>4, <2>1
    <2> QED BY <2>2 DEF Done
  <1>12. CASE \E q \in Requests : Handling(q)
    <2>1. Done
      BY <1>10, <1>12
    <2> QED BY <2>1 DEF Done
  <1> QED BY <1>11, <1>12 DEF Next

-----------------------------------------------------------------------------
(* What a step does to the requests.                                         *)

\* mapJevError has an answer for every failure; a result is passed on.
LEMMA OutcomeType ==
  ASSUME NEW p \in Results \cup Errors(AllFailures)
  PROVE  /\ Outcome(p) \in Results \cup Errors(Codes)
         /\ Outcome(p) \in Results => Outcome(p) = p /\ p \notin Errors(AllFailures)
  <1>1. \A f : MapJevError(f) \in {"semantic_review_unconfigured", "jev_timeout",
                                   "jev_invalid_response", "jev_upstream_error"}
    BY Zenon DEF MapJevError
  <1>2. \A f : MapJevError(f) \in Codes
    BY <1>1 DEF Codes
  <1>3. \A f : Error(MapJevError(f)) \in Errors(Codes)
    BY <1>2 DEF Error, Errors
  <1>4. CASE p \in Errors(AllFailures)
    <2>1. Outcome(p) = Error(MapJevError(p.error))
      BY <1>4 DEF Outcome
    <2> QED BY <1>3, <2>1, ErrorsDiffer
  <1>5. CASE p \notin Errors(AllFailures)
    BY <1>5 DEF Outcome
  <1> QED BY <1>4, <1>5

\* What get finds was made for its key.
LEMMA CachedOwn ==
  ASSUME EInv, NEW r \in Routes, NEW k, k \in DOMAIN Got(caches[r], k).entries
  PROVE  Got(caches[r], k).entries[k].result \in Own(k)
  <1>1. Agrees(Got(caches[r], k))
    BY GotAgrees DEF EInv, CacheInv, Sound
  <1> QED BY <1>1 DEF Agrees, Entry

\* The requests that a step of q leaves alone.
Alone(p) ==
  /\ pc'[p] = pc[p] /\ key'[p] = key[p] /\ promise'[p] = promise[p] /\ answer'[p] = answer[p]
  /\ tracked'[p] = tracked[p] /\ follows'[p] = follows[p]

\* A step that leaves the map alone, and a request that is on its call on it.
LEMMA Moves ==
  ASSUME EInv, NEW q \in Requests, inflight' = inflight, tracked'[q] = tracked[q],
         \A p \in Requests \ {q} : Alone(p),
         pc[q] # "answered",
         pc[q] \in CallPCs => pc'[q] \in CallPCs /\ key'[q] = key[q],
         RequestInv(q)'
  PROVE  MapInv' /\ \A p \in Requests : RequestInv(p)'
  <1>1. \A p \in Requests : RequestInv(p)
    BY DEF EInv
  <1>2. MapInv'
    <2>1. MapInv
      BY DEF EInv
    <2>2. ASSUME NEW k \in DOMAIN inflight
          PROVE  /\ pc'[inflight[k]] \in CallPCs /\ tracked'[inflight[k]] /\ key'[inflight[k]] = k
      <3>1. /\ inflight[k] \in Requests /\ pc[inflight[k]] \in CallPCs
            /\ tracked[inflight[k]] /\ key[inflight[k]] = k
        BY <2>1 DEF MapInv
      <3>2. CASE inflight[k] = q
        BY <3>1, <3>2
      <3>3. CASE inflight[k] # q
        BY <3>1, <3>3 DEF Alone
      <3> QED BY <3>2, <3>3
    <2> QED BY <2>1, <2>2 DEF MapInv
  <1>3. ASSUME NEW p \in Requests, p # q PROVE RequestInv(p)'
    <2>1. Alone(p) /\ RequestInv(p)
      BY <1>1, <1>3
    <2>2. ASSUME pc[p] = "waiting"
          PROVE  /\ key'[follows[p]] = key[p]
                 /\ pc'[follows[p]] \in CallPCs \cup {"answered"}
                 /\ pc'[follows[p]] = "answered" => promise'[follows[p]] # None
      <3>1. /\ follows[p] \in Requests /\ key[follows[p]] = key[p]
            /\ pc[follows[p]] \in CallPCs \cup {"answered"}
            /\ pc[follows[p]] = "answered" => promise[follows[p]] # None
        BY <2>1, <2>2 DEF RequestInv
      <3>2. CASE follows[p] = q
        <4>1. pc'[q] \in CallPCs /\ key'[q] = key[q]
          BY <3>1, <3>2
        <4>2. pc'[q] # "answered"
          BY <4>1 DEF CallPCs
        <4> QED BY <3>1, <3>2, <4>1, <4>2
      <3>3. CASE follows[p] # q
        BY <3>1, <3>3 DEF Alone
      <3> QED BY <3>2, <3>3
    <2> QED BY <2>1, <2>2 DEF RequestInv, Alone
  <1> QED BY <1>2, <1>3

\* The caller's await returns or throws.  Whoever follows it finds the promise settled.
LEMMA CallerResumesStep ==
  ASSUME EInv, NEW q \in Requests, CallerResumes(q)
  PROVE  Shapes' /\ MapInv' /\ \A p \in Requests : RequestInv(p)'
  <1>1. /\ pc[q] = "settled" /\ pc' = [pc EXCEPT ![q] = "answered"]
        /\ answer' = [answer EXCEPT ![q] = Outcome(promise[q])]
        /\ inflight' = (IF tracked[q] THEN [k \in DOMAIN inflight \ {key[q]} |-> inflight[k]]
                        ELSE inflight)
        /\ tracked' = [tracked EXCEPT ![q] = FALSE] /\ attempt' = [attempt EXCEPT ![q] = 0]
        /\ follows' = [follows EXCEPT ![q] = 0]
        /\ route' = route /\ key' = key /\ promise' = promise
    BY DEF CallerResumes, Answer, Goto, Forget
  <1>2. Shapes /\ MapInv /\ \A p \in Requests : RequestInv(p)
    BY DEF EInv
  <1>3. key[q] \in Keys /\ promise[q] # None /\ promise[q] \in Own(key[q]) \cup Errors(AllFailures)
    BY <1>1, <1>2 DEF RequestInv
  <1>4. Own(key[q]) \subseteq Results /\ \A x \in Own(key[q]) : x.key = key[q]
    BY <1>3 DEF Own, Results
  <1>5. /\ Outcome(promise[q]) \in Results \cup Errors(Codes)
        /\ Outcome(promise[q]) \in Results => Outcome(promise[q]).key = key[q]
    BY <1>3, <1>4, OutcomeType
  <1>6. Shapes'
    <2>1. pc' \in [Requests -> PCs]
      BY <1>1, <1>2 DEF Shapes, PCs
    <2>2. answer' \in [Requests -> Results \cup Errors(Codes) \cup {None}]
      BY <1>1, <1>2, <1>5 DEF Shapes
    <2>3. tracked' \in [Requests -> BOOLEAN]
      BY <1>1, <1>2, Zenon DEF Shapes
    <2>4. attempt' \in [Requests -> 0 .. MaxRetries] /\ follows' \in [Requests -> 0 .. N]
      BY <1>1, <1>2, LimitsAreNat, NIsNat DEF Shapes
    <2> QED BY <1>1, <1>2, <2>1, <2>2, <2>3, <2>4 DEF Shapes
  <1>7. /\ pc'[q] = "answered" /\ answer'[q] = Outcome(promise[q]) /\ ~tracked'[q]
        /\ \A p \in Requests : p # q => Alone(p)
    <2>1. pc'[q] = "answered" /\ answer'[q] = Outcome(promise[q])
          /\ \A p \in Requests : p # q => pc'[p] = pc[p] /\ answer'[p] = answer[p]
      BY <1>1, <1>2 DEF Shapes
    <2>2. ~tracked'[q] /\ \A p \in Requests : p # q => tracked'[p] = tracked[p]
      BY <1>1, <1>2, Zenon DEF Shapes
    <2>3. \A p \in Requests : p # q => follows'[p] = follows[p]
      BY <1>1, <1>2 DEF Shapes
    <2> QED BY <1>1, <2>1, <2>2, <2>3 DEF Alone
  <1>8. /\ DOMAIN inflight' \subseteq DOMAIN inflight
        /\ \A k \in DOMAIN inflight' : inflight'[k] = inflight[k] /\ inflight[k] # q
        /\ \A k \in DOMAIN inflight : inflight[k] # q => k \in DOMAIN inflight'
    <2>1. CASE tracked[q]
      <3>1. inflight' = [k \in DOMAIN inflight \ {key[q]} |-> inflight[k]]
        BY <1>1, <2>1
      <3>2. key[q] \in DOMAIN inflight /\ inflight[key[q]] = q
        BY <1>2, <2>1 DEF RequestInv
      <3>3. \A k \in DOMAIN inflight : inflight[k] = q => k = key[q]
        BY <1>2 DEF MapInv
      <3> QED BY <3>1, <3>2, <3>3
    <2>2. CASE ~tracked[q]
      <3>1. inflight' = inflight
        BY <1>1, <2>2
      <3>2. \A k \in DOMAIN inflight : tracked[inflight[k]]
        BY <1>2 DEF MapInv
      <3> QED BY <2>2, <3>1, <3>2
    <2> QED BY <2>1, <2>2
  <1>9. MapInv'
    <2>1. IsFiniteSet(DOMAIN inflight') /\ Cardinality(DOMAIN inflight') <= MaxInflight
      <3>1. IsFiniteSet(DOMAIN inflight') /\ Cardinality(DOMAIN inflight') <= Cardinality(DOMAIN inflight)
        BY <1>2, <1>8, FS_Subset DEF MapInv
      <3>2. Cardinality(DOMAIN inflight') \in Nat /\ Cardinality(DOMAIN inflight) \in Nat
        BY <1>2, <3>1, FS_CardinalityType DEF MapInv
      <3> QED BY <1>2, <3>1, <3>2, LimitsAreNat DEF MapInv
    <2> QED BY <1>2, <1>7, <1>8, <2>1 DEF MapInv, Alone
  <1>10. RequestInv(q)'
    BY <1>1, <1>3, <1>5, <1>7 DEF RequestInv, CallPCs
  <1>11. ASSUME NEW p \in Requests, p # q PROVE RequestInv(p)'
    <2>1. Alone(p) /\ RequestInv(p)
      BY <1>2, <1>7, <1>11
    <2>2. tracked[p] => key[p] \in DOMAIN inflight' /\ inflight'[key[p]] = p
      BY <1>8, <1>11, <2>1 DEF RequestInv
    <2>3. ASSUME pc[p] = "waiting"
          PROVE  /\ pc'[follows[p]] \in CallPCs \cup {"answered"}
                 /\ pc'[follows[p]] = "answered" => promise[follows[p]] # None
      <3>1. /\ follows[p] \in Requests
            /\ pc[follows[p]] \in CallPCs \cup {"answered"}
            /\ pc[follows[p]] = "answered" => promise[follows[p]] # None
        BY <2>1, <2>3 DEF RequestInv
      <3> QED BY <1>3, <1>7, <3>1 DEF Alone
    <2> QED BY <1>1, <2>1, <2>2, <2>3 DEF RequestInv, Alone
  <1> QED BY <1>6, <1>9, <1>10, <1>11

\* getSemanticDecisions calls the provider, registered or not.
LEMMA ReviewCallsStep ==
  ASSUME EInv, NEW q \in Requests, ReviewCalls(q)
  PROVE  Shapes' /\ MapInv' /\ \A p \in Requests : RequestInv(p)'
  <1> DEFINE t == Cardinality(DOMAIN inflight) < MaxInflight
  <1>1. /\ pc[q] = "hashing" /\ pc' = [pc EXCEPT ![q] = "calling"]
        /\ key[q] \notin DOMAIN inflight
        /\ tracked' = [tracked EXCEPT ![q] = t]
        /\ inflight' = (IF t THEN [k \in DOMAIN inflight \cup {key[q]} |->
                                     IF k = key[q] THEN q ELSE inflight[k]]
                        ELSE inflight)
        /\ route' = route /\ key' = key /\ promise' = promise /\ attempt' = attempt
        /\ follows' = follows /\ answer' = answer
    BY DEF ReviewCalls, Goto
  <1>2. Shapes /\ MapInv /\ \A p \in Requests : RequestInv(p)
    BY DEF EInv
  <1>3. Shapes'
    <2>1. pc' \in [Requests -> PCs]
      BY <1>1, <1>2 DEF Shapes, PCs
    <2>2. tracked' \in [Requests -> BOOLEAN]
      <3>1. t \in BOOLEAN
        OBVIOUS
      <3> HIDE DEF t
      <3> QED BY <1>1, <1>2, <3>1, Zenon DEF Shapes
    <2> QED BY <1>1, <1>2, <2>1, <2>2 DEF Shapes
  <1>4. pc'[q] = "calling" /\ (tracked'[q] <=> t) /\ \A p \in Requests : p # q => Alone(p)
    <2>1. pc'[q] = "calling" /\ \A p \in Requests : p # q => pc'[p] = pc[p]
      BY <1>1, <1>2 DEF Shapes
    <2> HIDE DEF t
    <2>2. (tracked'[q] <=> t) /\ \A p \in Requests : p # q => tracked'[p] = tracked[p]
      BY <1>1, <1>2, Zenon DEF Shapes
    <2> QED BY <1>1, <2>1, <2>2 DEF Alone
  <1>5. RequestInv(q) /\ ~tracked[q] /\ key[q] \in Keys
    BY <1>1, <1>2 DEF RequestInv, CallPCs
  <1>6. CASE ~t
    <2>1. inflight' = inflight /\ ~tracked'[q] /\ tracked'[q] \in BOOLEAN /\ tracked[q] \in BOOLEAN
      BY <1>1, <1>2, <1>3, <1>4, <1>6 DEF Shapes
    <2>2. tracked'[q] = tracked[q]
      BY <1>5, <2>1
    <2>3. RequestInv(q)'
      BY <1>1, <1>4, <1>5, <2>1 DEF RequestInv
    <2>4. pc[q] \notin CallPCs
      BY <1>1 DEF CallPCs
    <2> QED BY <1>1, <1>3, <1>4, <2>1, <2>2, <2>3, <2>4, Moves
  <1>7. CASE t
    <2>1. inflight' = [k \in DOMAIN inflight \cup {key[q]} |-> IF k = key[q] THEN q ELSE inflight[k]]
      BY <1>1, <1>7
    <2>2. /\ DOMAIN inflight' = DOMAIN inflight \cup {key[q]} /\ inflight'[key[q]] = q
          /\ \A k \in DOMAIN inflight : k # key[q] /\ inflight'[k] = inflight[k]
      BY <1>1, <2>1
    <2>3. \A k \in DOMAIN inflight : inflight[k] # q
      BY <1>2, <1>5 DEF MapInv
    <2>4. MapInv'
      <3>1. /\ IsFiniteSet(DOMAIN inflight')
            /\ Cardinality(DOMAIN inflight') = Cardinality(DOMAIN inflight) + 1
        BY <1>1, <1>2, <2>2, FS_AddElement DEF MapInv
      <3>2. Cardinality(DOMAIN inflight) \in Nat
        BY <1>2, FS_CardinalityType DEF MapInv
      <3>3. Cardinality(DOMAIN inflight') <= MaxInflight
        BY <1>7, <3>1, <3>2, LimitsAreNat
      <3>4. ASSUME NEW k \in DOMAIN inflight'
            PROVE  /\ inflight'[k] \in Requests /\ pc'[inflight'[k]] \in CallPCs
                   /\ tracked'[inflight'[k]] /\ key'[inflight'[k]] = k
        <4>1. CASE k = key[q]
          <5>1. inflight'[k] = q /\ tracked'[q] /\ pc'[q] \in CallPCs /\ key'[q] = k
            BY <1>1, <1>4, <1>7, <2>2, <4>1 DEF CallPCs
          <5> QED BY <5>1
        <4>2. CASE k \in DOMAIN inflight
          <5>1. /\ inflight'[k] = inflight[k] /\ inflight[k] \in Requests /\ inflight[k] # q
                /\ pc[inflight[k]] \in CallPCs /\ tracked[inflight[k]] /\ key[inflight[k]] = k
            BY <1>2, <2>2, <2>3, <4>2 DEF MapInv
          <5>2. Alone(inflight[k])
            BY <1>4, <5>1
          <5> QED BY <5>1, <5>2 DEF Alone
        <4> QED BY <2>2, <4>1, <4>2
      <3>5. DOMAIN inflight' \subseteq Keys
        BY <1>2, <1>5, <2>2 DEF MapInv
      <3> QED BY <3>1, <3>3, <3>4, <3>5 DEF MapInv
    <2>5. RequestInv(q)'
      BY <1>1, <1>4, <1>5, <2>2 DEF RequestInv, CallPCs
    <2>6. ASSUME NEW p \in Requests, p # q PROVE RequestInv(p)'
      <3>1. Alone(p) /\ RequestInv(p)
        BY <1>2, <1>4, <2>6
      <3>2. tracked[p] => key[p] \in DOMAIN inflight' /\ inflight'[key[p]] = p
        BY <2>2, <3>1 DEF RequestInv
      <3>3. ASSUME pc[p] = "waiting" PROVE pc'[follows[p]] = pc[follows[p]]
        <4>1. follows[p] \in Requests /\ pc[follows[p]] \in CallPCs \cup {"answered"}
          BY <3>1, <3>3 DEF RequestInv
        <4>2. follows[p] # q
          BY <1>1, <4>1 DEF CallPCs
        <4> QED BY <1>4, <4>1, <4>2 DEF Alone
      <3> QED BY <1>1, <3>1, <3>2, <3>3 DEF RequestInv, Alone
    <2> QED BY <1>3, <2>4, <2>5, <2>6
  <1> QED BY <1>6, <1>7

\* The steps in which a request moves on and the map of calls stays.
LEMMA MovingStep ==
  ASSUME EInv, NEW q \in Requests,
         \/ Admit(q) \/ \E code \in BadInputs : Refuse(q, code)
         \/ \E k \in Keys : Analyze(q, k) \/ ReviewBegins(q, k)
         \/ ReviewHit(q) \/ ReviewJoins(q) \/ CallSucceeds(q)
         \/ \E failure \in Failures : CallFails(q, failure)
         \/ Retry(q) \/ WaiterResumes(q)
  PROVE  Shapes' /\ MapInv' /\ \A p \in Requests : RequestInv(p)'
  <1> DEFINE Done == Shapes' /\ MapInv' /\ \A p \in Requests : RequestInv(p)'
  <1>1. Shapes /\ MapInv /\ \A p \in Requests : RequestInv(p)
    BY DEF EInv
  <1>2. ~tracked[q] \/ pc[q] \in CallPCs
    BY <1>1 DEF RequestInv
  <1>3. None \notin Results
    BY NoneIsNil DEF Results
  \* The variables of the request after a step that changes pc, key, promise,
  \* attempt and answer only.
  <1>4. ASSUME NEW l \in PCs, NEW k \in Keys \cup {None}, NEW a \in 0 .. MaxRetries,
               NEW m \in Results \cup Errors(AllFailures) \cup {None},
               NEW x \in Results \cup Errors(Codes) \cup {None},
               pc' = [pc EXCEPT ![q] = l], key' = [key EXCEPT ![q] = k],
               attempt' = [attempt EXCEPT ![q] = a],
               promise' = [promise EXCEPT ![q] = m], answer' = [answer EXCEPT ![q] = x],
               inflight' = inflight, route' = route, tracked' = tracked,
               follows' \in [Requests -> 0 .. N],
               \A p \in Requests : p # q => follows'[p] = follows[p],
               pc[q] # "answered",
               pc[q] \in CallPCs => l \in CallPCs /\ k = key[q],
               /\ l \notin {"new", "reading", "answered"} => k \in Keys
               /\ l \in {"new", "reading", "hashing"} => m = None
               /\ m # None => m \in Own(k) \cup Errors(AllFailures)
               /\ l = "settled" => m # None
               /\ l # "answered" => x = None
               /\ x \in Results => x.key = k
               /\ l = "waiting" =>
                    /\ follows'[q] \in Requests \ {q} /\ key[follows'[q]] = k
                    /\ pc[follows'[q]] \in CallPCs
        PROVE  Done
    <2>1. /\ pc'[q] = l /\ key'[q] = k /\ promise'[q] = m /\ answer'[q] = x
          /\ \A p \in Requests : p # q => /\ pc'[p] = pc[p] /\ key'[p] = key[p]
                                          /\ promise'[p] = promise[p] /\ answer'[p] = answer[p]
      BY <1>1, <1>4 DEF Shapes
    <2>2. Shapes'
      <3>1. pc' \in [Requests -> PCs] /\ key' \in [Requests -> Keys \cup {None}]
        BY <1>1, <1>4 DEF Shapes
      <3>2. attempt' \in [Requests -> 0 .. MaxRetries]
        BY <1>1, <1>4 DEF Shapes
      <3>3. promise' \in [Requests -> Results \cup Errors(AllFailures) \cup {None}]
        BY <1>1, <1>4 DEF Shapes
      <3>4. answer' \in [Requests -> Results \cup Errors(Codes) \cup {None}]
        BY <1>1, <1>4 DEF Shapes
      <3> QED BY <1>1, <1>4, <3>1, <3>2, <3>3, <3>4 DEF Shapes
    <2>3. \A p \in Requests \ {q} : Alone(p)
      BY <1>4, <2>1 DEF Alone
    <2>4. RequestInv(q)'
      <3>1. tracked[q] => /\ l \in CallPCs /\ k = key[q]
                          /\ key[q] \in DOMAIN inflight /\ inflight[key[q]] = q
        BY <1>1, <1>4 DEF RequestInv
      <3>2. l = "waiting" =>
              /\ follows'[q] \in Requests /\ key'[follows'[q]] = k
              /\ pc'[follows'[q]] \in CallPCs /\ pc'[follows'[q]] # "answered"
        BY <1>4, <2>1 DEF CallPCs
      <3> QED BY <1>4, <2>1, <3>1, <3>2 DEF RequestInv
    <2>5. MapInv' /\ \A p \in Requests : RequestInv(p)'
      BY <1>4, <2>1, <2>3, <2>4, Moves
    <2> QED BY <2>2, <2>5
  <1> HIDE DEF Done
  <1>5. /\ key = [key EXCEPT ![q] = key[q]] /\ attempt = [attempt EXCEPT ![q] = attempt[q]]
        /\ promise = [promise EXCEPT ![q] = promise[q]] /\ answer = [answer EXCEPT ![q] = answer[q]]
        /\ key[q] \in Keys \cup {None} /\ attempt[q] \in 0 .. MaxRetries
        /\ promise[q] \in Results \cup Errors(AllFailures) \cup {None}
        /\ answer[q] \in Results \cup Errors(Codes) \cup {None}
        /\ follows \in [Requests -> 0 .. N]
    BY <1>1 DEF Shapes
  <1>6. {"new", "reading", "hashing", "calling", "backoff", "settled", "waiting", "answered"} = PCs
        /\ CallPCs = {"calling", "backoff", "settled"}
    BY DEF PCs, CallPCs
  <1>7. ASSUME Admit(q) PROVE Done
    <2>1. /\ pc[q] = "new" /\ pc' = [pc EXCEPT ![q] = "reading"]
          /\ UNCHANGED <<key, attempt, promise, answer, inflight, route, tracked, follows>>
      BY <1>7 DEF Admit, Goto, callVars
    <2>2. promise[q] = None /\ answer[q] = None
      BY <1>1, <2>1 DEF RequestInv
    <2>3. key' = [key EXCEPT ![q] = key[q]] /\ key[q] \in Keys \cup {None}
      BY <1>5, <2>1
    <2>4. attempt' = [attempt EXCEPT ![q] = attempt[q]] /\ attempt[q] \in 0 .. MaxRetries
      BY <1>5, <2>1
    <2>5. promise' = [promise EXCEPT ![q] = promise[q]] /\ promise[q] \in Results \cup Errors(AllFailures) \cup {None}
      BY <1>5, <2>1
    <2>6. answer' = [answer EXCEPT ![q] = None] /\ None \in Results \cup Errors(Codes) \cup {None}
      BY <1>5, <2>2, <2>1
    <2>7. pc[q] # "answered" /\ pc[q] \notin CallPCs /\ "reading" \in PCs
      BY <1>6, <2>1
    <2>8. follows' \in [Requests -> 0 .. N] /\ follows' = follows
      BY <1>5, <2>1
    <2> QED BY <1>3, <1>4, <2>1, <2>2, <2>3, <2>4, <2>5, <2>6, <2>7, <2>8, ZenonT(90)
  <1>8. ASSUME NEW code \in BadInputs, Refuse(q, code) PROVE Done
    <2>1. /\ pc[q] \in {"new", "reading"} /\ pc' = [pc EXCEPT ![q] = "answered"]
          /\ answer' = [answer EXCEPT ![q] = Error(code)]
          /\ UNCHANGED <<key, attempt, promise, inflight, route, tracked, follows>>
      BY <1>8 DEF Refuse, Answer, Goto, callVars
    <2>2. promise[q] = None
      BY <1>1, <2>1 DEF RequestInv
    <2>3. Error(code) \in Errors(Codes) /\ Error(code) \notin Results
      BY InputsKnown, ErrorsDiffer DEF Error, Errors, Codes
    <2>4. /\ key' = [key EXCEPT ![q] = key[q]] /\ attempt' = [attempt EXCEPT ![q] = attempt[q]]
          /\ promise' = [promise EXCEPT ![q] = promise[q]]
      BY <1>5, <2>1
    <2>5. pc[q] # "answered" /\ pc[q] \notin CallPCs /\ "answered" \in PCs
      BY <1>6, <2>1
    <2>6. follows' \in [Requests -> 0 .. N] /\ follows' = follows
      BY <1>5, <2>1
    <2>7. key[q] \in Keys \cup {None} /\ attempt[q] \in 0 .. MaxRetries
          /\ promise[q] \in Results \cup Errors(AllFailures) \cup {None}
      BY <1>5
    <2>8. Error(code) \in Results \cup Errors(Codes) \cup {None}
      BY <2>3
    <2> QED BY <1>4, <2>1, <2>2, <2>3, <2>4, <2>5, <2>6, <2>7, <2>8
  <1>9. ASSUME NEW k \in Keys, Analyze(q, k) PROVE Done
    <2> DEFINE c == Got(caches["analyze"], k)
    <2>1. /\ pc[q] = "reading" /\ pc' = [pc EXCEPT ![q] = "answered"]
          /\ key' = [key EXCEPT ![q] = k]
          /\ UNCHANGED <<attempt, promise, inflight, route, tracked, follows>>
      BY <1>9 DEF Analyze, Answer, Goto, callVars
    <2>2. "analyze" \in Routes
      BY DEF Routes
    <2>3. PICK x \in Own(k) : answer' = [answer EXCEPT ![q] = x]
      <3>1. \/ k \in DOMAIN c.entries /\ answer' = [answer EXCEPT ![q] = c.entries[k].result]
            \/ \E v \in [key : {k}, weight : Weights] : answer' = [answer EXCEPT ![q] = v]
        BY <1>9 DEF Analyze, Answer
      <3>2. k \in DOMAIN c.entries => c.entries[k].result \in Own(k)
        BY <2>2, CachedOwn
      <3> QED BY <3>1, <3>2 DEF Own
    <2>4. x \in Results /\ x.key = k
      BY <2>3 DEF Own, Results
    <2>5. promise[q] = None
      BY <1>1, <2>1 DEF RequestInv
    <2>6. k \in Keys \cup {None} /\ x \in Results \cup Errors(Codes) \cup {None}
      BY <2>4
    <2>7. attempt' = [attempt EXCEPT ![q] = attempt[q]] /\ attempt[q] \in 0 .. MaxRetries
      BY <1>5, <2>1
    <2>8. promise' = [promise EXCEPT ![q] = promise[q]] /\ promise[q] \in Results \cup Errors(AllFailures) \cup {None}
      BY <1>5, <2>1
    <2>9. pc[q] # "answered" /\ pc[q] \notin CallPCs /\ "answered" \in PCs
      BY <1>6, <2>1
    <2>10. follows' \in [Requests -> 0 .. N] /\ follows' = follows
      BY <1>5, <2>1
    <2> QED BY <1>3, <1>4, <2>1, <2>3, <2>4, <2>5, <2>6, <2>7, <2>8, <2>9, <2>10
  <1>10. ASSUME NEW k \in Keys, ReviewBegins(q, k) PROVE Done
    <2>1. /\ pc[q] = "reading" /\ pc' = [pc EXCEPT ![q] = "hashing"]
          /\ key' = [key EXCEPT ![q] = k]
          /\ UNCHANGED <<attempt, promise, answer, inflight, route, tracked, follows>>
      BY <1>10 DEF ReviewBegins, Goto, callVars
    <2>2. promise[q] = None /\ answer[q] = None
      BY <1>1, <2>1 DEF RequestInv
    <2>3. attempt' = [attempt EXCEPT ![q] = attempt[q]] /\ attempt[q] \in 0 .. MaxRetries
      BY <1>5, <2>1
    <2>4. promise' = [promise EXCEPT ![q] = promise[q]] /\ promise[q] \in Results \cup Errors(AllFailures) \cup {None}
      BY <1>5, <2>1
    <2>5. answer' = [answer EXCEPT ![q] = None] /\ None \in Results \cup Errors(Codes) \cup {None}
      BY <1>5, <2>2, <2>1
    <2>6. pc[q] # "answered" /\ pc[q] \notin CallPCs /\ "hashing" \in PCs
      BY <1>6, <2>1
    <2>7. follows' \in [Requests -> 0 .. N] /\ follows' = follows
      BY <1>5, <2>1
    <2> QED BY <1>3, <1>4, <2>1, <2>2, <2>3, <2>4, <2>5, <2>6, <2>7
  <1>11. ASSUME ReviewHit(q) PROVE Done
    <2> DEFINE x == Got(caches["review"], key[q]).entries[key[q]].result
    <2>1. /\ pc[q] = "hashing" /\ pc' = [pc EXCEPT ![q] = "answered"]
          /\ key[q] \in DOMAIN Got(caches["review"], key[q]).entries
          /\ answer' = [answer EXCEPT ![q] = x]
          /\ UNCHANGED <<key, attempt, promise, inflight, route, tracked, follows>>
      BY <1>11 DEF ReviewHit, Answer, Goto, callVars
    <2>2. promise[q] = None /\ key[q] \in Keys
      BY <1>1, <2>1 DEF RequestInv
    <2>3. x \in Own(key[q])
      BY <2>1, CachedOwn DEF Routes
    <2>4. x \in Results /\ x.key = key[q]
      BY <2>2, <2>3 DEF Own, Results
    <2> HIDE DEF x
    <2>5. /\ key' = [key EXCEPT ![q] = key[q]] /\ attempt' = [attempt EXCEPT ![q] = attempt[q]]
          /\ promise' = [promise EXCEPT ![q] = promise[q]]
      BY <1>5, <2>1
    <2>6. pc[q] # "answered" /\ pc[q] \notin CallPCs /\ "answered" \in PCs
      BY <1>6, <2>1
    <2>7. follows' \in [Requests -> 0 .. N] /\ follows' = follows
      BY <1>5, <2>1
    <2>8. key[q] \in Keys \cup {None} /\ attempt[q] \in 0 .. MaxRetries
          /\ promise[q] \in Results \cup Errors(AllFailures) \cup {None}
      BY <1>5
    <2>9. x \in Results \cup Errors(Codes) \cup {None}
      BY <2>4
    <2> QED BY <1>4, <2>1, <2>2, <2>4, <2>5, <2>6, <2>7, <2>8, <2>9, ZenonT(60)
  <1>12. ASSUME ReviewJoins(q) PROVE Done
    <2> DEFINE f == inflight[key[q]]
    <2>1. /\ pc[q] = "hashing" /\ pc' = [pc EXCEPT ![q] = "waiting"]
          /\ key[q] \in DOMAIN inflight /\ follows' = [follows EXCEPT ![q] = f]
          /\ UNCHANGED <<key, attempt, promise, answer, inflight, route, tracked>>
      BY <1>12 DEF ReviewJoins, Goto
    <2>2. promise[q] = None /\ key[q] \in Keys /\ answer[q] = None
      BY <1>1, <2>1 DEF RequestInv
    <2>3. f \in Requests /\ pc[f] \in CallPCs /\ key[f] = key[q]
      BY <1>1, <2>1 DEF MapInv
    <2>4. f # q
      BY <1>6, <2>1, <2>3
    <2> HIDE DEF f
    <2>5. /\ follows' \in [Requests -> 0 .. N] /\ follows'[q] = f
          /\ \A p \in Requests : p # q => follows'[p] = follows[p]
      <3>1. f \in 0 .. N
        BY <2>3, NIsNat DEF Requests
      <3> QED BY <1>5, <2>1, <3>1
    <2>6. key' = [key EXCEPT ![q] = key[q]] /\ key[q] \in Keys \cup {None}
      BY <1>5, <2>1
    <2>7. attempt' = [attempt EXCEPT ![q] = attempt[q]] /\ attempt[q] \in 0 .. MaxRetries
      BY <1>5, <2>1
    <2>8. promise' = [promise EXCEPT ![q] = None] /\ None \in Results \cup Errors(AllFailures) \cup {None}
      BY <1>5, <2>1, <2>2
    <2>9. answer' = [answer EXCEPT ![q] = None] /\ None \in Results \cup Errors(Codes) \cup {None}
      BY <1>5, <2>2, <2>1
    <2>10. pc[q] # "answered" /\ pc[q] \notin CallPCs /\ "waiting" \in PCs
      BY <1>6, <2>1
    <2>11. /\ follows'[q] \in Requests \ {q} /\ key[follows'[q]] = key[q]
           /\ pc[follows'[q]] \in CallPCs
      BY <2>3, <2>4, <2>5
    <2>12. pc' = [pc EXCEPT ![q] = "waiting"] /\ inflight' = inflight /\ route' = route /\ tracked' = tracked
      BY <2>1
    <2> QED BY <1>3, <1>4, <2>2, <2>5, <2>6, <2>7, <2>8, <2>9, <2>10, <2>11, <2>12
  <1>13. ASSUME CallSucceeds(q) PROVE Done
    <2>1. PICK v \in Own(key[q]) :
            /\ pc[q] = "calling" /\ pc' = [pc EXCEPT ![q] = "settled"]
            /\ promise' = [promise EXCEPT ![q] = v]
            /\ UNCHANGED <<key, attempt, answer, inflight, route, tracked, follows>>
      BY <1>13 DEF CallSucceeds, Settle, Goto, Own
    <2>2. key[q] \in Keys /\ answer[q] = None
      BY <1>1, <2>1 DEF RequestInv
    <2>3. v \in Results
      BY <2>1, <2>2 DEF Own, Results
    <2>4. v # None
      BY <1>3, <2>3
    <2> QED BY <1>3, <1>4, <1>5, <1>6, <2>1, <2>2, <2>3, <2>4, ZenonT(60)
  <1>14. ASSUME NEW failure \in Failures, CallFails(q, failure) PROVE Done
    <2>1. /\ pc[q] = "calling"
          /\ UNCHANGED <<key, answer, inflight, route, tracked, follows>>
      BY <1>14 DEF CallFails
    <2>2. key[q] \in Keys /\ answer[q] = None
      BY <1>1, <2>1 DEF RequestInv
    <2>3. promise[q] # None => promise[q] \in Own(key[q]) \cup Errors(AllFailures)
      BY <1>1 DEF RequestInv
    <2>4. Error(failure) \in Errors(AllFailures)
      BY InputsKnown DEF Error, Errors
    <2>5. CASE /\ promise' = [promise EXCEPT ![q] = Error(failure)]
               /\ pc' = [pc EXCEPT ![q] = "settled"] /\ attempt' = attempt
      <3>1. Error(failure) # None
        BY <2>4, ErrorNotNone
      <3> QED BY <1>3, <1>4, <1>5, <1>6, <2>1, <2>2, <2>4, <2>5, <3>1, ZenonT(60)
    <2>6. CASE /\ attempt[q] < MaxRetries /\ attempt' = [attempt EXCEPT ![q] = @ + 1]
               /\ pc' = [pc EXCEPT ![q] = "backoff"] /\ promise' = promise
      <3>1. attempt[q] + 1 \in 0 .. MaxRetries /\ attempt' = [attempt EXCEPT ![q] = attempt[q] + 1]
        BY <1>5, <2>6, LimitsAreNat
      <3>2. key' = [key EXCEPT ![q] = key[q]] /\ key[q] \in Keys \cup {None}
        BY <1>5, <2>1, <2>6
      <3>3. PICK m \in Results \cup Errors(AllFailures) \cup {None} :
            promise' = [promise EXCEPT ![q] = m] /\ (m # None => m \in Own(key[q]) \cup Errors(AllFailures))
        BY <1>5, <2>3, <2>6
      <3>4. answer' = [answer EXCEPT ![q] = None] /\ None \in Results \cup Errors(Codes) \cup {None}
        BY <1>5, <2>2, <2>1, <2>6
      <3>5. pc[q] # "answered" /\ pc[q] \in CallPCs /\ "backoff" \in PCs
        BY <1>6, <2>1
      <3>6. "backoff" \in CallPCs
        BY <1>6
      <3>7. follows' \in [Requests -> 0 .. N] /\ follows' = follows
        BY <1>5, <2>1
      <3>8. pc' = [pc EXCEPT ![q] = "backoff"] /\ inflight' = inflight /\ route' = route /\ tracked' = tracked
        BY <2>1, <2>6
      <3> QED BY <1>3, <1>4, <2>2, <3>1, <3>2, <3>3, <3>4, <3>5, <3>6, <3>7, <3>8
    <2> QED BY <1>14, <2>5, <2>6 DEF CallFails, Settle, Goto
  <1>15. ASSUME Retry(q) PROVE Done
    <2>1. /\ pc[q] = "backoff" /\ pc' = [pc EXCEPT ![q] = "calling"]
          /\ UNCHANGED <<key, attempt, promise, answer, inflight, route, tracked, follows>>
      BY <1>15 DEF Retry, Goto, callVars
    <2>2. /\ key[q] \in Keys /\ answer[q] = None
          /\ promise[q] # None => promise[q] \in Own(key[q]) \cup Errors(AllFailures)
      BY <1>1, <2>1 DEF RequestInv
    <2>3. key' = [key EXCEPT ![q] = key[q]] /\ key[q] \in Keys \cup {None}
      BY <1>5, <2>1
    <2>4. attempt' = [attempt EXCEPT ![q] = attempt[q]] /\ attempt[q] \in 0 .. MaxRetries
      BY <1>5, <2>1
    <2>5. PICK m \in Results \cup Errors(AllFailures) \cup {None} :
          promise' = [promise EXCEPT ![q] = m] /\ (m # None => m \in Own(key[q]) \cup Errors(AllFailures))
      BY <1>5, <2>1, <2>2
    <2>6. answer' = [answer EXCEPT ![q] = None] /\ None \in Results \cup Errors(Codes) \cup {None}
      BY <1>5, <2>2, <2>1
    <2>7. pc[q] # "answered" /\ pc[q] \in CallPCs /\ "calling" \in PCs
      BY <1>6, <2>1
    <2>8. "calling" \in CallPCs
      BY <1>6
    <2>9. follows' \in [Requests -> 0 .. N] /\ follows' = follows
      BY <1>5, <2>1
    <2>10. pc' = [pc EXCEPT ![q] = "calling"] /\ inflight' = inflight /\ route' = route /\ tracked' = tracked
      BY <2>1
    <2> QED BY <1>3, <1>4, <2>2, <2>3, <2>4, <2>5, <2>6, <2>7, <2>8, <2>9, <2>10
  <1>16. ASSUME WaiterResumes(q) PROVE Done
    <2> DEFINE f == follows[q]
               x == Outcome(promise[f])
    <2>1. /\ pc[q] = "waiting" /\ pc[f] = "answered" /\ pc' = [pc EXCEPT ![q] = "answered"]
          /\ answer' = [answer EXCEPT ![q] = x]
          /\ tracked' = [tracked EXCEPT ![q] = FALSE] /\ attempt' = [attempt EXCEPT ![q] = 0]
          /\ follows' = [follows EXCEPT ![q] = 0]
          /\ UNCHANGED <<key, promise, inflight, route>>
      BY <1>16 DEF WaiterResumes, Answer, Goto, Forget
    <2>2. f \in Requests /\ key[f] = key[q] /\ promise[f] # None /\ key[q] \in Keys
      BY <1>1, <2>1 DEF RequestInv
    <2>3. promise[f] \in Own(key[q]) \cup Errors(AllFailures)
      BY <1>1, <2>2 DEF RequestInv
    <2>4. Own(key[q]) \subseteq Results /\ \A y \in Own(key[q]) : y.key = key[q]
      BY <2>2 DEF Own, Results
    <2>5. x \in Results \cup Errors(Codes) /\ (x \in Results => x.key = key[q])
      BY <2>3, <2>4, OutcomeType
    <2> HIDE DEF x, f
    <2>6. tracked' = tracked
      <3>1. ~tracked[q] /\ tracked \in [Requests -> BOOLEAN]
        BY <1>1, <1>2, <1>6, <2>1 DEF Shapes
      <3> QED BY <2>1, <3>1
    <2>7. /\ follows' \in [Requests -> 0 .. N]
          /\ \A p \in Requests : p # q => follows'[p] = follows[p]
      BY <1>5, <2>1, NIsNat
    <2>8. 0 \in 0 .. MaxRetries
      BY LimitsAreNat
    <2>9. promise[q] # None => promise[q] \in Own(key[q]) \cup Errors(AllFailures)
      BY <1>1 DEF RequestInv
    <2> QED BY <1>4, <1>5, <1>6, <2>1, <2>2, <2>5, <2>6, <2>7, <2>8, <2>9, ZenonT(90)
  <1>17. Done
    BY <1>7, <1>8, <1>9, <1>10, <1>11, <1>12, <1>13, <1>14, <1>15, <1>16 DEF Done
  <1> QED BY <1>17 DEF Done

\* Every step keeps the inductive invariant.
LEMMA EInvNext == EInv /\ [Next]_vars => EInv'
  <1> SUFFICES ASSUME EInv, [Next]_vars PROVE EInv'
    OBVIOUS
  <1> DEFINE Done == Shapes' /\ MapInv' /\ \A p \in Requests : RequestInv(p)'
  <1>1. CacheInv'
    BY CachesStep
  <1>2. CASE Tick \/ UNCHANGED vars
    <2>1. /\ Shapes /\ MapInv /\ \A p \in Requests : RequestInv(p)
          /\ UNCHANGED <<inflight, route, pc, key, tracked, attempt, promise, follows, answer>>
      BY <1>2 DEF EInv, Tick, vars, callVars
    <2>2. Shapes'
      BY <2>1 DEF Shapes
    <2>3. MapInv'
      BY <2>1 DEF MapInv
    <2>4. \A p \in Requests : RequestInv(p)'
      BY <2>1 DEF RequestInv
    <2> QED BY <1>1, <2>2, <2>3, <2>4 DEF EInv
  <1>3. ASSUME NEW q \in Requests, CallerResumes(q) PROVE Done
    BY <1>3, CallerResumesStep
  <1>4. ASSUME NEW q \in Requests, ReviewCalls(q) PROVE Done
    BY <1>4, ReviewCallsStep
  <1>5. ASSUME NEW q \in Requests,
               \/ Admit(q) \/ \E code \in BadInputs : Refuse(q, code)
               \/ \E k \in Keys : Analyze(q, k) \/ ReviewBegins(q, k)
               \/ ReviewHit(q) \/ ReviewJoins(q) \/ CallSucceeds(q)
               \/ \E failure \in Failures : CallFails(q, failure)
               \/ Retry(q) \/ WaiterResumes(q)
        PROVE  Done
    BY <1>5, MovingStep
  <1>6. Done => EInv'
    BY <1>1 DEF EInv
  <1> HIDE DEF Done
  <1> QED BY <1>2, <1>3, <1>4, <1>5, <1>6 DEF Next, Handling

-----------------------------------------------------------------------------
(* The calls and the answers.                                                *)

\* Concurrent reviews of one document share one call of the provider, and the map
\* of calls never outgrows its limit (worker/handlers.ts, getSemanticDecisions):
\* for every number of requests, documents and retries and in every order of
\* their awaits, it has exactly the registered calls that have not ended.
THEOREM ReviewsShareCalls == Spec => []CallsShared
  <1>1. EInv => TypeOK
    <2> SUFFICES ASSUME EInv PROVE TypeOK
      OBVIOUS
    <2>1. DOMAIN caches = Routes /\ \A r \in Routes : ToSet(caches[r].order) = DOMAIN caches[r].entries
      BY DEF EInv, CacheInv, Sound, Agrees
    <2>2. DOMAIN inflight \subseteq Keys /\ \A k \in DOMAIN inflight : inflight[k] \in Requests
      BY DEF EInv, MapInv
    <2>3. now \in 0 .. MaxTime /\ current \in [Routes -> [Keys -> Results \cup {None}]]
      BY DEF EInv, CacheInv
    <2> QED BY <2>1, <2>2, <2>3 DEF EInv, Shapes, TypeOK
  <1>2. EInv => CallsShared
    <2> SUFFICES ASSUME EInv PROVE CallsShared
      OBVIOUS
    <2>1. MapInv /\ \A q \in Requests : RequestInv(q)
      BY DEF EInv
    <2>2. \A q \in Requests : tracked[q] => key[q] \in DOMAIN inflight /\ inflight[key[q]] = q
      BY <2>1 DEF RequestInv
    <2> QED BY <1>1, <2>1, <2>2 DEF CallsShared, MapInv
  <1> QED BY <1>2, EInvInit, EInvNext, PTL DEF Spec

\* A result answers the document it was made for, whether it was computed, called
\* for, shared with the call of another request or found in a cache, and no
\* error is ever cached (worker/handlers.ts, getSemanticDecisions: a call that
\* throws skips set).
THEOREM OwnResultsOnly == Spec => []AnswersOwnDocument
  <1>1. EInv => AnswersOwnDocument
    <2> SUFFICES ASSUME EInv PROVE AnswersOwnDocument
      OBVIOUS
    <2>1. \A q \in Requests : answer[q] \in Results => answer[q].key = key[q]
      BY DEF EInv, RequestInv
    <2>2. \A r \in Routes : \A k \in DOMAIN caches[r].entries : caches[r].entries[k].result \in Own(k)
      BY DEF EInv, CacheInv, Sound, Agrees, Entry
    <2> QED BY <2>1, <2>2 DEF AnswersOwnDocument, Own
  <1> QED BY <1>1, EInvInit, EInvNext, PTL DEF Spec

-----------------------------------------------------------------------------
(* The caches implement BoundedCache.                                        *)

\* Occupancy and KeepsOnly(given) of BoundedCache, for the cache of a route.
Occupied(f) ==
  LET kept == {k \in Keys : f[k] # None}
  IN  [entries |-> Cardinality(kept),
       bytes |-> Total([k \in kept |-> SizeOf(k, f[k])], kept)]

Keeps(r, given) ==
  /\ DOMAIN Contents(r)' = Keys
  /\ \A k \in Keys : Contents(r)'[k] \in {given[k], None}
  /\ Used(r)' = Occupied(Contents(r)')
  /\ Used(r)'.entries <= Limits.entries
  /\ Used(r)'.bytes <= Limits.bytes
  /\ Limits' = Limits

\* What each cache accounts for is what it holds.
LEMMA UsedIsOccupied ==
  ASSUME EInv, NEW r \in Routes
  PROVE  Used(r) = Occupied(Contents(r))
  <1> DEFINE c == caches[r]
             f == Contents(r)
             D == DOMAIN c.entries
             kept == {k \in Keys : f[k] # None}
             size == [k \in kept |-> SizeOf(k, f[k])]
  <1>1. Agrees(c)
    BY DEF EInv, CacheInv, Sound
  <1>2. /\ D \subseteq Keys /\ IsFiniteSet(D) /\ Len(c.order) = Cardinality(D)
        /\ \A k \in D : WeightsOf(c)[k] \in Nat /\ WeightsOf(c)[k] = c.entries[k].result.weight
        /\ c.bytes = Total(WeightsOf(c), D)
    BY <1>1, AgreesSums DEF Agrees
  <1>3. \A k \in D : c.entries[k].result # None
    <2>1. \A k \in D : c.entries[k].result \in Own(k)
      BY <1>1 DEF Agrees, Entry
    <2>2. \A k \in Keys : Own(k) \subseteq Results
      BY DEF Own, Results
    <2>3. None \notin Results
      BY NoneIsNil DEF Results
    <2> QED BY <1>2, <2>1, <2>2, <2>3
  <1>4. \A k \in Keys : f[k] = IF k \in D THEN c.entries[k].result ELSE None
    BY DEF Contents
  <1>5. kept = D
    BY <1>2, <1>3, <1>4
  <1>6. \A k \in D : size[k] = WeightsOf(c)[k]
    BY <1>2, <1>4, <1>5 DEF SizeOf
  <1> HIDE DEF size
  <1>7. Total(size, D) = Total(WeightsOf(c), D)
    BY <1>2, <1>6, TotalAgrees
  <1>8. Occupied(f) = [entries |-> Cardinality(kept), bytes |-> Total(size, kept)]
    BY DEF Occupied, size
  <1>9. Used(r) = [entries |-> Len(c.order), bytes |-> c.bytes]
    BY DEF Used
  <1> QED BY <1>2, <1>5, <1>7, <1>8, <1>9

\* Every step forgets entries of the cache of a route or renews the result of a key.
LEMMA StepsBounded ==
  ASSUME EInv, [Next]_vars, NEW r \in Routes
  PROVE  \/ \E k \in Keys, v \in Results \cup {None} :
               /\ current'[r] = [current[r] EXCEPT ![k] = v]
               /\ Keeps(r, [Contents(r) EXCEPT ![k] = v])
         \/ Keeps(r, Contents(r)) /\ current'[r] = current[r]
  <1> DEFINE D == DOMAIN caches[r].entries
             E == DOMAIN caches'[r].entries
  <1>1. EInv'
    BY EInvNext
  <1>2. Used(r)' = Occupied(Contents(r)')
    <2>1. (EInv => Used(r) = Occupied(Contents(r)))'
      BY UsedIsOccupied, PTL
    <2>2. Occupied(Contents(r))' = Occupied(Contents(r)')
      BY DEF Occupied, SizeOf
    <2> QED BY <1>1, <2>1, <2>2
  <1>3. Limits' = Limits
    BY DEF Limits
  <1>4. Used(r)'.entries <= Limits.entries /\ Used(r)'.bytes <= Limits.bytes
    <2>1. Used(r)' = [entries |-> Len(caches'[r].order), bytes |-> caches'[r].bytes]
      BY DEF Used
    <2>2. Sound(caches[r])'
      BY <1>1 DEF EInv, CacheInv
    <2>3. Len(caches'[r].order) <= Limits.entries /\ caches'[r].bytes <= Limits.bytes
      BY <1>3, <2>2 DEF Sound
    <2> QED BY <2>1, <2>3
  <1>5. /\ DOMAIN Contents(r)' = Keys /\ DOMAIN Contents(r) = Keys
        /\ \A k \in Keys : Contents(r)[k] = IF k \in D THEN caches[r].entries[k].result ELSE None
        /\ \A k \in Keys : Contents(r)'[k] = IF k \in E THEN caches'[r].entries[k].result ELSE None
    BY DEF Contents
  <1>6. ASSUME NEW given, \A k \in Keys : Contents(r)'[k] \in {given[k], None}
        PROVE  Keeps(r, given)
    BY <1>2, <1>3, <1>4, <1>5, <1>6 DEF Keeps
  <1>7. CASE Looked(r)
    <2>1. \A k \in E : k \in D /\ caches'[r].entries[k] = caches[r].entries[k]
      BY <1>7 DEF Looked, Part
    <2>2. \A k \in Keys : Contents(r)'[k] \in {Contents(r)[k], None}
      BY <1>5, <2>1
    <2> QED BY <1>6, <1>7, <2>2 DEF Looked
  <1>8. ASSUME NEW k \in Keys, NEW v \in Own(k), Renews(r, k, v)
        PROVE  \E w \in Results \cup {None} :
                 /\ current'[r] = [current[r] EXCEPT ![k] = w]
                 /\ Keeps(r, [Contents(r) EXCEPT ![k] = w])
    <2> DEFINE given == [Contents(r) EXCEPT ![k] = v]
    <2>1. /\ k \in E => caches'[r].entries[k].result = v
          /\ \A j \in E \ {k} : j \in D /\ caches'[r].entries[j] = caches[r].entries[j]
      BY <1>8 DEF Renews, Renewed
    <2>2. \A j \in Keys : given[j] = IF j = k THEN v ELSE Contents(r)[j]
      BY <1>5
    <2>3. \A j \in Keys : Contents(r)'[j] \in {given[j], None}
      BY <1>5, <2>1, <2>2
    <2>4. Keeps(r, given)
      BY <1>6, <2>3
    <2>5. v \in Results
      BY DEF Own, Results
    <2> QED BY <1>8, <2>4, <2>5 DEF Renews
  <1> QED BY <1>7, <1>8, CachesStep

\* BoundedCache sums as the caches do.
LEMMA SameAccounts ==
  /\ \A f : Analyses!Occupancy(f) = Occupied(f)
  /\ \A f : Decisions!Occupancy(f) = Occupied(f)
  <1>1. \A w, ks : Analyses!Total(w, ks) = Total(w, ks)
    BY DEF Analyses!Total, Analyses!MapThenSumSet, Analyses!MapThenFoldSet,
           Total, MapThenSumSet, MapThenFoldSet
  <1>2. \A w, ks : Decisions!Total(w, ks) = Total(w, ks)
    BY DEF Decisions!Total, Decisions!MapThenSumSet, Decisions!MapThenFoldSet,
           Total, MapThenSumSet, MapThenFoldSet
  <1>3. \A S : Analyses!Cardinality(S) = Cardinality(S) /\ Decisions!Cardinality(S) = Cardinality(S)
    BY DEF Analyses!Cardinality, Decisions!Cardinality, Cardinality
  <1>4. \A f : Analyses!Occupancy(f) = Occupied(f)
    BY <1>1, <1>3 DEF Analyses!Occupancy, Occupied
  <1>5. \A f : Decisions!Occupancy(f) = Occupied(f)
    BY <1>2, <1>3 DEF Decisions!Occupancy, Occupied
  <1> QED BY <1>4, <1>5

\* The empty caches are empty bounded caches.
LEMMA StartsBounded ==
  ASSUME Init, NEW r \in Routes
  PROVE  /\ Contents(r) = [k \in Keys |-> None]
         /\ Used(r) = Occupied(Contents(r))
         /\ current[r] \in [Keys -> Results \cup {None}]
  <1>1. EInv
    BY EInvInit
  <1>2. caches[r].entries = <<>> /\ current[r] = [k \in Keys |-> None]
    BY DEF Init, EmptyCache
  <1>3. Contents(r) = [k \in Keys |-> None]
    BY <1>2 DEF Contents
  <1> QED BY <1>1, <1>2, <1>3, UsedIsOccupied

\* The cache of analyses and the cache of decisions implement BoundedCache
\* (src/cache/ttl-lru.ts): though the results of a key differ in size and calls
\* that were not registered store theirs in any order, each stays within its entry and
\* byte limits, accounts for what it holds and holds nothing but the last result
\* stored under a key.
THEOREM WorkerCachesImplementBounded == Spec => CachesBounded
  <1>1. Init => Analyses!Init /\ Decisions!Init
    BY StartsBounded, SameAccounts DEF Analyses!Init, Decisions!Init, Routes
  <1>2. EInv /\ [Next]_vars => Analyses!Next
    <2> SUFFICES ASSUME EInv, [Next]_vars PROVE Analyses!Next
      OBVIOUS
    <2> DEFINE r == "analyze"
    <2>1. \/ \E k \in Keys, v \in Results \cup {None} :
               /\ current'[r] = [current[r] EXCEPT ![k] = v]
               /\ Keeps(r, [Contents(r) EXCEPT ![k] = v])
          \/ Keeps(r, Contents(r)) /\ current'[r] = current[r]
      BY StepsBounded DEF Routes
    <2>2. \A given : Keeps(r, given) => Analyses!KeepsOnly(given)
      BY SameAccounts DEF Keeps, Analyses!KeepsOnly
    <2>3. Used(r)'.bytes <= Limits.bytes
      BY <2>1 DEF Keeps
    <2> QED BY <2>1, <2>2, <2>3 DEF Analyses!Next, Analyses!Change, Analyses!Renew, Analyses!Forget
  <1>3. EInv /\ [Next]_vars => Decisions!Next
    <2> SUFFICES ASSUME EInv, [Next]_vars PROVE Decisions!Next
      OBVIOUS
    <2> DEFINE r == "review"
    <2>1. \/ \E k \in Keys, v \in Results \cup {None} :
               /\ current'[r] = [current[r] EXCEPT ![k] = v]
               /\ Keeps(r, [Contents(r) EXCEPT ![k] = v])
          \/ Keeps(r, Contents(r)) /\ current'[r] = current[r]
      BY StepsBounded DEF Routes
    <2>2. \A given : Keeps(r, given) => Decisions!KeepsOnly(given)
      BY SameAccounts DEF Keeps, Decisions!KeepsOnly
    <2>3. Used(r)'.bytes <= Limits.bytes
      BY <2>1 DEF Keeps
    <2> QED BY <2>1, <2>2, <2>3 DEF Decisions!Next, Decisions!Change, Decisions!Renew, Decisions!Forget
  <1> QED BY <1>1, <1>2, <1>3, EInvInit, EInvNext, PTL
        DEF Spec, CachesBounded, Analyses!Spec, Decisions!Spec

=============================================================================
