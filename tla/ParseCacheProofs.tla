--------------------------- MODULE ParseCacheProofs ---------------------------
(***************************************************************************)
(* The parse cache, for any keys, results, configurations and order of      *)
(* calls: its four representations agree (CacheAccountsAgree), what leaves  *)
(* it has to leave (EvictionsJustified), and it implements BoundedCache     *)
(* with the byte limit enforced by adding a key (CachesImplementBounded).   *)
(*                                                                          *)
(* The agreement is inductive once the list has no repetition and every     *)
(* entry has its record in the heap (Agrees) and a disabled cache is empty  *)
(* (Sound); the refinement needs that a cache holds the latest result of a  *)
(* key or nothing (HoldsLatest).                                            *)
(***************************************************************************)
EXTENDS ParseCache, CacheListsProofs

\* An lruTTLCache whose list, map, heap and byte count agree.  The list has no
\* repetition.
Agrees(c) ==
  /\ c = [order |-> c.order, entries |-> c.entries, expiry |-> c.expiry, bytes |-> c.bytes]
  /\ c.order \in Seq(Keys) /\ IsInjective(c.order)
  /\ ToSet(c.order) = DOMAIN c.entries
  /\ \A k \in DOMAIN c.entries : c.entries[k] \in Entries
  /\ c.expiry \subseteq Records
  /\ c.bytes = Total(WeightsOf(c.entries), DOMAIN c.entries)
  /\ \A k \in DOMAIN c.entries : Record(k, c.entries[k]) \in c.expiry

\* What agreement says of the keys and of the sums over them.
LEMMA AgreesSums ==
  ASSUME NEW c, Agrees(c)
  PROVE  /\ DOMAIN c.entries \subseteq Keys /\ IsFiniteSet(DOMAIN c.entries)
         /\ \A k \in DOMAIN c.entries : /\ WeightsOf(c.entries)[k] \in Nat
                                        /\ WeightsOf(c.entries)[k] = c.entries[k].weight
         /\ Len(c.order) \in Nat /\ Len(c.order) = Cardinality(DOMAIN c.entries)
         /\ c.bytes \in Nat
  <1>1. /\ IsFiniteSet(ToSet(c.order)) /\ ToSet(c.order) \subseteq Keys
        /\ Len(c.order) \in Nat /\ Cardinality(ToSet(c.order)) = Len(c.order)
    BY ListLength DEF Agrees
  <1>2. \A k \in DOMAIN c.entries : /\ WeightsOf(c.entries)[k] \in Nat
                                    /\ WeightsOf(c.entries)[k] = c.entries[k].weight
    BY DEF Agrees, WeightsOf, Entries
  <1>3. Total(WeightsOf(c.entries), DOMAIN c.entries) \in Nat
    BY <1>1, <1>2, TotalNat DEF Agrees
  <1> QED BY <1>1, <1>2, <1>3 DEF Agrees

\* removeElementLocked.
LEMMA RemoveAgrees ==
  ASSUME NEW c, Agrees(c), NEW ks
  PROVE  LET d == RemoveEntries(c, ks) IN
         /\ Agrees(d) /\ DOMAIN d.entries = DOMAIN c.entries \ ks
         /\ \A k \in DOMAIN d.entries : d.entries[k] = c.entries[k]
         /\ d.order = Without(c.order, ks) /\ d.expiry = c.expiry
         /\ Len(d.order) <= Len(c.order) /\ d.bytes <= c.bytes
  <1> DEFINE d == RemoveEntries(c, ks)
             D == DOMAIN c.entries
  <1>1. /\ IsFiniteSet(D) /\ \A k \in D : WeightsOf(c.entries)[k] \in Nat
        /\ Len(c.order) \in Nat /\ Len(c.order) = Cardinality(D) /\ c.bytes \in Nat
    BY AgreesSums
  <1>2. /\ d = [order |-> d.order, entries |-> d.entries, expiry |-> d.expiry, bytes |-> d.bytes]
        /\ d.entries = [k \in D \ ks |-> c.entries[k]]
        /\ d.order = Without(c.order, ks) /\ d.expiry = c.expiry
        /\ d.bytes = c.bytes - Total(WeightsOf(c.entries), ks \cap D)
    <2> DEFINE list == Without(c.order, ks)
               map == [k \in D \ ks |-> c.entries[k]]
               gone == Total(WeightsOf(c.entries), ks \cap D)
    <2>1. d = [c EXCEPT !.order = list, !.entries = map, !.bytes = c.bytes - gone]
      BY DEF RemoveEntries
    <2> HIDE DEF d, list, map, gone
    <2>2. /\ d = [order |-> d.order, entries |-> d.entries, expiry |-> d.expiry, bytes |-> d.bytes]
          /\ d.entries = map /\ d.order = list /\ d.expiry = c.expiry /\ d.bytes = c.bytes - gone
      BY <2>1 DEF Agrees
    <2> QED BY <2>2 DEF list, map, gone
  <1>3. DOMAIN d.entries = D \ ks /\ \A k \in D \ ks : d.entries[k] = c.entries[k]
    BY <1>2
  <1> HIDE DEF d
  <1>4. d.order \in Seq(Keys) /\ IsInjective(d.order) /\ ToSet(d.order) = ToSet(c.order) \ ks
    BY <1>2, WithoutElements DEF Agrees
  <1>5. /\ Total(WeightsOf(c.entries), D \ ks) =
             Total(WeightsOf(c.entries), D) - Total(WeightsOf(c.entries), ks \cap D)
        /\ Total(WeightsOf(c.entries), D \ ks) <= Total(WeightsOf(c.entries), D)
    BY <1>1, TotalDifference
  <1>6. Total(WeightsOf(d.entries), D \ ks) = Total(WeightsOf(c.entries), D \ ks)
    <2>1. \A k \in D \ ks : WeightsOf(d.entries)[k] = WeightsOf(c.entries)[k]
      BY <1>3 DEF WeightsOf
    <2>2. IsFiniteSet(D \ ks)
      BY <1>1, FS_Subset
    <2> QED BY <1>1, <2>1, <2>2, TotalAgrees
  <1>7. Agrees(d)
    BY <1>2, <1>3, <1>4, <1>5, <1>6 DEF Agrees
  <1>8. Len(d.order) = Cardinality(D \ ks)
    BY <1>3, <1>7, AgreesSums
  <1>9. Cardinality(D \ ks) <= Cardinality(D)
    BY <1>1, FS_Subset
  <1> QED BY <1>1, <1>2, <1>3, <1>5, <1>7, <1>8, <1>9 DEF d, Agrees

\* evictExpiredLocked: an entry that stays keeps its record.
LEMMA EvictAgrees ==
  ASSUME NEW c, Agrees(c)
  PROVE  LET d == EvictExpired(c) IN
         /\ Agrees(d) /\ DOMAIN d.entries \subseteq DOMAIN c.entries
         /\ \A k \in DOMAIN d.entries : d.entries[k] = c.entries[k]
         /\ Len(d.order) <= Len(c.order) /\ d.bytes <= c.bytes
  <1> DEFINE due == {r \in c.expiry : r.expiresAt <= now}
             dead == {k \in DOMAIN c.entries : Record(k, c.entries[k]) \in due}
             b == RemoveEntries(c, dead)
             d == EvictExpired(c)
  <1>1. /\ Agrees(b) /\ DOMAIN b.entries = DOMAIN c.entries \ dead
        /\ \A k \in DOMAIN b.entries : b.entries[k] = c.entries[k]
        /\ b.expiry = c.expiry
        /\ Len(b.order) <= Len(c.order) /\ b.bytes <= c.bytes
    BY RemoveAgrees
  <1>2. d = [b EXCEPT !.expiry = @ \ due]
    BY DEF EvictExpired
  <1> HIDE DEF b, d, due
  <1>3. /\ d = [order |-> d.order, entries |-> d.entries, expiry |-> d.expiry, bytes |-> d.bytes]
        /\ d.order = b.order /\ d.entries = b.entries /\ d.bytes = b.bytes
        /\ d.expiry = c.expiry \ due
    BY <1>1, <1>2 DEF Agrees
  <1>4. \A k \in DOMAIN d.entries : Record(k, d.entries[k]) \in d.expiry
    BY <1>1, <1>3 DEF Agrees
  <1>5. Agrees(d)
    BY <1>1, <1>3, <1>4 DEF Agrees
  <1> QED BY <1>1, <1>3, <1>5 DEF d

\* An entry moves to the front.
LEMMA FrontAgrees ==
  ASSUME NEW c, Agrees(c), NEW k \in DOMAIN c.entries
  PROVE  LET d == [c EXCEPT !.order = MoveToFront(@, k)] IN
         /\ Agrees(d) /\ d.entries = c.entries
         /\ Len(d.order) = Len(c.order) /\ d.bytes = c.bytes
  <1> DEFINE rest == Without(c.order, {k})
             d == [c EXCEPT !.order = MoveToFront(@, k)]
  <1>1. /\ d = [order |-> d.order, entries |-> d.entries, expiry |-> d.expiry, bytes |-> d.bytes]
        /\ d.order = <<k>> \o rest /\ d.entries = c.entries /\ d.expiry = c.expiry
        /\ d.bytes = c.bytes
    <2> DEFINE list == <<k>> \o rest
    <2>1. d = [c EXCEPT !.order = list]
      BY DEF MoveToFront
    <2> HIDE DEF d, list, rest
    <2>2. /\ d = [order |-> d.order, entries |-> d.entries, expiry |-> d.expiry, bytes |-> d.bytes]
          /\ d.order = list /\ d.entries = c.entries /\ d.expiry = c.expiry /\ d.bytes = c.bytes
      BY <2>1 DEF Agrees
    <2> QED BY <2>2 DEF list
  <1> HIDE DEF d
  <1>2. k \in Keys
    BY AgreesSums
  <1>3. rest \in Seq(Keys) /\ IsInjective(rest) /\ ToSet(rest) = ToSet(c.order) \ {k}
    BY WithoutElements DEF Agrees
  <1> HIDE DEF rest
  <1>4. /\ d.order \in Seq(Keys) /\ IsInjective(d.order)
        /\ ToSet(d.order) = ToSet(rest) \cup {k}
    BY <1>1, <1>2, <1>3, JoinsFront
  <1>5. Agrees(d)
    BY <1>1, <1>3, <1>4 DEF Agrees
  <1>6. Len(d.order) = Len(c.order)
    BY <1>1, <1>5, AgreesSums
  <1> QED BY <1>1, <1>5, <1>6 DEF d

\* An entry is stored, a new one or a new value of one that is there.
LEMMA StoreAgrees ==
  ASSUME NEW c, Agrees(c), NEW kind, NEW k \in Keys, NEW v \in DOMAIN Weight[k],
         NEW generation \in Nat, now + TTL(kind) \in Nat
  PROVE  LET d == Store(c, kind, k, v, generation) IN
         /\ Agrees(d) /\ DOMAIN d.entries = DOMAIN c.entries \cup {k}
         /\ d.entries[k].value = v /\ d.entries[k].weight = Weight[k][v]
         /\ \A j \in DOMAIN c.entries \ {k} : d.entries[j] = c.entries[j]
         /\ d.bytes = c.bytes - (IF k \in DOMAIN c.entries THEN c.entries[k].weight ELSE 0)
                        + Weight[k][v]
  <1> DEFINE e == [value |-> v, weight |-> Weight[k][v],
                   expiresAt |-> now + TTL(kind), generation |-> generation]
             old == IF k \in DOMAIN c.entries THEN c.entries[k].weight ELSE 0
             rest == Without(c.order, {k})
             D == DOMAIN c.entries
             d == Store(c, kind, k, v, generation)
  <1>1. /\ d = [order |-> d.order, entries |-> d.entries, expiry |-> d.expiry, bytes |-> d.bytes]
        /\ d.order = <<k>> \o rest
        /\ d.entries = [j \in D \cup {k} |-> IF j = k THEN e ELSE c.entries[j]]
        /\ d.expiry = c.expiry \cup {Record(k, e)}
        /\ d.bytes = c.bytes - old + e.weight
    BY DEF Store, MoveToFront
  <1> HIDE DEF d
  <1>2. /\ DOMAIN d.entries = D \cup {k} /\ d.entries[k] = e
        /\ \A j \in D \ {k} : d.entries[j] = c.entries[j]
    BY <1>1
  <1>3. e \in Entries /\ e.value = v /\ e.weight = Weight[k][v] /\ e.weight \in Nat
    BY WeightType DEF Entries
  <1>4. Record(k, e) \in Records
    BY <1>3 DEF Record, Records, Entries
  <1> HIDE DEF e
  <1>5. rest \in Seq(Keys) /\ IsInjective(rest) /\ ToSet(rest) = ToSet(c.order) \ {k}
    BY WithoutElements DEF Agrees
  <1> HIDE DEF rest
  <1>6. /\ d.order \in Seq(Keys) /\ IsInjective(d.order)
        /\ ToSet(d.order) = ToSet(rest) \cup {k}
    BY <1>1, <1>5, JoinsFront
  <1>7. ToSet(d.order) = DOMAIN d.entries
    BY <1>2, <1>5, <1>6 DEF Agrees
  <1>8. /\ IsFiniteSet(D) /\ c.bytes = Total(WeightsOf(c.entries), D)
        /\ \A j \in D : /\ WeightsOf(c.entries)[j] \in Nat
                        /\ WeightsOf(c.entries)[j] = c.entries[j].weight
    BY AgreesSums DEF Agrees
  <1>9. /\ WeightsOf(d.entries)[k] = e.weight /\ WeightsOf(d.entries)[k] \in Nat
        /\ \A j \in D \ {k} : WeightsOf(d.entries)[j] = WeightsOf(c.entries)[j]
    BY <1>2, <1>3 DEF WeightsOf
  <1>10. Total(WeightsOf(d.entries), D \cup {k}) =
           Total(WeightsOf(c.entries), D)
             - (IF k \in D THEN WeightsOf(c.entries)[k] ELSE 0) + WeightsOf(d.entries)[k]
    <2> DEFINE was == WeightsOf(c.entries)
               is == WeightsOf(d.entries)
    <2>1. /\ IsFiniteSet(D) /\ \A j \in D : was[j] \in Nat
          /\ is[k] \in Nat /\ \A j \in D \ {k} : is[j] = was[j]
      BY <1>8, <1>9
    <2> HIDE DEF was, is, D
    <2>2. Total(is, D \cup {k}) = Total(was, D) - (IF k \in D THEN was[k] ELSE 0) + is[k]
      BY <2>1, TotalReplace
    <2> QED BY <2>2 DEF was, is, D
  <1>11. d.bytes = Total(WeightsOf(d.entries), DOMAIN d.entries)
    BY <1>1, <1>2, <1>8, <1>9, <1>10
  <1>12. \A j \in DOMAIN d.entries : Record(j, d.entries[j]) \in d.expiry /\ d.entries[j] \in Entries
    BY <1>1, <1>2, <1>3 DEF Agrees
  <1>13. Agrees(d)
    BY <1>1, <1>4, <1>6, <1>7, <1>11, <1>12 DEF Agrees
  <1> QED BY <1>1, <1>2, <1>3, <1>13 DEF d

\* The eviction loop leaves the longest front of the list that is within the
\* limits: the next entry, if there is one, would not fit.
LEMMA ShrinkAgrees ==
  ASSUME NEW c, Agrees(c), NEW kind, MaxSize(kind) \in Nat, MaxBytes(kind) \in Nat
  PROVE  LET d == Shrink(c, kind) IN
         /\ Agrees(d)
         /\ \A k \in DOMAIN d.entries : d.entries[k] = c.entries[k]
         /\ Len(d.order) <= MaxSize(kind) /\ d.bytes <= MaxBytes(kind)
         /\ \E n \in 0 .. Len(c.order) :
              /\ DOMAIN d.entries = Stretch(c.order, 1, n)
              /\ Len(d.order) = n
              /\ n < Len(c.order) =>
                   \/ n + 1 > MaxSize(kind)
                   \/ d.bytes + c.entries[c.order[n + 1]].weight > MaxBytes(kind)
  <1> DEFINE w == WeightsOf(c.entries)
             L == Len(c.order)
             fits(n) == /\ n <= MaxSize(kind)
                        /\ Total(w, ToSet(SubSeq(c.order, 1, n))) <= MaxBytes(kind)
             T == {n \in 0 .. L : fits(n)}
             d == Shrink(c, kind)
  <1>1. /\ IsFiniteSet(DOMAIN c.entries) /\ L \in Nat
        /\ \A k \in DOMAIN c.entries : w[k] \in Nat /\ w[k] = c.entries[k].weight
        /\ c.order \in Seq(Keys) /\ IsInjective(c.order) /\ ToSet(c.order) = DOMAIN c.entries
    BY AgreesSums DEF Agrees
  <1>2. 0 \in T
    <2>1. SubSeq(c.order, 1, 0) = <<>>
      BY SubSeqEmpty
    <2>2. ToSet(<<>>) = {}
      BY DEF ToSet
    <2>3. Total(w, {}) = 0
      BY TotalEmpty
    <2>4. ToSet(SubSeq(c.order, 1, 0)) = {}
      BY <2>1, <2>2
    <2>5. Total(w, ToSet(SubSeq(c.order, 1, 0))) = 0
      BY <2>3, <2>4
    <2> HIDE DEF w
    <2>6. fits(0)
      BY <2>5
    <2>7. 0 \in 0 .. L
      BY <1>1
    <2> QED BY <2>6, <2>7
  <1>3. Max(T) \in T /\ \A n \in T : n <= Max(T)
    BY <1>1, <1>2, GreatestIsMax
  <1> DEFINE m == Max(T)
  <1>4. m \in 0 .. L /\ fits(m) /\ (m < L => ~fits(m + 1))
    <2>1. Max(T) \in 0 .. L /\ fits(Max(T))
      BY <1>3
    <2>2. ASSUME Max(T) < L, fits(Max(T) + 1) PROVE FALSE
      <3>1. Max(T) + 1 \in 0 .. L
        BY <1>1, <2>1, <2>2
      <3>2. Max(T) + 1 \in T
        BY <2>2, <3>1
      <3>3. Max(T) + 1 <= Max(T)
        BY <1>3, <3>2
      <3> QED BY <2>1, <3>3
    <2> QED BY <2>1, <2>2
  <1> HIDE DEF m
  <1> DEFINE front == Stretch(c.order, 1, m)
             rest == Stretch(c.order, m + 1, L)
  <1>5. /\ ToSet(SubSeq(c.order, 1, m)) = front
        /\ ToSet(SubSeq(c.order, m + 1, L)) = rest
        /\ ToSet(c.order) \ rest = front
        /\ IsFiniteSet(front) /\ Cardinality(front) = m
    <2>1. c.order \in Seq(Keys) /\ IsInjective(c.order) /\ m \in 0 .. Len(c.order)
      BY <1>1, <1>4
    <2> QED BY <2>1, CutInTwo
  <1>6. d = RemoveEntries(c, rest)
    <2>1. d = RemoveEntries(c, ToSet(SubSeq(c.order, Max(T) + 1, Len(c.order))))
      BY DEF Shrink
    <2>2. d = RemoveEntries(c, ToSet(SubSeq(c.order, m + 1, L)))
      BY <2>1 DEF m
    <2> QED BY <1>5, <2>2, Zenon
  <1>7. /\ Agrees(d) /\ DOMAIN d.entries = DOMAIN c.entries \ rest
        /\ \A k \in DOMAIN d.entries : d.entries[k] = c.entries[k]
    BY <1>6, RemoveAgrees
  <1> HIDE DEF d, T
  <1>8. DOMAIN d.entries = front
    BY <1>1, <1>5, <1>7
  <1>9. Len(d.order) = m /\ d.bytes \in Nat
    BY <1>5, <1>7, <1>8, AgreesSums
  <1>10. d.bytes = Total(w, front)
    <2>1. \A k \in front : WeightsOf(d.entries)[k] = w[k] /\ w[k] \in Nat
      BY <1>1, <1>7, <1>8 DEF WeightsOf
    <2>2. Total(WeightsOf(d.entries), front) = Total(w, front)
      BY <1>5, <2>1, TotalAgrees
    <2> QED BY <1>7, <1>8, <2>2 DEF Agrees
  <1>11. Len(d.order) <= MaxSize(kind) /\ d.bytes <= MaxBytes(kind)
    <2>1. m <= MaxSize(kind) /\ Total(w, ToSet(SubSeq(c.order, 1, m))) <= MaxBytes(kind)
      BY <1>4, Zenon
    <2>2. Total(w, front) <= MaxBytes(kind)
      BY <1>5, <2>1, Zenon
    <2> QED BY <1>9, <1>10, <2>1, <2>2, Zenon
  <1>12. ASSUME m < L
         PROVE  \/ m + 1 > MaxSize(kind)
                \/ d.bytes + c.entries[c.order[m + 1]].weight > MaxBytes(kind)
    <2> DEFINE x == c.order[m + 1]
               more == Stretch(c.order, 1, m + 1)
    <2>1. m + 1 \in 0 .. L /\ m + 1 \in m + 1 .. L
      BY <1>1, <1>4, <1>12
    <2>2. ToSet(SubSeq(c.order, 1, m + 1)) = more
      BY <1>1, <2>1, CutInTwo
    <2>3. x \in rest /\ x \in DOMAIN c.entries /\ x \notin front
      <3>1. x \in rest
        BY <2>1 DEF Stretch
      <3>2. m + 1 \in DOMAIN c.order
        BY <1>1, <1>4, <1>12, LenProperties
      <3>3. x \in DOMAIN c.entries
        BY <1>1, <3>2 DEF ToSet
      <3> QED BY <1>5, <3>1, <3>3
    <2>4. more = front \cup {x}
      <3>1. \A i : i \in 1 .. m + 1 <=> i \in 1 .. m \/ i = m + 1
        BY <1>4
      <3> QED BY <3>1, Zenon DEF Stretch
    <2>5. w[x] \in Nat /\ w[x] = c.entries[x].weight
      BY <1>1, <2>3
    <2>6. Total(w, front \cup {x}) = Total(w, front) + w[x]
      <3>1. IsFiniteSet({x}) /\ front \cap {x} = {}
        BY <2>3, FS_Singleton
      <3>2. \A k \in front \cup {x} : w[k] \in Nat
        BY <1>1, <1>7, <1>8, <2>5
      <3>3. Total(w, {x}) = w[x]
        BY <2>5, TotalOne
      <3> HIDE DEF front, x, w
      <3> QED BY <1>5, <3>1, <3>2, <3>3, TotalUnion
    <2>7. ~(m + 1 <= MaxSize(kind) /\ Total(w, more) <= MaxBytes(kind))
      BY <1>4, <1>12, <2>2, Zenon
    <2>8. Total(w, more) = d.bytes + c.entries[x].weight
      BY <1>10, <2>4, <2>5, <2>6
    <2> HIDE DEF more, w
    <2>9. c.entries[x].weight \in Nat
      BY <2>5
    <2> HIDE DEF x
    <2>10. ~(m + 1 <= MaxSize(kind)) \/ ~(d.bytes + c.entries[x].weight <= MaxBytes(kind))
      BY <2>7, <2>8
    <2>11. m + 1 > MaxSize(kind) \/ d.bytes + c.entries[x].weight > MaxBytes(kind)
      BY <1>9, <2>9, <2>10
    <2> QED BY <2>11 DEF x
  <1>13. \E n \in 0 .. L :
           /\ DOMAIN d.entries = Stretch(c.order, 1, n)
           /\ Len(d.order) = n
           /\ n < L => \/ n + 1 > MaxSize(kind)
                       \/ d.bytes + c.entries[c.order[n + 1]].weight > MaxBytes(kind)
    BY <1>4, <1>8, <1>9, <1>12
  <1> QED BY <1>7, <1>11, <1>13 DEF d

-----------------------------------------------------------------------------
(* The settings.                                                             *)

\* EffectiveConfig yields settings that are not negative.
LEMMA SettingsEffective ==
  ASSUME config \in Configs, NEW kind \in Kinds
  PROVE  /\ MaxSize(kind) \in Nat /\ MaxBytes(kind) \in Nat /\ TTL(kind) \in Nat
         /\ MaxBytes(kind) <= Limit.maxBytes \/ MaxBytes(kind) <= Default[kind].maxBytes
  <1>1. ASSUME NEW f \in {"capacity", "ttl", "maxBytes"}
        PROVE  /\ config[kind][f] \in Int /\ Default[kind][f] \in Nat /\ Limit[f] \in Nat
               /\ EffectiveConfig(kind)[f] \in Nat
               /\ \/ EffectiveConfig(kind)[f] <= Limit[f]
                  \/ EffectiveConfig(kind)[f] <= Default[kind][f]
    <2>1. config[kind] \in Settings(Int) /\ Default[kind] \in Settings(Nat) /\ Limit \in Settings(Nat)
      BY ConfigsType
    <2>2. config[kind][f] \in Int /\ Default[kind][f] \in Nat /\ Limit[f] \in Nat
      BY <1>1, <2>1 DEF Settings
    <2>3. EffectiveConfig(kind)[f] = IF config[kind][f] < 0 THEN Default[kind][f]
                                     ELSE Min({config[kind][f], Limit[f]})
      BY <1>1 DEF EffectiveConfig
    <2>4. Min({config[kind][f], Limit[f]}) =
            IF config[kind][f] <= Limit[f] THEN config[kind][f] ELSE Limit[f]
      BY <2>2, MinOfTwo
    <2> QED BY <2>2, <2>3, <2>4
  <1>2. /\ EffectiveConfig(kind).capacity = EffectiveConfig(kind)["capacity"]
        /\ TTL(kind) = EffectiveConfig(kind)["ttl"]
        /\ MaxBytes(kind) = EffectiveConfig(kind)["maxBytes"]
        /\ Limit.maxBytes = Limit["maxBytes"] /\ Default[kind].maxBytes = Default[kind]["maxBytes"]
    BY DEF TTL, MaxBytes
  <1>3. /\ EffectiveConfig(kind)["capacity"] \in Nat /\ EffectiveConfig(kind)["ttl"] \in Nat
        /\ EffectiveConfig(kind)["maxBytes"] \in Nat
        /\ \/ EffectiveConfig(kind)["maxBytes"] <= Limit["maxBytes"]
           \/ EffectiveConfig(kind)["maxBytes"] <= Default[kind]["maxBytes"]
    BY <1>1
  <1>4. MaxSize(kind) \in Nat
    BY <1>2, <1>3 DEF MaxSize
  <1> QED BY <1>2, <1>3, <1>4

\* They do not change while the configuration does not.
LEMMA SettingsFixed ==
  ASSUME config' = config
  PROVE  \A kind : /\ MaxSize(kind)' = MaxSize(kind) /\ MaxBytes(kind)' = MaxBytes(kind)
                    /\ Enabled(kind)' = Enabled(kind)
  BY DEF MaxSize, MaxBytes, Enabled, TTL, EffectiveConfig

-----------------------------------------------------------------------------
(* The operations of lruTTLCache.                                            *)

\* A cache that agrees with itself and holds what its settings let in: no entry
\* is larger than the byte limit by itself.
Sound(c, kind) ==
  /\ Agrees(c)
  /\ Len(c.order) <= MaxSize(kind)
  /\ ~Enabled(kind) => DOMAIN c.entries = {}
  /\ \A k \in DOMAIN c.entries :
       /\ c.entries[k].value \in DOMAIN Weight[k]
       /\ c.entries[k].weight = Weight[k][c.entries[k].value]
       /\ c.entries[k].weight <= MaxBytes(kind)

\* A cache that is part of another, entries and account.
Part(d, c) ==
  /\ DOMAIN d.entries \subseteq DOMAIN c.entries
  /\ \A k \in DOMAIN d.entries : d.entries[k] = c.entries[k]
  /\ Len(d.order) <= Len(c.order) /\ d.bytes <= c.bytes

\* A part of a sound cache is sound.
LEMMA PartSound ==
  ASSUME config \in Configs, NEW kind \in Kinds, NEW c, Sound(c, kind),
         NEW d, Agrees(d), Part(d, c)
  PROVE  Sound(d, kind)
  <1>1. Len(d.order) \in Nat /\ Len(c.order) \in Nat /\ MaxSize(kind) \in Nat
    BY AgreesSums, SettingsEffective DEF Sound
  <1> QED BY <1>1 DEF Sound, Part

\* SetWeighted: under the key there is the new value or nothing, nothing else is
\* new, and a key that joins leaves the cache within its byte limit.  The replacement
\* of an entry that is present does not evict.
LEMMA SetSound ==
  ASSUME config \in Configs, now \in Nat, NEW kind \in Kinds, NEW c, Sound(c, kind),
         NEW k \in Keys, NEW v \in DOMAIN Weight[k]
  PROVE  LET d == SetWeighted(c, kind, k, v) IN
         /\ Sound(d, kind)
         /\ k \in DOMAIN d.entries => d.entries[k].value = v
         /\ \A j \in DOMAIN d.entries \ {k} : j \in DOMAIN c.entries /\ d.entries[j] = c.entries[j]
         /\ k \in DOMAIN d.entries \ DOMAIN c.entries => d.bytes <= MaxBytes(kind)
  <1> DEFINE b == EvictExpired(c)
             d == SetWeighted(c, kind, k, v)
  <1>1. MaxSize(kind) \in Nat /\ MaxBytes(kind) \in Nat /\ TTL(kind) \in Nat
    BY SettingsEffective
  <1>2. Agrees(b) /\ Part(b, c)
    BY EvictAgrees DEF Sound, Part
  <1>3. Sound(b, kind)
    BY <1>2, PartSound
  <1>4. d = IF ~Enabled(kind) THEN c
            ELSE IF Weight[k][v] > MaxBytes(kind) THEN RemoveEntries(b, {k} \cap DOMAIN b.entries)
            ELSE IF k \in DOMAIN b.entries THEN Store(b, kind, k, v, b.entries[k].generation + 1)
            ELSE Shrink(Store(b, kind, k, v, 1), kind)
    BY DEF SetWeighted
  <1> HIDE DEF b, d
  <1>5. Weight[k][v] \in Nat
    BY WeightType
  <1>7. CASE ~Enabled(kind)
    BY <1>4, <1>7 DEF Sound, d
  <1>8. CASE Enabled(kind) /\ Weight[k][v] > MaxBytes(kind)
    <2>1. d = RemoveEntries(b, {k} \cap DOMAIN b.entries)
      BY <1>4, <1>8
    <2>2. Agrees(d) /\ Part(d, b) /\ DOMAIN d.entries = DOMAIN b.entries \ {k}
      BY <1>2, <2>1, RemoveAgrees DEF Part
    <2>3. Sound(d, kind)
      BY <1>3, <2>2, PartSound
    <2> QED BY <1>1, <1>2, <2>2, <2>3 DEF Part, d
  <1>9. CASE Enabled(kind) /\ Weight[k][v] <= MaxBytes(kind) /\ k \in DOMAIN b.entries
    <2> DEFINE g == b.entries[k].generation + 1
    <2>1. d = Store(b, kind, k, v, g)
      BY <1>1, <1>4, <1>5, <1>9
    <2>2. b.entries[k].generation \in Nat
      BY <1>2, <1>9 DEF Agrees, Entries
    <2>3. g \in Nat /\ now + TTL(kind) \in Nat
      BY <1>1, <2>2
    <2>4. /\ Agrees(d) /\ DOMAIN d.entries = DOMAIN b.entries \cup {k}
          /\ d.entries[k].value = v /\ d.entries[k].weight = Weight[k][v]
          /\ \A j \in DOMAIN b.entries \ {k} : d.entries[j] = b.entries[j]
          /\ d.bytes = b.bytes - (IF k \in DOMAIN b.entries THEN b.entries[k].weight ELSE 0)
                          + Weight[k][v]
      BY <1>2, <2>1, <2>3, StoreAgrees
    <2>5. DOMAIN d.entries = DOMAIN b.entries
      BY <1>9, <2>4
    <2>6. Len(d.order) = Len(b.order)
      BY <1>2, <2>4, <2>5, AgreesSums
    <2>7. Sound(d, kind)
      BY <1>3, <1>9, <2>4, <2>5, <2>6 DEF Sound
    <2> QED BY <1>2, <1>9, <2>4, <2>5, <2>7 DEF Part, d
  <1>10. CASE Enabled(kind) /\ Weight[k][v] <= MaxBytes(kind) /\ k \notin DOMAIN b.entries
    <2> DEFINE a == Store(b, kind, k, v, 1)
    <2>1. d = Shrink(a, kind)
      BY <1>1, <1>4, <1>5, <1>10
    <2>2. 1 \in Nat /\ now + TTL(kind) \in Nat
      BY <1>1
    <2>3. /\ Agrees(a) /\ DOMAIN a.entries = DOMAIN b.entries \cup {k}
          /\ a.entries[k].value = v /\ a.entries[k].weight = Weight[k][v]
          /\ \A j \in DOMAIN b.entries \ {k} : a.entries[j] = b.entries[j]
      BY <1>2, <2>2, StoreAgrees
    <2> HIDE DEF a
    <2>4. /\ Agrees(d) /\ \A j \in DOMAIN d.entries : d.entries[j] = a.entries[j]
          /\ Len(d.order) <= MaxSize(kind) /\ d.bytes <= MaxBytes(kind)
          /\ \E n \in 0 .. Len(a.order) : DOMAIN d.entries = Stretch(a.order, 1, n)
      BY <1>1, <2>1, <2>3, ShrinkAgrees
    <2>5. DOMAIN d.entries \subseteq DOMAIN a.entries
      BY <2>1, <2>3, RemoveAgrees DEF Shrink
    <2>6. Sound(d, kind)
      BY <1>3, <1>10, <2>3, <2>4, <2>5 DEF Sound
    <2> QED BY <1>2, <2>3, <2>4, <2>5, <2>6 DEF Part, d
  <1> QED BY <1>1, <1>5, <1>7, <1>8, <1>9, <1>10

-----------------------------------------------------------------------------
(* The inductive invariant.                                                  *)

\* What a cache holds under a key is the last value put under it.
HoldsLatest(kind) ==
  \A k \in DOMAIN cache[kind].entries :
    latest[k] = [kind |-> kind, value |-> cache[kind].entries[k].value]

CInv ==
  /\ config \in Configs
  /\ now \in Nat
  /\ cache = [kind \in Kinds |-> cache[kind]]
  /\ reader \in [Readers -> Keys \cup {None}]
  /\ latest \in [Keys -> [kind : Kinds, value : Values] \cup {None}]
  /\ \A kind \in Kinds : Sound(cache[kind], kind) /\ HoldsLatest(kind)

\* The empty caches that newParseCache makes.
LEMMA CInvInit == Init => CInv
  <1> SUFFICES ASSUME Init PROVE CInv
    OBVIOUS
  <1>1. /\ config \in Configs /\ now \in Nat /\ cache = [kind \in Kinds |-> EmptyCache]
        /\ reader \in [Readers -> Keys \cup {None}]
        /\ latest \in [Keys -> [kind : Kinds, value : Values] \cup {None}]
    BY DEF Init
  <1>2. ASSUME NEW kind \in Kinds
        PROVE  Sound(cache[kind], kind) /\ HoldsLatest(kind)
    <2> DEFINE c == EmptyCache
    <2>1. cache[kind] = c
      BY <1>1
    <2>2. /\ c = [order |-> c.order, entries |-> c.entries, expiry |-> c.expiry, bytes |-> c.bytes]
          /\ c.order = <<>> /\ c.entries = <<>> /\ c.expiry = {} /\ c.bytes = 0
      BY DEF EmptyCache
    <2> HIDE DEF c
    <2>3. DOMAIN c.entries = {} /\ c.order \in Seq(Keys) /\ Len(c.order) = 0 /\ IsInjective(c.order)
          /\ ToSet(c.order) = {}
      BY <2>2 DEF IsInjective, ToSet
    <2>4. Total(WeightsOf(c.entries), {}) = 0
      BY TotalEmpty
    <2>5. Agrees(c)
      BY <2>2, <2>3, <2>4 DEF Agrees
    <2>6. MaxSize(kind) \in Nat /\ MaxBytes(kind) \in Nat
      BY <1>1, SettingsEffective
    <2> QED BY <2>1, <2>2, <2>3, <2>5, <2>6 DEF Sound, HoldsLatest
  <1> QED BY <1>1, <1>2 DEF CInv

\* lruTTLCache.Get leaves a part of the cache it looks into, and the other alone.
LEMMA GetParts ==
  ASSUME CInv, NEW kind \in Kinds, NEW k,
         IF Hit(kind, k) THEN Touch(kind, k) ELSE Untouched(kind)
  PROVE  /\ cache' = [o \in Kinds |-> cache'[o]]
         /\ \A o \in Kinds : Agrees(cache'[o]) /\ Part(cache'[o], cache[o])
  <1> DEFINE c == cache[kind]
             b == EvictExpired(c)
             d == [b EXCEPT !.order = MoveToFront(@, k)]
  <1>1. Agrees(c)
    BY DEF CInv, Sound
  <1>2. Agrees(b) /\ Part(b, c)
    BY <1>1, EvictAgrees DEF Part
  <1>3. Hit(kind, k) => k \in DOMAIN b.entries
    BY DEF Hit
  <1>4. PICK e : /\ e \in {b, c} \/ (Hit(kind, k) /\ e = d)
                 /\ cache' = [cache EXCEPT ![kind] = e]
    BY DEF Touch, Untouched
  <1> HIDE DEF b
  <1>5. Hit(kind, k) => Agrees(d) /\ d.entries = b.entries /\ Len(d.order) = Len(b.order)
                        /\ d.bytes = b.bytes
    BY <1>2, <1>3, FrontAgrees
  <1>6. Len(c.order) \in Nat /\ c.bytes \in Nat
    BY <1>1, AgreesSums
  <1> HIDE DEF d
  <1>7. Agrees(e) /\ Part(e, c)
    BY <1>1, <1>2, <1>4, <1>5, <1>6 DEF Part
  <1>8. cache = [o \in Kinds |-> cache[o]]
    BY DEF CInv
  <1>9. cache' = [o \in Kinds |-> IF o = kind THEN e ELSE cache[o]]
    BY <1>4, <1>8
  <1>10. ASSUME NEW o \in Kinds, o # kind PROVE Agrees(cache[o]) /\ Part(cache[o], cache[o])
    <2>1. Agrees(cache[o])
      BY DEF CInv, Sound
    <2>2. Len(cache[o].order) \in Nat /\ cache[o].bytes \in Nat
      BY <2>1, AgreesSums
    <2> QED BY <2>1, <2>2 DEF Part
  <1>11. \A o \in Kinds : cache'[o] = IF o = kind THEN e ELSE cache[o]
    BY <1>9
  <1>12. cache' = [o \in Kinds |-> cache'[o]]
    BY <1>9
  <1> QED BY <1>7, <1>10, <1>11, <1>12

\* putSuccess and putSyntax: of the key, at most the new value is left, in the
\* cache of its kind; whatever else is there was there before.
LEMMA PutSound ==
  ASSUME CInv, NEW kind \in Kinds, NEW k \in Keys, NEW v \in DOMAIN Weight[k], Put(kind, k, v)
  PROVE  /\ cache' = [o \in Kinds |-> cache'[o]]
         /\ cache'[kind] = SetWeighted(cache[kind], kind, k, v)
         /\ \A o \in Kinds :
              /\ Sound(cache'[o], o)
              /\ k \in DOMAIN cache'[o].entries => o = kind /\ cache'[o].entries[k].value = v
              /\ \A j \in DOMAIN cache'[o].entries \ {k} :
                   j \in DOMAIN cache[o].entries /\ cache'[o].entries[j] = cache[o].entries[j]
              /\ o # kind => Part(cache'[o], cache[o]) /\ DOMAIN cache'[o].entries = DOMAIN cache[o].entries \ {k}
         /\ \A o \in Kinds : ~(DOMAIN cache'[o].entries \subseteq DOMAIN cache[o].entries)
                              => cache'[o].bytes <= MaxBytes(o)
  <1> DEFINE other == CHOOSE o \in Kinds : o # kind
             a == RemoveEntries(cache[other], {k} \cap DOMAIN cache[other].entries)
             d == SetWeighted(cache[kind], kind, k, v)
  <1>1. other \in Kinds /\ other # kind /\ \A o \in Kinds : o # kind => o = other
    BY DEF Kinds
  <1>2. cache' = [cache EXCEPT ![other] = a, ![kind] = d]
    BY <1>1 DEF Put, CInv
  <1> HIDE DEF other
  <1>3. cache = [o \in Kinds |-> cache[o]] /\ config \in Configs /\ now \in Nat
        /\ Sound(cache[kind], kind) /\ Sound(cache[other], other)
    BY <1>1 DEF CInv
  <1>4. /\ Agrees(a) /\ Part(a, cache[other])
        /\ DOMAIN a.entries = DOMAIN cache[other].entries \ {k}
    <2>1. Agrees(cache[other])
      BY <1>3 DEF Sound
    <2> DEFINE c == cache[other]
               ks == {k} \cap DOMAIN c.entries
    <2>2. DOMAIN c.entries \ ks = DOMAIN c.entries \ {k}
      OBVIOUS
    <2> HIDE DEF ks
    <2>3. a = RemoveEntries(c, ks)
      BY DEF ks
    <2> HIDE DEF a, c
    <2>4. Agrees(a) /\ Part(a, c) /\ DOMAIN a.entries = DOMAIN c.entries \ ks
      BY <2>1, <2>3, RemoveAgrees DEF Part, c
    <2> QED BY <2>2, <2>4 DEF c
  <1>5. Sound(a, other)
    BY <1>1, <1>3, <1>4, PartSound
  <1>6. /\ Sound(d, kind)
        /\ k \in DOMAIN d.entries => d.entries[k].value = v
        /\ \A j \in DOMAIN d.entries \ {k} :
             j \in DOMAIN cache[kind].entries /\ d.entries[j] = cache[kind].entries[j]
        /\ k \in DOMAIN d.entries \ DOMAIN cache[kind].entries => d.bytes <= MaxBytes(kind)
    BY <1>3, SetSound
  <1> HIDE DEF a, d
  <1>7. cache' = [o \in Kinds |-> IF o = kind THEN d ELSE a]
    <2>1. cache' = [o \in Kinds |-> IF o = kind THEN d ELSE IF o = other THEN a ELSE cache[o]]
      BY <1>1, <1>2, <1>3
    <2> QED BY <1>1, <2>1
  <1>8. \A o \in Kinds : cache'[o] = IF o = kind THEN d ELSE a
    BY <1>7
  <1>9. cache' = [o \in Kinds |-> cache'[o]]
    BY <1>7
  <1>11. \A o \in Kinds : ~(DOMAIN cache'[o].entries \subseteq DOMAIN cache[o].entries)
                            => cache'[o].bytes <= MaxBytes(o)
    BY <1>1, <1>4, <1>6, <1>8
  <1>12. cache'[kind] = d
    BY <1>8
  <1>13. ASSUME NEW o \in Kinds
         PROVE  /\ Sound(cache'[o], o)
                /\ k \in DOMAIN cache'[o].entries => o = kind /\ cache'[o].entries[k].value = v
                /\ \A j \in DOMAIN cache'[o].entries \ {k} :
                     j \in DOMAIN cache[o].entries /\ cache'[o].entries[j] = cache[o].entries[j]
                /\ o # kind => Part(cache'[o], cache[o])
                               /\ DOMAIN cache'[o].entries = DOMAIN cache[o].entries \ {k}
    <2>1. CASE o = kind
      BY <1>6, <1>12, <2>1
    <2>2. CASE o # kind
      <3>1. o = other /\ cache'[o] = a
        BY <1>1, <1>8, <2>2
      <3> QED BY <1>4, <1>5, <2>2, <3>1 DEF Part
    <2> QED BY <2>1, <2>2
  <1> QED BY <1>9, <1>11, <1>12, <1>13 DEF d

\* Every step of the cache keeps the invariant.
LEMMA CInvNext == CInv /\ [Next]_vars => CInv'
  <1> SUFFICES ASSUME CInv, [Next]_vars PROVE CInv'
    OBVIOUS
  <1>1. config' = config
    BY DEF Next, GetSuccess, GetSyntax, Put, Tick, vars
  <1>2. \A kind : /\ MaxSize(kind)' = MaxSize(kind) /\ MaxBytes(kind)' = MaxBytes(kind)
                   /\ Enabled(kind)' = Enabled(kind)
    BY <1>1, SettingsFixed
  <1>3. \A c, kind : Sound(c, kind) =>
           /\ Agrees(c)
           /\ Len(c.order) <= MaxSize(kind)'
           /\ ~Enabled(kind)' => DOMAIN c.entries = {}
           /\ \A k \in DOMAIN c.entries :
                /\ c.entries[k].value \in DOMAIN Weight[k]
                /\ c.entries[k].weight = Weight[k][c.entries[k].value]
                /\ c.entries[k].weight <= MaxBytes(kind)'
    BY <1>2 DEF Sound
  <1>4. \A kind \in Kinds : Sound(cache'[kind], kind) => Sound(cache[kind], kind)'
    BY <1>3 DEF Sound
  <1>5. ASSUME \A o \in Kinds : Agrees(cache'[o]) /\ Part(cache'[o], cache[o]), latest' = latest
        PROVE  \A o \in Kinds : Sound(cache'[o], o) /\ HoldsLatest(o)'
    <2> SUFFICES ASSUME NEW o \in Kinds
                 PROVE  Sound(cache'[o], o) /\ HoldsLatest(o)'
      OBVIOUS
    <2>1. Sound(cache'[o], o)
      BY <1>5, PartSound DEF CInv
    <2>2. HoldsLatest(o)'
      BY <1>5 DEF CInv, HoldsLatest, Part
    <2> QED BY <2>1, <2>2
  <1>6. ASSUME NEW q \in Readers, NEW k \in Keys, GetSuccess(q, k)
        PROVE  CInv'
    <2>1. IF Hit("success", k) THEN Touch("success", k) ELSE Untouched("success")
      BY <1>6 DEF GetSuccess
    <2>2. /\ cache' = [o \in Kinds |-> cache'[o]]
          /\ \A o \in Kinds : Agrees(cache'[o]) /\ Part(cache'[o], cache[o])
      BY <2>1, GetParts DEF Kinds
    <2>3. /\ now' = now /\ latest' = latest
          /\ reader' = reader \/ reader' = [reader EXCEPT ![q] = k]
      BY <1>6 DEF GetSuccess
    <2>4. reader' \in [Readers -> Keys \cup {None}]
      BY <2>3 DEF CInv
    <2> QED BY <1>1, <1>4, <1>5, <2>2, <2>3, <2>4 DEF CInv
  <1>7. ASSUME NEW q \in Readers, GetSyntax(q)
        PROVE  CInv'
    <2>1. IF Hit("syntax", reader[q]) THEN Touch("syntax", reader[q]) ELSE Untouched("syntax")
      BY <1>7 DEF GetSyntax
    <2>2. /\ cache' = [o \in Kinds |-> cache'[o]]
          /\ \A o \in Kinds : Agrees(cache'[o]) /\ Part(cache'[o], cache[o])
      BY <2>1, GetParts DEF Kinds
    <2>3. now' = now /\ latest' = latest /\ reader' = [reader EXCEPT ![q] = None]
      BY <1>7 DEF GetSyntax
    <2>4. reader' \in [Readers -> Keys \cup {None}]
      BY <2>3 DEF CInv
    <2> QED BY <1>1, <1>4, <1>5, <2>2, <2>3, <2>4 DEF CInv
  <1>8. ASSUME NEW kind \in Kinds, NEW k \in Keys, NEW v \in DOMAIN Weight[k], Put(kind, k, v)
        PROVE  CInv'
    <2>1. /\ cache' = [o \in Kinds |-> cache'[o]]
          /\ \A o \in Kinds :
               /\ Sound(cache'[o], o)
               /\ k \in DOMAIN cache'[o].entries => o = kind /\ cache'[o].entries[k].value = v
               /\ \A j \in DOMAIN cache'[o].entries \ {k} :
                    j \in DOMAIN cache[o].entries /\ cache'[o].entries[j] = cache[o].entries[j]
      BY <1>8, PutSound
    <2>2. /\ now' = now /\ reader' = reader
          /\ latest' = [latest EXCEPT ![k] = [kind |-> kind, value |-> v]]
      BY <1>8 DEF Put
    <2>3. v \in Values
      BY WeightType
    <2>4. latest' \in [Keys -> [kind : Kinds, value : Values] \cup {None}]
      BY <2>2, <2>3 DEF CInv
    <2>5. ASSUME NEW o \in Kinds PROVE HoldsLatest(o)'
      <3>1. latest'[k] = [kind |-> kind, value |-> v] /\ \A j \in Keys \ {k} : latest'[j] = latest[j]
        BY <2>2 DEF CInv
      <3>2. DOMAIN cache[o].entries \subseteq Keys
        BY AgreesSums DEF CInv, Sound
      <3>3. \A j \in DOMAIN cache[o].entries :
              latest[j] = [kind |-> o, value |-> cache[o].entries[j].value]
        BY DEF CInv, HoldsLatest
      <3>4. \A j \in DOMAIN cache'[o].entries :
              latest'[j] = [kind |-> o, value |-> cache'[o].entries[j].value]
        BY <2>1, <3>1, <3>2, <3>3, SMTT(40)
      <3> QED BY <3>4 DEF HoldsLatest
    <2> QED BY <1>1, <1>4, <2>1, <2>2, <2>4, <2>5 DEF CInv
  <1>9. ASSUME cache' = cache, latest' = latest, reader' = reader, now' \in Nat
        PROVE  CInv'
    BY <1>1, <1>4, <1>9 DEF CInv, HoldsLatest
  <1>10. CASE Tick
    <2>1. cache' = cache /\ latest' = latest /\ reader' = reader /\ now' \in Nat
      BY <1>10 DEF Tick, CInv
    <2> QED BY <1>9, <2>1
  <1>11. CASE UNCHANGED vars
    <2>1. cache' = cache /\ latest' = latest /\ reader' = reader /\ now' \in Nat
      BY <1>11 DEF vars, CInv
    <2> QED BY <1>9, <2>1
  <1> QED BY <1>6, <1>7, <1>8, <1>10, <1>11 DEF Next

\* The list, the map, the heap and the byte count of both caches agree
\* (cache.go, removeElementLocked, evictExpiredLocked, SetWeighted), for any
\* configuration, keys and sizes.
THEOREM CacheAccountsAgree == Spec => []ListMapHeapBytesAgree
  <1>1. ASSUME CInv PROVE ListMapHeapBytesAgree
    <2>1. \A kind \in Kinds : Agrees(cache[kind])
      BY <1>1 DEF CInv, Sound
    <2>2. \A kind \in Kinds : /\ DOMAIN cache[kind].entries \subseteq Keys
                              /\ Len(cache[kind].order) = Cardinality(DOMAIN cache[kind].entries)
                              /\ cache[kind].bytes \in Int
      BY <2>1, AgreesSums
    <2>3. DOMAIN cache = Kinds
      BY <1>1 DEF CInv
    <2>4. TypeOK
      BY <1>1, <2>1, <2>2, <2>3 DEF TypeOK, CInv, Agrees
    <2> QED BY <2>1, <2>2, <2>4 DEF ListMapHeapBytesAgree, Agrees
  <1> QED BY <1>1, CInvInit, CInvNext, PTL DEF Spec

-----------------------------------------------------------------------------
(* The caches implement BoundedCache.                                        *)

\* Occupancy, KeepsOnly and the steps of BoundedCache, for the cache of a kind.
Occupied(f) ==
  LET kept == {k \in Keys : f[k] # None}
  IN  [entries |-> Cardinality(kept),
       bytes |-> Total([k \in kept |-> SizeOf(k, f[k])], kept)]

\* What each cache accounts for is what it holds.
LEMMA UsedIsOccupied ==
  ASSUME CInv, NEW kind \in Kinds
  PROVE  Used(kind) = Occupied(Contents(kind))
  <1> DEFINE c == cache[kind]
             f == Contents(kind)
             D == DOMAIN c.entries
             kept == {k \in Keys : f[k] # None}
             size == [k \in kept |-> SizeOf(k, f[k])]
  <1>1. Agrees(c)
    BY DEF CInv, Sound
  <1>2. /\ D \subseteq Keys /\ IsFiniteSet(D) /\ Len(c.order) = Cardinality(D)
        /\ \A k \in D : WeightsOf(c.entries)[k] \in Nat /\ WeightsOf(c.entries)[k] = c.entries[k].weight
        /\ c.bytes = Total(WeightsOf(c.entries), D)
    BY <1>1, AgreesSums DEF Agrees
  <1>3. \A k \in D : /\ c.entries[k].value \in DOMAIN Weight[k]
                     /\ c.entries[k].weight = Weight[k][c.entries[k].value]
                     /\ c.entries[k].value # None
    BY <1>2, WeightType, NoneIsNil DEF CInv, Sound
  <1>4. \A k \in Keys : f[k] = IF k \in D THEN c.entries[k].value ELSE None
    BY DEF Contents
  <1>5. kept = D
    BY <1>2, <1>3, <1>4
  <1>6. \A k \in D : size[k] = WeightsOf(c.entries)[k]
    BY <1>2, <1>3, <1>4, <1>5 DEF SizeOf
  <1> HIDE DEF size
  <1>7. Total(size, D) = Total(WeightsOf(c.entries), D)
    BY <1>2, <1>6, TotalAgrees
  <1>8. Occupied(f) = [entries |-> Cardinality(kept), bytes |-> Total(size, kept)]
    BY DEF Occupied, size
  <1>9. Used(kind) = [entries |-> Len(c.order), bytes |-> c.bytes]
    BY DEF Used
  <1> QED BY <1>2, <1>5, <1>7, <1>8, <1>9

\* KeepsOnly(given) of BoundedCache, for the cache of a kind.
Keeps(kind, given) ==
  /\ DOMAIN Contents(kind)' = Keys
  /\ \A k \in Keys : Contents(kind)'[k] \in {given[k], None}
  /\ Used(kind)' = Occupied(Contents(kind)')
  /\ Used(kind)'.entries <= Limits(kind).entries
  /\ Limits(kind)' = Limits(kind)

\* AddsWithinBytes of BoundedCache, for the cache of a kind.
Adds(kind) ==
  /\ \A k \in Keys : Contents(kind)'[k] # None => SizeOf(k, Contents(kind)'[k]) <= Limits(kind).bytes
  /\ (\E k \in Keys : Contents(kind)[k] = None /\ Contents(kind)'[k] # None)
       => Used(kind)'.bytes <= Limits(kind).bytes

\* Every step forgets entries of the cache of a kind, or is the put of a value
\* of this kind, or withdraws its value for one of the other kind.
LEMMA StepsBounded ==
  ASSUME CInv, [Next]_vars, NEW kind \in Kinds
  PROVE  \/ \E k \in Keys, v \in Values \cup {None} :
               /\ Current(kind)' = [Current(kind) EXCEPT ![k] = v]
               /\ Keeps(kind, [Contents(kind) EXCEPT ![k] = v])
         \/ Keeps(kind, Contents(kind)) /\ Current(kind)' = Current(kind)
  <1>1. CInv'
    BY CInvNext
  <1>2. config' = config
    BY DEF Next, GetSuccess, GetSyntax, Put, Tick, vars
  <1>3. Limits(kind)' = Limits(kind)
    BY <1>2, SettingsFixed DEF Limits
  <1>4. Used(kind)' = Occupied(Contents(kind)')
    <2>1. (CInv => Used(kind) = Occupied(Contents(kind)))'
      BY UsedIsOccupied, PTL
    <2>2. Occupied(Contents(kind))' = Occupied(Contents(kind)')
      BY DEF Occupied, SizeOf
    <2> QED BY <1>1, <2>1, <2>2
  <1>5. Used(kind)'.entries <= Limits(kind).entries
    BY <1>1, <1>2, SettingsFixed DEF CInv, Sound, Used, Limits
  <1> DEFINE D == DOMAIN cache[kind].entries
             E == DOMAIN cache'[kind].entries
  <1>6. /\ DOMAIN Contents(kind)' = Keys /\ DOMAIN Contents(kind) = Keys
        /\ \A k \in Keys : Contents(kind)[k] = IF k \in D THEN cache[kind].entries[k].value ELSE None
        /\ \A k \in Keys : Contents(kind)'[k] = IF k \in E THEN cache'[kind].entries[k].value ELSE None
    BY DEF Contents
  <1>7. ASSUME latest' = latest, \A k \in E : k \in D /\ cache'[kind].entries[k] = cache[kind].entries[k]
        PROVE  Keeps(kind, Contents(kind)) /\ Current(kind)' = Current(kind)
    <2>1. Current(kind)' = Current(kind)
      BY <1>7 DEF Current
    <2>2. \A k \in Keys : Contents(kind)'[k] \in {Contents(kind)[k], None}
      BY <1>6, <1>7
    <2> QED BY <1>3, <1>4, <1>5, <1>6, <2>1, <2>2 DEF Keeps
  <1>8. ASSUME NEW o \in Kinds, NEW k \in Keys, NEW v \in DOMAIN Weight[k], Put(o, k, v)
        PROVE  \E w \in Values \cup {None} :
                 /\ Current(kind)' = [Current(kind) EXCEPT ![k] = w]
                 /\ Keeps(kind, [Contents(kind) EXCEPT ![k] = w])
    <2> DEFINE w == IF o = kind THEN v ELSE None
               given == [Contents(kind) EXCEPT ![k] = w]
    <2>1. /\ k \in E => kind = o /\ cache'[kind].entries[k].value = v
          /\ \A j \in E \ {k} : j \in D /\ cache'[kind].entries[j] = cache[kind].entries[j]
      BY <1>8, PutSound
    <2>2. v \in Values /\ v # None
      BY WeightType, NoneIsNil
    <2>3. \A j \in Keys : given[j] = IF j = k THEN w ELSE Contents(kind)[j]
      BY <1>6
    <2>4. \A j \in Keys : Contents(kind)'[j] \in {given[j], None}
      BY <1>6, <2>1, <2>3
    <2>5. Keeps(kind, given)
      BY <1>3, <1>4, <1>5, <1>6, <2>4 DEF Keeps
    <2>6. Current(kind)' = [Current(kind) EXCEPT ![k] = w]
      <3>1. latest' = [latest EXCEPT ![k] = [kind |-> o, value |-> v]] /\ DOMAIN latest = Keys
        BY <1>8 DEF Put, CInv
      <3>2. latest'[k] = [kind |-> o, value |-> v] /\ \A j \in Keys : j # k => latest'[j] = latest[j]
        BY <3>1
      <3>3. latest'[k] # None
        BY <2>2, <3>2, NoneIsNil
      <3>4. (IF latest'[k] # None /\ latest'[k].kind = kind THEN latest'[k].value ELSE None) = w
        BY <3>2, <3>3
      <3> QED BY <3>2, <3>4 DEF Current
    <2> QED BY <2>2, <2>5, <2>6
  <1>9. ASSUME NEW o \in Kinds, NEW k, IF Hit(o, k) THEN Touch(o, k) ELSE Untouched(o), latest' = latest
        PROVE  Keeps(kind, Contents(kind)) /\ Current(kind)' = Current(kind)
    <2>1. Part(cache'[kind], cache[kind])
      BY <1>9, GetParts
    <2> QED BY <1>7, <1>9, <2>1 DEF Part
  <1>10. ASSUME NEW q \in Readers, NEW k \in Keys, GetSuccess(q, k)
         PROVE  Keeps(kind, Contents(kind)) /\ Current(kind)' = Current(kind)
    <2>1. /\ IF Hit("success", k) THEN Touch("success", k) ELSE Untouched("success")
          /\ latest' = latest /\ "success" \in Kinds
      BY <1>10 DEF GetSuccess, Kinds
    <2> QED BY <1>9, <2>1
  <1>11. ASSUME NEW q \in Readers, GetSyntax(q)
         PROVE  Keeps(kind, Contents(kind)) /\ Current(kind)' = Current(kind)
    <2>1. /\ IF Hit("syntax", reader[q]) THEN Touch("syntax", reader[q]) ELSE Untouched("syntax")
          /\ latest' = latest /\ "syntax" \in Kinds
      BY <1>11 DEF GetSyntax, Kinds
    <2> QED BY <1>9, <2>1
  <1>12. CASE Tick \/ UNCHANGED vars
    BY <1>7, <1>12 DEF Tick, vars
  <1> QED BY <1>8, <1>10, <1>11, <1>12 DEF Next

\* A key joins a cache by a put of its kind, which leaves the cache within its byte
\* limit; and whatever is held fits alone.
LEMMA StepsAdd ==
  ASSUME CInv, [Next]_vars, NEW kind \in Kinds
  PROVE  Adds(kind)
  <1> DEFINE D == DOMAIN cache[kind].entries
             E == DOMAIN cache'[kind].entries
  <1>1. CInv'
    BY CInvNext
  <1>2. Limits(kind)' = Limits(kind)
    <2>1. config' = config
      BY DEF Next, GetSuccess, GetSyntax, Put, Tick, vars
    <2> QED BY <2>1, SettingsFixed DEF Limits
  <1>3. /\ \A k \in Keys : Contents(kind)[k] = IF k \in D THEN cache[kind].entries[k].value ELSE None
        /\ \A k \in Keys : Contents(kind)'[k] = IF k \in E THEN cache'[kind].entries[k].value ELSE None
        /\ Used(kind)'.bytes = cache'[kind].bytes
        /\ Limits(kind).bytes = MaxBytes(kind) /\ Limits(kind)'.bytes = MaxBytes(kind)'
    BY DEF Contents, Used, Limits
  <1>4. ASSUME NEW k \in Keys, Contents(kind)'[k] # None
        PROVE  SizeOf(k, Contents(kind)'[k]) <= Limits(kind).bytes
    <2>1. Sound(cache[kind], kind)'
      BY <1>1 DEF CInv
    <2>2. k \in E /\ Contents(kind)'[k] = cache'[kind].entries[k].value
      BY <1>3, <1>4
    <2>3. /\ cache'[kind].entries[k].weight = Weight[k][cache'[kind].entries[k].value]
          /\ cache'[kind].entries[k].weight <= MaxBytes(kind)'
      BY <2>1, <2>2 DEF Sound
    <2> QED BY <1>2, <1>3, <2>2, <2>3 DEF SizeOf
  <1>5. E \subseteq D \/ cache'[kind].bytes <= MaxBytes(kind)
    <2>1. ASSUME NEW o \in Kinds, NEW k, IF Hit(o, k) THEN Touch(o, k) ELSE Untouched(o)
          PROVE  E \subseteq D
      BY <2>1, GetParts DEF Part
    <2>2. ASSUME NEW q \in Readers, NEW k \in Keys, GetSuccess(q, k) PROVE E \subseteq D
      <3>1. "success" \in Kinds /\ IF Hit("success", k) THEN Touch("success", k) ELSE Untouched("success")
        BY <2>2 DEF GetSuccess, Kinds
      <3> QED BY <2>1, <3>1
    <2>3. ASSUME NEW q \in Readers, GetSyntax(q) PROVE E \subseteq D
      <3>1. /\ "syntax" \in Kinds
            /\ IF Hit("syntax", reader[q]) THEN Touch("syntax", reader[q]) ELSE Untouched("syntax")
        BY <2>3 DEF GetSyntax, Kinds
      <3> QED BY <2>1, <3>1
    <2>4. ASSUME NEW o \in Kinds, NEW k \in Keys, NEW v \in DOMAIN Weight[k], Put(o, k, v)
          PROVE  E \subseteq D \/ cache'[kind].bytes <= MaxBytes(kind)
      BY <2>4, PutSound
    <2>5. CASE Tick \/ UNCHANGED vars
      BY <2>5 DEF Tick, vars
    <2> QED BY <2>2, <2>3, <2>4, <2>5 DEF Next
  <1>6. ASSUME NEW k \in Keys, Contents(kind)[k] = None, Contents(kind)'[k] # None
        PROVE  k \in E /\ k \notin D
    <2>1. k \in E
      BY <1>3, <1>6
    <2>2. ASSUME k \in D PROVE FALSE
      <3>1. cache[kind].entries[k].value \in Values
        BY <2>2, WeightType DEF CInv, Sound
      <3> QED BY <1>3, <1>6, <2>2, <3>1, NoneIsNil
    <2> QED BY <2>1, <2>2
  <1> QED BY <1>3, <1>4, <1>5, <1>6 DEF Adds

\* BoundedCache sums as the caches do.
LEMMA SameAccounts ==
  /\ \A f : Diagrams!Occupancy(f) = Occupied(f)
  /\ \A f : SyntaxErrors!Occupancy(f) = Occupied(f)
  <1>1. \A w, ks : Diagrams!Total(w, ks) = Total(w, ks)
    BY DEF Diagrams!Total, Diagrams!MapThenSumSet, Diagrams!MapThenFoldSet,
           Total, MapThenSumSet, MapThenFoldSet
  <1>2. \A w, ks : SyntaxErrors!Total(w, ks) = Total(w, ks)
    BY DEF SyntaxErrors!Total, SyntaxErrors!MapThenSumSet, SyntaxErrors!MapThenFoldSet,
           Total, MapThenSumSet, MapThenFoldSet
  <1>3. \A S : Diagrams!Cardinality(S) = Cardinality(S) /\ SyntaxErrors!Cardinality(S) = Cardinality(S)
    BY DEF Diagrams!Cardinality, SyntaxErrors!Cardinality, Cardinality
  <1>4. \A f : Diagrams!Occupancy(f) = Occupied(f)
    BY <1>1, <1>3 DEF Diagrams!Occupancy, Occupied
  <1>5. \A f : SyntaxErrors!Occupancy(f) = Occupied(f)
    BY <1>2, <1>3 DEF SyntaxErrors!Occupancy, Occupied
  <1> QED BY <1>4, <1>5

\* The empty caches are empty bounded caches.
LEMMA StartsBounded ==
  ASSUME Init, NEW kind \in Kinds
  PROVE  /\ Contents(kind) = [k \in Keys |-> None]
         /\ Used(kind) = Occupied(Contents(kind))
         /\ Current(kind) \in [Keys -> Values \cup {None}]
  <1>1. CInv
    BY CInvInit
  <1>2. cache[kind].entries = <<>> /\ latest = [k \in Keys |-> None]
    BY DEF Init, EmptyCache
  <1>3. Contents(kind) = [k \in Keys |-> None]
    BY <1>2 DEF Contents
  <1>4. Current(kind) \in [Keys -> Values \cup {None}]
    BY <1>2 DEF Current
  <1> QED BY <1>1, <1>3, <1>4, UsedIsOccupied

\* The cache of diagrams and the cache of syntax errors implement BoundedCache with
\* the byte limit enforced by adding: whatever is put, replaced, looked up and found
\* expired, each stays within its entry limit, accounts for what it holds, holds
\* nothing but the last value put under a key, and is within its byte limit whenever a
\* key joins it (cache.go, putSuccess, putSyntax, SetWeighted).  The sizes of the
\* results of a key are any.
THEOREM CachesImplementBounded == Spec => CachesBounded
  <1>1. Init => Diagrams!Init /\ SyntaxErrors!Init
    BY StartsBounded, SameAccounts DEF Diagrams!Init, SyntaxErrors!Init, Kinds
  <1>2. CInv /\ [Next]_vars => Diagrams!NextByAdding
    <2> SUFFICES ASSUME CInv, [Next]_vars PROVE Diagrams!NextByAdding
      OBVIOUS
    <2> DEFINE kind == "success"
    <2>1. \/ \E k \in Keys, v \in Values \cup {None} :
               /\ Current(kind)' = [Current(kind) EXCEPT ![k] = v]
               /\ Keeps(kind, [Contents(kind) EXCEPT ![k] = v])
          \/ Keeps(kind, Contents(kind)) /\ Current(kind)' = Current(kind)
      BY StepsBounded DEF Kinds
    <2>2. \A given : Keeps(kind, given) => Diagrams!KeepsOnly(given)
      BY SameAccounts DEF Keeps, Diagrams!KeepsOnly
    <2>3. Diagrams!Change
      BY <2>1, <2>2 DEF Diagrams!Change, Diagrams!Renew, Diagrams!Forget
    <2>4. Adds(kind)
      BY StepsAdd DEF Kinds
    <2>5. Diagrams!AddsWithinBytes
      BY <2>4 DEF Adds, Diagrams!AddsWithinBytes
    <2> QED BY <2>3, <2>5 DEF Diagrams!NextByAdding
  <1>3. CInv /\ [Next]_vars => SyntaxErrors!NextByAdding
    <2> SUFFICES ASSUME CInv, [Next]_vars PROVE SyntaxErrors!NextByAdding
      OBVIOUS
    <2> DEFINE kind == "syntax"
    <2>1. \/ \E k \in Keys, v \in Values \cup {None} :
               /\ Current(kind)' = [Current(kind) EXCEPT ![k] = v]
               /\ Keeps(kind, [Contents(kind) EXCEPT ![k] = v])
          \/ Keeps(kind, Contents(kind)) /\ Current(kind)' = Current(kind)
      BY StepsBounded DEF Kinds
    <2>2. \A given : Keeps(kind, given) => SyntaxErrors!KeepsOnly(given)
      BY SameAccounts DEF Keeps, SyntaxErrors!KeepsOnly
    <2>3. SyntaxErrors!Change
      BY <2>1, <2>2 DEF SyntaxErrors!Change, SyntaxErrors!Renew, SyntaxErrors!Forget
    <2>4. Adds(kind)
      BY StepsAdd DEF Kinds
    <2>5. SyntaxErrors!AddsWithinBytes
      BY <2>4 DEF Adds, SyntaxErrors!AddsWithinBytes
    <2> QED BY <2>3, <2>5 DEF SyntaxErrors!NextByAdding
  <1> QED BY <1>1, <1>2, <1>3, CInvInit, CInvNext, PTL
        DEF Spec, CachesBounded, Diagrams!SpecByAdding, SyntaxErrors!SpecByAdding

-----------------------------------------------------------------------------
(* Evictions.                                                                *)

\* evictExpiredLocked takes the entries that are due, and no others, out of the list.
LEMMA EvictDue ==
  ASSUME NEW c, Agrees(c)
  PROVE  LET d == EvictExpired(c) IN
         /\ \E gone : d.order = Without(c.order, gone)
         /\ \A k \in DOMAIN c.entries : c.entries[k].expiresAt \in Nat
         /\ \A k \in DOMAIN c.entries : k \in DOMAIN d.entries <=> ~(c.entries[k].expiresAt <= now)
  <1> DEFINE due == {r \in c.expiry : r.expiresAt <= now}
             dead == {k \in DOMAIN c.entries : Record(k, c.entries[k]) \in due}
             b == RemoveEntries(c, dead)
             d == EvictExpired(c)
  <1>1. /\ Agrees(b) /\ DOMAIN b.entries = DOMAIN c.entries \ dead
        /\ b.order = Without(c.order, dead)
    BY RemoveAgrees
  <1>2. d = [b EXCEPT !.expiry = @ \ due]
    BY DEF EvictExpired
  <1>3. \A k \in DOMAIN c.entries : k \in dead <=> c.entries[k].expiresAt <= now
    BY DEF Agrees, Record
  <1> HIDE DEF b, d, due, dead
  <1>4. d.order = b.order /\ d.entries = b.entries
    BY <1>1, <1>2 DEF Agrees
  <1>5. \A k \in DOMAIN c.entries : c.entries[k].expiresAt \in Nat
    BY DEF Agrees, Entries
  <1> QED BY <1>1, <1>3, <1>4, <1>5 DEF d

\* Of two keys of a list without repetition, the one that stands before has the
\* smaller position.
LEMMA BeforeIsPosition ==
  ASSUME NEW list, IsInjective(list), NEW x, NEW y, Before(list, x, y)
  PROVE  Position(list, x) < Position(list, y)
  <1>1. PICK i, j \in DOMAIN list : i < j /\ list[i] = x /\ list[j] = y
    BY DEF Before
  <1>2. Position(list, x) = i /\ Position(list, y) = j
    BY <1>1 DEF Position, IsInjective
  <1> QED BY <1>1, <1>2

\* SetWeighted with a new key, after the expired entries are gone.
LEMMA NewKeyEvicts ==
  ASSUME config \in Configs, now \in Nat, NEW kind \in Kinds, NEW c, Sound(c, kind),
         NEW k \in Keys, NEW v \in DOMAIN Weight[k], Enabled(kind),
         ~(Weight[k][v] > MaxBytes(kind)), k \notin DOMAIN EvictExpired(c).entries
  PROVE  LET d == SetWeighted(c, kind, k, v)
             live == {j \in DOMAIN c.entries : c.entries[j].expiresAt > now}
             out == live \ DOMAIN d.entries
         IN  /\ k \in DOMAIN d.entries /\ k \notin live
             /\ DOMAIN d.entries \subseteq live \cup {k}
             /\ \A x \in DOMAIN d.entries \ {k}, y \in out :
                  Position(c.order, x) < Position(c.order, y)
             /\ out # {} => \E y \in out : \/ Len(d.order) + 1 > MaxSize(kind)
                                           \/ d.bytes + c.entries[y].weight > MaxBytes(kind)
  <1> DEFINE b == EvictExpired(c)
             a == Store(b, kind, k, v, 1)
             d == SetWeighted(c, kind, k, v)
             live == {j \in DOMAIN c.entries : c.entries[j].expiresAt > now}
             out == live \ DOMAIN d.entries
  <1>1. /\ MaxSize(kind) \in Nat /\ MaxBytes(kind) \in Nat /\ TTL(kind) \in Nat
        /\ MaxSize(kind) > 0 /\ Weight[k][v] \in Nat
    BY SettingsEffective, WeightType DEF Enabled
  <1>2. /\ Agrees(c) /\ Agrees(b) /\ DOMAIN b.entries \subseteq DOMAIN c.entries
        /\ \A j \in DOMAIN b.entries : b.entries[j] = c.entries[j]
    BY EvictAgrees DEF Sound
  <1>3. PICK gone : b.order = Without(c.order, gone)
    BY <1>2, EvictDue
  <1>4. live = DOMAIN b.entries
    <2>1. \A j \in DOMAIN c.entries : j \in DOMAIN b.entries <=> c.entries[j].expiresAt > now
      BY <1>2, EvictDue
    <2> HIDE DEF b
    <2> QED BY <1>2, <2>1
  <1>5. /\ Agrees(a) /\ DOMAIN a.entries = DOMAIN b.entries \cup {k}
        /\ a.entries[k].weight = Weight[k][v]
        /\ \A j \in DOMAIN b.entries \ {k} : a.entries[j] = b.entries[j]
        /\ a.order = <<k>> \o Without(b.order, {k})
    <2>1. 1 \in Nat /\ now + TTL(kind) \in Nat
      BY <1>1
    <2>2. a.order = <<k>> \o Without(b.order, {k})
      BY DEF Store, MoveToFront
    <2> HIDE DEF b
    <2>3. /\ Agrees(a) /\ DOMAIN a.entries = DOMAIN b.entries \cup {k}
          /\ a.entries[k].weight = Weight[k][v]
          /\ \A j \in DOMAIN b.entries \ {k} : a.entries[j] = b.entries[j]
      BY <1>2, <2>1, StoreAgrees
    <2> QED BY <2>2, <2>3
  <1>6. d = Shrink(a, kind)
    BY DEF SetWeighted
  <1> HIDE DEF a, b, d, live, out
  <1>7. PICK n \in 0 .. Len(a.order) :
          /\ DOMAIN d.entries = Stretch(a.order, 1, n)
          /\ Len(d.order) = n
          /\ n < Len(a.order) => \/ n + 1 > MaxSize(kind)
                                 \/ d.bytes + a.entries[a.order[n + 1]].weight > MaxBytes(kind)
    BY <1>1, <1>5, <1>6, ShrinkAgrees
  <1>8. Agrees(d)
    BY <1>1, <1>5, <1>6, ShrinkAgrees
  <1>9. /\ a.order \in Seq(Keys) /\ IsInjective(a.order) /\ ToSet(a.order) = DOMAIN a.entries
        /\ Len(a.order) \in Nat /\ DOMAIN a.order = 1 .. Len(a.order)
    BY <1>5, LenProperties DEF Agrees
  <1>10. Without(b.order, {k}) \in Seq(Keys) /\ b.order \in Seq(Keys) /\ c.order \in Seq(Keys)
         /\ IsInjective(c.order)
    BY <1>2, WithoutElements DEF Agrees
  <1>11. a.order[1] = k /\ Len(a.order) >= 1
    <2> DEFINE rest == Without(b.order, {k})
    <2>1. Len(rest) \in Nat
      BY <1>10, LenProperties
    <2>2. a.order = <<k>> \o rest /\ rest \in Seq(Keys)
      BY <1>5, <1>10
    <2> HIDE DEF rest
    <2> QED BY <2>1, <2>2
  <1>12. n >= 1
    <2> SUFFICES ASSUME n = 0 PROVE FALSE
      OBVIOUS
    <2>1. Stretch(a.order, 1, 0) = {}
      BY DEF Stretch
    <2>2. DOMAIN d.entries = {}
      BY <1>7, <2>1
    <2>3. Total(WeightsOf(d.entries), {}) = 0
      BY TotalEmpty
    <2>4. d.bytes = 0
      BY <1>8, <2>2, <2>3 DEF Agrees
    <2> QED BY <1>1, <1>5, <1>7, <1>11, <2>4
  <1>13. /\ ToSet(a.order) \ Stretch(a.order, 1, n) = Stretch(a.order, n + 1, Len(a.order))
         /\ ToSet(a.order) \ Stretch(a.order, n + 1, Len(a.order)) = Stretch(a.order, 1, n)
    BY <1>9, CutInTwo
  <1>14. k \in DOMAIN d.entries /\ k \notin live
    BY <1>4, <1>7, <1>11, <1>12 DEF Stretch, b
  <1>15. DOMAIN d.entries \subseteq live \cup {k} /\ out = Stretch(a.order, n + 1, Len(a.order))
    BY <1>4, <1>5, <1>7, <1>9, <1>13, <1>14 DEF out
  <1>16. ASSUME NEW x \in DOMAIN d.entries \ {k}, NEW y \in out
         PROVE  Position(c.order, x) < Position(c.order, y)
    <2>1. PICK i \in 1 .. n : a.order[i] = x
      BY <1>7 DEF Stretch
    <2>2. PICK j \in n + 1 .. Len(a.order) : a.order[j] = y
      BY <1>15 DEF Stretch
    <2>3. i \in DOMAIN a.order /\ j \in DOMAIN a.order /\ i < j
      BY <1>9
    <2>4. Before(a.order, x, y)
      BY <2>1, <2>2, <2>3 DEF Before
    <2>5. Before(Without(b.order, {k}), x, y)
      BY <1>5, <1>10, <2>4, FrontOrder
    <2>6. Before(b.order, x, y)
      BY <1>10, <2>5, WithoutOrder
    <2>7. Before(c.order, x, y)
      BY <1>3, <1>10, <2>6, WithoutOrder
    <2> QED BY <1>10, <2>7, BeforeIsPosition
  <1>17. ASSUME out # {}
         PROVE  \E y \in out : \/ Len(d.order) + 1 > MaxSize(kind)
                                \/ d.bytes + c.entries[y].weight > MaxBytes(kind)
    <2> DEFINE y == a.order[n + 1]
    <2>1. n < Len(a.order) /\ n + 1 \in n + 1 .. Len(a.order)
      BY <1>9, <1>15, <1>17 DEF Stretch
    <2>2. y \in out
      BY <1>15, <2>1 DEF Stretch
    <2>3. a.entries[y] = c.entries[y]
      BY <1>2, <1>4, <1>5, <1>14, <2>2 DEF out
    <2> QED BY <1>7, <2>1, <2>2, <2>3
  <1> QED BY <1>14, <1>15, <1>16, <1>17 DEF d, live, out

\* An entry that is not due leaves a cache by a put under its own key or by an
\* eviction that the limits force, and then whatever stays was used more
\* recently (cache.go, the loop of SetWeighted; evictExpiredLocked).
THEOREM EvictionsJustified == Spec => EvictionJustified
  <1> DEFINE Lost(kind) == {k \in Dropped(kind) : /\ cache[kind].entries[k].expiresAt > now
                                                  /\ latest'[k] = latest[k]}
             Stays(kind) == {k \in DOMAIN cache[kind].entries \cap DOMAIN cache'[kind].entries :
                               cache[kind].entries[k] = cache'[kind].entries[k]}
             Justified(kind) ==
               Lost(kind) # {} =>
                 /\ \A j \in Lost(kind), k \in Stays(kind) :
                      Position(cache[kind].order, k) < Position(cache[kind].order, j)
                 /\ \E j \in Lost(kind) :
                      \/ Len(cache'[kind].order) + 1 > MaxSize(kind)
                      \/ cache'[kind].bytes + cache[kind].entries[j].weight > MaxBytes(kind)
  <1>1. ASSUME CInv, Next, NEW kind \in Kinds
        PROVE  Justified(kind)
    <2> DEFINE c == cache[kind]
               d == cache'[kind]
               b == EvictExpired(c)
    <2>1. /\ config \in Configs /\ now \in Nat /\ Sound(c, kind) /\ Agrees(c)
          /\ cache = [o \in Kinds |-> cache[o]] /\ HoldsLatest(kind)
      BY <1>1 DEF CInv, Sound
    <2>2. \A k \in DOMAIN c.entries : /\ c.entries[k].expiresAt \in Nat
                                       /\ k \in DOMAIN b.entries <=> c.entries[k].expiresAt > now
      BY <2>1, EvictDue
    <2>3. ASSUME DOMAIN b.entries \subseteq DOMAIN d.entries PROVE Justified(kind)
      <3>1. \A k \in Dropped(kind) : ~(c.entries[k].expiresAt > now)
        BY <2>2, <2>3 DEF Dropped
      <3>2. Lost(kind) = {}
        BY <3>1
      <3> QED BY <3>2
    <2>4. ASSUME NEW o \in Kinds, NEW k, IF Hit(o, k) THEN Touch(o, k) ELSE Untouched(o)
          PROVE  Justified(kind)
      <3>1. Agrees(b) /\ DOMAIN b.entries \subseteq DOMAIN c.entries
        BY <2>1, EvictAgrees
      <3>2. CASE o # kind
        <4>1. d = c
          BY <2>1, <2>4, <3>2 DEF Touch, Untouched
        <4> QED BY <2>3, <3>1, <4>1
      <3>3. CASE o = kind /\ Hit(kind, k)
        <4> DEFINE f == [b EXCEPT !.order = MoveToFront(@, k)]
        <4>1. d = f /\ k \in DOMAIN b.entries
          BY <2>1, <2>4, <3>3 DEF Touch, Hit
        <4> HIDE DEF b, d
        <4>2. f.entries = b.entries
          BY <3>1, <4>1, FrontAgrees
        <4> QED BY <2>3, <4>1, <4>2
      <3>4. CASE o = kind /\ ~Hit(kind, k)
        <4>1. d = b \/ d = c
          BY <2>1, <2>4, <3>4 DEF Untouched
        <4> QED BY <2>3, <3>1, <4>1
      <3> QED BY <3>2, <3>3, <3>4
    <2>5. ASSUME NEW o \in Kinds, NEW k \in Keys, NEW v \in DOMAIN Weight[k], Put(o, k, v), o # kind
          PROVE  Justified(kind)
      <3>1. DOMAIN d.entries = DOMAIN c.entries \ {k}
        BY <1>1, <2>5, PutSound
      <3>2. ASSUME k \in DOMAIN c.entries PROVE latest'[k] # latest[k]
        <4>1. latest[k].kind = kind
          <5>1. latest[k] = [kind |-> kind, value |-> c.entries[k].value]
            BY <2>1, <3>2 DEF HoldsLatest
          <5> QED BY <5>1
        <4>2. latest'[k].kind = o
          BY <1>1, <2>5 DEF Put, CInv
        <4> QED BY <2>5, <4>1, <4>2
      <3>3. Lost(kind) = {}
        BY <3>1, <3>2 DEF Dropped
      <3> QED BY <3>3
    <2>6. ASSUME NEW k \in Keys, NEW v \in DOMAIN Weight[k], Put(kind, k, v)
          PROVE  Justified(kind)
      <3>1. d = SetWeighted(c, kind, k, v)
        BY <1>1, <2>6, PutSound
      <3>2. /\ latest'[k] = [kind |-> kind, value |-> v]
            /\ \A j \in Keys : j # k => latest'[j] = latest[j]
        BY <1>1, <2>6 DEF Put, CInv
      <3>3. /\ Agrees(b) /\ DOMAIN b.entries \subseteq DOMAIN c.entries
            /\ \A j \in DOMAIN b.entries : b.entries[j] = c.entries[j]
        BY <2>1, EvictAgrees
      <3>4. CASE ~Enabled(kind)
        <4>1. d = c
          BY <3>1, <3>4 DEF SetWeighted
        <4> QED BY <2>3, <3>3, <4>1
      <3>5. CASE Enabled(kind) /\ Weight[k][v] > MaxBytes(kind)
        <4> DEFINE ks == {k} \cap DOMAIN b.entries
        <4>1. d = RemoveEntries(b, ks)
          BY <3>1, <3>5 DEF SetWeighted
        <4> HIDE DEF b, d, ks
        <4>2. DOMAIN d.entries = DOMAIN b.entries \ ks
          BY <3>3, <4>1, RemoveAgrees
        <4>3. ASSUME k \in DOMAIN c.entries PROVE latest'[k] # latest[k]
          <5> DEFINE u == c.entries[k].value
          <5>1. latest[k].value = u
            <6>1. latest[k] = [kind |-> kind, value |-> u]
              BY <2>1, <4>3 DEF HoldsLatest
            <6> QED BY <6>1
          <5>2. u \in DOMAIN Weight[k] /\ Weight[k][u] <= MaxBytes(kind)
            BY <2>1, <4>3 DEF Sound
          <5>3. Weight[k][u] \in Nat /\ Weight[k][v] \in Nat /\ MaxBytes(kind) \in Nat
            BY <2>1, <5>2, WeightType, SettingsEffective
          <5>4. u # v
            BY <3>5, <5>2, <5>3
          <5> QED BY <3>2, <5>1, <5>4
        <4>4. \A j \in Dropped(kind) : j = k \/ ~(c.entries[j].expiresAt > now)
          BY <2>2, <4>2 DEF Dropped, ks, d
        <4>5. Lost(kind) = {}
          BY <4>3, <4>4 DEF Dropped
        <4> QED BY <4>5
      <3>6. CASE Enabled(kind) /\ ~(Weight[k][v] > MaxBytes(kind)) /\ k \in DOMAIN b.entries
        <4> DEFINE g == b.entries[k].generation + 1
        <4>1. d = Store(b, kind, k, v, g)
          BY <3>1, <3>6 DEF SetWeighted
        <4>2. d.entries = [j \in DOMAIN b.entries \cup {k} |->
                             IF j = k THEN [value |-> v, weight |-> Weight[k][v],
                                            expiresAt |-> now + TTL(kind), generation |-> g]
                             ELSE b.entries[j]]
          BY <4>1 DEF Store
        <4> HIDE DEF b, d, g
        <4>3. DOMAIN d.entries = DOMAIN b.entries \cup {k}
          BY <4>2
        <4> QED BY <2>3, <4>3
      <3>7. CASE Enabled(kind) /\ ~(Weight[k][v] > MaxBytes(kind)) /\ k \notin DOMAIN b.entries
        <4> DEFINE live == {j \in DOMAIN c.entries : c.entries[j].expiresAt > now}
                   out == live \ DOMAIN d.entries
        <4>1. /\ k \in DOMAIN d.entries /\ k \notin live
              /\ DOMAIN d.entries \subseteq live \cup {k}
              /\ \A x \in DOMAIN d.entries \ {k}, y \in out :
                   Position(c.order, x) < Position(c.order, y)
              /\ out # {} => \E y \in out : \/ Len(d.order) + 1 > MaxSize(kind)
                                            \/ d.bytes + c.entries[y].weight > MaxBytes(kind)
          BY <2>1, <3>1, <3>7, NewKeyEvicts
        <4>2. Lost(kind) = out
          <5>1. DOMAIN c.entries \subseteq Keys
            BY <2>1, AgreesSums
          <5> QED BY <3>2, <4>1, <5>1 DEF Dropped
        <4>3. k \notin Stays(kind)
          <5>1. ASSUME k \in DOMAIN c.entries, d.entries[k] = c.entries[k] PROVE FALSE
            <6>1. c.entries[k].expiresAt \in Nat /\ ~(c.entries[k].expiresAt > now)
              <7>1. k \notin live
                BY <4>1
              <7>2. ~(c.entries[k].expiresAt > now)
                BY <5>1, <7>1, Zenon
              <7>3. c.entries[k].expiresAt \in Nat
                BY <2>1, <5>1 DEF Agrees, Entries
              <7> QED BY <7>2, <7>3
            <6>2. d.entries[k].expiresAt = now + TTL(kind)
              <7> DEFINE a == Store(b, kind, k, v, 1)
              <7>1. d = Shrink(a, kind)
                BY <3>1, <3>7 DEF SetWeighted
              <7>2. MaxSize(kind) \in Nat /\ MaxBytes(kind) \in Nat /\ now + TTL(kind) \in Nat
                BY <2>1, SettingsEffective
              <7>3. a.entries = [j \in DOMAIN b.entries \cup {k} |->
                                   IF j = k THEN [value |-> v, weight |-> Weight[k][v],
                                                  expiresAt |-> now + TTL(kind), generation |-> 1]
                                   ELSE b.entries[j]]
                BY DEF Store
              <7> HIDE DEF b
              <7>4. Agrees(a)
                BY <3>3, <7>2, StoreAgrees
              <7> HIDE DEF a, d
              <7>5. \A j \in DOMAIN d.entries : d.entries[j] = a.entries[j]
                BY <7>1, <7>2, <7>4, ShrinkAgrees
              <7>6. a.entries[k].expiresAt = now + TTL(kind)
                BY <7>3
              <7>7. k \in DOMAIN d.entries
                BY <4>1
              <7> QED BY <7>5, <7>6, <7>7
            <6>3. TTL(kind) \in Nat /\ TTL(kind) > 0
              BY <2>1, <3>7, SettingsEffective DEF Enabled
            <6> QED BY <2>1, <5>1, <6>1, <6>2, <6>3
          <5> QED BY <5>1
        <4> QED BY <4>1, <4>2, <4>3
      <3> QED BY <3>4, <3>5, <3>6, <3>7
    <2>7. CASE Tick
      <3>1. d = c /\ DOMAIN b.entries \subseteq DOMAIN c.entries
        BY <2>1, <2>7, EvictAgrees DEF Tick
      <3> QED BY <2>3, <3>1
    <2>8. ASSUME NEW q \in Readers, NEW k \in Keys, GetSuccess(q, k) PROVE Justified(kind)
      BY <2>4, <2>8 DEF GetSuccess, Kinds
    <2>9. ASSUME NEW q \in Readers, GetSyntax(q) PROVE Justified(kind)
      BY <2>4, <2>9 DEF GetSyntax, Kinds
    <2> HIDE DEF Justified
    <2> QED BY <1>1, <2>5, <2>6, <2>7, <2>8, <2>9 DEF Next
  <1>2. CInv /\ [Next]_vars => [\A kind \in Kinds : Justified(kind)]_vars
    BY <1>1
  <1> QED BY <1>2, CInvInit, CInvNext, PTL DEF Spec, EvictionJustified

=============================================================================
