-------------------------- MODULE AnalysisCacheProofs --------------------------
(***************************************************************************)
(* The analysis cache, for any documents, sizes, settings and order of      *)
(* requests: its list, its map and its byte count agree and stay within the *)
(* limits (CacheConsistent), and what is observed of evictions happened.    *)
(*                                                                          *)
(* That is inductive once the list has no repetition (Agrees) and a request *)
(* that will store an analysis does so under a known key (JobsKnown).       *)
(***************************************************************************)
EXTENDS AnalysisCache, CacheListsProofs

\* The three representations agree.  The list has no repetition.
Agrees(c) ==
  /\ c.order \in Seq(Keys) /\ IsInjective(c.order)
  /\ ToSet(c.order) = DOMAIN c.expiresAt
  /\ \A k \in DOMAIN c.expiresAt : c.expiresAt[k] \in Nat
  /\ c.bytes = Total(Size, DOMAIN c.expiresAt)

\* What agreement says of the keys and of the sums over them.
LEMMA AgreesSums ==
  ASSUME NEW c, Agrees(c)
  PROVE  /\ DOMAIN c.expiresAt \subseteq Keys /\ IsFiniteSet(DOMAIN c.expiresAt)
         /\ \A k \in DOMAIN c.expiresAt : Size[k] \in Nat
         /\ Len(c.order) \in Nat /\ Len(c.order) = Cardinality(DOMAIN c.expiresAt)
         /\ c.bytes \in Nat
  <1>1. /\ IsFiniteSet(ToSet(c.order)) /\ ToSet(c.order) \subseteq Keys
        /\ Len(c.order) \in Nat /\ Cardinality(ToSet(c.order)) = Len(c.order)
    BY ListLength DEF Agrees
  <1>2. \A k \in DOMAIN c.expiresAt : Size[k] \in Nat
    BY <1>1, SizeType DEF Agrees
  <1>3. c.bytes \in Nat
    BY <1>1, <1>2, TotalNat DEF Agrees
  <1> QED BY <1>1, <1>2, <1>3 DEF Agrees

\* removeLocked keeps the list, the map and the byte count in agreement.
LEMMA RemoveAgrees ==
  ASSUME NEW c, Agrees(c), NEW ks
  PROVE  LET d == RemoveEntries(c, ks) IN
         /\ Agrees(d) /\ DOMAIN d.expiresAt = DOMAIN c.expiresAt \ ks
         /\ Len(d.order) <= Len(c.order) /\ d.bytes <= c.bytes
  <1> DEFINE d == RemoveEntries(c, ks)
  <1>1. /\ DOMAIN c.expiresAt \subseteq Keys /\ IsFiniteSet(DOMAIN c.expiresAt)
        /\ \A k \in DOMAIN c.expiresAt : Size[k] \in Nat
        /\ Len(c.order) \in Nat /\ Len(c.order) = Cardinality(DOMAIN c.expiresAt)
        /\ c.bytes \in Nat
    BY AgreesSums
  <1>2. /\ d.expiresAt = [k \in DOMAIN c.expiresAt \ ks |-> c.expiresAt[k]]
        /\ d.order = Without(c.order, ks)
        /\ d.bytes = c.bytes - Total(Size, ks \cap DOMAIN c.expiresAt)
        /\ DOMAIN d.expiresAt = DOMAIN c.expiresAt \ ks
    BY DEF RemoveEntries
  <1> HIDE DEF d
  <1>3. d.order \in Seq(Keys) /\ IsInjective(d.order) /\ ToSet(d.order) = ToSet(c.order) \ ks
    BY <1>2, WithoutElements DEF Agrees
  <1>4. /\ Total(Size, DOMAIN c.expiresAt \ ks) = c.bytes - Total(Size, ks \cap DOMAIN c.expiresAt)
        /\ Total(Size, DOMAIN c.expiresAt \ ks) <= c.bytes
    <2>1. /\ Total(Size, DOMAIN c.expiresAt \ ks) =
               Total(Size, DOMAIN c.expiresAt) - Total(Size, ks \cap DOMAIN c.expiresAt)
          /\ Total(Size, DOMAIN c.expiresAt \ ks) <= Total(Size, DOMAIN c.expiresAt)
      BY <1>1, TotalDifference
    <2> QED BY <2>1 DEF Agrees
  <1>5. Agrees(d)
    BY <1>2, <1>3, <1>4 DEF Agrees
  <1>6. Len(d.order) = Cardinality(DOMAIN c.expiresAt \ ks)
    BY <1>2, <1>5, AgreesSums
  <1>7. Cardinality(DOMAIN c.expiresAt \ ks) <= Cardinality(DOMAIN c.expiresAt)
    BY <1>1, FS_Subset
  <1> QED BY <1>1, <1>2, <1>4, <1>5, <1>6, <1>7 DEF d

\* The new entry of Set keeps the agreement.
LEMMA PushAgrees ==
  ASSUME NEW c, Agrees(c), NEW k \in Keys, k \notin DOMAIN c.expiresAt, now + TTL \in Nat
  PROVE  Agrees(Push(c, k))
  <1> DEFINE d == Push(c, k)
  <1>1. /\ d.expiresAt = [j \in DOMAIN c.expiresAt \cup {k} |->
                            IF j = k THEN now + TTL ELSE c.expiresAt[j]]
        /\ d.order = <<k>> \o c.order /\ d.bytes = c.bytes + Size[k]
        /\ DOMAIN d.expiresAt = DOMAIN c.expiresAt \cup {k}
    BY DEF Push
  <1> HIDE DEF d
  <1>2. /\ IsFiniteSet(DOMAIN c.expiresAt) /\ c.bytes \in Nat
        /\ \A j \in DOMAIN c.expiresAt : Size[j] \in Nat
    BY AgreesSums
  <1>3. /\ d.order \in Seq(Keys) /\ IsInjective(d.order)
        /\ ToSet(d.order) = DOMAIN d.expiresAt
    BY <1>1, JoinsFront DEF Agrees
  <1>4. \A j \in DOMAIN d.expiresAt : d.expiresAt[j] \in Nat
    BY <1>1 DEF Agrees
  <1>5. Size[k] \in Nat /\ IsFiniteSet({k}) /\ DOMAIN c.expiresAt \cap {k} = {}
    BY SizeType, FS_Singleton
  <1>6. Total(Size, DOMAIN c.expiresAt \cup {k}) = Total(Size, DOMAIN c.expiresAt) + Total(Size, {k})
    BY <1>2, <1>5, TotalUnion
  <1>7. Total(Size, {k}) = Size[k]
    BY <1>5, TotalOne
  <1> QED BY <1>1, <1>3, <1>4, <1>6, <1>7 DEF Agrees, d

\* A hit moves to the front.
LEMMA FrontAgrees ==
  ASSUME NEW c, Agrees(c), c = [expiresAt |-> c.expiresAt, order |-> c.order, bytes |-> c.bytes],
         NEW k \in DOMAIN c.expiresAt
  PROVE  LET d == [c EXCEPT !.order = <<k>> \o Without(@, {k})] IN
         Agrees(d) /\ Len(d.order) = Len(c.order) /\ d.bytes = c.bytes
  <1> DEFINE d == [c EXCEPT !.order = <<k>> \o Without(@, {k})]
             rest == Without(c.order, {k})
  <1>1. d.expiresAt = c.expiresAt /\ d.order = <<k>> \o rest /\ d.bytes = c.bytes
    OBVIOUS
  <1> HIDE DEF d
  <1>2. k \in Keys
    BY AgreesSums
  <1>3. rest \in Seq(Keys) /\ IsInjective(rest) /\ ToSet(rest) = ToSet(c.order) \ {k}
    BY WithoutElements DEF Agrees
  <1> HIDE DEF rest
  <1>4. /\ d.order \in Seq(Keys) /\ IsInjective(d.order)
        /\ ToSet(d.order) = ToSet(rest) \cup {k}
    BY <1>1, <1>2, <1>3, JoinsFront
  <1>5. Agrees(d)
    BY <1>1, <1>3, <1>4 DEF Agrees
  <1>6. Len(d.order) = Len(c.order)
    BY <1>1, <1>5, AgreesSums
  <1> QED BY <1>1, <1>5, <1>6 DEF d

\* What the eviction loop leaves is a part of a prefix of the list that fits.
LEMMA EvictedFits ==
  ASSUME NEW c, Agrees(c), MaxEntries \in Nat, MaxBytes \in Nat
  PROVE  LET d == RemoveEntries(c, Evicted(c)) IN
         Len(d.order) <= MaxEntries /\ d.bytes <= MaxBytes
  <1> DEFINE d == RemoveEntries(c, Evicted(c))
             fits(n) == n <= MaxEntries /\ Total(Size, ToSet(SubSeq(c.order, 1, n))) <= MaxBytes
             F == {i \in 1 .. Len(c.order) : fits(i)}
             rest == DOMAIN d.expiresAt
  <1>1. /\ Len(c.order) \in Nat /\ DOMAIN c.order = 1 .. Len(c.order)
        /\ IsFiniteSet(DOMAIN c.expiresAt) /\ \A k \in DOMAIN c.expiresAt : Size[k] \in Nat
    BY AgreesSums, LenProperties DEF Agrees
  <1>2. Agrees(d) /\ rest = DOMAIN c.expiresAt \ Evicted(c)
    BY RemoveAgrees
  <1>3. Len(d.order) = Cardinality(rest) /\ d.bytes = Total(Size, rest)
    BY <1>2, AgreesSums DEF Agrees
  <1>4. \A k \in rest : \E i \in F : k = c.order[i]
    <2>1. ASSUME NEW k \in rest PROVE \E i \in F : k = c.order[i]
      <3>1. PICK i \in 1 .. Len(c.order) : k = c.order[i]
        BY <1>1, <1>2 DEF Agrees, ToSet
      <3>2. c.order[i] \notin Evicted(c)
        BY <1>2, <3>1
      <3>3. fits(i)
        BY <3>2 DEF Evicted
      <3> QED BY <3>1, <3>3
    <2> QED BY <2>1
  <1>5. CASE F = {}
    <2>1. rest = {}
      BY <1>4, <1>5
    <2> QED BY <1>3, <2>1, TotalEmpty, FS_EmptySet
  <1>6. CASE F # {}
    <2>1. PICK m \in F : \A i \in F : i <= m
      <3>1. F \subseteq 0 .. Len(c.order)
        OBVIOUS
      <3> HIDE DEF F
      <3> QED BY <1>1, <1>6, <3>1, Greatest
    <2>2. m \in 1 .. Len(c.order) /\ fits(m)
      BY <2>1
    <2> DEFINE prefix == ToSet(SubSeq(c.order, 1, m))
    <2>3. prefix = {c.order[i] : i \in 1 .. m}
      BY <1>1, <2>2, PartElements DEF Agrees
    <2>4. rest \subseteq prefix /\ prefix \subseteq DOMAIN c.expiresAt
      <3>1. \A i \in F : i \in 1 .. m
        BY <2>1
      <3>2. \A i \in 1 .. m : i \in DOMAIN c.order
        BY <1>1, <2>2
      <3> HIDE DEF F
      <3> QED BY <1>4, <2>3, <3>1, <3>2 DEF Agrees, ToSet
    <2> HIDE DEF rest, F
    <2>5. IsFiniteSet(prefix) /\ Cardinality(prefix) <= m
      <3> DEFINE f == [i \in 1 .. m |-> c.order[i]]
      <3>1. f \in Surjection(1 .. m, prefix)
        BY <2>3 DEF Surjection
      <3>2. IsFiniteSet(1 .. m) /\ Cardinality(1 .. m) = m
        BY <2>2, FS_Interval, SMTT(30)
      <3> HIDE DEF f
      <3> QED BY <3>1, <3>2, FS_Surjection
    <2>6. Cardinality(rest) <= Cardinality(prefix) /\ Total(Size, rest) <= Total(Size, prefix)
      BY <1>1, <2>4, <2>5, FS_Subset, TotalMonotone
    <2>7. /\ Cardinality(rest) \in Nat /\ Cardinality(prefix) \in Nat
          /\ Total(Size, rest) \in Nat /\ Total(Size, prefix) \in Nat
      BY <1>1, <2>4, <2>5, FS_Subset, FS_CardinalityType, TotalNat
    <2> QED BY <1>3, <2>2, <2>5, <2>6, <2>7 DEF d, rest
  <1> QED BY <1>5, <1>6

-----------------------------------------------------------------------------
\* A request that lints or stores has a key.
JobsKnown ==
  \A q \in Requests : pc[q] \in {"linting", "storing"} => job[q] \in Keys

\* No eviction is observed that did not happen.
EvictionsHappened == \A q \in Requests : counted[q] <= dropped[q]

\* The inductive invariant.
CInv ==
  /\ TypeOK /\ JobsKnown
  /\ Agrees(State)
  /\ Len(order) <= Max({MaxEntries, 0})
  /\ bytes <= Max({MaxBytes, 0})
  /\ EvictionsHappened

\* The cache of an invariant state is consistent.
LEMMA ConsistencyFollows == CInv => CacheConsistent
  <1> SUFFICES ASSUME CInv PROVE CacheConsistent
    OBVIOUS
  <1>1. State.expiresAt = expiresAt /\ State.order = order /\ State.bytes = bytes
    BY DEF State
  <1>2. Len(State.order) = Cardinality(DOMAIN State.expiresAt)
    BY AgreesSums DEF CInv
  <1> QED BY <1>1, <1>2 DEF CInv, Agrees, CacheConsistent, ListMapBytesAgree, EvictionsHappened

\* The empty cache.
LEMMA CInvInit == Init => CInv
  <1> SUFFICES ASSUME Init PROVE CInv
    OBVIOUS
  <1>1. State.expiresAt = <<>> /\ State.order = <<>> /\ State.bytes = 0
    BY DEF State, Init
  <1>2. /\ <<>> \in Seq(Keys) /\ DOMAIN <<>> = {} /\ ToSet(<<>>) = {} /\ IsInjective(<<>>)
        /\ Len(<<>>) = 0
    BY DEF ToSet, IsInjective
  <1>3. Agrees(State)
    BY <1>1, <1>2, TotalEmpty DEF Agrees
  <1>4. TypeOK /\ JobsKnown /\ EvictionsHappened
    BY <1>2, MaxTimeIsNat DEF Init, TypeOK, JobsKnown, EvictionsHappened, PCs
  <1>5. 0 <= Max({MaxEntries, 0}) /\ 0 <= Max({MaxBytes, 0})
    BY MaxOfTwo, SettingsAreInt
  <1> QED BY <1>1, <1>2, <1>3, <1>4, <1>5 DEF CInv, Init

\* The cache after a step is given as a record.
LEMMA BecomesState ==
  ASSUME NEW c, Becomes(c), Agrees(c)
  PROVE  /\ Agrees(State)' /\ Len(order') = Len(c.order) /\ bytes' = c.bytes
         /\ DOMAIN expiresAt' \subseteq Keys /\ order' \in Seq(Keys) /\ bytes' \in Int
         /\ \A k \in DOMAIN expiresAt' : expiresAt'[k] \in Nat
  <1>1. expiresAt' = c.expiresAt /\ order' = c.order /\ bytes' = c.bytes
    BY DEF Becomes
  <1>2. State' = [expiresAt |-> c.expiresAt, order |-> c.order, bytes |-> c.bytes]
    BY <1>1 DEF State
  <1>3. DOMAIN c.expiresAt \subseteq Keys /\ c.bytes \in Nat
    BY AgreesSums
  <1> QED BY <1>1, <1>2, <1>3 DEF Agrees

\* A step that leaves the cache alone.
LEMMA CacheUntouched ==
  ASSUME CInv, UNCHANGED <<expiresAt, order, bytes>>
  PROVE  /\ Agrees(State)' /\ Len(order') <= Max({MaxEntries, 0}) /\ bytes' <= Max({MaxBytes, 0})
         /\ DOMAIN expiresAt' \subseteq Keys /\ order' \in Seq(Keys) /\ bytes' \in Int
         /\ \A k \in DOMAIN expiresAt' : expiresAt'[k] \in Nat
  BY DEF CInv, TypeOK, State, Agrees

\* Set keeps the representations in agreement and the cache within its limits.
LEMMA SetKeeps ==
  ASSUME CInv, NEW k \in Keys, NEW removed, Set(k, removed)
  PROVE  /\ Agrees(State)' /\ Len(order') <= Max({MaxEntries, 0}) /\ bytes' <= Max({MaxBytes, 0})
         /\ DOMAIN expiresAt' \subseteq Keys /\ order' \in Seq(Keys) /\ bytes' \in Int
         /\ \A j \in DOMAIN expiresAt' : expiresAt'[j] \in Nat
         /\ removed \in Nat
  <1>1. CASE Refuses(k) /\ removed = 0 /\ UNCHANGED <<expiresAt, order, bytes>>
    BY <1>1, CacheUntouched
  <1>2. CASE ~Refuses(k)
    <2>1. MaxEntries \in Nat /\ MaxBytes \in Nat /\ MaxEntries > 0 /\ MaxBytes > 0 /\ TTL > 0
      BY <1>2, SettingsAreInt DEF Refuses
    <2> DEFINE b == RemoveEntries(State, Expired \cup {k})
               c == Push(b, k)
               d == RemoveEntries(c, Evicted(c))
    <2>2. Becomes(d) /\ removed = Cardinality(Expired) + Cardinality(Evicted(c))
      BY <1>2 DEF Set
    <2>3. Agrees(b) /\ k \notin DOMAIN b.expiresAt
      BY RemoveAgrees DEF CInv
    <2>4. now + TTL \in Nat
      BY <2>1, SettingsAreInt, MaxTimeIsNat DEF CInv, TypeOK
    <2>5. Agrees(c)
      BY <2>3, <2>4, PushAgrees
    <2>6. Agrees(d)
      BY <2>5, RemoveAgrees
    <2>7. Len(d.order) <= MaxEntries /\ d.bytes <= MaxBytes
      BY <2>1, <2>5, EvictedFits
    <2>8. IsFiniteSet(Expired) /\ IsFiniteSet(Evicted(c))
      <3>1. IsFiniteSet(DOMAIN expiresAt)
        BY AgreesSums DEF CInv, State
      <3>2. IsFiniteSet(DOMAIN c.expiresAt) /\ DOMAIN c.order = 1 .. Len(c.order)
        BY <2>5, AgreesSums, LenProperties DEF Agrees
      <3>3. Evicted(c) \subseteq DOMAIN c.expiresAt
        BY <2>5, <3>2 DEF Evicted, Agrees, ToSet
      <3>4. Expired \subseteq DOMAIN expiresAt
        BY DEF Expired
      <3> QED BY <3>1, <3>2, <3>3, <3>4, FS_Subset
    <2>9. removed \in Nat
      BY <2>2, <2>8, FS_CardinalityType
    <2>10. Max({MaxEntries, 0}) = MaxEntries /\ Max({MaxBytes, 0}) = MaxBytes
      BY <2>1, MaxOfTwo
    <2> HIDE DEF d
    <2> QED BY <2>2, <2>6, <2>7, <2>9, <2>10, BecomesState
  <1> QED BY <1>1, <1>2 DEF Set

\* Every step keeps the invariant.
LEMMA CInvNext == CInv /\ [Next]_vars => CInv'
  <1> SUFFICES ASSUME CInv, [Next]_vars PROVE CInv'
    OBVIOUS
  <1>1. ASSUME NEW q \in Requests, NEW k \in Keys, Lookup(q, k) PROVE CInv'
    <2> DEFINE c == RemoveEntries(State, Expired)
               f == [c EXCEPT !.order = <<k>> \o Without(@, {k})]
    <2>1. Agrees(c) /\ Len(c.order) <= Len(order) /\ c.bytes <= bytes
      BY RemoveAgrees DEF CInv, State
    <2>2. c = [expiresAt |-> c.expiresAt, order |-> c.order, bytes |-> c.bytes]
      BY DEF RemoveEntries
    <2>3. IsFiniteSet(DOMAIN expiresAt) /\ Len(order) \in Nat /\ bytes \in Nat
      BY AgreesSums DEF CInv, State
    <2>4. Cardinality(Expired) \in Nat
      <3>1. IsFiniteSet(Expired)
        BY <2>3, FS_Subset DEF Expired
      <3> QED BY <3>1, FS_CardinalityType
    <2>5. /\ job' = [job EXCEPT ![q] = k]
          /\ dropped' = [dropped EXCEPT ![q] = Cardinality(Expired)]
          /\ counted' = [counted EXCEPT ![q] = Cardinality(Expired)]
          /\ UNCHANGED <<now, turn>>
          /\ \/ k \in DOMAIN c.expiresAt /\ Becomes(f) /\ pc' = [pc EXCEPT ![q] = "done"]
             \/ Becomes(c) /\ pc' = [pc EXCEPT ![q] = "linting"]
      BY <1>1 DEF Lookup
    <2> HIDE DEF c
    <2>6. /\ Agrees(State)' /\ Len(order') <= Len(order) /\ bytes' <= bytes
          /\ DOMAIN expiresAt' \subseteq Keys /\ order' \in Seq(Keys) /\ bytes' \in Int
          /\ \A j \in DOMAIN expiresAt' : expiresAt'[j] \in Nat
      <3>1. CASE k \in DOMAIN c.expiresAt /\ Becomes(f)
        <4>1. Agrees(f) /\ Len(f.order) = Len(c.order) /\ f.bytes = c.bytes
          BY <2>1, <2>2, <3>1, FrontAgrees
        <4> HIDE DEF f
        <4> QED BY <2>1, <3>1, <4>1, BecomesState
      <3>2. CASE Becomes(c)
        BY <2>1, <3>2, BecomesState
      <3> QED BY <2>5, <3>1, <3>2
    <2>7. Len(order') <= Max({MaxEntries, 0}) /\ bytes' <= Max({MaxBytes, 0})
      <3>1. Max({MaxEntries, 0}) \in Int /\ Max({MaxBytes, 0}) \in Int
        BY MaxOfTwo, SettingsAreInt
      <3>2. Len(order') \in Nat
        BY <2>6, LenProperties
      <3> QED BY <2>3, <2>6, <3>1, <3>2 DEF CInv
    <2>8. TypeOK' /\ JobsKnown'
      BY <2>4, <2>5, <2>6 DEF CInv, TypeOK, JobsKnown, PCs
    <2>9. EvictionsHappened'
      BY <2>4, <2>5 DEF CInv, TypeOK, EvictionsHappened
    <2> QED BY <2>6, <2>7, <2>8, <2>9 DEF CInv
  <1>2. ASSUME NEW q \in Requests, StoreTurn(q) PROVE CInv'
    <2>1. PICK removed :
            /\ Set(job[q], removed)
            /\ dropped' = [dropped EXCEPT ![q] = @ + removed]
            /\ \/ /\ turn' = [turn EXCEPT ![q] = @ + 1]
                  /\ counted' = [counted EXCEPT ![q] = @ + 1]
                  /\ turn[q] < removed /\ UNCHANGED pc
               \/ pc' = [pc EXCEPT ![q] = "done"] /\ UNCHANGED <<turn, counted>>
      BY <1>2 DEF StoreTurn
    <2>2. job[q] \in Keys
      BY <1>2 DEF StoreTurn, CInv, JobsKnown
    <2>3. /\ Agrees(State)' /\ Len(order') <= Max({MaxEntries, 0}) /\ bytes' <= Max({MaxBytes, 0})
          /\ DOMAIN expiresAt' \subseteq Keys /\ order' \in Seq(Keys) /\ bytes' \in Int
          /\ \A j \in DOMAIN expiresAt' : expiresAt'[j] \in Nat
          /\ removed \in Nat
      BY <2>1, <2>2, SetKeeps
    <2>4. UNCHANGED <<now, job>>
      BY <1>2 DEF StoreTurn
    <2>5. /\ turn' \in [Requests -> Nat] /\ counted' \in [Requests -> Nat]
          /\ dropped' \in [Requests -> Nat] /\ EvictionsHappened'
      <3>1. /\ turn \in [Requests -> Nat] /\ counted \in [Requests -> Nat]
            /\ dropped \in [Requests -> Nat]
        BY DEF CInv, TypeOK
      <3>2. dropped[q] + removed \in Nat /\ turn[q] + 1 \in Nat /\ counted[q] + 1 \in Nat
        BY <2>3, <3>1
      <3>3. /\ counted[q] <= dropped[q] + removed
            /\ turn[q] < removed => counted[q] + 1 <= dropped[q] + removed
        BY <2>3, <3>1 DEF CInv, EvictionsHappened
      <3>4. EvictionsHappened'
        BY <2>1, <3>1, <3>3 DEF CInv, EvictionsHappened
      <3> QED BY <2>1, <3>1, <3>2, <3>4
    <2>6. pc' \in [Requests -> PCs] /\ JobsKnown'
      BY <2>1, <2>4 DEF CInv, TypeOK, JobsKnown, PCs
    <2>7. TypeOK'
      BY <2>3, <2>4, <2>5, <2>6 DEF CInv, TypeOK
    <2> QED BY <2>3, <2>5, <2>6, <2>7 DEF CInv
  <1>3. ASSUME UNCHANGED <<expiresAt, order, bytes>>, TypeOK', JobsKnown', EvictionsHappened'
        PROVE  CInv'
    BY <1>3, CacheUntouched DEF CInv
  <1>4. ASSUME NEW q \in Requests, Linted(q) \/ Respond(q) PROVE CInv'
    <2>1. UNCHANGED <<now, expiresAt, order, bytes>>
      BY <1>4 DEF Linted, Respond, cacheVars
    <2>2. CASE Linted(q)
      BY <1>3, <2>1, <2>2 DEF Linted, CInv, TypeOK, JobsKnown, EvictionsHappened, PCs
    <2>3. CASE Respond(q)
      BY <1>3, <2>1, <2>3 DEF Respond, CInv, TypeOK, JobsKnown, EvictionsHappened, PCs
    <2> QED BY <1>4, <2>2, <2>3
  <1>5. CASE Tick
    <2>1. UNCHANGED <<expiresAt, order, bytes>> /\ TypeOK' /\ JobsKnown' /\ EvictionsHappened'
      BY <1>5, MaxTimeIsNat DEF Tick, CInv, TypeOK, JobsKnown, EvictionsHappened
    <2> QED BY <1>3, <2>1
  <1>6. CASE UNCHANGED vars
    <2>1. UNCHANGED <<expiresAt, order, bytes>> /\ TypeOK' /\ JobsKnown' /\ EvictionsHappened'
      BY <1>6 DEF vars, CInv, TypeOK, JobsKnown, EvictionsHappened
    <2> QED BY <1>3, <2>1
  <1> QED BY <1>1, <1>2, <1>4, <1>5, <1>6 DEF Next, Handling

\* The list, the map and the byte count of the analysis cache agree, and the cache is
\* within both its limits, for any sizes of results, limits and requests; and no
\* eviction is observed that did not happen.
THEOREM AnalysesConsistent == Spec => []CacheConsistent
  <1> QED BY CInvInit, CInvNext, ConsistencyFollows, PTL DEF Spec

==============================================================================
