------------------------------ MODULE ParseCache ------------------------------
(***************************************************************************)
(* The parser's result cache (internal/parser/cache.go): parseCache, two    *)
(* lruTTLCache instances behind one RWMutex, one for diagrams and one for   *)
(* syntax errors.  Every operation of an lruTTLCache runs under its own     *)
(* mutex and is one step; parseCache.get is two of them under the read      *)
(* lock, putSuccess and putSyntax are two under the write lock.             *)
(*                                                                          *)
(* A cached value is a member of Values; Weight[k][v] is the estimate       *)
(* estimatedEntryBytes makes of a value v that key k may have.              *)
(***************************************************************************)
EXTENDS CacheLists

CONSTANTS
  Keys, Values, Readers,
  Weight,      \* the estimated size of each value a key may have
  Configs,     \* the CacheConfigs the cache may be created with
  Default,     \* the default [capacity, ttl, maxBytes] of each kind
  Limit,       \* the largest [capacity, ttl, maxBytes] accepted
  None,
  MaxTime,     \* bound: the clock of the instance stops here
  MaxRecords   \* bound: a put waits while the heap holds this many records

Kinds == {"success", "syntax"}
Settings(S) == [capacity : S, ttl : S, maxBytes : S]

ASSUME WeightType ==
  \A k \in Keys : /\ DOMAIN Weight[k] \subseteq Values
                  /\ \A v \in DOMAIN Weight[k] : Weight[k][v] \in Nat
ASSUME ConfigsType ==
  /\ \A cfg \in Configs : \A kind \in Kinds : cfg[kind] \in Settings(Int)
  /\ \A kind \in Kinds : Default[kind] \in Settings(Nat)
  /\ Limit \in Settings(Nat)
ASSUME NoneIsNil == None \notin Keys \cup Values \cup [kind : Kinds, value : Values]
ASSUME BoundsAreNat == MaxTime \in Nat /\ MaxRecords \in Nat

VARIABLES
  config,   \* the configuration given to newParseCache
  now,      \* the clock
  cache,    \* the lruTTLCache of each kind
  reader,   \* the key each get() has not found among the diagrams, or None
  latest    \* history: the last value put under each key, with its kind

vars == <<config, now, cache, reader, latest>>

\* EffectiveConfig: a negative setting is replaced by the default, one above
\* the limit by the limit.
EffectiveConfig(kind) ==
  [f \in {"capacity", "ttl", "maxBytes"} |->
     IF config[kind][f] < 0 THEN Default[kind][f]
     ELSE Min({config[kind][f], Limit[f]})]

TTL(kind) == EffectiveConfig(kind).ttl

MaxBytes(kind) == EffectiveConfig(kind).maxBytes

\* newParseCache: a byte limit of zero disables the cache.
MaxSize(kind) ==
  IF MaxBytes(kind) = 0 THEN 0 ELSE EffectiveConfig(kind).capacity

Enabled(kind) == MaxSize(kind) > 0 /\ TTL(kind) > 0

-----------------------------------------------------------------------------
(* lruTTLCache: the LRU list (most recent first), the entries, the heap of   *)
(* expiration records (only its minimum matters, so a set) and bytes.        *)

EmptyCache == [order |-> <<>>, entries |-> <<>>, expiry |-> {}, bytes |-> 0]

Record(k, e) ==
  [key |-> k, expiresAt |-> e.expiresAt, generation |-> e.generation]

WeightsOf(entries) == [k \in DOMAIN entries |-> entries[k].weight]

\* Faulty variant: the weight of what is removed stays accounted for.
RemoveEntriesKeepBytes(c, ks) ==
  [c EXCEPT !.order = Without(@, ks),
            !.entries = [k \in DOMAIN @ \ ks |-> @[k]]]

\* removeElementLocked, for each entry of a set of keys.
RemoveEntries(c, ks) ==
  [c EXCEPT !.order = Without(@, ks),
            !.entries = [k \in DOMAIN @ \ ks |-> @[k]],
            !.bytes = @ - Total(WeightsOf(c.entries), ks \cap DOMAIN c.entries)]

\* Faulty variant: the generation of a due record is not compared.
EvictExpiredByKey(c) ==
  LET due == {r \in c.expiry : r.expiresAt <= now}
      dead == {k \in DOMAIN c.entries : \E r \in due : r.key = k}
  IN  [RemoveEntries(c, dead) EXCEPT !.expiry = @ \ due]

\* evictExpiredLocked: every record that is due is popped, and removes its
\* entry unless the entry was updated or replaced since.
EvictExpired(c) ==
  LET due == {r \in c.expiry : r.expiresAt <= now}
      dead == {k \in DOMAIN c.entries : Record(k, c.entries[k]) \in due}
  IN  [RemoveEntries(c, dead) EXCEPT !.expiry = @ \ due]

MoveToFront(order, k) == <<k>> \o Without(order, {k})

\* The eviction loop at the end of SetWeighted: the longest prefix of the list
\* within both limits stays.
Shrink(c, kind) ==
  LET fits(n) == /\ n <= MaxSize(kind)
                 /\ Total(WeightsOf(c.entries), ToSet(SubSeq(c.order, 1, n))) <= MaxBytes(kind)
      kept == Max({n \in 0 .. Len(c.order) : fits(n)})
  IN  RemoveEntries(c, ToSet(SubSeq(c.order, kept + 1, Len(c.order))))

\* An entry stored now with the given generation; its record joins the heap.
Store(c, kind, k, v, generation) ==
  LET e == [value |-> v, weight |-> Weight[k][v],
            expiresAt |-> now + TTL(kind), generation |-> generation]
      old == IF k \in DOMAIN c.entries THEN c.entries[k].weight ELSE 0
  IN  [order |-> MoveToFront(c.order, k),
       entries |-> [j \in DOMAIN c.entries \cup {k} |->
                      IF j = k THEN e ELSE c.entries[j]],
       expiry |-> c.expiry \cup {Record(k, e)},
       bytes |-> c.bytes - old + e.weight]

\* SetWeighted.  An update of an entry that is present does not run the
\* eviction loop.
SetWeighted(c, kind, k, v) ==
  LET d == EvictExpired(c)
      oversize == Weight[k][v] > MaxBytes(kind)
  IN  IF ~Enabled(kind) THEN c
      ELSE IF oversize THEN RemoveEntries(d, {k} \cap DOMAIN d.entries)
      ELSE IF k \in DOMAIN d.entries
           THEN Store(d, kind, k, v, d.entries[k].generation + 1)
      ELSE Shrink(Store(d, kind, k, v, 1), kind)

-----------------------------------------------------------------------------
(* parseCache.                                                               *)

Init ==
  /\ config \in Configs
  /\ now = 0
  /\ cache = [kind \in Kinds |-> EmptyCache]
  /\ reader = [q \in Readers |-> None]
  /\ latest = [k \in Keys |-> None]

\* lruTTLCache.Get finds the key among the entries that are not due.  Its own
\* second test of the expiry time finds nothing left, since every
\* entry has a record (ListMapHeapBytesAgree).
Hit(kind, k) ==
  /\ Enabled(kind)
  /\ k \in DOMAIN EvictExpired(cache[kind]).entries

Touch(kind, k) ==
  LET d == EvictExpired(cache[kind])
  IN  cache' = [cache EXCEPT ![kind] =
                  [d EXCEPT !.order = MoveToFront(@, k)]]

Untouched(kind) ==
  cache' = [cache EXCEPT ![kind] =
              IF Enabled(kind) THEN EvictExpired(@) ELSE @]

\* get: the read lock, then the diagrams.
GetSuccess(q, k) ==
  /\ reader[q] = None
  /\ IF Hit("success", k)
     THEN Touch("success", k) /\ UNCHANGED reader
     ELSE Untouched("success") /\ reader' = [reader EXCEPT ![q] = k]
  /\ UNCHANGED <<config, now, latest>>

\* get: then the syntax errors, and the read lock is released.
GetSyntax(q) ==
  /\ reader[q] # None
  /\ IF Hit("syntax", reader[q])
     THEN Touch("syntax", reader[q])
     ELSE Untouched("syntax")
  /\ reader' = [reader EXCEPT ![q] = None]
  /\ UNCHANGED <<config, now, latest>>

\* The write lock of the cache is free to take.
Unread == \A q \in Readers : reader[q] = None

\* Faulty variant: the result of the other kind is not deleted.
PutKeepsOther(kind, k, v) ==
  /\ Unread
  /\ Cardinality(cache[kind].expiry) < MaxRecords
  /\ cache' = [cache EXCEPT ![kind] = SetWeighted(@, kind, k, v)]
  /\ latest' = [latest EXCEPT ![k] = [kind |-> kind, value |-> v]]
  /\ UNCHANGED <<config, now, reader>>

\* putSuccess and putSyntax: the value replaces whatever either cache holds.
Put(kind, k, v) ==
  LET other == CHOOSE o \in Kinds : o # kind
  IN  /\ Unread
      /\ Cardinality(cache[kind].expiry) < MaxRecords
      /\ cache' = [cache EXCEPT
                     ![other] = RemoveEntries(@, {k} \cap DOMAIN @.entries),
                     ![kind] = SetWeighted(@, kind, k, v)]
      /\ latest' = [latest EXCEPT ![k] = [kind |-> kind, value |-> v]]
      /\ UNCHANGED <<config, now, reader>>

\* Time passes.
Tick ==
  /\ now < MaxTime
  /\ now' = now + 1
  /\ UNCHANGED <<config, cache, reader, latest>>

Next ==
  \/ \E q \in Readers, k \in Keys : GetSuccess(q, k)
  \/ \E q \in Readers : GetSyntax(q)
  \/ \E kind \in Kinds, k \in Keys : \E v \in DOMAIN Weight[k] : Put(kind, k, v)
  \/ Tick

Spec == Init /\ [][Next]_vars

-----------------------------------------------------------------------------
(* Properties                                                                *)

Entries == [value : Values, weight : Nat, expiresAt : Nat, generation : Nat]
Records == [key : Keys, expiresAt : Nat, generation : Nat]

\* The type of the state.
TypeOK ==
  /\ config \in Configs
  /\ now \in Nat
  /\ DOMAIN cache = Kinds
  /\ \A kind \in Kinds :
       /\ cache[kind].order \in Seq(Keys)
       /\ DOMAIN cache[kind].entries \in SUBSET Keys
       /\ \A k \in DOMAIN cache[kind].entries : cache[kind].entries[k] \in Entries
       /\ cache[kind].expiry \subseteq Records
       /\ cache[kind].bytes \in Int
  /\ reader \in [Readers -> Keys \cup {None}]
  /\ latest \in [Keys -> [kind : Kinds, value : Values] \cup {None}]

\* The LRU list holds exactly the keys of the map, each once, and bytes is the
\* sum of the weights of the entries, through updates, evictions, expiry and
\* deletions (cache.go, removeElementLocked and SetWeighted); and every entry has
\* its own record in the heap, so that evictExpiredLocked finds it however many
\* stale records of its key are there too.
ListMapHeapBytesAgree ==
  /\ TypeOK
  /\ \A kind \in Kinds :
       LET c == cache[kind] IN
       /\ ToSet(c.order) = DOMAIN c.entries
       /\ Len(c.order) = Cardinality(DOMAIN c.entries)
       /\ c.bytes = Total(WeightsOf(c.entries), DOMAIN c.entries)
       /\ \A k \in DOMAIN c.entries : Record(k, c.entries[k]) \in c.expiry

\* What BoundedCache sees of the cache of one kind: the value of each entry, the
\* length of the list with the byte count, and the last value put under each key
\* if it is of this kind.
Contents(kind) ==
  [k \in Keys |-> IF k \in DOMAIN cache[kind].entries
                  THEN cache[kind].entries[k].value ELSE None]
Used(kind) == [entries |-> Len(cache[kind].order), bytes |-> cache[kind].bytes]
Limits(kind) == [entries |-> MaxSize(kind), bytes |-> MaxBytes(kind)]
Current(kind) ==
  [k \in Keys |-> IF latest[k] # None /\ latest[k].kind = kind
                  THEN latest[k].value ELSE None]
SizeOf(k, v) == Weight[k][v]

Diagrams ==
  INSTANCE BoundedCache WITH
    Size <- SizeOf, Nil <- None, limits <- Limits("success"),
    contents <- Contents("success"), used <- Used("success"),
    current <- Current("success")

SyntaxErrors ==
  INSTANCE BoundedCache WITH
    Size <- SizeOf, Nil <- None, limits <- Limits("syntax"),
    contents <- Contents("syntax"), used <- Used("syntax"),
    current <- Current("syntax")

\* The diagrams and the syntax errors are bounded caches: what either holds under
\* a key is the last value put under it - an earlier result, of either kind, never
\* survives a later one, an oversized one included - and each stays within its entry
\* limit, holds nothing when disabled, and is within its byte limit whenever a key
\* joins it, whatever is stored, replaced, looked up and found expired
\* (cache.go, putSuccess, putSyntax, SetWeighted).
CachesBounded == Diagrams!SpecByAdding /\ SyntaxErrors!SpecByAdding

\* What the documentation says of the byte limits: "SetWeighted bounds retained
\* memory using the caller's estimated entry size" (cache.go:242).  It does not when a
\* value replaces a smaller one, after which the eviction loop is not reached
\* (cache.go:256-270); results of one key that differ in size are syntax errors,
\* which a worker's internal error is too.
RetainedMemoryBounded == \A kind \in Kinds : cache[kind].bytes <= MaxBytes(kind)

Dropped(kind) == DOMAIN cache[kind].entries \ DOMAIN cache'[kind].entries

Position(order, k) == CHOOSE i \in DOMAIN order : order[i] = k

\* An entry that is not due leaves a cache in two ways only: a put under its own
\* key, or an eviction that the limits force, in which everything that stays was
\* used more recently and some evicted entry would not have fitted.
EvictionJustified ==
  [][\A kind \in Kinds :
       LET c == cache[kind]
           d == cache'[kind]
           lost == {k \in Dropped(kind) : /\ c.entries[k].expiresAt > now
                                          /\ latest'[k] = latest[k]}
           stays == {k \in DOMAIN c.entries \cap DOMAIN d.entries :
                       c.entries[k] = d.entries[k]}
       IN  lost # {} =>
             /\ \A j \in lost, k \in stays :
                  Position(c.order, k) < Position(c.order, j)
             /\ \E j \in lost :
                  \/ Len(d.order) + 1 > MaxSize(kind)
                  \/ d.bytes + c.entries[j].weight > MaxBytes(kind)]_vars

=============================================================================
