----------------------------- MODULE AnalysisCache -----------------------------
(***************************************************************************)
(* The cache of analysis results (internal/api/analysis_cache.go) and its   *)
(* two callers in analyzeWithCallback (internal/api/handler.go): the lookup  *)
(* before a lint run and the loop that stores the result and counts the      *)
(* evictions.                                                                *)
(*                                                                           *)
(* Get and Set run under the cache's mutex and are one step each.  The key   *)
(* is a digest of the diagram and of the configuration, and the engine is a  *)
(* function of the two, so an entry is known by its key; Size[k] is          *)
(* len(key) + len(value).                                                    *)
(***************************************************************************)
EXTENDS CacheLists

CONSTANTS
  Requests, Keys,
  Size,        \* the size of each key with its result
  MaxEntries, MaxBytes, TTL,
  None,
  MaxTime      \* bound: the clock of the instance stops here

ASSUME SizeType == Size \in [Keys -> Nat]
ASSUME SettingsAreInt == MaxEntries \in Int /\ MaxBytes \in Int /\ TTL \in Int
ASSUME NoneIsNil == None \notin Keys
ASSUME MaxTimeIsNat == MaxTime \in Nat

VARIABLES
  now,       \* the clock
  expiresAt, \* the stored entries: the expiry time of each key
  order,     \* their keys, the most recently used first
  bytes,     \* the size the cache accounts for
  pc,        \* where each request is
  job,       \* the key each request works on
  turn,      \* the loop variable i of each request that stores
  dropped,   \* history: entries this request's calls removed
  counted    \* history: eviction events this request observed

vars == <<now, expiresAt, order, bytes, pc, job, turn, dropped, counted>>
cacheVars == <<now, expiresAt, order, bytes>>

PCs == {"lookup",   \* before Get
        "linting",  \* missed; the engine runs
        "storing",  \* about to evaluate the condition of the loop
        "done"}

Init ==
  /\ now = 0
  /\ expiresAt = <<>>
  /\ order = <<>>
  /\ bytes = 0
  /\ pc = [q \in Requests |-> "lookup"]
  /\ job = [q \in Requests |-> None]
  /\ turn = [q \in Requests |-> 0]
  /\ dropped = [q \in Requests |-> 0]
  /\ counted = [q \in Requests |-> 0]

-----------------------------------------------------------------------------
(* analysisResultCache, as a record of its three fields.                     *)

State == [expiresAt |-> expiresAt, order |-> order, bytes |-> bytes]

Becomes(c) ==
  /\ expiresAt' = c.expiresAt
  /\ order' = c.order
  /\ bytes' = c.bytes

\* removeLocked, for each entry of a set of keys.
RemoveEntries(c, ks) ==
  [expiresAt |-> [k \in DOMAIN c.expiresAt \ ks |-> c.expiresAt[k]],
   order |-> Without(c.order, ks),
   bytes |-> c.bytes - Total(Size, ks \cap DOMAIN c.expiresAt)]

\* The entries pruneLocked removes: the ones that are due.
Expired == {k \in DOMAIN expiresAt : expiresAt[k] <= now}

\* Set: the new entry goes to the front.
Push(c, k) ==
  [expiresAt |-> [j \in DOMAIN c.expiresAt \cup {k} |->
                    IF j = k THEN now + TTL ELSE c.expiresAt[j]],
   order |-> <<k>> \o c.order,
   bytes |-> c.bytes + Size[k]]

\* Faulty variant: only the number of entries counts.
EvictedByCount(c) == {c.order[n] : n \in MaxEntries + 1 .. Len(c.order)}

\* The keys the eviction loop of Set removes from the back of the list: what is
\* beyond the longest prefix within both limits.
Evicted(c) ==
  LET fits(n) == n <= MaxEntries /\ Total(Size, ToSet(SubSeq(c.order, 1, n))) <= MaxBytes
  IN  {c.order[n] : n \in {i \in 1 .. Len(c.order) : ~fits(i)}}

\* The early returns of Set: a disabled cache or an oversized result.
Refuses(k) == MaxEntries <= 0 \/ TTL <= 0 \/ MaxBytes <= 0 \/ Size[k] > MaxBytes

\* Set: prune, replace, push, evict; and the number of removals it returns,
\* which leaves out the replaced entry.
Set(k, removed) ==
  \/ Refuses(k) /\ removed = 0 /\ UNCHANGED <<expiresAt, order, bytes>>
  \/ /\ ~Refuses(k)
     /\ \E c \in {Push(RemoveEntries(State, Expired \cup {k}), k)} :
        \E evicted \in {Evicted(c)} :
          /\ removed = Cardinality(Expired) + Cardinality(evicted)
          /\ Becomes(RemoveEntries(c, evicted))

-----------------------------------------------------------------------------
(* analyzeWithCallback.                                                      *)

\* Get, and the loop that observes its evictions: the due entries go; a hit
\* moves to the front and answers the request.
Lookup(q, k) ==
  /\ pc[q] = "lookup"
  /\ \E c \in {RemoveEntries(State, Expired)} :
       \/ /\ k \in DOMAIN c.expiresAt
          /\ Becomes([c EXCEPT !.order = <<k>> \o Without(@, {k})])
          /\ pc' = [pc EXCEPT ![q] = "done"]
       \/ /\ k \notin DOMAIN c.expiresAt
          /\ Becomes(c)
          /\ pc' = [pc EXCEPT ![q] = "linting"]
  /\ job' = [job EXCEPT ![q] = k]
  /\ dropped' = [dropped EXCEPT ![q] = Cardinality(Expired)]
  /\ counted' = [counted EXCEPT ![q] = Cardinality(Expired)]
  /\ UNCHANGED <<now, turn>>

\* The engine has produced a result for the request.
Linted(q) ==
  /\ pc[q] = "linting"
  /\ pc' = [pc EXCEPT ![q] = "storing"]
  /\ UNCHANGED <<cacheVars, job, turn, dropped, counted>>

\* The number of entries a call of Set can remove.
Removals == 0 .. 2 * Cardinality(Keys)

\* Faulty variant: a result that Set refuses is tried again.
StoreTurnRetries(q) ==
  /\ pc[q] = "storing"
  /\ \E removed \in Removals : Set(job[q], removed)
  /\ \/ Refuses(job[q]) /\ UNCHANGED pc
     \/ ~Refuses(job[q]) /\ pc' = [pc EXCEPT ![q] = "done"]
  /\ UNCHANGED <<now, job, turn, dropped, counted>>

\* for i := 0; i < Set(cacheKey, core); i++: the condition calls Set again on
\* every turn, and each turn observes one eviction.
StoreTurn(q) ==
  /\ pc[q] = "storing"
  /\ \E removed \in Removals :
       /\ Set(job[q], removed)
       /\ dropped' = [dropped EXCEPT ![q] = @ + removed]
       /\ \/ /\ turn[q] < removed
             /\ counted' = [counted EXCEPT ![q] = @ + 1]
             /\ turn' = [turn EXCEPT ![q] = @ + 1]
             /\ UNCHANGED pc
          \/ /\ turn[q] >= removed
             /\ pc' = [pc EXCEPT ![q] = "done"]
             /\ UNCHANGED <<turn, counted>>
  /\ UNCHANGED <<now, job>>

\* The response is written and the slot is free for another request.
Respond(q) ==
  /\ pc[q] = "done"
  /\ pc' = [pc EXCEPT ![q] = "lookup"]
  /\ job' = [job EXCEPT ![q] = None]
  /\ turn' = [turn EXCEPT ![q] = 0]
  /\ dropped' = [dropped EXCEPT ![q] = 0]
  /\ counted' = [counted EXCEPT ![q] = 0]
  /\ UNCHANGED cacheVars

\* Time passes.
Tick ==
  /\ now < MaxTime
  /\ now' = now + 1
  /\ UNCHANGED <<expiresAt, order, bytes, pc, job, turn, dropped, counted>>

Handling(q) == Linted(q) \/ StoreTurn(q) \/ Respond(q)

Next ==
  \/ \E q \in Requests, k \in Keys : Lookup(q, k)
  \/ \E q \in Requests : Handling(q)
  \/ Tick

\* A handler goroutine that has begun runs to its end; nothing obliges another
\* request to arrive.
Fairness == \A q \in Requests : WF_vars(Handling(q))

Spec == Init /\ [][Next]_vars /\ Fairness

-----------------------------------------------------------------------------
(* Properties                                                                *)

\* The type of the state.
TypeOK ==
  /\ now \in 0 .. MaxTime
  /\ DOMAIN expiresAt \subseteq Keys
  /\ \A k \in DOMAIN expiresAt : expiresAt[k] \in Nat
  /\ order \in Seq(Keys)
  /\ bytes \in Int
  /\ pc \in [Requests -> PCs]
  /\ job \in [Requests -> Keys \cup {None}]
  /\ turn \in [Requests -> Nat]
  /\ dropped \in [Requests -> Nat]
  /\ counted \in [Requests -> Nat]

\* The list holds exactly the keys of the map, each once, and bytes is the sum
\* of the sizes.
ListMapBytesAgree ==
  /\ ToSet(order) = DOMAIN expiresAt
  /\ Len(order) = Cardinality(DOMAIN expiresAt)
  /\ bytes = Total(Size, DOMAIN expiresAt)

\* Between operations the three representations of the cache agree and it is
\* within both its limits, in whatever order small and large results are stored,
\* replaced, looked up and found expired.  No request observes an eviction that did not
\* happen; it may observe fewer than it made, since the loop calls Set again
\* (handler.go:1670), although "analysis_cache_events_total reports hits, misses, and
\* evictions" (docs/caching.md:38).
CacheConsistent ==
  /\ TypeOK
  /\ ListMapBytesAgree
  /\ Len(order) <= Max({MaxEntries, 0})
  /\ bytes <= Max({MaxBytes, 0})
  /\ \A q \in Requests : counted[q] <= dropped[q]

\* The loop that stores a result repeats Set as long as it evicts something; it
\* still ends, and the request is answered, also when the results of two
\* requests evict each other turn by turn.
StoringEnds == \A q \in Requests : pc[q] = "storing" ~> pc[q] = "done"

=============================================================================
