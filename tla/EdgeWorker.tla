------------------------------ MODULE EdgeWorker ------------------------------
(***************************************************************************)
(* The Cloudflare worker's two caching routes (worker/handlers.ts): the     *)
(* semantic review, which asks a remote provider for decisions              *)
(* (src/semantic/review.ts, jev-client.ts), and the analysis, which is      *)
(* computed in place.  Both keep their results in a TtlLruCache             *)
(* (src/cache/ttl-lru.ts).                                                  *)
(*                                                                          *)
(* One isolate runs one thread: what stands between two awaits is a single  *)
(* step.  A document is a member of Keys, for the review the semantic state *)
(* that the model's name and the questions are hashed with.  A result is    *)
(* the document it was made for and its size; the provider may answer the   *)
(* same question with results of different size.                            *)
(***************************************************************************)
EXTENDS CacheLists

CONSTANTS
  N,             \* the requests, 1 .. N
  Keys,
  Weights,       \* the sizes of results, with their keys
  MaxEntries, MaxBytes, TTL,
  MaxInflight,   \* MAX_SEMANTIC_INFLIGHT_KEYS
  MaxRetries,
  BadInputs,     \* why the input of a request is refused, a subset of
                 \* AllBadInputs: payload_too_large, invalid_json, ...
  Failures,      \* how a call of the provider fails, a subset of AllFailures
  None,
  MaxTime        \* bound: the clock of the instance stops here

\* What parseAnalyzeBody, then validateRuleConfig or reviewMermaidSemantics,
\* refuse of the input of each route.
Refusals ==
  LET body == {"payload_too_large", "invalid_json", "invalid_request"}
  IN  [analyze |-> body \cup {"unknown_rule", "invalid_option"},
       review |-> body \cup {"invalid_mermaid", "semantic_state_unavailable",
                             "semantic_state_too_large",
                             "missing_openrouter_credentials"}]

LimiterCodes == {"rate_limited", "rate_limit_unavailable"}
AllBadInputs == LimiterCodes \cup Refusals["analyze"] \cup Refusals["review"]

\* JevClientError.code; the HTTP failures by what is decided about them.
Retryable == {"timeout", "network", "httpRetry"}    \* 429, 503, 529
AllFailures == Retryable \cup {"http", "invalid_response", "configuration"}

ASSUME WeightsAreNat == Weights \subseteq Nat
ASSUME SettingsAreInt == MaxEntries \in Int /\ MaxBytes \in Int /\ TTL \in Int
ASSUME LimitsAreNat == MaxInflight \in Nat /\ MaxRetries \in Nat /\ MaxTime \in Nat
ASSUME InputsKnown == BadInputs \subseteq AllBadInputs /\ Failures \subseteq AllFailures
ASSUME NIsNat == N \in Nat
ASSUME NoneIsNil ==
  None \notin Keys \cup [key : Keys, weight : Weights] \cup [error : AllFailures]

VARIABLES
  now,        \* the clock
  caches,     \* the caches of the two routes
  current,    \* history: the last result given to each cache, by key
  inflight,   \* semanticDecisionInflight: the request that calls, by key
  route,      \* "review" or "analyze"
  pc,         \* where each request is
  key,        \* the document of each request
  tracked,    \* trackInflight of each request that calls
  attempt,    \* the attempts that have failed, of each request that calls
  promise,    \* what the call of each request settled with
  follows,    \* the request whose call each waiting request awaits, or 0
  answer      \* the result, or the error code, each request is answered with

vars == <<now, caches, current, inflight, route, pc, key, tracked, attempt, promise,
          follows, answer>>

\* The requests are alike, so that the first ones may be the reviews.
Requests == 1 .. N
Routes == {"review", "analyze"}
Results == [key : Keys, weight : Weights]
Errors(codes) == [error : codes]
Error(code) == [error |-> code]
Codes == AllBadInputs \cup {"semantic_review_unconfigured", "jev_timeout",
                            "jev_invalid_response", "jev_upstream_error"}

PCs == {"new",       \* not received
        "reading",   \* awaits the body
        "hashing",   \* awaits the digest of the cache key
        "calling",   \* awaits the provider
        "backoff",   \* awaits the timer before a retry
        "settled",   \* its call has settled
        "waiting",   \* awaits the call of another request
        "answered"}

CallPCs == {"calling", "backoff", "settled"}

EmptyCache == [order |-> <<>>, entries |-> <<>>, bytes |-> 0]

Init ==
  /\ now = 0
  /\ caches = [r \in Routes |-> EmptyCache]
  /\ current = [r \in Routes |-> [k \in Keys |-> None]]
  /\ inflight = <<>>
  /\ \E n \in 0 .. N : route = [q \in Requests |-> IF q <= n THEN "review" ELSE "analyze"]
  /\ pc = [q \in Requests |-> "new"]
  /\ key = [q \in Requests |-> None]
  /\ tracked = [q \in Requests |-> FALSE]
  /\ attempt = [q \in Requests |-> 0]
  /\ promise = [q \in Requests |-> None]
  /\ follows = [q \in Requests |-> 0]
  /\ answer = [q \in Requests |-> None]

Goto(q, l) == pc' = [pc EXCEPT ![q] = l]

Answer(q, a) ==
  /\ Goto(q, "answered")
  /\ answer' = [answer EXCEPT ![q] = a]

cacheVars == <<caches, current>>
callVars == <<tracked, attempt, promise, follows>>

\* The local variables of a call end with it; its promise may be awaited still.
Forget(q) ==
  /\ tracked' = [tracked EXCEPT ![q] = FALSE]
  /\ attempt' = [attempt EXCEPT ![q] = 0]
  /\ follows' = [follows EXCEPT ![q] = 0]

-----------------------------------------------------------------------------
(* TtlLruCache.  A JavaScript Map keeps the order of insertion, so the       *)
(* oldest key comes first.                                                   *)

WeightsOf(c) == [k \in DOMAIN c.entries |-> c.entries[k].result.weight]

\* remove, for each entry of a set of keys.
RemoveEntries(c, ks) ==
  [order |-> Without(c.order, ks),
   entries |-> [k \in DOMAIN c.entries \ ks |-> c.entries[k]],
   bytes |-> c.bytes - Total(WeightsOf(c), ks \cap DOMAIN c.entries)]

\* pruneExpired.
Pruned(c) == RemoveEntries(c, {k \in DOMAIN c.entries : c.entries[k].expiresAt <= now})

\* The cache after get(k): without what is due, k the youngest if it is there.
Got(c, k) ==
  LET d == Pruned(c)
  IN  IF k \in DOMAIN d.entries
      THEN [d EXCEPT !.order = Append(Without(@, {k}), k)]
      ELSE d

\* The new entry of set, at the end.
Added(c, k, v) ==
  [order |-> Append(c.order, k),
   entries |-> [j \in DOMAIN c.entries \cup {k} |->
                  IF j = k THEN [result |-> v, expiresAt |-> now + TTL]
                  ELSE c.entries[j]],
   bytes |-> c.bytes + v.weight]

\* The keys that the loop of set removes from the front: what is before the
\* longest end of the order within both limits.
Overflow(c) ==
  LET n == Len(c.order)
      fits(i) == /\ n - i + 1 <= MaxEntries
                 /\ Total(WeightsOf(c), ToSet(SubSeq(c.order, i, n))) <= MaxBytes
  IN  {c.order[i] : i \in {j \in 1 .. n : ~fits(j)}}

\* Faulty variant: the previous entry is overwritten and stays in the byte count.
SetEntryOverwrites(r, c, k, v) ==
  /\ \E d \in {Pruned(c)} :
     \E e \in {Added([RemoveEntries(d, {k}) EXCEPT !.bytes = d.bytes], k, v)} :
         caches' = [caches EXCEPT ![r] =
                      IF MaxEntries <= 0 \/ TTL <= 0 \/ MaxBytes <= 0 THEN c
                      ELSE IF v.weight > MaxBytes THEN RemoveEntries(d, {k})
                      ELSE RemoveEntries(e, Overflow(e))]
  /\ current' = [current EXCEPT ![r][k] = v]

\* set on the cache c of a route.  A result that is too large still removes the
\* previous one.
SetEntry(r, c, k, v) ==
  /\ \E d \in {Pruned(c)} :
     \E e \in {Added(RemoveEntries(d, {k}), k, v)} :
         caches' = [caches EXCEPT ![r] =
                      IF MaxEntries <= 0 \/ TTL <= 0 \/ MaxBytes <= 0 THEN c
                      ELSE IF v.weight > MaxBytes THEN RemoveEntries(d, {k})
                      ELSE RemoveEntries(e, Overflow(e))]
  /\ current' = [current EXCEPT ![r][k] = v]

-----------------------------------------------------------------------------
(* The input of both routes.                                                 *)

\* The limiter grants.  Its await is part of the step: nothing is read before.
Admit(q) ==
  /\ pc[q] = "new"
  /\ Goto(q, "reading")
  /\ UNCHANGED <<now, cacheVars, inflight, route, key, callVars, answer>>

\* The limiter refuses, fails or is missing, or the client's address is; or the
\* body is too large, no JSON, or not acceptable to the route.
Refuse(q, code) ==
  /\ pc[q] = IF code \in LimiterCodes THEN "new" ELSE "reading"
  /\ code \in LimiterCodes \cup Refusals[route[q]]
  /\ Answer(q, Error(code))
  /\ UNCHANGED <<now, cacheVars, inflight, route, key, callVars>>

-----------------------------------------------------------------------------
\* handleAnalysis after its input: get, analyze and set without an await.
Analyze(q, k) ==
  /\ pc[q] = "reading" /\ route[q] = "analyze"
  /\ key' = [key EXCEPT ![q] = k]
  /\ \E c \in {Got(caches["analyze"], k)} :
       \/ /\ k \in DOMAIN c.entries
          /\ Answer(q, c.entries[k].result)
          /\ caches' = [caches EXCEPT !["analyze"] = c]
          /\ UNCHANGED current
       \/ /\ k \notin DOMAIN c.entries
          /\ \E v \in [key : {k}, weight : Weights] :
               /\ Answer(q, v)
               /\ SetEntry("analyze", c, k, v)
  /\ UNCHANGED <<now, inflight, route, callVars>>

-----------------------------------------------------------------------------
(* handleSemanticReview after its input.                                     *)

\* reviewMermaidSemantics up to the digest of the cache key.
ReviewBegins(q, k) ==
  /\ pc[q] = "reading" /\ route[q] = "review"
  /\ key' = [key EXCEPT ![q] = k]
  /\ Goto(q, "hashing")
  /\ UNCHANGED <<now, cacheVars, inflight, route, callVars, answer>>

\* getSemanticDecisions finds the decisions in the cache.
ReviewHit(q) ==
  /\ pc[q] = "hashing"
  /\ \E c \in {Got(caches["review"], key[q])} :
       /\ key[q] \in DOMAIN c.entries
       /\ Answer(q, c.entries[key[q]].result)
       /\ caches' = [caches EXCEPT !["review"] = c]
  /\ UNCHANGED <<now, current, inflight, route, key, callVars>>

\* getSemanticDecisions does not find them; get has pruned the cache.
Missed(q) ==
  /\ \E c \in {Got(caches["review"], key[q])} :
       /\ key[q] \notin DOMAIN c.entries
       /\ caches' = [caches EXCEPT !["review"] = c]
  /\ UNCHANGED current

\* Faulty variant: any call in flight is joined.
ReviewJoinsAny(q) ==
  /\ pc[q] = "hashing"
  /\ Goto(q, "waiting")
  /\ Missed(q)
  /\ \E k \in DOMAIN inflight : follows' = [follows EXCEPT ![q] = inflight[k]]
  /\ UNCHANGED <<now, inflight, route, key, tracked, attempt, promise, answer>>

\* getSemanticDecisions finds another request's call.
ReviewJoins(q) ==
  /\ pc[q] = "hashing"
  /\ Goto(q, "waiting")
  /\ Missed(q)
  /\ key[q] \in DOMAIN inflight
  /\ follows' = [follows EXCEPT ![q] = inflight[key[q]]]
  /\ UNCHANGED <<now, inflight, route, key, tracked, attempt, promise, answer>>

\* getSemanticDecisions calls the provider, and registers the call if there is
\* room for another key.
ReviewCalls(q) ==
  /\ pc[q] = "hashing"
  /\ Goto(q, "calling")
  /\ Missed(q)
  /\ key[q] \notin DOMAIN inflight
  /\ \E t \in {Cardinality(DOMAIN inflight) < MaxInflight} :
       /\ tracked' = [tracked EXCEPT ![q] = t]
       /\ inflight' = IF t THEN [k \in DOMAIN inflight \cup {key[q]} |->
                                   IF k = key[q] THEN q ELSE inflight[k]]
                      ELSE inflight
  /\ UNCHANGED <<now, route, key, attempt, promise, follows, answer>>

Settle(q, p) ==
  /\ promise' = [promise EXCEPT ![q] = p]
  /\ Goto(q, "settled")

\* requestAttempt returns what validatePayload accepts.
CallSucceeds(q) ==
  /\ pc[q] = "calling"
  /\ \E v \in [key : {key[q]}, weight : Weights] : Settle(q, v)
  /\ UNCHANGED <<now, cacheVars, inflight, route, key, tracked, attempt, follows, answer>>

\* Faulty variant: the attempts are not counted.
CallFailsUncounted(q, failure) ==
  /\ pc[q] = "calling"
  /\ failure = "configuration" => attempt[q] = 0
  /\ \/ /\ attempt[q] >= MaxRetries \/ failure \notin Retryable
        /\ Settle(q, Error(failure))
     \/ /\ attempt[q] < MaxRetries /\ failure \in Retryable
        /\ Goto(q, "backoff")
        /\ UNCHANGED promise
  /\ UNCHANGED <<now, cacheVars, inflight, route, key, tracked, attempt, follows, answer>>

\* requestAttempt throws, and requestWithRetries gives up or waits.  The model's
\* name is refused before the first attempt.
CallFails(q, failure) ==
  /\ pc[q] = "calling"
  /\ failure = "configuration" => attempt[q] = 0
  /\ \/ /\ attempt[q] >= MaxRetries \/ failure \notin Retryable
        /\ Settle(q, Error(failure))
        /\ UNCHANGED attempt
     \/ /\ attempt[q] < MaxRetries /\ failure \in Retryable
        /\ attempt' = [attempt EXCEPT ![q] = @ + 1]
        /\ Goto(q, "backoff")
        /\ UNCHANGED promise
  /\ UNCHANGED <<now, cacheVars, inflight, route, key, tracked, follows, answer>>

\* The timer of wait fires: the next attempt.
Retry(q) ==
  /\ pc[q] = "backoff"
  /\ Goto(q, "calling")
  /\ UNCHANGED <<now, cacheVars, inflight, route, key, callVars, answer>>

\* mapJevError.
MapJevError(failure) ==
  CASE failure = "timeout"          -> "jev_timeout"
    [] failure = "invalid_response" -> "jev_invalid_response"
    [] failure = "configuration"    -> "semantic_review_unconfigured"
    [] OTHER                        -> "jev_upstream_error"

Outcome(p) == IF p \in Errors(AllFailures) THEN Error(MapJevError(p.error)) ELSE p

\* Faulty variant: the finally block deletes the key whoever registered it.
CallerResumesDeletes(q) ==
  /\ pc[q] = "settled"
  /\ Answer(q, Outcome(promise[q]))
  /\ IF promise[q] \in Errors(AllFailures) THEN UNCHANGED cacheVars
     ELSE SetEntry("review", caches["review"], key[q], promise[q])
  /\ inflight' = [k \in DOMAIN inflight \ {key[q]} |-> inflight[k]]
  /\ Forget(q)
  /\ UNCHANGED <<now, route, key, promise>>

\* The caller's await returns or throws: set, and the finally block.
CallerResumes(q) ==
  /\ pc[q] = "settled"
  /\ Answer(q, Outcome(promise[q]))
  /\ IF promise[q] \in Errors(AllFailures) THEN UNCHANGED cacheVars
     ELSE SetEntry("review", caches["review"], key[q], promise[q])
  /\ inflight' = IF tracked[q]
                 THEN [k \in DOMAIN inflight \ {key[q]} |-> inflight[k]]
                 ELSE inflight
  /\ Forget(q)
  /\ UNCHANGED <<now, route, key, promise>>

\* The await of a request that joined returns or throws, after that of the
\* caller, which was first to await the promise.
WaiterResumes(q) ==
  /\ pc[q] = "waiting"
  /\ pc[follows[q]] = "answered"
  /\ Answer(q, Outcome(promise[follows[q]]))
  /\ Forget(q)
  /\ UNCHANGED <<now, cacheVars, inflight, route, key, promise>>

\* Time passes.
Tick ==
  /\ now < MaxTime
  /\ now' = now + 1
  /\ UNCHANGED <<cacheVars, inflight, route, pc, key, callVars, answer>>

Handling(q) ==
  \/ \E k \in Keys : Analyze(q, k) \/ ReviewBegins(q, k)
  \/ ReviewHit(q) \/ ReviewJoins(q) \/ ReviewCalls(q)
  \/ CallSucceeds(q)
  \/ \E failure \in Failures : CallFails(q, failure)
  \/ Retry(q) \/ CallerResumes(q) \/ WaiterResumes(q)

Next ==
  \/ \E q \in Requests : Admit(q) \/ Handling(q)
  \/ \E q \in Requests, code \in BadInputs : Refuse(q, code)
  \/ Tick

\* The body, the digest and the timers settle, and so does the
\* provider: requestAttempt aborts at its timeout.
Fairness == \A q \in Requests : WF_vars(Handling(q))

Spec == Init /\ [][Next]_vars /\ Fairness

-----------------------------------------------------------------------------
(* Properties                                                                *)

\* The type of the state.
TypeOK ==
  /\ now \in 0 .. MaxTime
  /\ DOMAIN caches = Routes
  /\ \A r \in Routes : ToSet(caches[r].order) = DOMAIN caches[r].entries
  /\ current \in [Routes -> [Keys -> Results \cup {None}]]
  /\ DOMAIN inflight \subseteq Keys
  /\ \A k \in DOMAIN inflight : inflight[k] \in Requests
  /\ route \in [Requests -> Routes]
  /\ pc \in [Requests -> PCs]
  /\ key \in [Requests -> Keys \cup {None}]
  /\ tracked \in [Requests -> BOOLEAN]
  /\ attempt \in [Requests -> 0 .. MaxRetries]
  /\ promise \in [Requests -> Results \cup Errors(AllFailures) \cup {None}]
  /\ follows \in [Requests -> 0 .. N]
  /\ answer \in [Requests -> Results \cup Errors(Codes) \cup {None}]

\* "Concurrent identical requests share one in-flight provider call, with at
\* most 32 distinct in-flight keys tracked": the map has exactly the calls that
\* were registered and have not ended, one of each key, and no more than its
\* limit, though calls that found it full run beside it.
CallsShared ==
  /\ TypeOK
  /\ Cardinality(DOMAIN inflight) <= MaxInflight
  /\ \A k \in DOMAIN inflight :
       /\ pc[inflight[k]] \in CallPCs
       /\ tracked[inflight[k]] /\ key[inflight[k]] = k
  /\ \A q \in Requests :
       tracked[q] /\ pc[q] \in CallPCs =>
         key[q] \in DOMAIN inflight /\ inflight[key[q]] = q

\* "Errors are never cached", and a result answers its own document only,
\* whether it was computed, called for, shared or cached.
AnswersOwnDocument ==
  /\ \A q \in Requests : answer[q] \in Results => answer[q].key = key[q]
  /\ \A r \in Routes : \A k \in DOMAIN caches[r].entries :
       caches[r].entries[k].result \in [key : {k}, weight : Weights]

\* What BoundedCache sees of the cache of one route.
Contents(r) ==
  [k \in Keys |-> IF k \in DOMAIN caches[r].entries
                  THEN caches[r].entries[k].result ELSE None]
Used(r) == [entries |-> Len(caches[r].order), bytes |-> caches[r].bytes]
Limits == [entries |-> Max({MaxEntries, 0}), bytes |-> Max({MaxBytes, 0})]
SizeOf(k, v) == v.weight

Analyses ==
  INSTANCE BoundedCache WITH
    Values <- Results, Size <- SizeOf, Nil <- None, limits <- Limits,
    contents <- Contents("analyze"), used <- Used("analyze"),
    current <- current["analyze"]

Decisions ==
  INSTANCE BoundedCache WITH
    Values <- Results, Size <- SizeOf, Nil <- None, limits <- Limits,
    contents <- Contents("review"), used <- Used("review"),
    current <- current["review"]

\* Both caches are bounded caches, though the results of one key differ in size and
\* calls that were not registered store theirs in any order: each accounts for
\* what it holds, stays within its limits, and holds under a key the result stored
\* last, never an older one that a larger one should have replaced.
CachesBounded == Analyses!Spec /\ Decisions!Spec

\* Every request received is answered, the ones that wait for the call of
\* another included, whatever that call ends in.
ReviewsEnd == \A q \in Requests : pc[q] # "new" ~> pc[q] = "answered"
=============================================================================
