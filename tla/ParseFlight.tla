----------------------------- MODULE ParseFlight -----------------------------
(***************************************************************************)
(* Parser.parseWithConfig of internal/parser/parser.go: the closed check,  *)
(* the shared lookup of the parser version, the result cache, the sharing  *)
(* of one parse by concurrent requests for the same cache key, and Close.  *)
(*                                                                         *)
(* The cache is here a partial map whose entries may vanish (ParseCache    *)
(* models its LRU, TTL and byte bounds), and a parse is one interval that  *)
(* ends in what the Node parser answered (PooledParse models the interval  *)
(* in pool mode).                                                          *)
(***************************************************************************)
EXTENDS Naturals, FiniteSets

CONSTANTS
  Requests,     \* calls of parseWithConfig
  Keys,         \* what cacheKeyForVersion distinguishes: code and limits
  KeyOf,        \* the key of each request
  PooledKeys,   \* keys parsed by the worker pool, the others by a subprocess
  Raws,         \* what the Node parser may answer in this instance
  Faults,       \* what may go wrong in this instance
  None

AllRaws == {"valid", "syntax", "internal", "fails"}
AllFaults == {"version", "evict", "close"}

ASSUME KeyOfType   == KeyOf \in [Requests -> Keys]
ASSUME RawsKnown   == Raws \subseteq AllRaws
ASSUME FaultsKnown == Faults \subseteq AllFaults

VARIABLES
  closed,          \* p.closed
  versionKnown,    \* p.versionInfo # nil
  versionFlight,   \* p.versionFlight, named by the request that leads it
  versionAnswer,   \* of each flight: open, or what it ended with
  cache,           \* p.cache, by key: None or an answer
  inflight,        \* p.inflightParses, by key: None or the leading request
  published,       \* the inflightParse of each leader: None until done closes
  pc,
  follows,         \* the flight a waiting request waits for
  keyed,           \* ok: the request has a cache key
  answer,          \* what the request's own parse gave
  result           \* what parseWithConfig returned

vars == <<closed, versionKnown, versionFlight, versionAnswer, cache, inflight,
          published, pc, follows, keyed, answer, result>>

PCs == {"start", "version", "versionLead", "versionWait", "lookup", "join",
        "wait", "parse", "parsing", "store", "publish", "returned"}

\* A leader has registered its key and not yet published its result.
LeaderPCs == {"parse", "parsing", "store", "publish"}

\* An answer: how parseWithConfig classifies it, what the Node parser said, and
\* whose parse it was.
Kinds == {"diagram", "syntaxError", "error"}
Answers == [kind : Kinds, raw : AllRaws \cup {"closed"}, by : Requests]

ASSUME NoneIsNil == None \notin Requests \cup Answers

\* The end of parseWithSubprocess and of parseWithWorkerPool / mapParseResult: a
\* result whose message starts with "internal parser error:" is an error in the
\* former and a syntax error in the latter.
Classify(k, raw) ==
  CASE raw = "valid"    -> "diagram"
    [] raw = "syntax"   -> "syntaxError"
    [] raw = "internal" -> IF k \in PooledKeys THEN "syntaxError" ELSE "error"
    [] raw = "fails"    -> "error"

Init ==
  /\ closed = FALSE
  /\ versionKnown = FALSE
  /\ versionFlight = None
  /\ versionAnswer = [r \in Requests |-> "open"]
  /\ cache = [k \in Keys |-> None]
  /\ inflight = [k \in Keys |-> None]
  /\ published = [r \in Requests |-> None]
  /\ pc = [r \in Requests |-> "start"]
  /\ follows = [r \in Requests |-> None]
  /\ keyed = [r \in Requests |-> FALSE]
  /\ answer = [r \in Requests |-> None]
  /\ result = [r \in Requests |-> None]

-----------------------------------------------------------------------------
Goto(r, s) == pc' = [pc EXCEPT ![r] = s]

Return(r, a) ==
  /\ result' = [result EXCEPT ![r] = a]
  /\ Goto(r, "returned")

ClosedError(r) == [kind |-> "error", raw |-> "closed", by |-> r]

\* parseWithConfig: the first look at p.closed.
Begin(r) ==
  /\ pc[r] = "start"
  /\ IF closed THEN Return(r, ClosedError(r))
               ELSE Goto(r, "version") /\ UNCHANGED result
  /\ UNCHANGED <<closed, versionKnown, versionFlight, versionAnswer, cache,
                 inflight, published, follows, keyed, answer>>

\* resolveVersionInfo, first critical section.
VersionReady(r) ==
  /\ pc[r] = "version"
  /\ versionKnown
  /\ keyed' = [keyed EXCEPT ![r] = TRUE]
  /\ Goto(r, "lookup")
  /\ UNCHANGED <<closed, versionKnown, versionFlight, versionAnswer, cache,
                 inflight, published, follows, answer, result>>

VersionJoin(r) ==
  /\ pc[r] = "version"
  /\ ~versionKnown
  /\ versionFlight # None
  /\ follows' = [follows EXCEPT ![r] = versionFlight]
  /\ Goto(r, "versionWait")
  /\ UNCHANGED <<closed, versionKnown, versionFlight, versionAnswer, cache,
                 inflight, published, keyed, answer, result>>

VersionLead(r) ==
  /\ pc[r] = "version"
  /\ ~versionKnown
  /\ versionFlight = None
  /\ versionFlight' = r
  /\ Goto(r, "versionLead")
  /\ UNCHANGED <<closed, versionKnown, versionAnswer, cache, inflight,
                 published, follows, keyed, answer, result>>

\* Without a version the request has no cache key and parses by itself.
AfterVersion(r, ok) ==
  /\ keyed' = [keyed EXCEPT ![r] = ok]
  /\ Goto(r, IF ok THEN "lookup" ELSE "parse")

\* resolveVersionInfo, after discoverVersionInfo.
VersionFound(r, ok) ==
  /\ pc[r] = "versionLead"
  /\ ok \/ "version" \in Faults
  /\ versionKnown' = (versionKnown \/ ok)
  /\ versionFlight' = None
  /\ versionAnswer' = [versionAnswer EXCEPT ![r] = IF ok THEN "ok" ELSE "error"]
  /\ AfterVersion(r, ok)
  /\ UNCHANGED <<closed, cache, inflight, published, follows, answer, result>>

VersionShared(r) ==
  /\ pc[r] = "versionWait"
  /\ versionAnswer[follows[r]] # "open"
  /\ AfterVersion(r, versionAnswer[follows[r]] = "ok")
  /\ follows' = [follows EXCEPT ![r] = None]
  /\ UNCHANGED <<closed, versionKnown, versionFlight, versionAnswer, cache,
                 inflight, published, answer, result>>

-----------------------------------------------------------------------------
\* p.cache.get
CacheHit(r) ==
  /\ pc[r] = "lookup"
  /\ cache[KeyOf[r]] # None
  /\ Return(r, cache[KeyOf[r]])
  /\ UNCHANGED <<closed, versionKnown, versionFlight, versionAnswer, cache,
                 inflight, published, follows, keyed, answer>>

CacheMiss(r) ==
  /\ pc[r] = "lookup"
  /\ cache[KeyOf[r]] = None
  /\ Goto(r, "join")
  /\ UNCHANGED <<closed, versionKnown, versionFlight, versionAnswer, cache,
                 inflight, published, follows, keyed, answer, result>>

\* Faulty variant: a flight is joined whatever its key.
JoinFlightOfAnyKey(r) ==
  /\ pc[r] = "join"
  /\ \E k \in Keys : /\ inflight[k] # None
                     /\ follows' = [follows EXCEPT ![r] = inflight[k]]
  /\ Goto(r, "wait")
  /\ UNCHANGED <<closed, versionKnown, versionFlight, versionAnswer, cache,
                 inflight, published, keyed, answer, result>>

\* The critical section of inflightMu: join the flight of the key or lead it.
JoinFlight(r) ==
  /\ pc[r] = "join"
  /\ inflight[KeyOf[r]] # None
  /\ follows' = [follows EXCEPT ![r] = inflight[KeyOf[r]]]
  /\ Goto(r, "wait")
  /\ UNCHANGED <<closed, versionKnown, versionFlight, versionAnswer, cache,
                 inflight, published, keyed, answer, result>>

\* Faulty variant: the leader does not register its flight.
LeadFlightUnregistered(r) ==
  /\ pc[r] = "join"
  /\ inflight[KeyOf[r]] = None
  /\ Goto(r, "parse")
  /\ UNCHANGED <<closed, versionKnown, versionFlight, versionAnswer, cache,
                 inflight, published, follows, keyed, answer, result>>

LeadFlight(r) ==
  /\ pc[r] = "join"
  /\ inflight[KeyOf[r]] = None
  /\ inflight' = [inflight EXCEPT ![KeyOf[r]] = r]
  /\ Goto(r, "parse")
  /\ UNCHANGED <<closed, versionKnown, versionFlight, versionAnswer, cache,
                 published, follows, keyed, answer, result>>

\* <-existing.done, then the copy of the leader's result.
ShareResult(r) ==
  /\ pc[r] = "wait"
  /\ published[follows[r]] # None
  /\ Return(r, published[follows[r]])
  /\ follows' = [follows EXCEPT ![r] = None]
  /\ UNCHANGED <<closed, versionKnown, versionFlight, versionAnswer, cache,
                 inflight, published, keyed, answer>>

-----------------------------------------------------------------------------
\* parseWithSubprocess or parseWithWorkerPool: the second look at p.closed (for
\* the pool in poolForMemory), then the parse.
ParseRefused(r) ==
  /\ pc[r] = "parse"
  /\ closed
  /\ answer' = [answer EXCEPT ![r] = ClosedError(r)]
  /\ Goto(r, "store")
  /\ UNCHANGED <<closed, versionKnown, versionFlight, versionAnswer, cache,
                 inflight, published, follows, keyed, result>>

ParseBegins(r) ==
  /\ pc[r] = "parse"
  /\ ~closed
  /\ Goto(r, "parsing")
  /\ UNCHANGED <<closed, versionKnown, versionFlight, versionAnswer, cache,
                 inflight, published, follows, keyed, answer, result>>

ParseEnds(r, raw) ==
  /\ pc[r] = "parsing"
  /\ answer' = [answer EXCEPT ![r] =
       [kind |-> Classify(KeyOf[r], raw), raw |-> raw, by |-> r]]
  /\ Goto(r, "store")
  /\ UNCHANGED <<closed, versionKnown, versionFlight, versionAnswer, cache,
                 inflight, published, follows, keyed, result>>

\* putSuccess or putSyntax, unless the parse failed or there is no key.
StoreAnswer(r) ==
  /\ pc[r] = "store"
  /\ cache' = IF keyed[r] /\ answer[r].kind # "error"
                THEN [cache EXCEPT ![KeyOf[r]] = answer[r]]
                ELSE cache
  /\ IF keyed[r] THEN Goto(r, "publish") /\ UNCHANGED result
                 ELSE Return(r, answer[r])
  /\ UNCHANGED <<closed, versionKnown, versionFlight, versionAnswer, inflight,
                 published, follows, keyed, answer>>

\* Faulty variant: the flight stays in inflightParses.
PublishKeepsFlight(r) ==
  /\ pc[r] = "publish"
  /\ published' = [published EXCEPT ![r] = answer[r]]
  /\ Return(r, answer[r])
  /\ UNCHANGED <<closed, versionKnown, versionFlight, versionAnswer, cache,
                 inflight, follows, keyed, answer>>

\* Faulty variant: an error returns before the flight is landed.
PublishSuccessOnly(r) ==
  /\ pc[r] = "publish"
  /\ IF answer[r].kind = "error"
       THEN UNCHANGED <<published, inflight>>
       ELSE /\ published' = [published EXCEPT ![r] = answer[r]]
            /\ inflight' = [inflight EXCEPT ![KeyOf[r]] = None]
  /\ Return(r, answer[r])
  /\ UNCHANGED <<closed, versionKnown, versionFlight, versionAnswer, cache,
                 follows, keyed, answer>>

\* The last critical section of inflightMu: result, delete, close(done).
Publish(r) ==
  /\ pc[r] = "publish"
  /\ published' = [published EXCEPT ![r] = answer[r]]
  /\ inflight' = [inflight EXCEPT ![KeyOf[r]] = None]
  /\ Return(r, answer[r])
  /\ UNCHANGED <<closed, versionKnown, versionFlight, versionAnswer, cache,
                 follows, keyed, answer>>

-----------------------------------------------------------------------------
\* An entry expires or is evicted.
CacheEvicts(k) ==
  /\ "evict" \in Faults
  /\ cache[k] # None
  /\ cache' = [cache EXCEPT ![k] = None]
  /\ UNCHANGED <<closed, versionKnown, versionFlight, versionAnswer, inflight,
                 published, pc, follows, keyed, answer, result>>

\* Parser.Close, as far as parseWithConfig sees it.
Close ==
  /\ "close" \in Faults
  /\ ~closed
  /\ closed' = TRUE
  /\ UNCHANGED <<versionKnown, versionFlight, versionAnswer, cache, inflight,
                 published, pc, follows, keyed, answer, result>>

RequestStep(r) ==
  \/ VersionReady(r)
  \/ VersionJoin(r)
  \/ VersionLead(r)
  \/ \E ok \in BOOLEAN : VersionFound(r, ok)
  \/ VersionShared(r)
  \/ CacheHit(r)
  \/ CacheMiss(r)
  \/ JoinFlight(r)
  \/ LeadFlight(r)
  \/ ShareResult(r)
  \/ ParseRefused(r)
  \/ ParseBegins(r)
  \/ \E raw \in Raws : ParseEnds(r, raw)
  \/ StoreAnswer(r)
  \/ Publish(r)

Next ==
  \/ \E r \in Requests : Begin(r) \/ RequestStep(r)
  \/ \E k \in Keys : CacheEvicts(k)
  \/ Close

\* A request that has begun goes on; in particular a parse ends, which its
\* timeout guarantees.
Fairness == \A r \in Requests : WF_vars(RequestStep(r))

Spec == Init /\ [][Next]_vars /\ Fairness

-----------------------------------------------------------------------------
\* The type invariant.
TypeOK ==
  /\ closed \in BOOLEAN
  /\ versionKnown \in BOOLEAN
  /\ versionFlight \in Requests \cup {None}
  /\ versionAnswer \in [Requests -> {"open", "ok", "error"}]
  /\ cache \in [Keys -> Answers \cup {None}]
  /\ inflight \in [Keys -> Requests \cup {None}]
  /\ published \in [Requests -> Answers \cup {None}]
  /\ pc \in [Requests -> PCs]
  /\ follows \in [Requests -> Requests \cup {None}]
  /\ keyed \in [Requests -> BOOLEAN]
  /\ answer \in [Requests -> Answers \cup {None}]
  /\ result \in [Requests -> Answers \cup {None}]

\* Requests with a cache key never parse the same key at the same time.
OneParsePerKey ==
  \A r, s \in Requests :
    (/\ KeyOf[r] = KeyOf[s]
     /\ keyed[r] /\ keyed[s]
     /\ {pc[r], pc[s]} \subseteq LeaderPCs) => r = s

\* inflightParses names a request that will publish: no entry outlives its
\* leader, so nobody joins a flight that has already landed.
InflightHasLeader ==
  \A k \in Keys :
    inflight[k] # None =>
      /\ KeyOf[inflight[k]] = k
      /\ keyed[inflight[k]]
      /\ pc[inflight[k]] \in LeaderPCs
      /\ published[inflight[k]] = None

\* A request that waits has a leader that has published or still will, and one
\* that leads the same key.
WaiterHasLeader ==
  \A r \in Requests :
    pc[r] = "wait" =>
      /\ KeyOf[follows[r]] = KeyOf[r]
      /\ published[follows[r]] # None \/ pc[follows[r]] \in LeaderPCs

\* Nobody waits for a flight that has landed, and no landed flight can be joined:
\* whatever the leader's parse ends in, it publishes and removes its entry.
NobodyWaitsInVain == InflightHasLeader /\ WaiterHasLeader

\* What depends on the document alone; and an internal failure of a pooled worker,
\* which mapParseResult turns into a syntax error (parser.go:794), although
\* TestParserCache_DoesNotCacheInternalFailures says "transient failures are uncached".
Lasting(k, raw) == raw \in {"valid", "syntax"} \/ (raw = "internal" /\ k \in PooledKeys)

\* What a request returns was parsed for its own key, however many requests
\* shared it through the cache or the flight; and what later requests will be served
\* from the cache is no failure of a process, of the subprocess path or of Close.
AnswersOwnKey ==
  /\ \A r \in Requests :
       result[r] # None => KeyOf[result[r].by] = KeyOf[r]
  /\ \A k \in Keys : cache[k] # None => Lasting(k, cache[k].raw)

\* Every request returns: no waiter is left behind by a leader that failed or
\* found the parser closed.
RequestsReturn == \A r \in Requests : pc[r] # "start" ~> pc[r] = "returned"
=============================================================================
