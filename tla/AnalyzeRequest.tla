---------------------------- MODULE AnalyzeRequest ----------------------------
(***************************************************************************)
(* The handlers of POST /v1/analyze, /v1/analyze/raw and /v1/analyze/sarif  *)
(* (internal/api/handler.go) and what they share: the parser concurrency    *)
(* limiter and the outcome counters behind GET /v1/internal/metrics.        *)
(*                                                                          *)
(* The three handlers are copies of one sequence of steps; they differ in   *)
(* how a body is read, in the format of the answer, and in that only        *)
(* analyzeWithCallback looks for a cached analysis (AnalysisCache).  An     *)
(* answer is modelled by its error code ("ok" for an analysis), what a      *)
(* request's body and configuration contain by the code of the check that   *)
(* refuses it.                                                              *)
(***************************************************************************)
EXTENDS Integers, FiniteSets

CONSTANTS
  Requests,
  Limits,       \* the arguments of SetParserConcurrencyLimit
  Routes,       \* the routes used here
  BadInputs,    \* the refusals of a body or configuration met here
  ParseResults, \* the results of the parser met here
  None

\* The handlers: analyzeWithCallback, analyzeRawWithCallback, analyzeForSARIF.
AllRoutes == {"analyze", "raw", "sarif"}

\* The checks before the parser runs, by the code of their refusal; the last one
\* is that of a server without an engine.
AllBadInputs == {"request_too_large", "invalid_json", "missing_code",
                 "deprecated_config_format", "unknown_rule", "unknown_option",
                 "invalid_option", "invalid_suppression_selector",
                 "unsupported_schema_version", "invalid_config",
                 "internal_error"}

\* What parseWithRequestSettings returns: a diagram of a type with or without
\* lint rules, a syntax error, nothing, errInvalidRequest for parser settings
\* out of range, or one of the parser's errors.
ParseErrors == {"ErrTimeout", "ErrSubprocess", "ErrMemoryLimit", "ErrDecode",
                "ErrContract", "otherError"}
AllParseResults == {"diagram", "unlintable", "syntaxError", "nilDiagram",
                    "errInvalidRequest"} \cup ParseErrors

\* ValidOutcome and the counters: one for each.
Outcomes == {"syntax_error", "lint_success", "parser_timeout",
             "parser_subprocess_error", "parser_decode_error",
             "parser_contract_violation", "internal_error", "other"}

\* The codes of the answers.
Codes == AllBadInputs \cup Outcomes
           \cup {"ok", "server_busy", "parser_memory_limit", "unsupported_diagram_type"}

ASSUME RoutesKnown == Routes \subseteq AllRoutes
ASSUME BadInputsKnown == BadInputs \subseteq AllBadInputs
ASSUME ParseResultsKnown == ParseResults \subseteq AllParseResults
ASSUME LimitsAreInt == Limits \subseteq Int
ASSUME RequestsFinite == IsFiniteSet(Requests)
ASSUME NoneIsNil == None \notin Codes \cup AllParseResults \cup AllRoutes

VARIABLES
  limit, inFlight,  \* parserConcurrencyLimiter
  counters,         \* analyzeOutcomeCounters
  route,            \* the route of each request
  pc,               \* where each request is
  holds,            \* the request has a release callback pending
  outcome,          \* the outcome the request observed
  answer            \* the code the request is answered with

vars == <<limit, inFlight, counters, route, pc, holds, outcome, answer>>

PCs == {"new",        \* not sent yet
        "reading",    \* body and configuration are read
        "admitting",  \* before tryAcquireParserSlot
        "parsing", "linting",
        "writing",    \* outcome observed, before the answer is written
        "returning",  \* answered, before the deferred release
        "done", "panicked"}

\* CanonicalOutcome.
CanonicalOutcome(o) == IF o \in Outcomes THEN o ELSE "other"

Init ==
  /\ limit = 0
  /\ inFlight = 0
  /\ counters = [o \in Outcomes |-> 0]
  /\ route = [q \in Requests |-> None]
  /\ pc = [q \in Requests |-> "new"]
  /\ holds = [q \in Requests |-> FALSE]
  /\ outcome = [q \in Requests |-> None]
  /\ answer = [q \in Requests |-> None]

Goto(q, l) == pc' = [pc EXCEPT ![q] = l]

\* observeAnalyzeOutcome, and the answer to be written next.
ObserveAndAnswer(q, o, code) ==
  /\ counters' = [counters EXCEPT ![CanonicalOutcome(o)] = @ + 1]
  /\ outcome' = [outcome EXCEPT ![q] = CanonicalOutcome(o)]
  /\ answer' = [answer EXCEPT ![q] = code]
  /\ Goto(q, "writing")

-----------------------------------------------------------------------------
(* The limiter.                                                              *)

\* Faulty variant: a new limit forgets the requests in flight.
SetLimitResets(n) ==
  /\ limit' = IF n < 0 THEN 0 ELSE n
  /\ inFlight' = 0
  /\ UNCHANGED <<counters, pc, holds, outcome, answer, route>>

\* SetLimit: a negative limit is none.  The requests in flight stay counted.
SetLimit(n) ==
  /\ limit' = IF n < 0 THEN 0 ELSE n
  /\ UNCHANGED <<inFlight, counters, pc, holds, outcome, answer, route>>

Full == limit > 0 /\ inFlight >= limit

\* Release, which never counts below zero.
Release == inFlight' = IF inFlight = 0 THEN 0 ELSE inFlight - 1

-----------------------------------------------------------------------------
(* The handlers.                                                             *)

Receive(q, r) ==
  /\ pc[q] = "new"
  /\ route' = [route EXCEPT ![q] = r]
  /\ Goto(q, "reading")
  /\ UNCHANGED <<limit, inFlight, counters, holds, outcome, answer>>

\* The body or the configuration is refused.
RefuseInput(q, code) ==
  /\ pc[q] = "reading"
  /\ ObserveAndAnswer(q, code, code)
  /\ UNCHANGED <<limit, inFlight, holds, route>>

AnalyzeRefuses(q, code) == route[q] = "analyze" /\ RefuseInput(q, code)
RawRefuses(q, code)     == route[q] = "raw" /\ RefuseInput(q, code)
SARIFRefuses(q, code)   == route[q] = "sarif" /\ RefuseInput(q, code)

AcceptInput(q) ==
  /\ pc[q] = "reading"
  /\ Goto(q, "admitting")
  /\ UNCHANGED <<limit, inFlight, counters, holds, outcome, answer, route>>

\* tryAcquireParserSlot fails.
Busy(q) ==
  /\ pc[q] = "admitting"
  /\ Full
  /\ ObserveAndAnswer(q, "server_busy", "server_busy")
  /\ UNCHANGED <<limit, inFlight, holds, route>>

\* tryAcquireParserSlot succeeds; the release is deferred.
Admit(q) ==
  /\ pc[q] = "admitting"
  /\ ~Full
  /\ inFlight' = inFlight + 1
  /\ holds' = [holds EXCEPT ![q] = TRUE]
  /\ Goto(q, "parsing")
  /\ UNCHANGED <<limit, counters, outcome, answer, route>>

\* parserFailureOutcome: the outcome a failed parse is counted as.
ParserFailureOutcome(e) ==
  CASE e = "ErrTimeout"                           -> "parser_timeout"
    [] e \in {"ErrSubprocess", "ErrMemoryLimit"}  -> "parser_subprocess_error"
    [] e = "ErrDecode"                            -> "parser_decode_error"
    [] e = "ErrContract"                          -> "parser_contract_violation"
    [] OTHER                                      -> "internal_error"

\* parserErrorDetails: the code it is answered with.
ParserErrorCode(e) ==
  CASE e = "ErrTimeout"     -> "parser_timeout"
    [] e = "ErrMemoryLimit" -> "parser_memory_limit"
    [] e = "ErrSubprocess"  -> "parser_subprocess_error"
    [] e = "ErrDecode"      -> "parser_decode_error"
    [] e = "ErrContract"    -> "parser_contract_violation"
    [] OTHER                -> "internal_error"

\* The parser returns something that ends the request.
ParseEndsRequest(q, p) ==
  /\ pc[q] = "parsing"
  /\ \/ p = "errInvalidRequest" /\ ObserveAndAnswer(q, "invalid_option", "invalid_option")
     \/ p \in ParseErrors /\ ObserveAndAnswer(q, ParserFailureOutcome(p), ParserErrorCode(p))
     \/ p = "syntaxError" /\ ObserveAndAnswer(q, "syntax_error", "syntax_error")
     \/ p = "nilDiagram" /\ ObserveAndAnswer(q, "internal_error", "internal_error")
     \/ p = "unlintable" /\ ObserveAndAnswer(q, "unsupported_diagram_type",
                                                "unsupported_diagram_type")
  /\ UNCHANGED <<limit, inFlight, holds, route>>

AnalyzeParsed(q, p) == route[q] = "analyze" /\ ParseEndsRequest(q, p)
RawParsed(q, p)     == route[q] = "raw" /\ ParseEndsRequest(q, p)
SARIFParsed(q, p)   == route[q] = "sarif" /\ ParseEndsRequest(q, p)

\* The parser returns a diagram that can be linted.
ParseYieldsDiagram(q) ==
  /\ pc[q] = "parsing"
  /\ Goto(q, "linting")
  /\ UNCHANGED <<limit, inFlight, counters, holds, outcome, answer, route>>

\* The engine's issues, or for /v1/analyze the cached ones, are the answer.
Lint(q) ==
  /\ pc[q] = "linting"
  /\ ObserveAndAnswer(q, "lint_success", "ok")
  /\ UNCHANGED <<limit, inFlight, holds, route>>

AnalyzeLints(q) == route[q] = "analyze" /\ Lint(q)
RawLints(q)     == route[q] = "raw" /\ Lint(q)
SARIFLints(q)   == route[q] = "sarif" /\ Lint(q)

\* The engine panics on a rule's account; net/http recovers the connection's
\* goroutine after the deferred calls.
Panic(q) ==
  /\ pc[q] = "linting"
  /\ Goto(q, "panicked")
  /\ UNCHANGED <<limit, inFlight, counters, holds, outcome, answer, route>>

WriteAnswer(q) ==
  /\ pc[q] = "writing"
  /\ Goto(q, "returning")
  /\ UNCHANGED <<limit, inFlight, counters, holds, outcome, answer, route>>

\* Faulty variant: the release is not deferred, so a panic skips it.
ReturnNotDeferred(q) ==
  /\ pc[q] \in {"returning", "panicked"}
  /\ IF holds[q] /\ pc[q] = "returning" THEN Release ELSE UNCHANGED inFlight
  /\ holds' = [holds EXCEPT ![q] = FALSE]
  /\ Goto(q, "done")
  /\ UNCHANGED <<limit, counters, outcome, answer, route>>

\* The handler returns or unwinds: the deferred release, if there is one.
Return(q) ==
  /\ pc[q] \in {"returning", "panicked"}
  /\ IF holds[q] THEN Release ELSE UNCHANGED inFlight
  /\ holds' = [holds EXCEPT ![q] = FALSE]
  /\ Goto(q, "done")
  /\ UNCHANGED <<limit, counters, outcome, answer, route>>

Handling(q) ==
  \/ \E code \in BadInputs :
       AnalyzeRefuses(q, code) \/ RawRefuses(q, code) \/ SARIFRefuses(q, code)
  \/ AcceptInput(q)
  \/ Busy(q)
  \/ Admit(q)
  \/ \E p \in ParseResults :
       AnalyzeParsed(q, p) \/ RawParsed(q, p) \/ SARIFParsed(q, p)
  \/ ParseYieldsDiagram(q)
  \/ AnalyzeLints(q) \/ RawLints(q) \/ SARIFLints(q)
  \/ Panic(q)
  \/ WriteAnswer(q)
  \/ Return(q)

Next ==
  \/ \E n \in Limits : SetLimit(n)
  \/ \E q \in Requests : (\E r \in Routes : Receive(q, r)) \/ Handling(q)

\* A handler that has begun continues; its call of the parser returns, which
\* ParseFlight and PooledParse show.
Fairness == \A q \in Requests : WF_vars(Handling(q))

Spec == Init /\ [][Next]_vars /\ Fairness

-----------------------------------------------------------------------------
(* Properties                                                                *)

\* The type of the state.
TypeOK ==
  /\ limit \in Nat
  /\ inFlight \in Nat
  /\ counters \in [Outcomes -> Nat]
  /\ route \in [Requests -> AllRoutes \cup {None}]
  /\ pc \in [Requests -> PCs]
  /\ holds \in [Requests -> BOOLEAN]
  /\ outcome \in [Requests -> Outcomes \cup {None}]
  /\ answer \in [Requests -> Codes \cup {None}]

Running == {q \in Requests : holds[q]}

\* The limiter counts exactly the requests that hold a slot, on every path out
\* of a handler (answers of every kind, panics) and through changes of the limit.
SlotsExact == inFlight = Cardinality(Running)

\* Reapplying the configured limit while parses are in flight never lets more
\* requests run than the limit allows, also when the limit has been lower, higher
\* or off before (FLOW-CONTROL-001).
CapKept ==
  [][limit > 0 /\ limit' = limit /\ Cardinality(Running) <= limit
       => Cardinality(Running') <= limit]_vars

\* The outcome an answer belongs to.
OutcomeOf(code) ==
  CASE code = "ok"                  -> "lint_success"
    [] code = "parser_memory_limit" -> "parser_subprocess_error"
    [] code \in Outcomes            -> code
    [] OTHER                        -> "other"

\* The counters add up to the answers given: each request is counted once, under
\* the outcome that its answer belongs to.
CountersMatchAnswers ==
  /\ TypeOK
  /\ \A o \in Outcomes :
       counters[o] = Cardinality({q \in Requests :
                                    answer[q] # None /\ OutcomeOf(answer[q]) = o})

=============================================================================
