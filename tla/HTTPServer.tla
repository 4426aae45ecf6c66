------------------------------ MODULE HTTPServer ------------------------------
(***************************************************************************)
(* The Go server around the analyze handlers: the start and the shutdown of *)
(* cmd/server/main.go and the middleware it wraps around the routes         *)
(* (internal/api/middleware.go, metrics.go), from the outside in            *)
(*                                                                          *)
(*   CORS, logging, metrics, bearer token, rate limit, compression,         *)
(*   version, request id, routes.                                           *)
(*                                                                          *)
(* A request passes the chain inwards, is refused on the way or answered by *)
(* a handler, and passes it outwards.  The handlers of POST /v1/analyze and *)
(* its siblings are those of AnalyzeRequest; whether the rate limiter       *)
(* allows a request is left open here (RateLimiter).                        *)
(***************************************************************************)
EXTENDS AnalyzeRequest, Bags

CONSTANTS
  Environments, \* how the process may be configured
  Arrivals      \* the requests met here

\* Environment variables: DEPLOYMENT_MODE, whether ANALYZE_AUTH_TOKEN is set,
\* ANALYZE_RATE_LIMIT_PER_MINUTE and PARSER_CONCURRENCY_LIMIT.
AllEnvironments == [mode : {"development", "production"}, token : BOOLEAN,
                    rate : Int, concurrency : Int]

\* The Origin header: none, one of the allowlist by name or by wildcard, another
\* one, or one in which the two halves of a wildcard overlap.
Origins == {"none", "listed", "wildcard", "unlisted", "overlapping"}

\* The Authorization header: no bearer scheme, another token, the token.
Credentials == {"none", "wrong", "token"}

ASSUME EnvironmentsKnown == Environments \subseteq AllEnvironments
ASSUME ArrivalsKnown ==
  \A a \in Arrivals : a.origin \in Origins /\ a.auth \in Credentials
ASSUME NoneIsNoRecord == None \notin Nat \cup {"unknown"}

VARIABLES
  phase,        \* where main is
  env,          \* the configuration of the process
  authOn,       \* AnalyzeBearerAuthMiddleware is in the chain
  limiterOn,    \* AnalyzeRateLimitMiddleware is in the chain
  timedOut,     \* the graceful shutdown ran into its timeout
  req,          \* the request as it arrived
  stage,        \* where each request is in the chain
  checked,      \* what the rate limiter decided on the request
  fields,       \* parserOutcome of the request's analyzeLogFields
  sent,         \* the status sent to the client
  logged,       \* the parser outcome of the request's log line
  requestTotal, \* the counter request_total: a bag of routes and statuses
  corsRejected  \* the counter cors_rejected_total

serverOnly == <<phase, env, authOn, limiterOn, timedOut, req, stage, checked,
                fields, sent, logged, requestTotal, corsRejected>>
serverVars == <<vars, serverOnly>>

Phases == {"starting", "serving", "draining", "drained", "closed", "exited", "crashed"}

Stages == {"none", "cors", "auth", "limit", "routing", "handler",
           "observing", "logging", "closed"}

\* The status of a connection that the server drops without an answer.
Aborted == 0

-----------------------------------------------------------------------------
(* Routes.                                                                   *)

\* isAnalyzeJSONPath.
AnalyzeJSONPaths == {"/analyze", "/v1/analyze", "/v1/analyse"}

\* isAnalyzePath: the paths that are logged and compressed.
AnalyzePaths == AnalyzeJSONPaths \cup {"/analyze/sarif", "/v1/analyze/sarif"}

\* Faulty variant: a path is added to the routes and not here.
ProtectedPathsIncomplete ==
  AnalyzeJSONPaths \cup {"/analyze/raw", "/v1/analyze/raw", "/analyze/sarif", "/v1/analyze/sarif"}

\* isProtectedAnalyzePath: the paths behind the token and the rate limit.
ProtectedPaths ==
  AnalyzeJSONPaths \cup {"/analyze/raw", "/v1/analyze/raw", "/v1/analyse/raw",
                         "/analyze/sarif", "/v1/analyze/sarif"}

\* RegisterRoutes: the paths of POST with their handler, and the paths of GET.
PostRoutes ==
  [p \in {"/v1/analyze", "/v1/analyse", "/v1/analyze/raw", "/v1/analyse/raw",
          "/v1/analyze/sarif"} |->
     CASE p \in {"/v1/analyze", "/v1/analyse"}         -> "analyze"
       [] p \in {"/v1/analyze/raw", "/v1/analyse/raw"} -> "raw"
       [] OTHER                                        -> "sarif"]

GetPaths == {"/v1/healthz", "/v1/health", "/v1/health/metrics", "/v1/ready",
             "/v1/info", "/v1/metrics", "/v1/internal/metrics", "/v1/rules",
             "/v1/rules/schema", "/v1/diagram-types", "/v1/analyze/help",
             "/v1/spec", "/v1/docs", "/v1/benchmark.html", "/v1/config-versions",
             "/v1/version"}

\* routePatterns: the label a request is counted under.
RouteLabel(a) ==
  IF \/ a.method = "POST" /\ a.path \in DOMAIN PostRoutes
     \/ a.method = "GET" /\ a.path \in GetPaths
  THEN a.path ELSE "unknown"

Protected(a) == a.method = "POST" /\ a.path \in ProtectedPaths

\* The status of an answer of the analyze handlers, by its code.
StatusOf(code) ==
  CASE code \in {"ok", "syntax_error", "unsupported_diagram_type"} -> 200
    [] code = "request_too_large"                                  -> 413
    [] code = "server_busy"                                        -> 503
    [] code = "parser_timeout"                                     -> 504
    [] code \in {"internal_error", "parser_memory_limit", "parser_subprocess_error",
                 "parser_decode_error", "parser_contract_violation"} -> 500
    [] OTHER                                                       -> 400

-----------------------------------------------------------------------------
(* main.                                                                     *)

ServerInit ==
  /\ Init
  /\ phase = "starting"
  /\ env \in Environments
  /\ authOn = FALSE /\ limiterOn = FALSE /\ timedOut = FALSE
  /\ req = [q \in Requests |-> None]
  /\ stage = [q \in Requests |-> "none"]
  /\ checked = [q \in Requests |-> "none"]
  /\ fields = [q \in Requests |-> None]
  /\ sent = [q \in Requests |-> None]
  /\ logged = [q \in Requests |-> None]
  /\ requestTotal = EmptyBag
  /\ corsRejected = 0

\* validateStartupAuthToken.
TokenMissing == env.mode = "production" /\ ~env.token

\* The chain is put together and the server listens; main panics when a
\* production server has no token.
StartUp ==
  /\ phase = "starting"
  /\ limit' = IF env.concurrency < 0 THEN 0 ELSE env.concurrency
  /\ phase' = IF TokenMissing THEN "crashed" ELSE "serving"
  /\ limiterOn' = (~TokenMissing /\ (env.rate > 0 \/ env.mode = "production"))
  /\ authOn' = (~TokenMissing /\ env.mode = "production")
  /\ UNCHANGED <<inFlight, counters, route, pc, holds, outcome, answer>>
  /\ UNCHANGED <<env, timedOut, req, stage, checked, fields, sent, logged,
                 requestTotal, corsRejected>>

\* A step of main that concerns no request.
MainStep(from, to) ==
  /\ phase = from
  /\ phase' = to
  /\ UNCHANGED vars
  /\ UNCHANGED <<env, authOn, limiterOn, req, stage, checked, fields, sent, logged,
                 requestTotal, corsRejected>>

\* ListenAndServe returns an error: main panics.
ListenFails == MainStep("serving", "crashed") /\ UNCHANGED timedOut

\* SIGINT or SIGTERM: server.Shutdown takes no further request.
Signal == MainStep("serving", "draining") /\ UNCHANGED timedOut

AtRest(q) == stage[q] \in {"none", "closed"}

\* Faulty variant: Shutdown is not waited for.
DrainedAtOnce == MainStep("draining", "drained") /\ UNCHANGED timedOut

\* server.Shutdown returns once every request is answered, or with an error after
\* defaultShutdownTimeout; main goes on in both cases.
Drained ==
  /\ \A q \in Requests : AtRest(q)
  /\ MainStep("draining", "drained") /\ UNCHANGED timedOut

DrainTimeout == MainStep("draining", "drained") /\ timedOut' = TRUE

\* p.Close, and main returns: what still runs ends with the process.
CloseParser == MainStep("drained", "closed") /\ UNCHANGED timedOut

Exit == MainStep("closed", "exited") /\ UNCHANGED timedOut

Main == Drained \/ DrainTimeout \/ CloseParser \/ Exit

Alive == phase \in {"serving", "draining", "drained", "closed"}

-----------------------------------------------------------------------------
(* The chain.                                                                *)

At(q, s) == Alive /\ stage[q] = s

\* What the chain leaves alone while a request is on its way.
ChainOnly ==
  /\ UNCHANGED vars
  /\ UNCHANGED <<phase, env, authOn, limiterOn, timedOut>>

ToStage(q, s) == stage' = [stage EXCEPT ![q] = s]

Send(q, status) == sent' = [sent EXCEPT ![q] = status]

\* net/http reads a request and calls the chain in a goroutine.
Arrive(q, a) ==
  /\ phase = "serving"
  /\ stage[q] = "none"
  /\ req' = [req EXCEPT ![q] = a]
  /\ ToStage(q, "cors")
  /\ ChainOnly
  /\ UNCHANGED <<checked, fields, sent, logged, requestTotal, corsRejected>>

\* corsOriginMatcher.isAllowed.
IsAllowed(o) == o \in {"listed", "wildcard"}

\* CORSMiddleware: an allowed preflight is answered here, outside of logging and
\* metrics; a foreign origin is counted and goes on.
CORS(q) ==
  /\ At(q, "cors")
  /\ req[q].origin # "overlapping"
  /\ LET preflight == IsAllowed(req[q].origin) /\ req[q].method = "OPTIONS"
     IN IF preflight THEN Send(q, 204) /\ ToStage(q, "closed")
                     ELSE UNCHANGED sent /\ ToStage(q, "auth")
  /\ corsRejected' = corsRejected + IF req[q].origin = "unlisted" THEN 1 ELSE 0
  /\ ChainOnly
  /\ UNCHANGED <<req, checked, fields, logged, requestTotal>>

\* isAllowed cuts the two halves of a wildcard off an origin in which they
\* overlap: the slice expression panics and net/http drops the connection.
CORSPanics(q) ==
  /\ At(q, "cors")
  /\ req[q].origin = "overlapping"
  /\ Send(q, Aborted)
  /\ ToStage(q, "closed")
  /\ ChainOnly
  /\ UNCHANGED <<req, checked, fields, logged, requestTotal, corsRejected>>

\* AnalyzeBearerAuthMiddleware.
BearerAuth(q) ==
  /\ At(q, "auth")
  /\ IF authOn /\ Protected(req[q]) /\ req[q].auth # "token"
     THEN Send(q, 401) /\ ToStage(q, "observing")
     ELSE UNCHANGED sent /\ ToStage(q, "limit")
  /\ ChainOnly
  /\ UNCHANGED <<req, checked, fields, logged, requestTotal, corsRejected>>

\* AnalyzeRateLimitMiddleware: Check allows the request or not.
RateLimit(q) ==
  /\ At(q, "limit")
  /\ \/ /\ ~(limiterOn /\ Protected(req[q]))
        /\ ToStage(q, "routing")
        /\ UNCHANGED <<checked, sent>>
     \/ /\ limiterOn /\ Protected(req[q])
        /\ checked' = [checked EXCEPT ![q] = "allowed"]
        /\ ToStage(q, "routing")
        /\ UNCHANGED sent
     \/ /\ limiterOn /\ Protected(req[q])
        /\ checked' = [checked EXCEPT ![q] = "refused"]
        /\ Send(q, 429)
        /\ ToStage(q, "observing")
  /\ ChainOnly
  /\ UNCHANGED <<req, fields, logged, requestTotal, corsRejected>>

\* The version and the request id are set and the route is an analyze handler.
RouteToAnalyze(q) ==
  /\ At(q, "routing")
  /\ req[q].method = "POST" /\ req[q].path \in DOMAIN PostRoutes
  /\ Receive(q, PostRoutes[req[q].path])
  /\ ToStage(q, "handler")
  /\ UNCHANGED <<phase, env, authOn, limiterOn, timedOut, req, checked, fields,
                 sent, logged, requestTotal, corsRejected>>

\* The other routes answer at once; /v1/ready may find the parser not ready.
\* Go's mux gives a HEAD request to the handler for GET.  A path registered for
\* another method only is 405, any other one 404.
OtherStatuses(a) ==
  LET get == a.method \in {"GET", "HEAD"} IN
  CASE get /\ a.path = "/v1/ready"                -> {200, 503}
    [] get /\ a.path \in GetPaths                 -> {200}
    [] a.path \in GetPaths \cup DOMAIN PostRoutes -> {405}
    [] OTHER                                      -> {404}

RouteElsewhere(q) ==
  /\ At(q, "routing")
  /\ ~(req[q].method = "POST" /\ req[q].path \in DOMAIN PostRoutes)
  /\ \E s \in OtherStatuses(req[q]) : Send(q, s)
  /\ ToStage(q, "observing")
  /\ ChainOnly
  /\ UNCHANGED <<req, checked, fields, logged, requestTotal, corsRejected>>

\* A step of the handler.  From the parser's answer on, each outcome but that of
\* refused parser settings is also left in the fields of the log line.
HandlerStep(q) ==
  /\ At(q, "handler")
  /\ Handling(q)
  /\ fields' = [fields EXCEPT ![q] =
                  IF /\ pc[q] \in {"parsing", "linting"}
                     /\ answer'[q] \notin {None, "invalid_option"}
                  THEN IF answer'[q] = "unsupported_diagram_type" THEN answer'[q]
                                                                  ELSE outcome'[q]
                  ELSE @]
  /\ UNCHANGED <<phase, env, authOn, limiterOn, timedOut, req, stage, checked, sent,
                 logged, requestTotal, corsRejected>>

\* The handler has returned; AnalyzeResponseCompressionMiddleware sends what it
\* has buffered, with the handler's status.
HandlerReturned(q) ==
  /\ At(q, "handler")
  /\ pc[q] = "done"
  /\ answer[q] # None
  /\ Send(q, StatusOf(answer[q]))
  /\ ToStage(q, "observing")
  /\ ChainOnly
  /\ UNCHANGED <<req, checked, fields, logged, requestTotal, corsRejected>>

\* The handler has panicked: what is buffered is lost, and no middleware observes
\* anything on the way out.
HandlerPanicked(q) ==
  /\ At(q, "handler")
  /\ pc[q] = "done"
  /\ answer[q] = None
  /\ Send(q, Aborted)
  /\ ToStage(q, "closed")
  /\ ChainOnly
  /\ UNCHANGED <<req, checked, fields, logged, requestTotal, corsRejected>>

\* Faulty variant: the recorder keeps its initial status.
ObserveHTTPRequestAsOK(q) ==
  /\ At(q, "observing")
  /\ requestTotal' = requestTotal (+) SetToBag({<<RouteLabel(req[q]), 200>>})
  /\ ToStage(q, "logging")
  /\ ChainOnly
  /\ UNCHANGED <<req, checked, fields, sent, logged, corsRejected>>

\* MetricsMiddleware, with the status its statusRecorder has seen.
ObserveHTTPRequest(q) ==
  /\ At(q, "observing")
  /\ requestTotal' = requestTotal (+) SetToBag({<<RouteLabel(req[q]), sent[q]>>})
  /\ ToStage(q, "logging")
  /\ ChainOnly
  /\ UNCHANGED <<req, checked, fields, sent, logged, corsRejected>>

\* AnalyzeLoggingMiddleware.
Log(q) ==
  /\ At(q, "logging")
  /\ logged' = [logged EXCEPT ![q] =
                  IF req[q].path \notin AnalyzePaths THEN None
                  ELSE IF fields[q] = None THEN "unknown" ELSE fields[q]]
  /\ ToStage(q, "closed")
  /\ ChainOnly
  /\ UNCHANGED <<req, checked, fields, sent, requestTotal, corsRejected>>

Serving(q) ==
  \/ CORS(q) \/ CORSPanics(q)
  \/ BearerAuth(q)
  \/ RateLimit(q)
  \/ RouteToAnalyze(q) \/ RouteElsewhere(q)
  \/ HandlerStep(q)
  \/ HandlerReturned(q) \/ HandlerPanicked(q)
  \/ ObserveHTTPRequest(q)
  \/ Log(q)

\* SetParserConcurrencyLimit, while requests are served.
Reconfigure(n) == Alive /\ SetLimit(n) /\ UNCHANGED serverOnly

ServerNext ==
  \/ StartUp \/ ListenFails \/ Signal \/ Main
  \/ \E n \in Limits : Reconfigure(n)
  \/ \E q \in Requests : (\E a \in Arrivals : Arrive(q, a)) \/ Serving(q)

\* Goroutines of requests run on; main's calls return, that of server.Shutdown
\* because its context has a timeout.
ServerFairness == WF_serverVars(Main) /\ \A q \in Requests : WF_serverVars(Serving(q))

ServerSpec == ServerInit /\ [][ServerNext]_serverVars /\ ServerFairness

-----------------------------------------------------------------------------
(* Properties                                                                *)

\* The type of the state that is not the handlers'.
ServerTypeOK ==
  /\ phase \in Phases /\ env \in Environments
  /\ authOn \in BOOLEAN /\ limiterOn \in BOOLEAN /\ timedOut \in BOOLEAN
  /\ req \in [Requests -> Arrivals \cup {None}]
  /\ stage \in [Requests -> Stages]
  /\ checked \in [Requests -> {"none", "allowed", "refused"}]
  /\ fields \in [Requests -> Outcomes \cup {"unsupported_diagram_type", None}]
  /\ sent \in [Requests -> Nat \cup {None}]
  /\ logged \in [Requests -> Outcomes \cup {"unsupported_diagram_type", "unknown", None}]
  /\ IsABag(requestTotal) /\ corsRejected \in Nat

\* No analyze handler is reached past a gate that is in the chain: whatever its
\* path, a handled request has shown the token and been allowed by the rate
\* limiter; a request without the token never costs a client part of its budget;
\* and a production server has both gates, also when no rate is configured.
GateHolds ==
  /\ \A q \in Requests :
       /\ route[q] # None => /\ authOn => req[q].auth = "token"
                             /\ limiterOn => checked[q] = "allowed"
       /\ checked[q] # "none" /\ authOn => req[q].auth = "token"
  /\ Alive /\ env.mode = "production" => authOn /\ limiterOn

\* The requests that have passed MetricsMiddleware on their way out.
Observed == {q \in Requests : \/ stage[q] = "logging"
                              \/ stage[q] = "closed" /\ sent[q] # Aborted
                                 /\ sent[q] # 204}

\* The three records of a request agree: request_total holds, for each route and
\* status, the requests answered so, those refused by a gate included and dropped
\* connections and preflights excluded; the analyze outcomes are those of the
\* requests counted under an analyze route and refused by no gate, each counted once
\* and under the outcome its answer belongs to; and the outcome in a log line is the
\* one that was counted.
RequestsRecorded ==
  /\ ServerTypeOK
  /\ CountersMatchAnswers
  /\ LET Label(q) == <<RouteLabel(req[q]), sent[q]>>
     IN  requestTotal = [l \in {Label(q) : q \in Observed} |->
                           Cardinality({q \in Observed : Label(q) = l})]
  /\ \A q \in Observed :
       outcome[q] # None <=> /\ req[q].method = "POST"
                             /\ RouteLabel(req[q]) # "unknown"
                             /\ sent[q] \notin {401, 429}
  /\ \A q \in Requests : logged[q] \notin {None, "unknown"}
                           => CanonicalOutcome(logged[q]) = outcome[q]
  /\ \A q \in Requests : logged[q] = "unknown" => sent[q] # 200

\* A server told to stop does exit, and with requests unanswered only when the
\* graceful shutdown has run into its timeout: neither the closing of the parser
\* nor the exit of main overtakes a request.
ShutdownOrderly ==
  (phase = "draining") ~>
    (phase = "exited" /\ (timedOut \/ \A q \in Requests : AtRest(q)))

=============================================================================
