--------------------------- MODULE HTTPServerProofs ---------------------------
(***************************************************************************)
(* The server and its command line client, for any set of requests,         *)
(* arrivals, environments and invocations, in five parts that rest on one   *)
(* another.                                                                 *)
(*                                                                          *)
(*  - The parser slots (SlotInv).  SlotsExact alone is not inductive: a     *)
(*    request about to be admitted must not hold a slot already.            *)
(*  - The gates (GateInv): what a request has shown at each stage before    *)
(*    its handler, that no request has arrived while the chain is put       *)
(*    together, and that every route of a handler is a protected path.      *)
(*  - The answers of the handlers (AnswerInv): where a request has an       *)
(*    answer, and that the outcome counted with it is the answer's.         *)
(*  - The records (ShapesInv, RequestsTallied): what has been sent, left in *)
(*    the log fields and counted, by the stage a request is at.  Each step  *)
(*    is one request's, so the shape is shown of that one, and of the       *)
(*    others because all of it depends on a request's own entries.          *)
(*  - The client (ClientInv): its results are those of requests that are    *)
(*    answered, and what the server has answered it never takes back.       *)
(***************************************************************************)
EXTENDS CommandLine, FiniteSetTheorems, TLAPS

-----------------------------------------------------------------------------
(* The parser slots.                                                         *)

\* A step of a handler, or a new limit.
HandlersNext ==
  \/ \E n \in Int : SetLimit(n)
  \/ \E q \in Requests : (\E r \in AllRoutes : Receive(q, r)) \/ Handling(q)

\* A slot is held only between the admission of a request and its return.
Shape ==
  /\ limit \in Nat
  /\ inFlight \in Nat
  /\ pc \in [Requests -> PCs]
  /\ holds \in [Requests -> BOOLEAN]
  /\ \A q \in Requests : pc[q] \in {"new", "reading", "admitting", "done"} => ~holds[q]

SlotInv == Shape /\ SlotsExact

\* What a step that neither takes nor frees a slot does to the slots.
Keeps(q) ==
  /\ \E l \in {"reading", "admitting", "linting", "writing", "returning", "panicked"} :
       /\ pc' = [pc EXCEPT ![q] = l]
       /\ l \in {"reading", "admitting"} => pc[q] \in {"new", "reading"}
  /\ UNCHANGED <<limit, inFlight, holds>>

\* The requests that hold a slot are finitely many.
LEMMA RunningFinite == IsFiniteSet(Running)
  BY RequestsFinite, FS_Subset DEF Running

\* Every step of a handler but the two that take and free a slot keeps the slots.
LEMMA HandlingKeeps ==
  ASSUME Shape, NEW q \in Requests,
         (\E r \in AllRoutes : Receive(q, r)) \/ Handling(q)
  PROVE  Keeps(q) \/ Admit(q) \/ Return(q)
  <1>1. ASSUME NEW r \in AllRoutes, Receive(q, r) PROVE Keeps(q)
    BY <1>1 DEF Receive, Keeps, Goto
  <1>2. ASSUME NEW code \in BadInputs, RefuseInput(q, code) PROVE Keeps(q)
    BY <1>2 DEF RefuseInput, ObserveAndAnswer, Keeps, Goto
  <1>3. CASE AcceptInput(q)
    BY <1>3 DEF AcceptInput, Keeps, Goto
  <1>4. CASE Busy(q)
    BY <1>4 DEF Busy, ObserveAndAnswer, Keeps, Goto
  <1>5. ASSUME NEW p \in ParseResults, ParseEndsRequest(q, p) PROVE Keeps(q)
    <2>1. /\ pc' = [pc EXCEPT ![q] = "writing"]
          /\ UNCHANGED <<limit, inFlight, holds>>
      BY <1>5 DEF ParseEndsRequest, ObserveAndAnswer, Goto
    <2> QED BY <2>1 DEF Keeps
  <1>6. CASE ParseYieldsDiagram(q)
    BY <1>6 DEF ParseYieldsDiagram, Keeps, Goto
  <1>7. CASE Lint(q)
    BY <1>7 DEF Lint, ObserveAndAnswer, Keeps, Goto
  <1>8. CASE Panic(q)
    BY <1>8 DEF Panic, Keeps, Goto
  <1>9. CASE WriteAnswer(q)
    BY <1>9 DEF WriteAnswer, Keeps, Goto
  <1> QED
    BY <1>1, <1>2, <1>3, <1>4, <1>5, <1>6, <1>7, <1>8, <1>9
    DEF Handling, AnalyzeRefuses, RawRefuses, SARIFRefuses, AnalyzeParsed, RawParsed,
        SARIFParsed, AnalyzeLints, RawLints, SARIFLints

\* The kinds of step, as far as the slots are concerned.
LEMMA StepKinds ==
  ASSUME Shape, [HandlersNext]_vars
  PROVE  \/ \E n \in Int : SetLimit(n)
         \/ \E q \in Requests : Keeps(q) \/ Admit(q) \/ Return(q)
         \/ UNCHANGED vars
  BY HandlingKeeps DEF HandlersNext

\* A step that keeps the slots preserves the shape.
LEMMA KeepsShape ==
  ASSUME Shape, NEW q \in Requests, Keeps(q)
  PROVE  Shape' /\ Running' = Running
  <1>1. PICK l \in {"reading", "admitting", "linting", "writing", "returning", "panicked"} :
          /\ pc' = [pc EXCEPT ![q] = l]
          /\ l \in {"reading", "admitting"} => pc[q] \in {"new", "reading"}
    BY DEF Keeps
  <1>2. holds' = holds /\ limit' = limit /\ inFlight' = inFlight
    BY DEF Keeps
  <1>3. pc' \in [Requests -> PCs]
    BY <1>1 DEF Shape, PCs
  <1>4. \A p \in Requests : pc'[p] \in {"new", "reading", "admitting", "done"} => ~holds[p]
    BY <1>1 DEF Shape
  <1> QED BY <1>2, <1>3, <1>4 DEF Shape, Running

\* The invariant holds initially.
LEMMA SlotsInit == Init => SlotInv
  <1> SUFFICES ASSUME Init PROVE SlotInv
    OBVIOUS
  <1>1. Shape
    BY DEF Init, Shape, PCs
  <1>2. Running = {}
    BY DEF Init, Running
  <1> QED BY <1>1, <1>2, FS_EmptySet DEF SlotInv, SlotsExact, Init

\* Every step preserves it.
LEMMA SlotsNext == SlotInv /\ [HandlersNext]_vars => SlotInv'
  <1> SUFFICES ASSUME SlotInv, [HandlersNext]_vars PROVE SlotInv'
    OBVIOUS
  <1> USE DEF SlotInv
  <1>1. ASSUME NEW n \in Int, SetLimit(n) PROVE SlotInv'
    <2>1. limit' \in Nat
      BY <1>1 DEF SetLimit
    <2>2. UNCHANGED <<inFlight, pc, holds>>
      BY <1>1 DEF SetLimit
    <2> QED BY <2>1, <2>2 DEF Shape, SlotsExact, Running
  <1>2. ASSUME NEW q \in Requests, Keeps(q) PROVE SlotInv'
    BY <1>2, KeepsShape DEF SlotsExact, Keeps
  <1>3. ASSUME NEW q \in Requests, Admit(q) PROVE SlotInv'
    <2>1. /\ pc[q] = "admitting" /\ pc' = [pc EXCEPT ![q] = "parsing"]
          /\ holds' = [holds EXCEPT ![q] = TRUE]
          /\ inFlight' = inFlight + 1 /\ limit' = limit
      BY <1>3 DEF Admit, Goto
    <2>2. holds' \in [Requests -> BOOLEAN] /\ ~holds[q]
      BY <2>1 DEF Shape
    <2>3. Shape'
      BY <2>1, <2>2 DEF Shape, PCs
    <2>4. Running' = Running \cup {q} /\ q \notin Running
      BY <2>1, <2>2, Zenon DEF Running, Shape
    <2>5. Cardinality(Running') = Cardinality(Running) + 1
      BY <2>4, RunningFinite, FS_AddElement
    <2> QED BY <2>1, <2>3, <2>5 DEF SlotsExact
  <1>4. ASSUME NEW q \in Requests, Return(q) PROVE SlotInv'
    <2>1. /\ pc' = [pc EXCEPT ![q] = "done"]
          /\ holds' = [holds EXCEPT ![q] = FALSE]
          /\ limit' = limit
      BY <1>4 DEF Return, Goto
    <2>2. Running' = Running \ {q}
      BY <2>1, Zenon DEF Running, Shape
    <2>3. Cardinality(Running) \in Nat
      BY RunningFinite, FS_CardinalityType
    <2>4. inFlight' \in Nat /\ inFlight' = Cardinality(Running')
      <3>1. CASE holds[q]
        <4>1. q \in Running
          BY <3>1 DEF Running
        <4>2. Cardinality(Running') = Cardinality(Running) - 1
          BY <2>2, <4>1, RunningFinite, FS_RemoveElement
        <4>3. Cardinality(Running) # 0
          BY <4>1, RunningFinite, FS_EmptySet
        <4>4. inFlight' = inFlight - 1
          BY <1>4, <3>1, <4>3 DEF Return, Release, SlotsExact
        <4> QED BY <2>3, <4>2, <4>3, <4>4 DEF SlotsExact
      <3>2. CASE ~holds[q]
        <4>1. Running' = Running
          BY <2>2, <3>2 DEF Running
        <4>2. inFlight' = inFlight
          BY <1>4, <3>2 DEF Return
        <4> QED BY <2>3, <4>1, <4>2 DEF SlotsExact
      <3> QED BY <3>1, <3>2
    <2>5. holds' \in [Requests -> BOOLEAN]
      BY <2>1 DEF Shape
    <2>6. Shape'
      BY <2>1, <2>4, <2>5 DEF Shape, PCs
    <2> QED BY <2>4, <2>6 DEF SlotsExact
  <1>5. CASE UNCHANGED vars
    BY <1>5 DEF vars, Shape, SlotsExact, Running
  <1> QED
    BY <1>1, <1>2, <1>3, <1>4, <1>5, StepKinds

\* While the limit stays the same, no step lets more requests run than it allows.
LEMMA CapStep ==
  ASSUME SlotInv, [HandlersNext]_vars, limit > 0, limit' = limit,
         Cardinality(Running) <= limit
  PROVE  Cardinality(Running') <= limit
  <1>1. ASSUME NEW n \in Int, SetLimit(n) PROVE Cardinality(Running') <= limit
    BY <1>1 DEF SetLimit, Running
  <1>2. ASSUME NEW q \in Requests, Keeps(q) PROVE Cardinality(Running') <= limit
    BY <1>2, KeepsShape DEF SlotInv
  <1>3. ASSUME NEW q \in Requests, Admit(q) PROVE Cardinality(Running') <= limit
    <2>1. ~Full /\ inFlight' = inFlight + 1
      BY <1>3 DEF Admit
    <2>2. SlotInv'
      BY SlotsNext
    <2> QED BY <2>1, <2>2 DEF SlotInv, SlotsExact, Shape, Full
  <1>4. ASSUME NEW q \in Requests, Return(q) PROVE Cardinality(Running') <= limit
    <2>1. inFlight' <= inFlight
      BY <1>4 DEF Return, Release, SlotInv, Shape
    <2>2. SlotInv'
      BY SlotsNext
    <2> QED BY <2>1, <2>2 DEF SlotInv, SlotsExact, Shape
  <1>5. CASE UNCHANGED vars
    BY <1>5 DEF vars, Running
  <1> QED
    BY <1>1, <1>2, <1>3, <1>4, <1>5, StepKinds DEF SlotInv

\* Every step of the handlers' own specification is one of theirs.
LEMMA NextHandles == [Next]_vars => [HandlersNext]_vars
  BY RoutesKnown, LimitsAreInt DEF Next, HandlersNext

\* parserConcurrencyLimiter: the count is the number of requests that hold a slot,
\* whatever limits are set while they run, and a limit that is reapplied is never
\* exceeded.
THEOREM SlotsCounted == Spec => []SlotsExact
  <1>1. SlotInv => SlotsExact
    BY DEF SlotInv
  <1> QED BY <1>1, SlotsInit, SlotsNext, NextHandles, PTL DEF Spec

\* CapKept (FLOW-CONTROL-001): while the limit stays the same, no step of a handler
\* and no call of SetParserConcurrencyLimit lets more requests run than it allows.
THEOREM CapNeverExceeded == Spec => CapKept
  <1>1. SlotInv /\ [HandlersNext]_vars =>
          [limit > 0 /\ limit' = limit /\ Cardinality(Running) <= limit
             => Cardinality(Running') <= limit]_vars
    BY CapStep
  <1> QED BY <1>1, SlotsInit, SlotsNext, NextHandles, PTL DEF Spec, CapKept

-----------------------------------------------------------------------------
(* The handlers inside of the server.                                        *)

\* The configuration of the process is the one it was started with.
LEMMA ServerKeepsEnv ==
  ASSUME env \in Environments, [ServerNext]_serverVars
  PROVE  env' \in Environments
  BY DEF ServerNext, serverVars, serverOnly, StartUp, ListenFails, Signal, Main, Drained,
         DrainTimeout, CloseParser, Exit, MainStep, Reconfigure, Arrive, Serving, CORS,
         CORSPanics, BearerAuth, RateLimit, RouteToAnalyze, RouteElsewhere, HandlerStep,
         HandlerReturned, HandlerPanicked, ObserveHTTPRequest, Log, ChainOnly

\* Every path with an analyze handler is behind the gates, and its route is one.
LEMMA RoutesProtected ==
  ASSUME NEW p \in DOMAIN PostRoutes
  PROVE  p \in ProtectedPaths /\ PostRoutes[p] \in AllRoutes
  BY DEF PostRoutes, ProtectedPaths, AnalyzeJSONPaths, AllRoutes

\* A step of the server is a step of the handlers, or concerns none of them.
LEMMA ServerHandles ==
  ASSUME env \in Environments, [ServerNext]_serverVars
  PROVE  [HandlersNext]_vars
  <1>1. CASE UNCHANGED serverVars
    BY <1>1 DEF serverVars
  <1>2. CASE StartUp
    <2>1. env.concurrency \in Int
      BY EnvironmentsKnown DEF AllEnvironments
    <2>2. SetLimit(env.concurrency)
      BY <1>2 DEF StartUp, SetLimit
    <2> QED BY <2>1, <2>2 DEF HandlersNext
  <1>3. CASE ListenFails \/ Signal \/ Main
    BY <1>3 DEF ListenFails, Signal, Main, Drained, DrainTimeout, CloseParser, Exit, MainStep
  <1>4. ASSUME NEW n \in Limits, Reconfigure(n) PROVE HandlersNext
    BY <1>4, LimitsAreInt DEF Reconfigure, HandlersNext
  <1>5. ASSUME NEW q \in Requests, NEW a \in Arrivals, Arrive(q, a) PROVE UNCHANGED vars
    BY <1>5 DEF Arrive, ChainOnly
  <1>6. ASSUME NEW q \in Requests, Serving(q) PROVE [HandlersNext]_vars
    <2>1. CASE RouteToAnalyze(q)
      BY <2>1, RoutesProtected DEF RouteToAnalyze, HandlersNext
    <2>2. CASE HandlerStep(q)
      BY <2>2 DEF HandlerStep, HandlersNext
    <2>3. CASE ~RouteToAnalyze(q) /\ ~HandlerStep(q)
      BY <1>6, <2>3 DEF Serving, CORS, CORSPanics, BearerAuth, RateLimit, RouteElsewhere,
         HandlerReturned, HandlerPanicked, ObserveHTTPRequest, Log, ChainOnly
    <2> QED BY <2>1, <2>2, <2>3
  <1> QED BY <1>1, <1>2, <1>3, <1>4, <1>5, <1>6 DEF ServerNext

\* The same two properties of the limiter in the server, where it is set at the start
\* and the handlers run behind the middleware: also requests that the shutdown
\* overtakes hold a slot that is counted.
THEOREM ServerSlots == ServerSpec => []SlotsExact /\ CapKept
  <1> DEFINE I == SlotInv /\ env \in Environments
  <1>1. ServerInit => I
    BY SlotsInit DEF ServerInit
  <1>2. I /\ [ServerNext]_serverVars => I'
    BY SlotsNext, ServerHandles, ServerKeepsEnv
  <1>3. I => SlotsExact
    BY DEF SlotInv
  <1>4. I /\ [ServerNext]_serverVars =>
          [limit > 0 /\ limit' = limit /\ Cardinality(Running) <= limit
             => Cardinality(Running') <= limit]_vars
    BY CapStep, ServerHandles
  <1> HIDE DEF I
  <1> QED BY <1>1, <1>2, <1>3, <1>4, PTL DEF ServerSpec, CapKept

-----------------------------------------------------------------------------
(* The gates.                                                                *)

\* The functions and switches that the gates depend on.
GateTypes ==
  /\ stage \in [Requests -> Stages]
  /\ checked \in [Requests -> {"none", "allowed", "refused"}]
  /\ route \in [Requests -> AllRoutes \cup {None}]
  /\ DOMAIN req = Requests

\* The token is shown by a protected request that is past the first gate.
Shown(q) == authOn /\ Protected(req[q]) => req[q].auth = "token"

\* The rate limiter has allowed a protected request that is past the second one.
Allowed(q) == limiterOn /\ Protected(req[q]) => checked[q] = "allowed"

\* What a request on its way in has passed.
PassedGates ==
  \A q \in Requests :
    /\ stage[q] \in {"none", "cors", "auth", "limit"} => checked[q] = "none"
    /\ stage[q] \in {"none", "cors", "auth", "limit", "routing"} => route[q] = None
    /\ stage[q] \in {"limit", "routing"} => Shown(q)
    /\ stage[q] = "routing" => Allowed(q)

\* The chain is put together before the first request arrives.
GatesSettled == phase = "starting" => \A q \in Requests : stage[q] = "none"

GateInv == GateTypes /\ PassedGates /\ GatesSettled /\ GateHolds

\* No step of a handler changes the route of a request.
LEMMA HandlingKeepsRoute ==
  ASSUME NEW q \in Requests, Handling(q)
  PROVE  route' = route
  BY DEF Handling, AnalyzeRefuses, RawRefuses, SARIFRefuses, RefuseInput, AcceptInput,
         Busy, Admit, AnalyzeParsed, RawParsed, SARIFParsed, ParseEndsRequest,
         ParseYieldsDiagram, AnalyzeLints, RawLints, SARIFLints, Lint, Panic,
         WriteAnswer, Return

\* No gate has been passed before the first request arrives.
LEMMA InitGateInv == ASSUME ServerInit PROVE GateInv
  BY DEF ServerInit, Init, GateInv, GateTypes, PassedGates, GatesSettled, GateHolds,
         Stages, Alive

\* A step after which the requests, what the gates know of them and the gates are
\* as before keeps the invariant.
LEMMA ElsewhereKeeps ==
  ASSUME GateInv, UNCHANGED <<req, stage, checked, route, authOn, limiterOn, env>>,
         phase' = "starting" => phase = "starting",
         Alive' => Alive
  PROVE  GateInv'
  BY DEF GateInv, GateTypes, PassedGates, GatesSettled, GateHolds, Shown, Allowed

\* A request that goes on to a stage outside of the gates, with the gates and
\* everything they know as before.
LEMMA PastGatesKeeps ==
  ASSUME GateInv, Alive, NEW q \in Requests, NEW s \in {"observing", "logging", "closed"},
         stage' = [stage EXCEPT ![q] = s],
         UNCHANGED <<req, checked, route, authOn, limiterOn, env, phase>>
  PROVE  GateInv'
  BY DEF GateInv, GateTypes, PassedGates, GatesSettled, GateHolds, Shown, Allowed, Stages,
         Alive

\* The gates are put in place.
LEMMA StartUpKeeps == ASSUME GateInv, StartUp PROVE GateInv'
  <1>1. \A q \in Requests : /\ stage[q] = "none" /\ stage'[q] = "none"
                            /\ checked'[q] = "none" /\ route'[q] = None
    BY DEF GateInv, StartUp, GatesSettled, PassedGates
  <1>2. GateTypes'
    BY DEF GateInv, GateTypes, StartUp
  <1>3. PassedGates'
    BY <1>1 DEF PassedGates
  <1>4. GatesSettled'
    BY <1>1 DEF GatesSettled
  <1>5. (Alive /\ env.mode = "production" => authOn /\ limiterOn)'
    BY DEF StartUp, Alive
  <1>6. GateHolds'
    BY <1>1, <1>5 DEF GateHolds
  <1> QED BY <1>2, <1>3, <1>4, <1>6 DEF GateInv

\* A request arrives: it has passed nothing.
LEMMA ArriveKeeps ==
  ASSUME GateInv, NEW q \in Requests, NEW a \in Arrivals, Arrive(q, a) PROVE GateInv'
  <1> USE DEF GateInv, Arrive, ChainOnly, vars, ToStage
  <1>1. GateTypes'
    BY DEF GateTypes, Stages
  <1>2. PassedGates'
    BY DEF PassedGates, GateTypes, Shown, Allowed
  <1>3. GatesSettled'
    BY DEF GatesSettled
  <1>4. GateHolds'
    BY DEF GateHolds, PassedGates, GateTypes, Alive
  <1> QED BY <1>1, <1>2, <1>3, <1>4

\* A request meets the bearer token's gate, or that of its origin before.
LEMMA FirstGateKeeps ==
  ASSUME GateInv, NEW q \in Requests, CORS(q) \/ CORSPanics(q) \/ BearerAuth(q)
  PROVE  GateInv'
  <1> USE DEF GateInv, ChainOnly, vars, ToStage, At
  <1>0. Alive /\ UNCHANGED <<req, checked, route, authOn, limiterOn, env, phase>>
    BY DEF CORS, CORSPanics, BearerAuth
  <1>1. CASE \E s \in {"observing", "closed"} : stage' = [stage EXCEPT ![q] = s]
    BY <1>0, <1>1, PastGatesKeeps
  <1>2. CASE stage[q] = "cors" /\ stage' = [stage EXCEPT ![q] = "auth"]
    BY <1>0, <1>2 DEF GateTypes, PassedGates, GatesSettled, GateHolds, Shown, Allowed,
                      Stages, Alive
  <1>3. CASE stage[q] = "auth" /\ Shown(q) /\ stage' = [stage EXCEPT ![q] = "limit"]
    BY <1>0, <1>3 DEF GateTypes, PassedGates, GatesSettled, GateHolds, Shown, Allowed,
                      Stages, Alive
  <1> QED BY <1>1, <1>2, <1>3 DEF CORS, CORSPanics, BearerAuth, Shown

\* A request meets the rate limiter.
LEMMA RateLimitKeeps ==
  ASSUME GateInv, NEW q \in Requests, RateLimit(q) PROVE GateInv'
  <1> USE DEF GateInv, ChainOnly, vars, ToStage, At
  <1>1. /\ Alive /\ stage[q] = "limit" /\ Shown(q) /\ route[q] = None
        /\ UNCHANGED <<req, route, authOn, limiterOn, env, phase>>
    BY DEF RateLimit, PassedGates
  <1>2. CASE /\ ~(limiterOn /\ Protected(req[q]))
             /\ stage' = [stage EXCEPT ![q] = "routing"] /\ checked' = checked
    BY <1>1, <1>2 DEF GateTypes, PassedGates, GatesSettled, GateHolds, Shown, Allowed,
                      Stages, Alive
  <1>3. CASE /\ limiterOn /\ Protected(req[q])
             /\ checked' = [checked EXCEPT ![q] = "allowed"]
             /\ stage' = [stage EXCEPT ![q] = "routing"]
    BY <1>1, <1>3 DEF GateTypes, PassedGates, GatesSettled, GateHolds, Shown, Allowed,
                      Stages, Alive
  <1>4. CASE /\ limiterOn /\ Protected(req[q])
             /\ checked' = [checked EXCEPT ![q] = "refused"]
             /\ stage' = [stage EXCEPT ![q] = "observing"]
    BY <1>1, <1>4 DEF GateTypes, PassedGates, GatesSettled, GateHolds, Shown, Allowed,
                      Stages, Alive
  <1> QED BY <1>2, <1>3, <1>4 DEF RateLimit

\* A request reaches its handler: its path is protected, so both gates are behind it.
LEMMA RouteKeeps ==
  ASSUME GateInv, NEW q \in Requests, RouteToAnalyze(q) PROVE GateInv'
  <1> DEFINE r == PostRoutes[req[q].path]
  <1>1. /\ Alive /\ stage[q] = "routing" /\ Shown(q) /\ Allowed(q)
        /\ stage' = [stage EXCEPT ![q] = "handler"]
        /\ route' = [route EXCEPT ![q] = r]
        /\ UNCHANGED <<req, checked, authOn, limiterOn, env, phase>>
    BY DEF GateInv, RouteToAnalyze, Receive, ToStage, At, PassedGates
  <1>2. r \in AllRoutes /\ Protected(req[q])
    BY RoutesProtected DEF RouteToAnalyze, Protected
  <1>3. (authOn => req[q].auth = "token") /\ (limiterOn => checked[q] = "allowed")
    BY <1>1, <1>2 DEF Shown, Allowed
  <1> HIDE DEF r
  <1>4. GateTypes'
    BY <1>1, <1>2 DEF GateInv, GateTypes, Stages
  <1>5. PassedGates'
    BY <1>1 DEF GateInv, PassedGates, GateTypes, Shown, Allowed
  <1>6. GatesSettled'
    BY <1>1 DEF GatesSettled, Alive
  <1>7. GateHolds'
    BY <1>1, <1>3 DEF GateInv, GateHolds, GateTypes, Alive
  <1> QED BY <1>4, <1>5, <1>6, <1>7 DEF GateInv

\* Every step of the server keeps the invariant.
LEMMA NextGateInv == ASSUME GateInv, [ServerNext]_serverVars PROVE GateInv'
  <1>1. CASE UNCHANGED serverVars
    BY <1>1, ElsewhereKeeps DEF serverVars, serverOnly, vars, Alive
  <1>2. CASE StartUp
    BY <1>2, StartUpKeeps
  <1>3. CASE ListenFails \/ Signal \/ Main
    <2>1. /\ UNCHANGED <<req, stage, checked, route, authOn, limiterOn, env>>
          /\ phase' # "starting" /\ Alive
      BY <1>3 DEF ListenFails, Signal, Main, Drained, DrainTimeout, CloseParser, Exit,
                  MainStep, vars, Alive
    <2> QED BY <2>1, ElsewhereKeeps
  <1>4. ASSUME NEW n \in Limits, Reconfigure(n) PROVE GateInv'
    BY <1>4, ElsewhereKeeps DEF Reconfigure, SetLimit, serverOnly, Alive
  <1>5. ASSUME NEW q \in Requests, NEW a \in Arrivals, Arrive(q, a) PROVE GateInv'
    BY <1>5, ArriveKeeps
  <1>6. ASSUME NEW q \in Requests, Serving(q) PROVE GateInv'
    <2>1. CASE CORS(q) \/ CORSPanics(q) \/ BearerAuth(q)
      BY <2>1, FirstGateKeeps
    <2>2. CASE RateLimit(q)
      BY <2>2, RateLimitKeeps
    <2>3. CASE RouteToAnalyze(q)
      BY <2>3, RouteKeeps
    <2>4. CASE HandlerStep(q)
      <3>1. route' = route
        BY <2>4, HandlingKeepsRoute DEF HandlerStep
      <3> QED BY <2>4, <3>1, ElsewhereKeeps DEF HandlerStep, At, Alive
    <2>5. CASE \/ RouteElsewhere(q) \/ HandlerReturned(q) \/ HandlerPanicked(q)
               \/ ObserveHTTPRequest(q) \/ Log(q)
      <3>1. /\ Alive
            /\ \E s \in {"observing", "logging", "closed"} : stage' = [stage EXCEPT ![q] = s]
            /\ UNCHANGED <<req, checked, route, authOn, limiterOn, env, phase>>
        BY <2>5 DEF RouteElsewhere, HandlerReturned, HandlerPanicked, ObserveHTTPRequest,
                    Log, At, ToStage, ChainOnly, vars
      <3> QED BY <3>1, PastGatesKeeps
    <2> QED BY <1>6, <2>1, <2>2, <2>3, <2>4, <2>5 DEF Serving
  <1> QED BY <1>1, <1>2, <1>3, <1>4, <1>5, <1>6 DEF ServerNext

\* GateHolds (middleware.go, main.go): in every run of the server, no analyze
\* handler is reached past the token or the rate limiter, and no request without
\* the token costs a client part of its budget.
THEOREM GatesHold == ServerSpec => []GateHolds
  <1>1. ServerInit => GateInv
    BY InitGateInv
  <1>2. GateInv /\ [ServerNext]_serverVars => GateInv'
    BY NextGateInv
  <1>3. GateInv => GateHolds
    BY DEF GateInv
  <1> QED BY <1>1, <1>2, <1>3, PTL DEF ServerSpec

-----------------------------------------------------------------------------
(* The answers of the handlers and their outcomes.                           *)

\* Where a request has no answer yet, or never gets one.
Undecided == {"new", "reading", "admitting", "parsing", "linting", "panicked"}

\* What is known of a request by where it is in its handler.
AnswerShape(q) ==
  /\ pc[q] \in Undecided => answer[q] = None
  /\ pc[q] \in {"writing", "returning"} => answer[q] # None
  /\ answer[q] = None => outcome[q] = None
  /\ answer[q] # None => outcome[q] = OutcomeOf(answer[q])
  /\ pc[q] = "new" <=> route[q] = None

\* The requests that are answered with an outcome.
Given(o) == {q \in Requests : answer[q] # None /\ OutcomeOf(answer[q]) = o}

AnswerTypes ==
  /\ counters \in [Outcomes -> Nat]
  /\ route \in [Requests -> AllRoutes \cup {None}]
  /\ pc \in [Requests -> PCs]
  /\ outcome \in [Requests -> Outcomes \cup {None}]
  /\ answer \in [Requests -> Codes \cup {None}]

AnswersCounted == \A o \in Outcomes : counters[o] = Cardinality(Given(o))

AnswerInv == AnswerTypes /\ (\A q \in Requests : AnswerShape(q)) /\ AnswersCounted

\* A step of a handler that decides nothing.
Silent(q) ==
  /\ \E l \in PCs :
       /\ pc' = [pc EXCEPT ![q] = l]
       /\ l # "new"
       /\ l \in Undecided => pc[q] \in Undecided
       /\ l \in {"writing", "returning"} => pc[q] \in {"writing", "returning"}
  /\ \/ route' = route /\ pc[q] # "new"
     \/ \E r \in AllRoutes : route' = [route EXCEPT ![q] = r]
  /\ UNCHANGED <<counters, outcome, answer>>

\* The answers with status 200.
Analyses == {"ok", "syntax_error", "unsupported_diagram_type"}

\* A step of a handler that decides on the answer.
Decides(q) ==
  \E code \in Codes :
    /\ \/ pc[q] \in {"reading", "admitting"} /\ code \notin Analyses
       \/ pc[q] \in {"parsing", "linting"}
    /\ pc' = [pc EXCEPT ![q] = "writing"]
    /\ answer' = [answer EXCEPT ![q] = code]
    /\ outcome' = [outcome EXCEPT ![q] = OutcomeOf(code)]
    /\ counters' = [counters EXCEPT ![OutcomeOf(code)] = @ + 1]
    /\ route' = route

\* The outcomes of the two answers that are counted under another name.
LEMMA OutcomesNamed ==
  /\ OutcomeOf("ok") = "lint_success"
  /\ OutcomeOf("parser_memory_limit") = "parser_subprocess_error"
  BY DEF OutcomeOf, Outcomes

\* The outcome of a code is one that is counted.
LEMMA OutcomeKnown == ASSUME NEW code PROVE OutcomeOf(code) \in Outcomes
  <1>1. CASE code = "ok"
    BY <1>1, OutcomesNamed DEF Outcomes
  <1>2. CASE code = "parser_memory_limit"
    BY <1>2, OutcomesNamed DEF Outcomes
  <1>3. CASE code \notin {"ok", "parser_memory_limit"} /\ code \in Outcomes
    BY <1>3, Zenon DEF OutcomeOf
  <1>4. CASE code \notin {"ok", "parser_memory_limit"} /\ code \notin Outcomes
    <2>1. OutcomeOf(code) = "other"
      BY <1>4, Zenon DEF OutcomeOf
    <2> QED BY <2>1 DEF Outcomes
  <1> QED BY <1>1, <1>2, <1>3, <1>4

\* A code other than these two is counted under its own name, or as another one.
LEMMA OutcomeByName ==
  ASSUME NEW code, code # "ok", code # "parser_memory_limit"
  PROVE  OutcomeOf(code) = CanonicalOutcome(code)
  <1>1. CASE code \in Outcomes
    BY <1>1, Zenon DEF OutcomeOf, CanonicalOutcome
  <1>2. CASE code \notin Outcomes
    BY <1>2, Zenon DEF OutcomeOf, CanonicalOutcome
  <1> QED BY <1>1, <1>2

\* parserFailureOutcome and parserErrorDetails agree.
LEMMA FailuresAgree ==
  ASSUME NEW e \in ParseErrors
  PROVE  /\ ParserErrorCode(e) \in Codes
         /\ OutcomeOf(ParserErrorCode(e)) = CanonicalOutcome(ParserFailureOutcome(e))
  <1>1. CASE e = "ErrTimeout"
    <2>1. ParserErrorCode(e) = "parser_timeout" /\ ParserFailureOutcome(e) = "parser_timeout"
      BY <1>1 DEF ParserErrorCode, ParserFailureOutcome
    <2> QED BY <2>1, OutcomeByName DEF Codes, Outcomes
  <1>2. CASE e = "ErrSubprocess"
    <2>1. /\ ParserErrorCode(e) = "parser_subprocess_error"
          /\ ParserFailureOutcome(e) = "parser_subprocess_error"
      BY <1>2 DEF ParserErrorCode, ParserFailureOutcome
    <2> QED BY <2>1, OutcomeByName DEF Codes, Outcomes
  <1>3. CASE e = "ErrMemoryLimit"
    <2>1. /\ ParserErrorCode(e) = "parser_memory_limit"
          /\ ParserFailureOutcome(e) = "parser_subprocess_error"
      BY <1>3 DEF ParserErrorCode, ParserFailureOutcome
    <2> QED BY <2>1, OutcomesNamed DEF Codes, Outcomes, CanonicalOutcome
  <1>4. CASE e = "ErrDecode"
    <2>1. /\ ParserErrorCode(e) = "parser_decode_error"
          /\ ParserFailureOutcome(e) = "parser_decode_error"
      BY <1>4 DEF ParserErrorCode, ParserFailureOutcome
    <2> QED BY <2>1, OutcomeByName DEF Codes, Outcomes
  <1>5. CASE e = "ErrContract"
    <2>1. /\ ParserErrorCode(e) = "parser_contract_violation"
          /\ ParserFailureOutcome(e) = "parser_contract_violation"
      BY <1>5 DEF ParserErrorCode, ParserFailureOutcome
    <2> QED BY <2>1, OutcomeByName DEF Codes, Outcomes
  <1>6. CASE e = "otherError"
    <2>1. /\ ParserErrorCode(e) = "internal_error"
          /\ ParserFailureOutcome(e) = "internal_error"
      BY <1>6 DEF ParserErrorCode, ParserFailureOutcome
    <2> QED BY <2>1, OutcomeByName DEF Codes, Outcomes
  <1> QED BY <1>1, <1>2, <1>3, <1>4, <1>5, <1>6 DEF ParseErrors

\* An outcome observed along with an answer that belongs to it.
LEMMA ObservedDecides ==
  ASSUME NEW q \in Requests, NEW o, NEW code \in Codes, ObserveAndAnswer(q, o, code),
         \/ pc[q] \in {"reading", "admitting"} /\ code \notin Analyses
         \/ pc[q] \in {"parsing", "linting"},
         OutcomeOf(code) = CanonicalOutcome(o), route' = route
  PROVE  Decides(q)
  <1>1. /\ pc' = [pc EXCEPT ![q] = "writing"]
        /\ answer' = [answer EXCEPT ![q] = code]
        /\ outcome' = [outcome EXCEPT ![q] = OutcomeOf(code)]
        /\ counters' = [counters EXCEPT ![OutcomeOf(code)] = @ + 1]
    BY DEF ObserveAndAnswer, Goto
  <1> QED BY <1>1 DEF Decides

\* The kinds of step, as far as the answers are concerned.
LEMMA AnswerSteps ==
  ASSUME AnswerTypes, NEW q \in Requests, (\E r \in AllRoutes : Receive(q, r)) \/ Handling(q)
  PROVE  Silent(q) \/ Decides(q)
  <1>1. ASSUME NEW r \in AllRoutes, Receive(q, r) PROVE Silent(q)
    BY <1>1 DEF Receive, Silent, Goto, PCs, Undecided
  <1>2. ASSUME NEW code \in BadInputs, RefuseInput(q, code) PROVE Decides(q)
    <2>1. /\ code \in Codes /\ code # "ok" /\ code # "parser_memory_limit"
          /\ code \notin Analyses
      BY BadInputsKnown DEF Codes, AllBadInputs, Analyses
    <2>2. OutcomeOf(code) = CanonicalOutcome(code)
      BY <2>1, OutcomeByName
    <2> QED BY <1>2, <2>1, <2>2, ObservedDecides DEF RefuseInput
  <1>3. CASE AcceptInput(q)
    BY <1>3 DEF AcceptInput, Silent, Goto, PCs, Undecided
  <1>4. CASE Busy(q)
    <2>1. /\ OutcomeOf("server_busy") = CanonicalOutcome("server_busy")
          /\ "server_busy" \in Codes \ Analyses
      BY OutcomeByName DEF Codes, Analyses
    <2> QED BY <1>4, <2>1, ObservedDecides DEF Busy
  <1>5. CASE Admit(q)
    BY <1>5 DEF Admit, Silent, Goto, PCs, Undecided
  <1>6. ASSUME NEW p \in ParseResults, ParseEndsRequest(q, p) PROVE Decides(q)
    <2>1. pc[q] = "parsing" /\ route' = route
      BY <1>6 DEF ParseEndsRequest
    <2>2. ASSUME NEW code \in {"invalid_option", "syntax_error", "internal_error",
                               "unsupported_diagram_type"},
                 ObserveAndAnswer(q, code, code)
          PROVE  Decides(q)
      <3>1. code \in Codes /\ code # "ok" /\ code # "parser_memory_limit"
        BY DEF Codes, AllBadInputs, Outcomes
      <3>2. OutcomeOf(code) = CanonicalOutcome(code)
        BY <3>1, OutcomeByName
      <3> QED BY <2>1, <2>2, <3>1, <3>2, ObservedDecides
    <2>3. ASSUME p \in ParseErrors,
                 ObserveAndAnswer(q, ParserFailureOutcome(p), ParserErrorCode(p))
          PROVE  Decides(q)
      BY <2>1, <2>3, FailuresAgree, ObservedDecides
    <2> QED BY <1>6, <2>2, <2>3 DEF ParseEndsRequest
  <1>7. CASE ParseYieldsDiagram(q)
    BY <1>7 DEF ParseYieldsDiagram, Silent, Goto, PCs, Undecided
  <1>8. CASE Lint(q)
    <2>1. OutcomeOf("ok") = CanonicalOutcome("lint_success") /\ "ok" \in Codes
      BY OutcomesNamed DEF Codes, CanonicalOutcome, Outcomes
    <2> QED BY <1>8, <2>1, ObservedDecides DEF Lint
  <1>9. CASE Panic(q)
    BY <1>9 DEF Panic, Silent, Goto, PCs, Undecided
  <1>10. CASE WriteAnswer(q)
    BY <1>10 DEF WriteAnswer, Silent, Goto, PCs, Undecided
  <1>11. CASE Return(q)
    BY <1>11 DEF Return, Silent, Goto, PCs, Undecided
  <1> QED
    BY <1>1, <1>2, <1>3, <1>4, <1>5, <1>6, <1>7, <1>8, <1>9, <1>10, <1>11
    DEF Handling, AnalyzeRefuses, RawRefuses, SARIFRefuses, AnalyzeParsed, RawParsed,
        SARIFParsed, AnalyzeLints, RawLints, SARIFLints

\* The requests with an outcome are finitely many.
LEMMA GivenFinite == ASSUME NEW o PROVE IsFiniteSet(Given(o))
  BY RequestsFinite, FS_Subset DEF Given

\* A decision adds the request to those with its outcome, and to no others.
LEMMA DecidesGiven ==
  ASSUME AnswerInv, NEW q \in Requests, NEW code \in Codes, answer[q] = None,
         answer' = [answer EXCEPT ![q] = code], NEW o \in Outcomes
  PROVE  /\ q \notin Given(o)
         /\ OutcomeOf(code) = o => Given(o)' = Given(o) \cup {q}
         /\ OutcomeOf(code) # o => Given(o)' = Given(o)
  <1>1. DOMAIN answer = Requests /\ code # None
    BY NoneIsNil DEF AnswerInv, AnswerTypes
  <1>2. \A p \in Requests : answer'[p] = IF p = q THEN code ELSE answer[p]
    BY <1>1
  <1>3. Given(o)' = {p \in Requests : answer'[p] # None /\ OutcomeOf(answer'[p]) = o}
    BY DEF Given
  <1> QED BY <1>1, <1>2, <1>3 DEF Given

\* A step that decides nothing keeps the invariant.
LEMMA SilentKeeps ==
  ASSUME AnswerInv, NEW q \in Requests, Silent(q) PROVE AnswerInv'
  <1>1. PICK l \in PCs :
          /\ pc' = [pc EXCEPT ![q] = l]
          /\ l # "new"
          /\ l \in Undecided => pc[q] \in Undecided
          /\ l \in {"writing", "returning"} => pc[q] \in {"writing", "returning"}
    BY DEF Silent
  <1>2. /\ UNCHANGED <<counters, outcome, answer>>
        /\ \/ route' = route /\ pc[q] # "new"
           \/ \E r \in AllRoutes : route' = [route EXCEPT ![q] = r]
    BY DEF Silent
  <1>3. AnswerTypes'
    BY <1>1, <1>2 DEF AnswerInv, AnswerTypes
  <1>4. ASSUME NEW p \in Requests PROVE AnswerShape(p)'
    BY <1>1, <1>2, NoneIsNil DEF AnswerInv, AnswerTypes, AnswerShape, Undecided
  <1>5. AnswersCounted'
    BY <1>2 DEF AnswerInv, AnswersCounted, Given
  <1> QED BY <1>3, <1>4, <1>5 DEF AnswerInv

\* A decision keeps it.
LEMMA DecidesKeeps ==
  ASSUME AnswerInv, NEW q \in Requests, Decides(q) PROVE AnswerInv'
  <1>1. PICK code \in Codes :
          /\ \/ pc[q] \in {"reading", "admitting"} /\ code \notin Analyses
             \/ pc[q] \in {"parsing", "linting"}
          /\ pc' = [pc EXCEPT ![q] = "writing"]
          /\ answer' = [answer EXCEPT ![q] = code]
          /\ outcome' = [outcome EXCEPT ![q] = OutcomeOf(code)]
          /\ counters' = [counters EXCEPT ![OutcomeOf(code)] = @ + 1]
          /\ route' = route
    BY DEF Decides
  <1>2. PICK o \in Outcomes : o = OutcomeOf(code)
    BY OutcomeKnown
  <1>3. answer[q] = None /\ code # None
    BY <1>1, NoneIsNil DEF AnswerInv, AnswerShape, Undecided
  <1>4. AnswerTypes'
    <2>1. counters' \in [Outcomes -> Nat]
      BY <1>1, <1>2 DEF AnswerInv, AnswerTypes
    <2> QED BY <1>1, <1>2, <2>1 DEF AnswerInv, AnswerTypes, PCs
  <1>5. ASSUME NEW p \in Requests PROVE AnswerShape(p)'
    <2>1. CASE p = q
      <3>1. answer'[p] = code /\ outcome'[p] = OutcomeOf(code) /\ pc'[p] = "writing"
        BY <1>1, <2>1 DEF AnswerInv, AnswerTypes
      <3>2. route[p] # None /\ route'[p] = route[p]
        BY <1>1, <2>1 DEF AnswerInv, AnswerShape
      <3> QED BY <1>3, <3>1, <3>2 DEF AnswerShape, Undecided
    <2>2. CASE p # q
      <3>1. /\ answer'[p] = answer[p] /\ outcome'[p] = outcome[p]
            /\ pc'[p] = pc[p] /\ route'[p] = route[p]
        BY <1>1, <2>2 DEF AnswerInv, AnswerTypes
      <3>2. AnswerShape(p)
        BY DEF AnswerInv
      <3> QED BY <3>1, <3>2 DEF AnswerShape
    <2> QED BY <2>1, <2>2
  <1>6. ASSUME NEW w \in Outcomes PROVE (counters[w] = Cardinality(Given(w)))'
    <2>1. IsFiniteSet(Given(w)) /\ q \notin Given(w) /\ counters[w] = Cardinality(Given(w))
      BY <1>1, <1>3, GivenFinite, DecidesGiven DEF AnswerInv, AnswersCounted
    <2>2. CASE w = o
      <3>1. Given(w)' = Given(w) \cup {q}
        BY <1>1, <1>2, <1>3, <2>2, DecidesGiven
      <3>2. counters'[w] = counters[w] + 1
        BY <1>1, <1>2, <2>2 DEF AnswerInv, AnswerTypes
      <3>3. Cardinality(Given(w) \cup {q}) = Cardinality(Given(w)) + 1
        BY <2>1, FS_AddElement
      <3> QED BY <2>1, <3>1, <3>2, <3>3
    <2>3. CASE w # o
      <3>1. Given(w)' = Given(w)
        BY <1>1, <1>2, <1>3, <2>3, DecidesGiven
      <3>2. counters'[w] = counters[w]
        BY <1>1, <1>2, <2>3 DEF AnswerInv, AnswerTypes
      <3> QED BY <2>1, <3>1, <3>2
    <2> QED BY <2>2, <2>3
  <1>7. AnswersCounted'
    BY <1>6 DEF AnswersCounted
  <1> QED BY <1>4, <1>5, <1>7 DEF AnswerInv

\* No request is answered at the start.
LEMMA AnswersInit == Init => AnswerInv
  <1> SUFFICES ASSUME Init PROVE AnswerInv
    OBVIOUS
  <1>1. \A o : Given(o) = {}
    BY DEF Init, Given
  <1>2. AnswersCounted
    BY <1>1, FS_EmptySet DEF Init, AnswersCounted
  <1> QED BY <1>2 DEF Init, AnswerInv, AnswerTypes, AnswerShape, PCs, Undecided

\* Each step of the handlers keeps their invariant.
LEMMA AnswersNext == ASSUME AnswerInv, [HandlersNext]_vars PROVE AnswerInv'
  <1>1. ASSUME UNCHANGED <<counters, route, pc, outcome, answer>> PROVE AnswerInv'
    BY <1>1 DEF AnswerInv, AnswerTypes, AnswersCounted, AnswerShape, Given
  <1>2. CASE UNCHANGED vars \/ \E n \in Int : SetLimit(n)
    BY <1>1, <1>2 DEF vars, SetLimit
  <1>3. ASSUME NEW q \in Requests, (\E r \in AllRoutes : Receive(q, r)) \/ Handling(q)
        PROVE  AnswerInv'
    BY <1>3, AnswerSteps, SilentKeeps, DecidesKeeps DEF AnswerInv
  <1> QED BY <1>2, <1>3 DEF HandlersNext

\* analyzeOutcomeCounters: the slots' invariant and this one give the counters.
LEMMA AnswersMatch == SlotInv /\ AnswerInv => CountersMatchAnswers
  BY DEF SlotInv, Shape, AnswerInv, AnswerTypes, AnswersCounted, Given,
         CountersMatchAnswers, TypeOK

-----------------------------------------------------------------------------
(* The three records of a request.                                           *)

\* A request that its gates have let through or refused, by what it was sent.
Final(q) ==
  /\ sent[q] \in Nat
  /\ outcome[q] # None <=> /\ req[q].method = "POST"
                           /\ RouteLabel(req[q]) # "unknown"
                           /\ sent[q] \notin {401, 429}
  /\ sent[q] = 200 /\ req[q].path \in AnalyzePaths => fields[q] # None

\* What is recorded of a request, by where it is in the chain.
RecordShape(q) ==
  /\ stage[q] \in {"none", "cors", "auth", "limit", "routing"} =>
       pc[q] = "new" /\ sent[q] = None /\ fields[q] = None /\ logged[q] = None
  /\ stage[q] = "handler" =>
       /\ sent[q] = None /\ logged[q] = None
       /\ req[q].method = "POST" /\ req[q].path \in DOMAIN PostRoutes
  /\ answer[q] \in Analyses => fields[q] # None
  /\ fields[q] # None => CanonicalOutcome(fields[q]) = outcome[q]
  /\ stage[q] \in {"observing", "logging"} =>
       Final(q) /\ sent[q] \notin {Aborted, 204} /\ logged[q] = None
  /\ stage[q] = "closed" => sent[q] \in {Aborted, 204} \/ Final(q)
  /\ logged[q] \notin {None, "unknown"} => CanonicalOutcome(logged[q]) = outcome[q]
  /\ logged[q] = "unknown" => sent[q] # 200

\* A request as far as its records are concerned is as before.
Same(q) ==
  /\ stage'[q] = stage[q] /\ req'[q] = req[q]
  /\ sent'[q] = sent[q] /\ fields'[q] = fields[q] /\ logged'[q] = logged[q]
  /\ pc'[q] = pc[q] /\ answer'[q] = answer[q] /\ outcome'[q] = outcome[q]

\* The type of the server's state but for the bag.
ServerTypes ==
  /\ phase \in Phases /\ env \in Environments
  /\ authOn \in BOOLEAN /\ limiterOn \in BOOLEAN /\ timedOut \in BOOLEAN
  /\ req \in [Requests -> Arrivals \cup {None}]
  /\ stage \in [Requests -> Stages]
  /\ checked \in [Requests -> {"none", "allowed", "refused"}]
  /\ fields \in [Requests -> Outcomes \cup {"unsupported_diagram_type", None}]
  /\ sent \in [Requests -> Nat \cup {None}]
  /\ logged \in [Requests -> Outcomes \cup {"unsupported_diagram_type", "unknown", None}]
  /\ corsRejected \in Nat

ShapesInv == ServerTypes /\ \A q \in Requests : RecordShape(q)

\* What a step of one request does to the records: its own are in order, and those
\* of the others are left alone.
Kept(q) ==
  /\ ServerTypes'
  /\ RecordShape(q)'
  /\ \A p \in Requests \ {q} : Same(p)

\* A request that is as before is recorded as before.
LEMMA SameShape ==
  ASSUME NEW q, RecordShape(q), Same(q) PROVE RecordShape(q)'
  BY DEF RecordShape, Same, Final

\* The statuses of the handlers' answers.
LEMMA HandlerStatuses ==
  ASSUME NEW code
  PROVE  /\ StatusOf(code) \in {200, 400, 413, 500, 503, 504}
         /\ StatusOf(code) = 200 <=> code \in Analyses
  <1>1. CASE code \in Analyses
    <2>1. StatusOf(code) = 200
      BY <1>1 DEF StatusOf, Analyses
    <2> QED BY <1>1, <2>1
  <1>2. CASE code \notin Analyses
    <2>1. StatusOf(code) \in {400, 413, 500, 503, 504}
      BY <1>2 DEF StatusOf, Analyses
    <2> QED BY <1>2, <2>1
  <1> QED BY <1>1, <1>2

\* The statuses of the other routes; a path that is logged has none that is 200.
LEMMA OtherRoutes ==
  ASSUME NEW a, NEW s \in OtherStatuses(a)
  PROVE  /\ s \in {200, 404, 405, 503}
         /\ s = 200 => a.path \notin AnalyzePaths
  BY DEF OtherStatuses, GetPaths, AnalyzePaths, AnalyzeJSONPaths, PostRoutes

\* A known route is the label of the requests it takes.
LEMMA LabelKnown ==
  ASSUME NEW a, a.method = "POST"
  PROVE  RouteLabel(a) # "unknown" <=> a.path \in DOMAIN PostRoutes
  BY DEF RouteLabel, PostRoutes

\* A request moves on, or is sent a status, with nothing else of it changed.
Moved(q, s, n) ==
  /\ stage' = [stage EXCEPT ![q] = s] /\ sent' = [sent EXCEPT ![q] = n]
  /\ ChainOnly /\ UNCHANGED <<req, fields, logged>>
  /\ checked' \in [Requests -> {"none", "allowed", "refused"}]
  /\ corsRejected' \in Nat

\* The request after it.
MovedTo(q, s, n) ==
  /\ stage'[q] = s /\ sent'[q] = n /\ req'[q] = req[q]
  /\ pc'[q] = pc[q] /\ answer'[q] = answer[q] /\ outcome'[q] = outcome[q]
  /\ fields'[q] = fields[q] /\ logged'[q] = logged[q]

\* The move leaves the other requests and the types alone.
LEMMA MoveKeeps ==
  ASSUME ShapesInv, NEW q \in Requests, NEW s \in Stages, NEW n \in Nat \cup {None},
         Moved(q, s, n)
  PROVE  ServerTypes' /\ (\A p \in Requests \ {q} : Same(p)) /\ MovedTo(q, s, n)
  <1>1. UNCHANGED <<pc, answer, outcome, phase, env, authOn, limiterOn, timedOut>>
    BY DEF Moved, ChainOnly, vars
  <1>2. ServerTypes'
    BY <1>1 DEF Moved, ShapesInv, ServerTypes
  <1> QED BY <1>1, <1>2 DEF Moved, MovedTo, ShapesInv, ServerTypes, Same

\* No answer is not an analysis.
LEMMA NoneNoAnalysis == None \notin Analyses
  BY NoneIsNil DEF Analyses, Codes, Outcomes

\* Nothing is decided on a request that has not reached its handler.
LEMMA InwardBlank ==
  ASSUME ShapesInv, AnswerInv, NEW q \in Requests,
         stage[q] \in {"none", "cors", "auth", "limit", "routing"}
  PROVE  /\ pc[q] = "new" /\ answer[q] = None /\ outcome[q] = None
         /\ sent[q] = None /\ fields[q] = None /\ logged[q] = None
         /\ sent = [sent EXCEPT ![q] = None]
  <1>1. pc[q] = "new" /\ sent[q] = None /\ fields[q] = None /\ logged[q] = None
    BY DEF ShapesInv, RecordShape
  <1>2. answer[q] = None /\ outcome[q] = None
    BY <1>1 DEF AnswerInv, AnswerShape, Undecided
  <1>3. sent = [sent EXCEPT ![q] = None]
    BY <1>1 DEF ShapesInv, ServerTypes
  <1> QED BY <1>1, <1>2, <1>3

\* A request goes one gate further.
LEMMA PassKeeps ==
  ASSUME ShapesInv, AnswerInv, NEW q \in Requests, NEW s \in {"auth", "limit", "routing"},
         stage[q] \in {"cors", "auth", "limit"}, Moved(q, s, None)
  PROVE  Kept(q)
  <1>1. s \in Stages
    BY DEF Stages
  <1>2. ServerTypes' /\ (\A p \in Requests \ {q} : Same(p)) /\ MovedTo(q, s, None)
    BY <1>1, MoveKeeps
  <1>3. /\ stage'[q] = s /\ sent'[q] = None
        /\ pc'[q] = "new" /\ answer'[q] = None /\ fields'[q] = None /\ logged'[q] = None
    BY <1>2, InwardBlank DEF MovedTo
  <1>4. RecordShape(q)'
    BY <1>3, NoneNoAnalysis, NoneIsNoRecord DEF RecordShape
  <1> QED BY <1>2, <1>4 DEF Kept

\* A request is refused by a gate, or answered by a route that is no handler's.
LEMMA RefusedKeeps ==
  ASSUME ShapesInv, AnswerInv, NEW q \in Requests, NEW n \in {200, 401, 404, 405, 429, 503},
         stage[q] \in {"auth", "limit", "routing"}, Moved(q, "observing", n),
         n \in {401, 429} \/ ~(req[q].method = "POST" /\ req[q].path \in DOMAIN PostRoutes),
         n = 200 => req[q].path \notin AnalyzePaths
  PROVE  Kept(q)
  <1>1. n \in Nat \cup {None} /\ "observing" \in Stages
    BY DEF Stages
  <1>2. ServerTypes' /\ (\A p \in Requests \ {q} : Same(p)) /\ MovedTo(q, "observing", n)
    BY <1>1, MoveKeeps
  <1>3. /\ stage'[q] = "observing" /\ sent'[q] = n /\ req'[q] = req[q]
        /\ pc'[q] = "new" /\ answer'[q] = None /\ outcome'[q] = None
        /\ fields'[q] = None /\ logged'[q] = None
    BY <1>2, InwardBlank DEF MovedTo
  <1>4. Final(q)'
    BY <1>3, LabelKnown DEF Final
  <1>5. RecordShape(q)'
    BY <1>3, <1>4, NoneNoAnalysis, NoneIsNoRecord DEF RecordShape, Aborted
  <1> QED BY <1>2, <1>5 DEF Kept

\* A connection is dropped, or a preflight answered, with nothing recorded.
LEMMA DroppedKeeps ==
  ASSUME ShapesInv, NEW q \in Requests, NEW n \in {Aborted, 204},
         logged[q] = None, Moved(q, "closed", n)
  PROVE  Kept(q)
  <1>1. n \in Nat \cup {None} /\ "closed" \in Stages
    BY DEF Stages, Aborted
  <1>2. ServerTypes' /\ (\A p \in Requests \ {q} : Same(p)) /\ MovedTo(q, "closed", n)
    BY <1>1, MoveKeeps
  <1>3. RecordShape(q)
    BY DEF ShapesInv
  <1>4. RecordShape(q)'
    BY <1>2, <1>3, NoneIsNoRecord DEF RecordShape, MovedTo
  <1> QED BY <1>2, <1>4 DEF Kept

\* A request arrives.
LEMMA ArriveShape ==
  ASSUME ShapesInv, AnswerInv, NEW q \in Requests, NEW a \in Arrivals, Arrive(q, a)
  PROVE  Kept(q)
  <1>1. /\ stage[q] = "none" /\ stage' = [stage EXCEPT ![q] = "cors"]
        /\ req' = [req EXCEPT ![q] = a]
        /\ UNCHANGED <<pc, answer, outcome, phase, env, authOn, limiterOn, timedOut, checked,
                       fields, sent, logged, corsRejected>>
    BY DEF Arrive, ToStage, ChainOnly, vars
  <1>2. ServerTypes'
    BY <1>1 DEF ShapesInv, ServerTypes, Stages
  <1>3. \A p \in Requests \ {q} : Same(p)
    BY <1>1 DEF ShapesInv, ServerTypes, Same
  <1>4. /\ stage'[q] = "cors" /\ pc'[q] = "new" /\ sent'[q] = None
        /\ fields'[q] = None /\ logged'[q] = None /\ answer'[q] = None
    BY <1>1, InwardBlank DEF ShapesInv, ServerTypes
  <1>5. RecordShape(q)'
    BY <1>4, NoneNoAnalysis, NoneIsNoRecord DEF RecordShape
  <1> QED BY <1>2, <1>3, <1>5 DEF Kept

\* CORSMiddleware.
LEMMA CORSShape ==
  ASSUME ShapesInv, AnswerInv, NEW q \in Requests, CORS(q) \/ CORSPanics(q)
  PROVE  Kept(q)
  <1>1. /\ stage[q] = "cors" /\ ChainOnly /\ UNCHANGED <<req, fields, logged, checked>>
        /\ corsRejected' \in Nat
    BY DEF CORS, CORSPanics, At, ShapesInv, ServerTypes
  <1>2. checked' \in [Requests -> {"none", "allowed", "refused"}] /\ logged[q] = None
    BY <1>1, InwardBlank DEF ShapesInv, ServerTypes
  <1>3. CASE \E n \in {Aborted, 204} : /\ stage' = [stage EXCEPT ![q] = "closed"]
                                       /\ sent' = [sent EXCEPT ![q] = n]
    BY <1>1, <1>2, <1>3, DroppedKeeps DEF Moved
  <1>4. CASE stage' = [stage EXCEPT ![q] = "auth"] /\ sent' = sent
    <2>1. Moved(q, "auth", None)
      BY <1>1, <1>2, <1>4, InwardBlank DEF Moved
    <2> QED BY <1>1, <2>1, PassKeeps
  <1> QED BY <1>3, <1>4 DEF CORS, CORSPanics, Send, ToStage

\* AnalyzeBearerAuthMiddleware.
LEMMA BearerAuthShape ==
  ASSUME ShapesInv, AnswerInv, NEW q \in Requests, BearerAuth(q)
  PROVE  Kept(q)
  <1>1. /\ stage[q] = "auth" /\ ChainOnly /\ UNCHANGED <<req, fields, logged>>
        /\ checked' \in [Requests -> {"none", "allowed", "refused"}] /\ corsRejected' \in Nat
    BY DEF BearerAuth, At, ShapesInv, ServerTypes
  <1>2. CASE stage' = [stage EXCEPT ![q] = "observing"] /\ sent' = [sent EXCEPT ![q] = 401]
    <2>1. Moved(q, "observing", 401)
      BY <1>1, <1>2 DEF Moved
    <2> QED BY <1>1, <2>1, RefusedKeeps
  <1>3. CASE stage' = [stage EXCEPT ![q] = "limit"] /\ sent' = sent
    <2>1. Moved(q, "limit", None)
      BY <1>1, <1>3, InwardBlank DEF Moved
    <2> QED BY <1>1, <2>1, PassKeeps
  <1> QED BY <1>2, <1>3 DEF BearerAuth, Send, ToStage

\* AnalyzeRateLimitMiddleware.
LEMMA RateLimitShape ==
  ASSUME ShapesInv, AnswerInv, NEW q \in Requests, RateLimit(q)
  PROVE  Kept(q)
  <1>1. /\ stage[q] = "limit" /\ ChainOnly /\ UNCHANGED <<req, fields, logged>>
        /\ corsRejected' \in Nat
    BY DEF RateLimit, At, ShapesInv, ServerTypes
  <1>2. checked' \in [Requests -> {"none", "allowed", "refused"}]
    BY DEF RateLimit, ShapesInv, ServerTypes
  <1>3. CASE stage' = [stage EXCEPT ![q] = "observing"] /\ sent' = [sent EXCEPT ![q] = 429]
    <2>1. Moved(q, "observing", 429)
      BY <1>1, <1>2, <1>3 DEF Moved
    <2> QED BY <1>1, <2>1, RefusedKeeps
  <1>4. CASE stage' = [stage EXCEPT ![q] = "routing"] /\ sent' = sent
    <2>1. Moved(q, "routing", None)
      BY <1>1, <1>2, <1>4, InwardBlank DEF Moved
    <2> QED BY <1>1, <2>1, PassKeeps
  <1> QED BY <1>3, <1>4 DEF RateLimit, Send, ToStage

\* The routes that are not the analyze handlers'.
LEMMA RouteElsewhereShape ==
  ASSUME ShapesInv, AnswerInv, NEW q \in Requests, RouteElsewhere(q)
  PROVE  Kept(q)
  <1>1. PICK n \in OtherStatuses(req[q]) : sent' = [sent EXCEPT ![q] = n]
    BY DEF RouteElsewhere, Send
  <1>2. n \in {200, 401, 404, 405, 429, 503} /\ (n = 200 => req[q].path \notin AnalyzePaths)
    BY OtherRoutes
  <1>3. /\ stage[q] = "routing" /\ stage' = [stage EXCEPT ![q] = "observing"]
        /\ ~(req[q].method = "POST" /\ req[q].path \in DOMAIN PostRoutes)
        /\ ChainOnly /\ UNCHANGED <<req, fields, logged>>
        /\ checked' \in [Requests -> {"none", "allowed", "refused"}] /\ corsRejected' \in Nat
    BY DEF RouteElsewhere, At, ToStage, ShapesInv, ServerTypes
  <1>4. Moved(q, "observing", n)
    BY <1>1, <1>3 DEF Moved
  <1> QED BY <1>2, <1>3, <1>4, RefusedKeeps

\* The analyze handlers are reached.
LEMMA RouteToAnalyzeShape ==
  ASSUME ShapesInv, AnswerInv, NEW q \in Requests, RouteToAnalyze(q)
  PROVE  Kept(q)
  <1>1. /\ stage[q] = "routing" /\ stage' = [stage EXCEPT ![q] = "handler"]
        /\ req[q].method = "POST" /\ req[q].path \in DOMAIN PostRoutes
        /\ pc' = [pc EXCEPT ![q] = "reading"]
        /\ UNCHANGED <<answer, outcome, phase, env, authOn, limiterOn, timedOut, req,
                       checked, fields, sent, logged, corsRejected>>
    BY DEF RouteToAnalyze, Receive, Goto, At, ToStage
  <1>2. ServerTypes'
    BY <1>1 DEF ShapesInv, ServerTypes, Stages
  <1>3. \A p \in Requests \ {q} : Same(p)
    BY <1>1 DEF ShapesInv, ServerTypes, AnswerInv, AnswerTypes, Same
  <1>4. /\ stage'[q] = "handler" /\ sent'[q] = None /\ req'[q] = req[q]
        /\ fields'[q] = None /\ logged'[q] = None /\ answer'[q] = None
    BY <1>1, InwardBlank DEF ShapesInv, ServerTypes
  <1>5. RecordShape(q)'
    BY <1>1, <1>4, NoneNoAnalysis, NoneIsNoRecord DEF RecordShape
  <1> QED BY <1>2, <1>3, <1>5 DEF Kept

\* A handler's answer is sent.
LEMMA HandlerReturnedShape ==
  ASSUME ShapesInv, AnswerInv, NEW q \in Requests, HandlerReturned(q)
  PROVE  Kept(q)
  <1>1. PICK n \in Nat : n = StatusOf(answer[q])
    BY HandlerStatuses
  <1>2. /\ n \in {200, 400, 413, 500, 503, 504}
        /\ n = 200 <=> answer[q] \in Analyses
    BY <1>1, HandlerStatuses
  <1>3. /\ stage[q] = "handler" /\ answer[q] # None
        /\ stage' = [stage EXCEPT ![q] = "observing"]
        /\ sent' = [sent EXCEPT ![q] = n]
        /\ ChainOnly /\ UNCHANGED <<req, fields, logged>>
        /\ checked' \in [Requests -> {"none", "allowed", "refused"}] /\ corsRejected' \in Nat
    BY <1>1 DEF HandlerReturned, At, ToStage, Send, ShapesInv, ServerTypes
  <1>4. Moved(q, "observing", n) /\ n \in Nat \cup {None} /\ "observing" \in Stages
    BY <1>3 DEF Moved, Stages
  <1>5. ServerTypes' /\ (\A p \in Requests \ {q} : Same(p)) /\ MovedTo(q, "observing", n)
    BY <1>4, MoveKeeps
  <1>6. /\ req[q].method = "POST" /\ req[q].path \in DOMAIN PostRoutes /\ logged[q] = None
        /\ answer[q] \in Analyses => fields[q] # None
        /\ fields[q] # None => CanonicalOutcome(fields[q]) = outcome[q]
    BY <1>3 DEF ShapesInv, RecordShape
  <1>7. outcome[q] # None
    <2>1. outcome[q] = OutcomeOf(answer[q])
      BY <1>3 DEF AnswerInv, AnswerShape
    <2> QED BY <2>1, OutcomeKnown, NoneIsNil DEF Codes
  <1>8. RouteLabel(req[q]) # "unknown"
    BY <1>6, LabelKnown
  <1>9. Final(q)'
    BY <1>2, <1>5, <1>6, <1>7, <1>8 DEF Final, MovedTo
  <1>10. RecordShape(q)'
    BY <1>2, <1>5, <1>6, <1>9, NoneIsNoRecord DEF RecordShape, MovedTo, Aborted
  <1> QED BY <1>5, <1>10 DEF Kept

\* A handler has panicked.
LEMMA HandlerPanickedShape ==
  ASSUME ShapesInv, AnswerInv, NEW q \in Requests, HandlerPanicked(q)
  PROVE  Kept(q)
  <1>1. logged[q] = None
    BY DEF HandlerPanicked, At, ShapesInv, RecordShape
  <1>2. Moved(q, "closed", Aborted)
    BY DEF HandlerPanicked, ToStage, Send, ShapesInv, ServerTypes, Moved
  <1> QED BY <1>1, <1>2, DroppedKeeps

\* MetricsMiddleware.
LEMMA ObserveShape ==
  ASSUME ShapesInv, AnswerInv, NEW q \in Requests, ObserveHTTPRequest(q)
  PROVE  Kept(q)
  <1>1. PICK n \in Nat \cup {None} : n = sent[q]
    BY DEF ShapesInv, ServerTypes
  <1>2. /\ stage[q] = "observing" /\ stage' = [stage EXCEPT ![q] = "logging"]
        /\ sent' = [sent EXCEPT ![q] = n]
        /\ ChainOnly /\ UNCHANGED <<req, fields, logged>>
        /\ checked' \in [Requests -> {"none", "allowed", "refused"}] /\ corsRejected' \in Nat
    BY <1>1 DEF ObserveHTTPRequest, At, ToStage, ShapesInv, ServerTypes
  <1>3. Moved(q, "logging", n) /\ "logging" \in Stages
    BY <1>2 DEF Moved, Stages
  <1>4. ServerTypes' /\ (\A p \in Requests \ {q} : Same(p)) /\ MovedTo(q, "logging", n)
    BY <1>3, MoveKeeps
  <1>5. RecordShape(q)
    BY DEF ShapesInv
  <1>6. RecordShape(q)'
    BY <1>1, <1>2, <1>4, <1>5, NoneIsNoRecord DEF RecordShape, Final, MovedTo
  <1> QED BY <1>4, <1>6 DEF Kept

\* AnalyzeLoggingMiddleware.
LEMMA LogShape ==
  ASSUME ShapesInv, AnswerInv, NEW q \in Requests, Log(q)
  PROVE  Kept(q)
  <1>1. PICK o : o = IF req[q].path \notin AnalyzePaths THEN None
                     ELSE IF fields[q] = None THEN "unknown" ELSE fields[q]
    OBVIOUS
  <1>2. /\ stage[q] = "logging" /\ stage' = [stage EXCEPT ![q] = "closed"]
        /\ logged' = [logged EXCEPT ![q] = o]
        /\ UNCHANGED <<pc, answer, outcome, phase, env, authOn, limiterOn, timedOut, req,
                       checked, fields, sent, corsRejected>>
    BY <1>1 DEF Log, At, ToStage, ChainOnly, vars
  <1>3. o \in Outcomes \cup {"unsupported_diagram_type", "unknown", None}
    BY <1>1 DEF ShapesInv, ServerTypes
  <1>4. ServerTypes'
    BY <1>2, <1>3 DEF ShapesInv, ServerTypes, Stages
  <1>5. \A p \in Requests \ {q} : Same(p)
    BY <1>2 DEF ShapesInv, ServerTypes, Same
  <1>6. /\ stage'[q] = "closed" /\ logged'[q] = o /\ req'[q] = req[q] /\ sent'[q] = sent[q]
        /\ fields'[q] = fields[q] /\ answer'[q] = answer[q] /\ outcome'[q] = outcome[q]
    BY <1>2 DEF ShapesInv, ServerTypes
  <1>7. RecordShape(q) /\ Final(q)
    BY <1>2 DEF ShapesInv, RecordShape
  <1>8. Final(q)'
    BY <1>6, <1>7 DEF Final
  <1>9. o \notin {None, "unknown"} => o = fields[q] /\ fields[q] # None
    BY <1>1
  <1>10. o = "unknown" => sent[q] # 200
    <2>1. ASSUME o = "unknown", fields[q] # None PROVE FALSE
      BY <1>1, <2>1, NoneIsNoRecord DEF ShapesInv, ServerTypes, Outcomes
    <2> QED BY <1>1, <1>7, <2>1, NoneIsNoRecord DEF Final
  <1>11. RecordShape(q)'
    BY <1>6, <1>7, <1>8, <1>9, <1>10 DEF RecordShape
  <1> QED BY <1>4, <1>5, <1>11 DEF Kept

\* A step of a handler: what it leaves for the log line is the outcome it has counted.
LEMMA HandlerStepShape ==
  ASSUME ShapesInv, AnswerInv, AnswerInv', NEW q \in Requests, HandlerStep(q)
  PROVE  Kept(q)
  <1>1. PICK f : f = IF /\ pc[q] \in {"parsing", "linting"}
                        /\ answer'[q] \notin {None, "invalid_option"}
                     THEN IF answer'[q] = "unsupported_diagram_type"
                          THEN "unsupported_diagram_type" ELSE outcome'[q]
                     ELSE fields[q]
    OBVIOUS
  <1>2. /\ stage[q] = "handler" /\ Handling(q)
        /\ fields' = [fields EXCEPT ![q] = f]
        /\ UNCHANGED <<phase, env, authOn, limiterOn, timedOut, req, stage, checked, sent,
                       logged, corsRejected>>
    BY <1>1 DEF HandlerStep, At, ShapesInv, ServerTypes
  <1>3. answer[q] # None => UNCHANGED <<answer, outcome>> /\ fields' = fields
    <2>1. ASSUME answer[q] # None PROVE Silent(q) /\ pc[q] \notin {"parsing", "linting"}
      BY <1>2, <2>1, AnswerSteps DEF AnswerInv, AnswerShape, Undecided, Decides
    <2>2. ASSUME answer[q] # None PROVE f = fields[q]
      BY <1>1, <2>1, <2>2
    <2> QED BY <1>2, <2>1, <2>2 DEF Silent, ShapesInv, ServerTypes
  <1>4. /\ \A p \in Requests \ {q} : pc'[p] = pc[p] /\ answer'[p] = answer[p]
                                     /\ outcome'[p] = outcome[p]
    <2>1. CASE Silent(q)
      BY <2>1 DEF Silent, AnswerInv, AnswerTypes
    <2>2. CASE Decides(q)
      BY <2>2 DEF Decides, AnswerInv, AnswerTypes
    <2> QED BY <1>2, <2>1, <2>2, AnswerSteps DEF AnswerInv
  <1>5. \A p \in Requests \ {q} : Same(p)
    BY <1>2, <1>4 DEF ShapesInv, ServerTypes, Same
  <1>6. /\ stage'[q] = "handler" /\ sent'[q] = None /\ logged'[q] = None
        /\ req'[q].method = "POST" /\ req'[q].path \in DOMAIN PostRoutes
        /\ fields'[q] = f
    BY <1>2 DEF ShapesInv, ServerTypes, RecordShape
  <1>7. CASE answer[q] # None
    <2>1. ServerTypes'
      BY <1>2, <1>3, <1>7 DEF ShapesInv, ServerTypes
    <2>2. RecordShape(q)'
      BY <1>2, <1>3, <1>6, <1>7 DEF ShapesInv, RecordShape
    <2> QED BY <1>5, <2>1, <2>2 DEF Kept
  <1>8. CASE answer[q] = None
    <2>1. fields[q] = None
      <3>1. outcome[q] = None /\ None \notin Outcomes
        BY <1>8, NoneIsNil DEF AnswerInv, AnswerShape, Codes
      <3>2. fields[q] # None => CanonicalOutcome(fields[q]) = None
        BY <3>1 DEF ShapesInv, RecordShape
      <3> QED BY <3>1, <3>2 DEF CanonicalOutcome, Outcomes
    <2>2. CASE Silent(q)
      <3>1. answer'[q] = None /\ outcome'[q] = None
        BY <1>8, <2>2 DEF Silent, AnswerInv, AnswerShape
      <3>2. f = None
        BY <1>1, <2>1, <3>1
      <3>3. ServerTypes'
        BY <1>2, <3>2 DEF ShapesInv, ServerTypes
      <3>4. RecordShape(q)'
        BY <1>6, <3>1, <3>2, NoneNoAnalysis, NoneIsNoRecord DEF RecordShape
      <3> QED BY <1>5, <3>3, <3>4 DEF Kept
    <2>3. CASE Decides(q)
      <3>1. PICK code \in Codes :
              /\ \/ pc[q] \in {"reading", "admitting"} /\ code \notin Analyses
                 \/ pc[q] \in {"parsing", "linting"}
              /\ answer' = [answer EXCEPT ![q] = code]
              /\ outcome' = [outcome EXCEPT ![q] = OutcomeOf(code)]
        BY <2>3 DEF Decides
      <3>2. answer'[q] = code /\ outcome'[q] = OutcomeOf(code)
        BY <3>1 DEF AnswerInv, AnswerTypes
      <3>3. code # None /\ OutcomeOf(code) \in Outcomes /\ None \notin Outcomes
        BY NoneIsNil, OutcomeKnown DEF Codes
      <3>4. f \in Outcomes \cup {"unsupported_diagram_type", None}
        BY <1>1, <2>1, <3>2, <3>3
      <3>5. f # None => CanonicalOutcome(f) = OutcomeOf(code)
        <4>1. CASE f = "unsupported_diagram_type" /\ code = "unsupported_diagram_type"
          BY <4>1, OutcomeByName
        <4>2. CASE f = OutcomeOf(code)
          BY <3>3, <4>2 DEF CanonicalOutcome
        <4> QED BY <1>1, <2>1, <3>2, <4>1, <4>2
      <3>6. code \in Analyses => f # None
        <4>1. "invalid_option" \notin Analyses /\ None # "unsupported_diagram_type"
          BY NoneNoAnalysis DEF Analyses
        <4> QED BY <1>1, <3>1, <3>2, <3>3, <4>1
      <3>7. ServerTypes'
        BY <1>2, <3>4 DEF ShapesInv, ServerTypes
      <3>8. RecordShape(q)'
        BY <1>6, <3>2, <3>5, <3>6, NoneIsNoRecord DEF RecordShape
      <3> QED BY <1>5, <3>7, <3>8 DEF Kept
    <2> QED BY <1>2, <2>2, <2>3, AnswerSteps DEF AnswerInv
  <1> QED BY <1>7, <1>8

\* A step of a request.
OwnStep(q) == (\E a \in Arrivals : Arrive(q, a)) \/ Serving(q)

\* A step of a request that MetricsMiddleware counts neither now nor again.
Passing(q) ==
  /\ q \in Observed' <=> q \in Observed
  /\ q \in Observed => req'[q] = req[q] /\ sent'[q] = sent[q]
  /\ requestTotal' = requestTotal

\* Every step of a request but that of MetricsMiddleware is such a step.
LEMMA PassingSteps ==
  ASSUME ShapesInv, NEW q \in Requests, OwnStep(q), ~ObserveHTTPRequest(q)
  PROVE  Passing(q)
  <1>1. DOMAIN stage = Requests /\ DOMAIN sent = Requests
    BY DEF ShapesInv, ServerTypes
  <1>2. ASSUME NEW s \in {"cors", "auth", "limit", "routing", "handler", "observing"},
               stage' = [stage EXCEPT ![q] = s], stage[q] \notin {"logging", "closed"},
               requestTotal' = requestTotal
        PROVE  Passing(q)
    BY <1>1, <1>2 DEF Passing, Observed
  <1>3. ASSUME NEW n \in {Aborted, 204}, sent' = [sent EXCEPT ![q] = n],
               stage' = [stage EXCEPT ![q] = "closed"], stage[q] \notin {"logging", "closed"},
               requestTotal' = requestTotal
        PROVE  Passing(q)
    BY <1>1, <1>3 DEF Passing, Observed
  <1>4. ASSUME NEW a \in Arrivals, Arrive(q, a) PROVE Passing(q)
    BY <1>2, <1>4 DEF Arrive, ToStage
  <1>5. CASE CORS(q) \/ CORSPanics(q)
    BY <1>2, <1>3, <1>5 DEF CORS, CORSPanics, At, ToStage, Send
  <1>6. CASE BearerAuth(q) \/ RateLimit(q)
    BY <1>2, <1>6 DEF BearerAuth, RateLimit, At, ToStage
  <1>7. CASE RouteToAnalyze(q) \/ RouteElsewhere(q) \/ HandlerReturned(q)
    BY <1>2, <1>7 DEF RouteToAnalyze, RouteElsewhere, HandlerReturned, At, ToStage
  <1>8. CASE HandlerStep(q)
    BY <1>8 DEF HandlerStep, At, Passing, Observed
  <1>9. CASE HandlerPanicked(q)
    BY <1>3, <1>9 DEF HandlerPanicked, At, ToStage, Send
  <1>10. CASE Log(q)
    <2>1. /\ stage[q] = "logging" /\ stage' = [stage EXCEPT ![q] = "closed"]
          /\ UNCHANGED <<req, sent, requestTotal>>
      BY <1>10 DEF Log, At, ToStage
    <2>2. sent[q] \notin {Aborted, 204}
      BY <2>1 DEF ShapesInv, RecordShape
    <2> QED BY <1>1, <2>1, <2>2 DEF Passing, Observed
  <1> QED BY <1>4, <1>5, <1>6, <1>7, <1>8, <1>9, <1>10 DEF Serving, OwnStep

\* A step of the server concerns the records of one request, or of none.
LEMMA RecordSteps ==
  ASSUME ShapesInv, AnswerInv, AnswerInv', [ServerNext]_serverVars
  PROVE  \/ \E q \in Requests : OwnStep(q) /\ Kept(q)
         \/ /\ ServerTypes' /\ requestTotal' = requestTotal
            /\ \A q \in Requests : Same(q)
  <1>1. ASSUME UNCHANGED <<env, req, stage, checked, fields, sent, logged, requestTotal,
                           corsRejected, pc, answer, outcome>>,
               phase' \in Phases, authOn' \in BOOLEAN, limiterOn' \in BOOLEAN,
               timedOut' \in BOOLEAN
        PROVE  /\ ServerTypes' /\ requestTotal' = requestTotal
               /\ \A q \in Requests : Same(q)
    BY <1>1 DEF ShapesInv, ServerTypes, Same
  <1>2. CASE UNCHANGED serverVars
    BY <1>1, <1>2 DEF serverVars, serverOnly, vars, ShapesInv, ServerTypes
  <1>3. CASE StartUp
    <2>1. authOn' \in BOOLEAN /\ limiterOn' \in BOOLEAN
      BY <1>3, Zenon DEF StartUp
    <2> QED BY <1>1, <1>3, <2>1 DEF StartUp, ShapesInv, ServerTypes, Phases
  <1>4. CASE ListenFails \/ Signal \/ Main
    BY <1>1, <1>4 DEF ListenFails, Signal, Main, Drained, DrainTimeout, CloseParser, Exit,
                      MainStep, vars, ShapesInv, ServerTypes, Phases
  <1>5. ASSUME NEW n \in Limits, Reconfigure(n)
        PROVE  /\ ServerTypes' /\ requestTotal' = requestTotal
               /\ \A q \in Requests : Same(q)
    BY <1>1, <1>5 DEF Reconfigure, SetLimit, serverOnly, ShapesInv, ServerTypes
  <1>6. ASSUME NEW q \in Requests, OwnStep(q) PROVE Kept(q)
    BY <1>6, ArriveShape, CORSShape, BearerAuthShape, RateLimitShape, RouteToAnalyzeShape,
       RouteElsewhereShape, HandlerStepShape, HandlerReturnedShape, HandlerPanickedShape,
       ObserveShape, LogShape DEF Serving, OwnStep
  <1> QED BY <1>2, <1>3, <1>4, <1>5, <1>6 DEF ServerNext, OwnStep

\* Each step of the server keeps what is recorded of the requests in order.
LEMMA ShapesNext ==
  ASSUME ShapesInv, AnswerInv, AnswerInv', [ServerNext]_serverVars
  PROVE  ShapesInv'
  BY RecordSteps, SameShape DEF ShapesInv, Kept

\* The requests of a set, counted by a label.
Tally(label, S) ==
  [l \in {label[q] : q \in S} |-> Cardinality({q \in S : label[q] = l})]

\* The label that a request is counted under.
Labels == [q \in Requests |-> <<RouteLabel(req[q]), sent[q]>>]

RequestsTallied == requestTotal = Tally(Labels, Observed)

\* A tally depends on the labels of the requests in it only.
LEMMA TallySame ==
  ASSUME NEW f, NEW g, NEW S, \A q \in S : f[q] = g[q]
  PROVE  Tally(f, S) = Tally(g, S)
  <1>1. {f[q] : q \in S} = {g[q] : q \in S}
    OBVIOUS
  <1>2. ASSUME NEW l PROVE {q \in S : f[q] = l} = {q \in S : g[q] = l}
    OBVIOUS
  <1> QED BY <1>1, <1>2 DEF Tally

\* One more request is one more under its label.
LEMMA TallyMore ==
  ASSUME NEW f, NEW S, IsFiniteSet(S), NEW q, q \notin S
  PROVE  Tally(f, S \cup {q}) = Tally(f, S) (+) SetToBag({f[q]})
  <1> DEFINE D == {f[p] : p \in S}
             Of(l) == {p \in S : f[p] = l}
             B == Tally(f, S)
             C == SetToBag({f[q]})
             T == S \cup {q}
             After(l) == {p \in T : f[p] = l}
  <1>1. DOMAIN B = D /\ \A l \in D : B[l] = Cardinality(Of(l))
    BY DEF Tally
  <1>2. DOMAIN C = {f[q]} /\ C[f[q]] = 1
    BY DEF SetToBag
  <1>3. {f[p] : p \in T} = D \cup {f[q]}
    OBVIOUS
  <1>4. ASSUME NEW l PROVE IsFiniteSet(Of(l)) /\ Cardinality(Of(l)) \in Nat
    <2>1. Of(l) \subseteq S
      OBVIOUS
    <2> QED BY <2>1, FS_Subset, FS_CardinalityType
  <1>5. After(f[q]) = Of(f[q]) \cup {q} /\ q \notin Of(f[q])
    OBVIOUS
  <1>6. \A l : l # f[q] => After(l) = Of(l)
    OBVIOUS
  <1>7. \A l : l \notin D => Of(l) = {}
    OBVIOUS
  <1> HIDE DEF Of, After, D, B, C
  <1>8. ASSUME NEW l \in D \cup {f[q]}
        PROVE  Cardinality(After(l)) = (IF l \in D THEN B[l] ELSE 0)
                                         + (IF l \in {f[q]} THEN C[l] ELSE 0)
    <2>1. Cardinality(Of(l)) = IF l \in D THEN B[l] ELSE 0
      BY <1>1, <1>7, FS_EmptySet
    <2>2. CASE l = f[q]
      <3>1. Cardinality(After(l)) = Cardinality(Of(l)) + 1
        BY <1>4, <1>5, <2>2, FS_AddElement
      <3> QED BY <1>2, <2>1, <2>2, <3>1
    <2>3. CASE l # f[q]
      BY <1>4, <1>6, <2>1, <2>3
    <2> QED BY <2>2, <2>3
  <1>9. B (+) C = [l \in D \cup {f[q]} |->
                     (IF l \in D THEN B[l] ELSE 0) + (IF l \in {f[q]} THEN C[l] ELSE 0)]
    BY <1>1, <1>2 DEF (+)
  <1>10. Tally(f, T) = [l \in D \cup {f[q]} |-> Cardinality(After(l))]
    BY <1>3 DEF Tally, After
  <1>11. Tally(f, T) = B (+) C
    BY <1>8, <1>9, <1>10
  <1> QED BY <1>11 DEF B, C

\* A tally is a bag.
LEMMA TallyIsBag == ASSUME NEW f, NEW S, IsFiniteSet(S) PROVE IsABag(Tally(f, S))
  <1>1. ASSUME NEW l \in {f[q] : q \in S}
        PROVE  Cardinality({q \in S : f[q] = l}) \in {n \in Nat : n > 0}
    <2>1. PICK q \in S : f[q] = l
      OBVIOUS
    <2>2. PICK T : T = {p \in S : f[p] = l}
      OBVIOUS
    <2>3. T # {} /\ IsFiniteSet(T)
      BY <2>1, <2>2, FS_Subset
    <2>4. Cardinality(T) \in Nat /\ Cardinality(T) # 0
      BY <2>3, FS_CardinalityType, FS_EmptySet
    <2> QED BY <2>2, <2>4
  <1> QED BY <1>1 DEF Tally, IsABag

\* Each request is tallied once, when MetricsMiddleware observes it.
LEMMA TalliedNext ==
  ASSUME ShapesInv, AnswerInv, AnswerInv', RequestsTallied, [ServerNext]_serverVars
  PROVE  RequestsTallied'
  <1>1. IsFiniteSet(Observed)
    BY RequestsFinite, FS_Subset DEF Observed
  <1>2. Observed \subseteq Requests /\ Observed' \subseteq Requests
    BY DEF Observed
  <1>3. \A p \in Requests : Labels[p] = <<RouteLabel(req[p]), sent[p]>>
                            /\ Labels'[p] = <<RouteLabel(req'[p]), sent'[p]>>
    BY DEF Labels
  <1>4. \A p \in Requests : Same(p) => /\ Labels'[p] = Labels[p]
                                       /\ p \in Observed' <=> p \in Observed
    BY <1>3 DEF Same, Observed
  <1>5. ASSUME Observed' = Observed, \A p \in Observed : Labels'[p] = Labels[p],
               requestTotal' = requestTotal
        PROVE  RequestsTallied'
    <2>1. Tally(Labels', Observed) = Tally(Labels, Observed)
      BY <1>5, TallySame
    <2> QED BY <1>5, <2>1 DEF RequestsTallied
  <1>6. ASSUME NEW q \in Requests, Kept(q), Passing(q) PROVE RequestsTallied'
    <2>1. Observed' = Observed
      BY <1>2, <1>4, <1>6 DEF Kept, Passing
    <2>2. \A p \in Observed : Labels'[p] = Labels[p]
      BY <1>2, <1>3, <1>4, <1>6 DEF Kept, Passing
    <2> QED BY <1>5, <1>6, <2>1, <2>2 DEF Passing
  <1>7. ASSUME NEW q \in Requests, Kept(q), ObserveHTTPRequest(q) PROVE RequestsTallied'
    <2>1. /\ stage[q] = "observing" /\ stage'[q] = "logging"
          /\ UNCHANGED <<req, sent>>
          /\ requestTotal' = requestTotal (+) SetToBag({<<RouteLabel(req[q]), sent[q]>>})
      BY <1>7 DEF ObserveHTTPRequest, At, ToStage, ShapesInv, ServerTypes
    <2>2. Observed' = Observed \cup {q} /\ q \notin Observed
      BY <1>2, <1>4, <1>7, <2>1 DEF Kept, Observed
    <2>3. Labels' = Labels /\ Labels[q] = <<RouteLabel(req[q]), sent[q]>>
      BY <2>1 DEF Labels
    <2>4. Tally(Labels, Observed \cup {q}) = Tally(Labels, Observed) (+) SetToBag({Labels[q]})
      BY <1>1, <2>2, TallyMore
    <2> QED BY <2>1, <2>2, <2>3, <2>4 DEF RequestsTallied
  <1>8. CASE requestTotal' = requestTotal /\ \A q \in Requests : Same(q)
    <2>1. Observed' = Observed /\ \A p \in Observed : Labels'[p] = Labels[p]
      BY <1>2, <1>4, <1>8
    <2> QED BY <1>5, <1>8, <2>1
  <1> QED BY <1>6, <1>7, <1>8, RecordSteps, PassingSteps

\* The invariant of the server that the records rest on.
ServerInv == SlotInv /\ AnswerInv /\ ShapesInv /\ RequestsTallied

\* Nothing is recorded at the start.
LEMMA ServerInvInit == ServerInit => ServerInv
  <1> SUFFICES ASSUME ServerInit PROVE ServerInv
    OBVIOUS
  <1>1. SlotInv /\ AnswerInv
    BY SlotsInit, AnswersInit DEF ServerInit
  <1>2. ServerTypes
    BY DEF ServerInit, ServerTypes, Phases, Stages
  <1>3. \A q \in Requests : RecordShape(q)
    BY NoneNoAnalysis, NoneIsNoRecord DEF ServerInit, Init, RecordShape
  <1>4. Observed = {}
    BY DEF ServerInit, Observed
  <1>5. requestTotal = [l \in {} |-> 1]
    BY DEF ServerInit, EmptyBag, SetToBag
  <1>6. Tally(Labels, {}) = [l \in {} |-> 1]
    BY DEF Tally
  <1>7. RequestsTallied
    BY <1>4, <1>5, <1>6 DEF RequestsTallied
  <1> QED BY <1>1, <1>2, <1>3, <1>7 DEF ServerInv, ShapesInv

\* Each step of the server keeps its invariant.
LEMMA ServerInvNext == ASSUME ServerInv, [ServerNext]_serverVars PROVE ServerInv'
  <1>1. [HandlersNext]_vars
    BY ServerHandles DEF ServerInv, ShapesInv, ServerTypes
  <1>2. SlotInv' /\ AnswerInv'
    BY <1>1, SlotsNext, AnswersNext DEF ServerInv
  <1> QED BY <1>2, ShapesNext, TalliedNext DEF ServerInv

\* The invariant makes the three records agree.
LEMMA ServerInvRecords == ASSUME ServerInv PROVE RequestsRecorded
  <1>1. CountersMatchAnswers
    BY AnswersMatch DEF ServerInv
  <1>2. IsFiniteSet(Observed) /\ Observed \subseteq Requests
    BY RequestsFinite, FS_Subset DEF Observed
  <1>3. ServerTypeOK
    <2>1. IsABag(requestTotal)
      BY <1>2, TallyIsBag DEF ServerInv, RequestsTallied
    <2> QED BY <2>1 DEF ServerInv, ShapesInv, ServerTypes, ServerTypeOK
  <1> DEFINE Label(q) == <<RouteLabel(req[q]), sent[q]>>
  <1>4. requestTotal = [l \in {Label(q) : q \in Observed} |->
                           Cardinality({q \in Observed : Label(q) = l})]
    <2>1. \A q \in Observed : Labels[q] = Label(q)
      BY <1>2 DEF Labels
    <2>2. {Labels[q] : q \in Observed} = {Label(q) : q \in Observed}
      BY <2>1
    <2>3. ASSUME NEW l PROVE {q \in Observed : Labels[q] = l} = {q \in Observed : Label(q) = l}
      BY <2>1
    <2>4. requestTotal = Tally(Labels, Observed)
      BY DEF ServerInv, RequestsTallied
    <2> HIDE DEF Label
    <2> QED BY <2>2, <2>3, <2>4 DEF Tally
  <1>5. ASSUME NEW q \in Observed PROVE Final(q)
    BY DEF ServerInv, ShapesInv, RecordShape, Observed
  <1>6. \A q \in Requests : /\ logged[q] \notin {None, "unknown"}
                                 => CanonicalOutcome(logged[q]) = outcome[q]
                            /\ logged[q] = "unknown" => sent[q] # 200
    BY DEF ServerInv, ShapesInv, RecordShape
  <1> HIDE DEF Label
  <1>7. \A q \in Observed :
       outcome[q] # None <=> /\ req[q].method = "POST"
                             /\ RouteLabel(req[q]) # "unknown"
                             /\ sent[q] \notin {401, 429}
    BY <1>5 DEF Final
  <1> USE DEF Label
  <1> QED BY <1>1, <1>3, <1>4, <1>6, <1>7 DEF RequestsRecorded

\* RequestsRecorded (metrics.go, middleware.go, handler.go): in every run of the server,
\* whatever requests there are, however they interleave and wherever a panic, a gate or
\* the shutdown ends them, request_total, the outcome counters and the log lines
\* agree on each request.
THEOREM RecordsAgree == ServerSpec => []RequestsRecorded
  <1>1. ServerInv /\ [ServerNext]_serverVars => ServerInv'
    BY ServerInvNext
  <1>2. ServerInv => RequestsRecorded
    BY ServerInvRecords
  <1> QED BY <1>1, <1>2, ServerInvInit, PTL DEF ServerSpec

-----------------------------------------------------------------------------
(* The command line client.                                                  *)

\* What a request has been sent, and why.
SentShape(q) ==
  sent[q] \notin {None, Aborted} =>
    \/ sent[q] = 204 /\ req[q].method = "OPTIONS"
    \/ pc[q] = "new" /\ sent[q] \in {200, 401, 404, 405, 429, 503}
    \/ pc[q] # "new" /\ answer[q] # None /\ sent[q] = StatusOf(answer[q])

SentInv == \A q \in Requests : SentShape(q)

\* A request with a status is past its handler, and no later step concerns more of it
\* than its records.
LEMMA SentSettles ==
  ASSUME ServerInv, ServerInv', [ServerNext]_serverVars, NEW q \in Requests, sent[q] # None
  PROVE  /\ sent'[q] = sent[q] /\ req'[q] = req[q] /\ pc'[q] = pc[q]
         /\ answer'[q] = answer[q] /\ outcome'[q] = outcome[q]
         /\ route'[q] = None <=> route[q] = None
  <1>1. stage[q] \in {"observing", "logging", "closed"}
    BY DEF ServerInv, ShapesInv, ServerTypes, Stages, RecordShape
  <1>2. ASSUME OwnStep(q)
        PROVE  UNCHANGED <<sent, req, pc, answer, outcome>>
    <2>1. ObserveHTTPRequest(q) \/ Log(q)
      BY <1>1, <1>2 DEF OwnStep, Serving, Arrive, CORS, CORSPanics, BearerAuth, RateLimit,
         RouteToAnalyze, RouteElsewhere, HandlerStep, HandlerReturned, HandlerPanicked, At
    <2> QED BY <2>1 DEF ObserveHTTPRequest, Log, ChainOnly, vars
  <1>3. OwnStep(q) \/ Same(q)
    BY RecordSteps DEF ServerInv, Kept
  <1>4. /\ sent'[q] = sent[q] /\ req'[q] = req[q] /\ pc'[q] = pc[q]
        /\ answer'[q] = answer[q] /\ outcome'[q] = outcome[q]
    BY <1>2, <1>3 DEF Same
  <1>5. route'[q] = None <=> route[q] = None
    BY <1>4 DEF ServerInv, AnswerInv, AnswerShape
  <1> QED BY <1>4, <1>5

\* A request that has arrived stays the request it is.
LEMMA ArrivedStays ==
  ASSUME ServerInv, ServerInv', [ServerNext]_serverVars, NEW q \in Requests,
         stage[q] # "none"
  PROVE  stage'[q] # "none" /\ req'[q] = req[q]
  <1>1. ASSUME Serving(q) PROVE stage'[q] # "none" /\ req' = req
    BY <1>1 DEF Serving, CORS, CORSPanics, BearerAuth, RateLimit, RouteToAnalyze,
       RouteElsewhere, HandlerStep, HandlerReturned, HandlerPanicked, ObserveHTTPRequest,
       Log, At, ToStage, ServerInv, ShapesInv, ServerTypes
  <1>2. OwnStep(q) \/ Same(q)
    BY RecordSteps DEF ServerInv, Kept
  <1> QED BY <1>1, <1>2 DEF OwnStep, Arrive, Same

\* A status is sent for one of the reasons above.
LEMMA SentNext ==
  ASSUME ServerInv, ServerInv', SentInv, [ServerNext]_serverVars PROVE SentInv'
  <1> SUFFICES ASSUME NEW q \in Requests PROVE SentShape(q)'
    BY DEF SentInv
  <1>1. SentShape(q)
    BY DEF SentInv
  <1>2. CASE sent[q] # None
    BY <1>1, <1>2, SentSettles DEF SentShape
  <1>3. CASE sent[q] = None /\ Same(q)
    BY <1>3 DEF SentShape, Same
  <1>4. CASE sent[q] = None /\ OwnStep(q)
    <2>1. DOMAIN sent = Requests
      BY DEF ServerInv, ShapesInv, ServerTypes
    <2>2. CASE sent' = sent
      BY <1>4, <2>2 DEF SentShape
    <2>3. CASE sent' = [sent EXCEPT ![q] = Aborted]
      BY <2>1, <2>3 DEF SentShape
    <2>4. CASE BearerAuth(q) \/ RateLimit(q)
      <3>1. stage[q] \in {"auth", "limit"} /\ pc' = pc
        BY <2>4 DEF BearerAuth, RateLimit, At, ChainOnly, vars
      <3>2. pc'[q] = "new"
        BY <3>1, InwardBlank DEF ServerInv
      <3>3. sent' = sent \/ \E n \in {401, 429} : sent' = [sent EXCEPT ![q] = n]
        BY <2>4 DEF BearerAuth, RateLimit, Send
      <3> QED BY <2>1, <2>2, <3>2, <3>3 DEF SentShape
    <2>5. CASE CORS(q) /\ sent' # sent
      <3>1. sent' = [sent EXCEPT ![q] = 204] /\ req[q].method = "OPTIONS" /\ req' = req
        BY <2>5 DEF CORS, Send
      <3> QED BY <2>1, <3>1 DEF SentShape
    <2>6. CASE RouteElsewhere(q)
      <3>1. PICK n \in OtherStatuses(req[q]) : sent' = [sent EXCEPT ![q] = n]
        BY <2>6 DEF RouteElsewhere, Send
      <3>2. n \in {200, 404, 405, 503}
        BY OtherRoutes
      <3>3. stage[q] = "routing" /\ pc' = pc
        BY <2>6 DEF RouteElsewhere, At, ChainOnly, vars
      <3>4. pc'[q] = "new" /\ sent'[q] = n
        BY <2>1, <3>1, <3>3, InwardBlank DEF ServerInv
      <3> QED BY <3>2, <3>4 DEF SentShape
    <2>7. CASE HandlerReturned(q)
      <3>1. /\ sent' = [sent EXCEPT ![q] = StatusOf(answer[q])]
            /\ answer' = answer /\ pc' = pc /\ answer[q] # None /\ pc[q] = "done"
        BY <2>7 DEF HandlerReturned, Send, ChainOnly, vars
      <3> QED BY <2>1, <3>1 DEF SentShape
    <2>8. \/ sent' = sent
          \/ sent' = [sent EXCEPT ![q] = Aborted]
          \/ CORS(q) \/ BearerAuth(q) \/ RateLimit(q) \/ RouteElsewhere(q)
          \/ HandlerReturned(q)
      BY <1>4 DEF OwnStep, Arrive, Serving, CORSPanics, RouteToAnalyze, HandlerStep,
         HandlerPanicked, ObserveHTTPRequest, Log, Send
    <2> QED BY <2>2, <2>3, <2>4, <2>5, <2>6, <2>7, <2>8
  <1> QED BY <1>2, <1>3, <1>4, RecordSteps DEF ServerInv, Kept

\* The answer to a POST request: an analysis, or an error with a code.
LEMMA PostAnswered ==
  ASSUME ServerInv, SentInv, NEW q \in Requests, req[q].method = "POST",
         sent[q] \notin {None, Aborted}
  PROVE  \/ sent[q] = 200
         \/ /\ sent[q] \notin 200 .. 299
            /\ ErrorCode(q) \notin {None, "unsupported_diagram_type", "transport_error"}
  <1>1. CASE pc[q] = "new" /\ sent[q] \in {401, 404, 405, 429, 503}
    <2>1. route[q] = None
      BY <1>1 DEF ServerInv, AnswerInv, AnswerShape
    <2>2. ErrorCode(q) \in {"unauthorized", "rate_limited", "http_error"}
      BY <1>1, <2>1 DEF ErrorCode
    <2> QED BY <1>1, <2>2, NoneIsNoInput
  <1>2. CASE pc[q] # "new" /\ answer[q] # None /\ sent[q] = StatusOf(answer[q])
    <2>1. CASE answer[q] \in Analyses
      BY <1>2, <2>1, HandlerStatuses
    <2>2. CASE answer[q] \notin Analyses
      <3>1. sent[q] \in {400, 413, 500, 503, 504}
        BY <1>2, <2>2, HandlerStatuses
      <3>2. route[q] # None
        BY <1>2 DEF ServerInv, AnswerInv, AnswerShape
      <3>3. ErrorCode(q) = answer[q]
        BY <3>1, <3>2 DEF ErrorCode
      <3>4. answer[q] \in Codes
        BY <1>2 DEF ServerInv, AnswerInv, AnswerTypes
      <3>5. answer[q] \notin {None, "unsupported_diagram_type", "transport_error"}
        BY <1>2, <2>2, <3>4 DEF Analyses, Codes, AllBadInputs, Outcomes
      <3> QED BY <3>1, <3>3, <3>5
    <2> QED BY <2>1, <2>2
  <1> QED BY <1>1, <1>2 DEF SentInv, SentShape

\* The client has an answer to a request.
Settled(q) == sent[q] \notin {None, Aborted}

\* What the client makes of a request's answer, with and without issues in it.
IssuesIn == [q \in Requests |-> AnalyzeRemote(q, TRUE)]
NoneIn == [q \in Requests |-> AnalyzeRemote(q, FALSE)]

\* Its result for a request that it has an answer to.
ResultOf(q) == IF q \in found THEN IssuesIn[q] ELSE NoneIn[q]

\* What no step of the server changes for the client.
Stands(q) ==
  /\ stage[q] # "none" => stage'[q] # "none" /\ req'[q] = req[q]
  /\ Settled(q) => /\ sent'[q] = sent[q] /\ answer'[q] = answer[q] /\ outcome'[q] = outcome[q]
                   /\ IssuesIn'[q] = IssuesIn[q] /\ NoneIn'[q] = NoneIn[q]

\* No answer is taken back, and no request that has arrived becomes another one.
LEMMA ServerStands ==
  ASSUME ServerInv, ServerInv', [ServerNext]_serverVars, NEW q \in Requests
  PROVE  Stands(q)
  <1>1. stage[q] # "none" => stage'[q] # "none" /\ req'[q] = req[q]
    BY ArrivedStays
  <1>2. ASSUME Settled(q)
        PROVE  /\ sent'[q] = sent[q] /\ answer'[q] = answer[q] /\ outcome'[q] = outcome[q]
               /\ route'[q] = None <=> route[q] = None
    BY <1>2, SentSettles DEF Settled
  <1>3. ASSUME Settled(q) PROVE ErrorCode(q)' = ErrorCode(q)
    BY <1>2, <1>3 DEF ErrorCode
  <1>4. ASSUME Settled(q), NEW b PROVE AnalyzeRemote(q, b)' = AnalyzeRemote(q, b)
    BY <1>2, <1>3, <1>4, ZenonT(40) DEF AnalyzeRemote
  <1>5. ASSUME Settled(q) PROVE IssuesIn'[q] = IssuesIn[q] /\ NoneIn'[q] = NoneIn[q]
    BY <1>4, <1>5 DEF IssuesIn, NoneIn
  <1> QED BY <1>1, <1>2, <1>5 DEF Stands

\* A step of the client is a step of the server, or leaves it alone.
LEMMA ClientServes ==
  ASSUME opts # None => opts \in Invocations, [ClientNext]_<<serverVars, clientVars>>
  PROVE  [ServerNext]_serverVars
  <1>1. ASSUME NEW q \in Requests, SendInput(q) PROVE ServerNext
    <2>1. opts \in Invocations /\ Arrive(q, ClientRequest(opts))
      BY <1>1 DEF SendInput, Idle
    <2>2. ClientRequest(opts) \in Arrivals
      BY <2>1, ClientRequestsArrive
    <2> QED BY <2>1, <2>2 DEF ServerNext
  <1>2. CASE ServerNext \/ UNCHANGED serverVars
    BY <1>2
  <1> QED BY <1>1, <1>2 DEF ClientNext, ClientStep, Invoke, InvokeFails, GetAnswer, NoAnswer,
                            Finish, FinishFails

\* The requests that the client has done with.
Done == asked \ {waiting}

ClientTypes ==
  /\ asked \subseteq Requests /\ found \subseteq Done /\ left \in Nat
  /\ waiting # None => waiting \in asked /\ exitCode = None /\ left > 0 /\ opts # None
  /\ opts = None => /\ asked = {} /\ results = {} /\ waiting = None
                    /\ exitCode = None
  /\ opts # None => opts \in Invocations
  /\ exitCode = None => ~broken

\* The results, and what is known of the requests they are those of.
ResultsKnown ==
  /\ \A q \in asked : stage[q] # "none" /\ req[q].method = "POST"
  /\ \A q \in found : Settled(q) /\ answer[q] = "ok"
  /\ \A r \in results : \/ r = TransportError
                        \/ \E q \in Done : Settled(q) /\ r = ResultOf(q)

\* Without a transport error every input done with has an answer and a result.
ResultsComplete ==
  TransportError \notin results =>
    /\ \A q \in Done : Settled(q) /\ ResultOf(q) \in results
    /\ opts # None /\ ~broken => Cardinality(Done) + left = opts.inputs

\* The exit code of a run that is over.
ExitChosen ==
  exitCode # None =>
    \/ broken /\ exitCode = exitInternal
    \/ /\ ~broken /\ waiting = None /\ left = 0
       /\ exitCode = ChooseExitCode(RunSummary(opts, results))

ClientInv ==
  /\ ServerInv /\ SentInv
  /\ ClientTypes /\ ResultsKnown /\ ResultsComplete /\ ExitChosen

\* Results are kept by a step that leaves the client's requests and results alone.
LEMMA ResultsStand ==
  ASSUME ClientTypes, ResultsKnown, \A q \in Requests : Stands(q),
         UNCHANGED <<waiting, asked, found, results>>
  PROVE  /\ ResultsKnown'
         /\ \A q \in Done : Settled(q) => Settled(q)' /\ ResultOf(q)' = ResultOf(q)
  <1>1. \A q \in asked : q \in Requests /\ Stands(q) /\ q \in asked
    BY DEF ClientTypes
  <1>2. \A q \in found : q \in Requests /\ Stands(q)
    BY DEF ClientTypes, Done
  <1>3. \A q \in Done : Settled(q) => Settled(q)' /\ ResultOf(q)' = ResultOf(q)
    BY <1>1 DEF Done, Stands, Settled, ResultOf
  <1>4. Done' = Done
    BY DEF Done
  <1>5. \A q \in asked' : stage'[q] # "none" /\ req'[q].method = "POST"
    BY <1>1 DEF ResultsKnown, Stands
  <1>6. \A q \in found' : Settled(q)' /\ answer'[q] = "ok"
    BY <1>2 DEF ResultsKnown, Stands, Settled
  <1>7. \A r \in results' : \/ r = TransportError
                            \/ \E q \in Done' : Settled(q)' /\ r = ResultOf(q)'
    BY <1>3, <1>4 DEF ResultsKnown
  <1> QED BY <1>3, <1>5, <1>6, <1>7 DEF ResultsKnown, TransportError, Result

\* A step of the server.
LEMMA ServerStepClient ==
  ASSUME ClientInv, \A q \in Requests : Stands(q), UNCHANGED clientVars
  PROVE  ClientTypes' /\ ResultsKnown' /\ ResultsComplete' /\ ExitChosen'
  <1>1. UNCHANGED <<opts, left, waiting, asked, found, results, broken, exitCode>>
    BY DEF clientVars
  <1>2. Done' = Done
    BY <1>1 DEF Done
  <1>3. ClientTypes'
    BY <1>1, <1>2 DEF ClientInv, ClientTypes
  <1>4. /\ ResultsKnown'
        /\ \A q \in Done : Settled(q) => Settled(q)' /\ ResultOf(q)' = ResultOf(q)
    BY <1>1, ResultsStand DEF ClientInv
  <1>5. ResultsComplete'
    BY <1>1, <1>2, <1>4 DEF ClientInv, ResultsComplete, TransportError, Result
  <1>6. ExitChosen'
    BY <1>1 DEF ClientInv, ExitChosen, ChooseExitCode, RunSummary, TransportError, Result,
                IsSyntaxFailure
  <1> QED BY <1>3, <1>4, <1>5, <1>6

\* The run begins, or ends before its first input.
LEMMA InvokeClient ==
  ASSUME ClientInv, \A q \in Requests : Stands(q), NEW o \in Invocations,
         Invoke(o) \/ InvokeFails(o)
  PROVE  ClientTypes' /\ ResultsKnown' /\ ResultsComplete' /\ ExitChosen'
  <1>1. /\ opts = None /\ opts' = o
        /\ \/ left' = o.inputs /\ UNCHANGED <<broken, exitCode>>
           \/ left' = left /\ broken' = TRUE /\ exitCode' = exitInternal
        /\ UNCHANGED <<waiting, asked, found, results>>
    BY DEF Invoke, InvokeFails
  <1>2. o.inputs \in Nat \ {0} /\ o # None
    BY InvocationsKnown, NoneIsNoInput DEF AllInvocations
  <1>3. /\ asked = {} /\ results = {} /\ waiting = None /\ exitCode = None /\ ~broken
        /\ found = {} /\ left \in Nat
    BY <1>1 DEF ClientInv, ClientTypes, Done
  <1>4. exitInternal # None
    BY NoneIsNoRecord DEF exitInternal
  <1>5. Done' = {}
    BY <1>1, <1>3 DEF Done
  <1>6. ClientTypes'
    BY <1>1, <1>2, <1>3, <1>4, <1>5 DEF ClientTypes
  <1>7. ResultsKnown'
    BY <1>1, <1>3 DEF ResultsKnown
  <1>8. ResultsComplete'
    <2>1. Cardinality({}) = 0
      BY FS_EmptySet
    <2>2. ASSUME ~broken' PROVE left' = o.inputs
      BY <1>1, <2>2
    <2> QED BY <1>1, <1>2, <1>5, <2>1, <2>2 DEF ResultsComplete
  <1>9. ExitChosen'
    BY <1>1, <1>3 DEF ExitChosen
  <1> QED BY <1>6, <1>7, <1>8, <1>9

\* An input is sent.
LEMMA SendClient ==
  ASSUME ClientInv, \A q \in Requests : Stands(q), NEW s \in Requests, SendInput(s)
  PROVE  ClientTypes' /\ ResultsKnown' /\ ResultsComplete' /\ ExitChosen'
  <1>1. /\ opts # None /\ exitCode = None /\ waiting = None /\ left > 0
        /\ waiting' = s /\ asked' = asked \cup {s}
        /\ UNCHANGED <<opts, left, found, results, broken, exitCode>>
        /\ stage[s] = "none" /\ stage' = [stage EXCEPT ![s] = "cors"]
        /\ req' = [req EXCEPT ![s] = ClientRequest(opts)]
    BY DEF SendInput, Idle, Arrive, ToStage
  <1>2. s # None /\ None \notin Requests /\ DOMAIN stage = Requests /\ DOMAIN req = Requests
    BY NoneIsNoInput DEF ClientInv, ServerInv, ShapesInv, ServerTypes
  <1>3. s \notin asked
    BY <1>1 DEF ClientInv, ResultsKnown
  <1>4. Done = asked /\ Done' = asked
    BY <1>1, <1>2, <1>3 DEF Done, ClientInv, ClientTypes
  <1>5. ClientTypes'
    BY <1>1, <1>2, <1>4 DEF ClientInv, ClientTypes
  <1>6. \A q \in asked : q \in Requests /\ Stands(q)
    BY DEF ClientInv, ClientTypes
  <1>7. \A q \in Done : Settled(q) => Settled(q)' /\ ResultOf(q)' = ResultOf(q)
    BY <1>1, <1>4, <1>6 DEF Stands, Settled, ResultOf
  <1>8. ResultsKnown'
    <2>1. stage'[s] # "none" /\ req'[s].method = "POST"
      BY <1>1, <1>2 DEF ClientRequest
    <2>2. \A q \in asked' : stage'[q] # "none" /\ req'[q].method = "POST"
      BY <1>1, <1>6, <2>1 DEF ClientInv, ResultsKnown, Stands
    <2>3. \A q \in found' : Settled(q)' /\ answer'[q] = "ok"
      BY <1>1, <1>4, <1>6 DEF ClientInv, ClientTypes, ResultsKnown, Stands, Settled
    <2>4. \A r \in results' : \/ r = TransportError
                              \/ \E q \in Done' : Settled(q)' /\ r = ResultOf(q)'
      BY <1>1, <1>4, <1>7 DEF ClientInv, ResultsKnown
    <2> QED BY <2>2, <2>3, <2>4 DEF ResultsKnown, TransportError, Result
  <1>9. ResultsComplete'
    BY <1>1, <1>4, <1>7 DEF ClientInv, ResultsComplete, TransportError, Result
  <1>10. ExitChosen'
    BY <1>1 DEF ExitChosen
  <1> QED BY <1>5, <1>8, <1>9, <1>10

\* The input waited for is done with: the requests, and how many there are.
LEMMA OneMoreDone ==
  ASSUME ClientTypes, waiting # None, waiting' = None, asked' = asked
  PROVE  /\ Done' = Done \cup {waiting} /\ waiting \notin Done /\ waiting \in Requests
         /\ Cardinality(Done) \in Nat
         /\ Cardinality(Done') = Cardinality(Done) + 1
  <1>1. waiting \in asked /\ asked \subseteq Requests /\ None \notin Requests
    BY NoneIsNoInput DEF ClientTypes
  <1>2. Done' = Done \cup {waiting} /\ waiting \notin Done
    BY <1>1 DEF Done
  <1>3. IsFiniteSet(Done)
    BY <1>1, RequestsFinite, FS_Subset DEF Done
  <1> QED BY <1>1, <1>2, <1>3, FS_AddElement, FS_CardinalityType

\* An answer has been read.
LEMMA AnswerClient ==
  ASSUME ClientInv, \A q \in Requests : Stands(q), NEW issues \in BOOLEAN, GetAnswer(issues)
  PROVE  ClientTypes' /\ ResultsKnown' /\ ResultsComplete' /\ ExitChosen'
  <1>1. PICK w : w = waiting
    OBVIOUS
  <1>2. /\ w # None /\ Settled(w) /\ (issues => answer[w] = "ok")
        /\ results' = results \cup {AnalyzeRemote(w, issues)}
        /\ found' = IF issues THEN found \cup {w} ELSE found
        /\ left' = left - 1 /\ waiting' = None
        /\ UNCHANGED <<opts, asked, broken, exitCode>>
        /\ UNCHANGED serverVars
    BY <1>1 DEF GetAnswer, Settled
  <1>3. /\ Done' = Done \cup {w} /\ w \notin Done /\ w \in Requests
        /\ Cardinality(Done) \in Nat /\ Cardinality(Done') = Cardinality(Done) + 1
    BY <1>1, <1>2, OneMoreDone DEF ClientInv
  <1>4. /\ w \in asked /\ exitCode = None /\ left > 0 /\ left \in Nat /\ opts # None
        /\ found \subseteq Done
    BY <1>1, <1>2 DEF ClientInv, ClientTypes
  <1>5. UNCHANGED <<stage, req, sent, answer, route>>
    BY <1>2 DEF serverVars, serverOnly, vars
  <1>6. IssuesIn' = IssuesIn /\ NoneIn' = NoneIn
    BY <1>5 DEF IssuesIn, NoneIn, AnalyzeRemote, ErrorCode
  <1>7. /\ \A q \in Done : Settled(q) => Settled(q)' /\ ResultOf(q)' = ResultOf(q)
        /\ Settled(w)'
    BY <1>2, <1>3, <1>5, <1>6 DEF Settled, ResultOf
  <1>8. ResultOf(w)' = AnalyzeRemote(w, issues)
    <2>1. CASE issues
      <3>1. w \in found' /\ issues = TRUE
        BY <1>2, <2>1
      <3> QED BY <1>3, <1>6, <3>1 DEF ResultOf, IssuesIn
    <2>2. CASE ~issues
      <3>1. w \notin found' /\ issues = FALSE
        BY <1>2, <1>3, <1>4, <2>2
      <3> QED BY <1>3, <1>6, <3>1 DEF ResultOf, NoneIn
    <2> QED BY <2>1, <2>2
  <1>9. PICK new : new = AnalyzeRemote(w, issues)
    OBVIOUS
  <1>10. results' = results \cup {new} /\ ResultOf(w)' = new
    BY <1>2, <1>8, <1>9
  <1>11. ClientTypes'
    <2>1. found' \subseteq Done'
      BY <1>2, <1>3, <1>4
    <2> QED BY <1>2, <1>4, <2>1 DEF ClientInv, ClientTypes
  <1>12. ResultsKnown'
    <2>1. \A q \in asked' : stage'[q] # "none" /\ req'[q].method = "POST"
      BY <1>2, <1>5 DEF ClientInv, ResultsKnown
    <2>2. \A q \in found' : Settled(q)' /\ answer'[q] = "ok"
      BY <1>2, <1>5 DEF ClientInv, ResultsKnown, Settled
    <2>3. \A r \in results' : \/ r = TransportError
                              \/ \E q \in Done' : Settled(q)' /\ r = ResultOf(q)'
      BY <1>3, <1>7, <1>10 DEF ClientInv, ResultsKnown
    <2> QED BY <2>1, <2>2, <2>3 DEF ResultsKnown, TransportError, Result
  <1>13. ResultsComplete'
    <2>1. ASSUME TransportError \notin results'
          PROVE  /\ \A q \in Done' : Settled(q)' /\ ResultOf(q)' \in results'
                 /\ ~broken => Cardinality(Done') + left' = opts.inputs
      <3>1. TransportError \notin results
        BY <1>10, <2>1
      <3>2. /\ \A q \in Done : Settled(q) /\ ResultOf(q) \in results
            /\ ~broken => Cardinality(Done) + left = opts.inputs
        BY <1>4, <3>1 DEF ClientInv, ResultsComplete
      <3> QED BY <1>2, <1>3, <1>4, <1>7, <1>10, <3>2
    <2> QED BY <1>2, <2>1 DEF ResultsComplete, TransportError, Result
  <1>14. ExitChosen'
    BY <1>2, <1>4 DEF ExitChosen
  <1> QED BY <1>11, <1>12, <1>13, <1>14

\* An input gets no answer.
LEMMA NoAnswerClient ==
  ASSUME ClientInv, NoAnswer
  PROVE  ClientTypes' /\ ResultsKnown' /\ ResultsComplete' /\ ExitChosen'
  <1>1. /\ exitCode = None /\ left \in Nat /\ left > 0 /\ opts # None
        /\ results' = results \cup {TransportError}
        /\ left' = left - 1 /\ waiting' = None
        /\ UNCHANGED <<opts, asked, found, broken, exitCode>>
    BY DEF NoAnswer, Idle, ClientInv, ClientTypes
  <1>2. UNCHANGED <<stage, req, sent, answer, route>>
    BY DEF NoAnswer, serverVars, serverOnly, vars
  <1>3. IssuesIn' = IssuesIn /\ NoneIn' = NoneIn
    BY <1>2 DEF IssuesIn, NoneIn, AnalyzeRemote, ErrorCode
  <1>4. Done \subseteq Done'
    BY <1>1, NoneIsNoInput DEF Done, ClientInv, ClientTypes
  <1>5. ClientTypes'
    BY <1>1, <1>4 DEF ClientInv, ClientTypes
  <1>6. \A q : (Settled(q)' <=> Settled(q)) /\ ResultOf(q)' = ResultOf(q)
    BY <1>1, <1>2, <1>3 DEF Settled, ResultOf
  <1>7. ResultsKnown'
    <2>1. \A q \in asked' : stage'[q] # "none" /\ req'[q].method = "POST"
      BY <1>1, <1>2 DEF ClientInv, ResultsKnown
    <2>2. \A q \in found' : Settled(q)' /\ answer'[q] = "ok"
      BY <1>1, <1>2 DEF ClientInv, ResultsKnown, Settled
    <2>3. \A r \in results' : \/ r = TransportError
                              \/ \E q \in Done' : Settled(q)' /\ r = ResultOf(q)'
      BY <1>1, <1>4, <1>6 DEF ClientInv, ResultsKnown
    <2> QED BY <2>1, <2>2, <2>3 DEF ResultsKnown, TransportError, Result
  <1>8. ResultsComplete'
    BY <1>1 DEF ResultsComplete, TransportError, Result
  <1>9. ExitChosen'
    BY <1>1 DEF ExitChosen
  <1> QED BY <1>5, <1>7, <1>8, <1>9

\* The run ends.
LEMMA FinishClient ==
  ASSUME ClientInv, \A q \in Requests : Stands(q), Finish \/ FinishFails
  PROVE  ClientTypes' /\ ResultsKnown' /\ ResultsComplete' /\ ExitChosen'
  <1>1. /\ exitCode = None /\ waiting = None /\ left = 0 /\ opts # None
        /\ UNCHANGED <<opts, left, waiting, asked, found, results>>
    BY DEF Finish, FinishFails, Idle
  <1>2. ~broken
    BY <1>1 DEF ClientInv, ClientTypes
  <1>3. Done' = Done
    BY <1>1 DEF Done
  <1>4. exitCode' \in {0, 1, 2, 3} /\ exitCode' # None
    BY NoneIsNoRecord DEF Finish, FinishFails, ChooseExitCode, exitOK, exitFindings,
                          exitInternal, exitTransport
  <1>5. ClientTypes'
    BY <1>1, <1>3, <1>4 DEF ClientInv, ClientTypes
  <1>6. /\ ResultsKnown'
        /\ \A q \in Done : Settled(q) => Settled(q)' /\ ResultOf(q)' = ResultOf(q)
    BY <1>1, ResultsStand DEF ClientInv
  <1>7. ResultsComplete'
    BY <1>1, <1>2, <1>3, <1>6 DEF ClientInv, ResultsComplete, TransportError, Result
  <1>8. CASE Finish
    <2>1. broken' = broken /\ exitCode' = ChooseExitCode(RunSummary(opts, results))
      BY <1>8 DEF Finish
    <2>2. ChooseExitCode(RunSummary(opts, results))' = ChooseExitCode(RunSummary(opts, results))
      BY <1>1 DEF ChooseExitCode, RunSummary, TransportError, Result, IsSyntaxFailure
    <2>3. ExitChosen'
      BY <1>1, <1>2, <2>1, <2>2 DEF ExitChosen
    <2> QED BY <1>5, <1>6, <1>7, <2>3
  <1>9. CASE FinishFails
    <2>1. ExitChosen'
      BY <1>9 DEF FinishFails, ExitChosen
    <2> QED BY <1>5, <1>6, <1>7, <2>1
  <1> QED BY <1>8, <1>9

\* The invariant of the client and its server.
LEMMA ClientInvInit == ClientInit => ClientInv
  <1> SUFFICES ASSUME ClientInit PROVE ClientInv
    OBVIOUS
  <1>1. ServerInv
    BY ServerInvInit DEF ClientInit
  <1>2. SentInv
    BY DEF ClientInit, ServerInit, SentInv, SentShape
  <1> QED BY <1>1, <1>2 DEF ClientInit, ClientInv, ClientTypes, ResultsKnown, ResultsComplete,
                            ExitChosen, Done

\* Each step, of the client or of the server, keeps it.
LEMMA ClientInvNext ==
  ASSUME ClientInv, [ClientNext]_<<serverVars, clientVars>> PROVE ClientInv'
  <1>1. [ServerNext]_serverVars
    BY ClientServes DEF ClientInv, ClientTypes
  <1>2. ServerInv'
    BY <1>1, ServerInvNext DEF ClientInv
  <1>3. SentInv'
    BY <1>1, <1>2, SentNext DEF ClientInv
  <1>4. \A q \in Requests : Stands(q)
    BY <1>1, <1>2, ServerStands DEF ClientInv
  <1>5. ClientTypes' /\ ResultsKnown' /\ ResultsComplete' /\ ExitChosen'
    BY <1>4, InvokeClient, SendClient, AnswerClient, NoAnswerClient, FinishClient,
       ServerStepClient DEF ClientNext, ClientStep
  <1> QED BY <1>2, <1>3, <1>5 DEF ClientInv

\* What the client makes of an analysis; without a server it makes the same of it.
LEMMA ResultOfAnalysis ==
  ASSUME ClientInv, NEW q \in Requests, sent[q] = 200, q \in found => answer[q] = "ok",
         NEW r, r = ResultOf(q)
  PROVE  /\ r.error \in {None, "unsupported_diagram_type"}
         /\ IsSyntaxFailure(r) <=> answer[q] = "syntax_error"
         /\ r.issues <=> (q \in found \/ answer[q] = "unsupported_diagram_type")
         /\ answer[q] # "unsupported_diagram_type" => r = AnalyzeLocal(Parsed(q), q \in found)
  <1>1. None # "unsupported_diagram_type" /\ sent[q] \in 200 .. 299
    BY NoneIsNil DEF Codes
  <1>2. ASSUME NEW b
        PROVE  AnalyzeRemote(q, b) =
                 CASE answer[q] = "syntax_error" -> Result(FALSE, TRUE, FALSE, None)
                   [] answer[q] = "unsupported_diagram_type" ->
                        Result(TRUE, FALSE, TRUE, "unsupported_diagram_type")
                   [] OTHER -> Result(TRUE, FALSE, b, None)
    BY <1>1 DEF AnalyzeRemote
  <1>3. \/ q \in found /\ r = AnalyzeRemote(q, TRUE)
        \/ q \notin found /\ r = AnalyzeRemote(q, FALSE)
    BY DEF ResultOf, IssuesIn, NoneIn
  <1>4. CASE answer[q] = "syntax_error"
    <2>1. q \notin found /\ r = Result(FALSE, TRUE, FALSE, None)
      BY <1>2, <1>3, <1>4
    <2>2. AnalyzeLocal(Parsed(q), q \in found) = Result(FALSE, TRUE, FALSE, None)
      <3>1. Parsed(q) = "syntaxError"
        BY <1>4 DEF Parsed
      <3> QED BY <3>1 DEF AnalyzeLocal
    <2>3. r.error = None /\ r.syntax = TRUE /\ r.issues = FALSE
      BY <2>1 DEF Result
    <2>4. IsSyntaxFailure(r)
      BY <2>3 DEF IsSyntaxFailure
    <2> QED BY <1>4, <2>1, <2>2, <2>3, <2>4
  <1>5. CASE answer[q] = "unsupported_diagram_type"
    <2>1. r = Result(TRUE, FALSE, TRUE, "unsupported_diagram_type")
      BY <1>2, <1>3, <1>5
    <2>2. /\ r.error = "unsupported_diagram_type" /\ r.syntax = FALSE /\ r.issues = TRUE
          /\ r.valid = TRUE
      BY <2>1 DEF Result
    <2>3. ~IsSyntaxFailure(r)
      BY <2>2 DEF IsSyntaxFailure
    <2> QED BY <1>5, <2>2, <2>3
  <1>6. CASE answer[q] \notin {"syntax_error", "unsupported_diagram_type"}
    <2>1. Parsed(q) = "diagram"
      BY <1>6 DEF Parsed
    <2>2. ASSUME NEW b \in BOOLEAN, r = Result(TRUE, FALSE, b, None), b <=> q \in found
          PROVE  /\ r.error \in {None, "unsupported_diagram_type"}
                 /\ ~IsSyntaxFailure(r)
                 /\ r.issues <=> q \in found
                 /\ r = AnalyzeLocal(Parsed(q), q \in found)
      <3>1. r.error = None /\ r.syntax = FALSE /\ r.valid = TRUE /\ r.issues = b
        BY <2>2 DEF Result
      <3>2. ~IsSyntaxFailure(r)
        BY <3>1 DEF IsSyntaxFailure
      <3>3. AnalyzeLocal(Parsed(q), b) = Result(TRUE, FALSE, b, None)
        BY <2>1 DEF AnalyzeLocal
      <3>4. b = (q \in found)
        BY <2>2
      <3>5. r = AnalyzeLocal(Parsed(q), q \in found)
        BY <2>2, <3>3, <3>4, Zenon
      <3> QED BY <2>2, <3>1, <3>2, <3>5
    <2>3. CASE q \in found
      <3>1. r = Result(TRUE, FALSE, TRUE, None)
        BY <1>2, <1>3, <1>6, <2>3
      <3> QED BY <1>6, <2>2, <2>3, <3>1
    <2>4. CASE q \notin found
      <3>1. r = Result(TRUE, FALSE, FALSE, None)
        BY <1>2, <1>3, <1>6, <2>4
      <3> QED BY <1>6, <2>2, <2>4, <3>1
    <2> QED BY <2>3, <2>4
  <1> QED BY <1>4, <1>5, <1>6

\* A refusal is an internal failure of the run, and an analysis is none.
LEMMA ResultOfRefusal ==
  ASSUME ClientInv, NEW q \in Requests, sent[q] \notin 200 .. 299, NEW r, r = ResultOf(q)
  PROVE  r.error = ErrorCode(q)
  BY DEF ResultOf, IssuesIn, NoneIn, AnalyzeRemote, Result

\* An outcome is that of a syntax error exactly where the answer is one.
LEMMA SyntaxOutcome ==
  ASSUME AnswerInv, NEW q \in Requests
  PROVE  outcome[q] = "syntax_error" <=> answer[q] = "syntax_error"
  <1>1. CASE answer[q] = None
    <2>1. outcome[q] = None /\ None # "syntax_error"
      BY <1>1, NoneIsNil DEF AnswerInv, AnswerShape, Codes, Outcomes
    <2> QED BY <1>1, <2>1
  <1>2. CASE answer[q] # None
    <2>1. outcome[q] = OutcomeOf(answer[q])
      BY <1>2 DEF AnswerInv, AnswerShape
    <2>2. CASE answer[q] \in {"ok", "parser_memory_limit"}
      BY <2>1, <2>2, OutcomesNamed
    <2>3. CASE answer[q] \notin {"ok", "parser_memory_limit"}
      <3>1. OutcomeOf(answer[q]) = CanonicalOutcome(answer[q])
        BY <2>3, OutcomeByName
      <3> QED BY <2>1, <3>1 DEF CanonicalOutcome, Outcomes
    <2> QED BY <2>2, <2>3
  <1> QED BY <1>1, <1>2

\* What a run that is over shows, given the invariant.
LEMMA ClientInvTruthful == ASSUME ClientInv PROVE ExitCodeTruthful
  <1> SUFFICES ASSUME exitCode # None PROVE ExitCodeTruthful
    BY DEF ExitCodeTruthful
  <1> USE DEF exitOK, exitFindings, exitInternal, exitTransport
  <1>1. CASE broken /\ exitCode = exitInternal
    BY <1>1 DEF ExitCodeTruthful
  <1>2. CASE ~broken /\ waiting = None /\ left = 0
             /\ exitCode = ChooseExitCode(RunSummary(opts, results))
    <2> DEFINE sum == RunSummary(opts, results)
               local == {AnalyzeLocal(Parsed(q), q \in found) : q \in asked}
               syntaxFound == opts.failOnSyntax /\ \E q \in asked : outcome[q] = "syntax_error"
               lintFound == /\ opts.failOnLint
                            /\ \/ found # {}
                               \/ \E q \in asked : answer[q] = "unsupported_diagram_type"
    <2>1. opts # None /\ opts \in Invocations
      BY DEF ClientInv, ClientTypes
    <2>2. asked \subseteq Requests /\ Done = asked /\ found \subseteq asked
      BY <1>2, NoneIsNoInput DEF ClientInv, ClientTypes, Done
    <2>3. \A q \in asked : req[q].method = "POST"
      BY DEF ClientInv, ResultsKnown
    <2>4. \A q \in found : answer[q] = "ok"
      BY DEF ClientInv, ResultsKnown
    <2>5. \A r \in results : \/ r = TransportError
                             \/ \E q \in asked : Settled(q) /\ r = ResultOf(q)
      BY <2>2 DEF ClientInv, ResultsKnown
    <2>6. TransportError \notin results =>
            /\ \A q \in asked : Settled(q) /\ ResultOf(q) \in results
            /\ Cardinality(asked) = opts.inputs
      <3>1. opts.inputs \in Nat /\ Cardinality(asked) \in Nat
        BY <2>1, <2>2, InvocationsKnown, RequestsFinite, FS_Subset, FS_CardinalityType
        DEF AllInvocations
      <3> QED BY <1>2, <2>1, <2>2, <3>1 DEF ClientInv, ResultsComplete
    <2>7. \A q \in asked : Settled(q) =>
            \/ sent[q] = 200
            \/ /\ sent[q] \notin 200 .. 299
               /\ ErrorCode(q) \notin {None, "unsupported_diagram_type", "transport_error"}
      BY <2>2, <2>3, PostAnswered DEF ClientInv, Settled
    <2>8. /\ exitCode = exitTransport <=> TransportError \in results
          /\ exitCode = exitInternal =>
               \E r \in results :
                 r.error \notin {None, "unsupported_diagram_type", "transport_error"}
          /\ exitCode \in {exitOK, exitFindings} =>
               /\ TransportError \notin results
               /\ \A r \in results :
                    r.error \in {None, "unsupported_diagram_type", "transport_error"}
      <3>1. /\ sum.hasTransport <=> TransportError \in results
            /\ sum.hasInternalFailure <=>
                 \E r \in results :
                   r.error \notin {None, "unsupported_diagram_type", "transport_error"}
        BY Zenon DEF RunSummary
      <3> HIDE DEF sum
      <3>2. exitCode = ChooseExitCode(sum)
        BY <1>2 DEF sum
      <3> QED BY <3>1, <3>2 DEF ChooseExitCode
    <2>9. exitCode \in {exitOK, exitFindings} => \A q \in asked : sent[q] = 200
      <3> SUFFICES ASSUME exitCode \in {exitOK, exitFindings}, NEW q \in asked,
                          sent[q] # 200
                   PROVE  FALSE
        OBVIOUS
      <3>1. Settled(q) /\ ResultOf(q) \in results
        BY <2>6, <2>8
      <3>2. ResultOf(q).error = ErrorCode(q)
        BY <2>2, <2>7, <3>1, ResultOfRefusal
      <3> QED BY <2>7, <2>8, <3>1, <3>2
    <2>10. exitCode = exitInternal => \E q \in asked : sent[q] \notin {None, Aborted, 200}
      <3> SUFFICES ASSUME exitCode = exitInternal
                   PROVE  \E q \in asked : sent[q] \notin {None, Aborted, 200}
        OBVIOUS
      <3>1. PICK r \in results :
              r.error \notin {None, "unsupported_diagram_type", "transport_error"}
        BY <2>8
      <3>2. r # TransportError
        BY <3>1 DEF TransportError, Result
      <3>3. PICK q \in asked : Settled(q) /\ r = ResultOf(q)
        BY <2>5, <3>2
      <3>4. sent[q] # 200
        BY <2>2, <2>4, <3>1, <3>3, ResultOfAnalysis
      <3> QED BY <3>3, <3>4 DEF Settled
    <2>11. (\E q \in asked : sent[q] \in {None, Aborted}) => exitCode = exitTransport
      BY <2>6, <2>8 DEF Settled
    <2>12. ASSUME exitCode \in {exitOK, exitFindings}
           PROVE  exitCode = exitFindings <=> syntaxFound \/ lintFound
      <3>1. /\ \A q \in asked : ResultOf(q) \in results
            /\ \A r \in results : \E q \in asked : r = ResultOf(q)
        BY <2>5, <2>6, <2>8, <2>12
      <3>2. \A q \in asked :
              /\ IsSyntaxFailure(ResultOf(q)) <=> outcome[q] = "syntax_error"
              /\ ResultOf(q).issues <=> (q \in found \/ answer[q] = "unsupported_diagram_type")
        BY <2>2, <2>4, <2>9, <2>12, ResultOfAnalysis, SyntaxOutcome DEF ClientInv, ServerInv
      <3>3. exitCode = exitFindings <=>
              \E r \in results : \/ IsSyntaxFailure(r) /\ opts.failOnSyntax
                                 \/ r.issues /\ opts.failOnLint
        BY <1>2, <2>12 DEF ChooseExitCode, RunSummary
      <3>4. (\E r \in results : \/ IsSyntaxFailure(r) /\ opts.failOnSyntax
                                \/ r.issues /\ opts.failOnLint)
              <=> \E q \in asked : \/ IsSyntaxFailure(ResultOf(q)) /\ opts.failOnSyntax
                                   \/ ResultOf(q).issues /\ opts.failOnLint
        BY <3>1
      <3>5. (\E q \in asked : \/ IsSyntaxFailure(ResultOf(q)) /\ opts.failOnSyntax
                              \/ ResultOf(q).issues /\ opts.failOnLint)
              <=> syntaxFound \/ lintFound
        BY <2>2, <3>2
      <3> QED BY <3>3, <3>4, <3>5
    <2>13. ASSUME exitCode \in {exitOK, exitFindings},
                  \A q \in asked : answer[q] # "unsupported_diagram_type"
           PROVE  ChooseExitCode(RunSummary(opts, local)) = exitCode
      <3>1. /\ \A q \in asked : ResultOf(q) \in results
            /\ \A r \in results : \E q \in asked : r = ResultOf(q)
        BY <2>5, <2>6, <2>8, <2>13
      <3>2. \A q \in asked : ResultOf(q) = AnalyzeLocal(Parsed(q), q \in found)
        BY <2>2, <2>4, <2>9, <2>13, ResultOfAnalysis
      <3>3. local = results
        BY <3>1, <3>2
      <3> QED BY <1>2, <3>3
    <2> HIDE DEF sum, local, syntaxFound, lintFound
    <2>14. exitCode \in {exitOK, exitFindings} =>
             /\ Cardinality(asked) = opts.inputs
             /\ \A q \in asked : sent[q] = 200
             /\ exitCode = exitFindings <=> syntaxFound \/ lintFound
             /\ (\A q \in asked : answer[q] # "unsupported_diagram_type") =>
                  ChooseExitCode(RunSummary(opts, local)) = exitCode
      BY <2>6, <2>8, <2>9, <2>12, <2>13
    <2> QED BY <2>10, <2>11, <2>14 DEF ExitCodeTruthful, local, syntaxFound, lintFound
  <1> QED BY <1>1, <1>2 DEF ClientInv, ExitChosen

\* ExitCodeTruthful (cmd/merm8-cli/main.go): for any number of inputs and any other
\* clients, with requests that are dropped, refused, timed out or overtaken by the
\* shutdown, the exit code of a run says what became of its inputs at the server, and
\* goes on to say it whatever the server does after.
THEOREM ExitCodesTruthful == ClientSpec => []ExitCodeTruthful
  <1>1. ClientInv /\ [ClientNext]_<<serverVars, clientVars>> => ClientInv'
    BY ClientInvNext
  <1>2. ClientInv => ExitCodeTruthful
    BY ClientInvTruthful
  <1> QED BY <1>1, <1>2, ClientInvInit, PTL DEF ClientSpec
=============================================================================
