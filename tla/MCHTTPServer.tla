---------------------------- MODULE MCHTTPServer ----------------------------
EXTENDS CommandLine

\* No limit, asked for by a negative number, and the smallest limit.
MCLimits == {-1, 1}

MCEnvironments ==
  { [mode |-> "development", token |-> FALSE, rate |-> 0, concurrency |-> 1],
    [mode |-> "production", token |-> TRUE, rate |-> 0, concurrency |-> 1],
    [mode |-> "production", token |-> FALSE, rate |-> 5, concurrency |-> -1] }

Arrival(m, p, o, a) == [method |-> m, path |-> p, origin |-> o, auth |-> a]

\* The requests of other clients.
MCOthers ==
  { Arrival("POST", "/v1/analyze", "none", "token"),
    Arrival("POST", "/v1/analyse/raw", "wildcard", "wrong"),
    Arrival("POST", "/v1/analyze/sarif", "none", "none"),
    Arrival("OPTIONS", "/v1/analyze", "listed", "none"),
    Arrival("OPTIONS", "/v1/analyze", "unlisted", "none"),
    Arrival("GET", "/v1/ready", "none", "none"),
    Arrival("GET", "/v1/rules", "overlapping", "none") }

MCArrivals ==
  MCOthers \cup { Arrival("POST", "/v1/analyze", "none", "none"),
                  Arrival("POST", "/analyze", "none", "none") }

\* Both findings make the first run fail; the second one has no route.
MCInvocations ==
  { [url |-> "/v1", failOnLint |-> TRUE, failOnSyntax |-> TRUE, json |-> TRUE,
     inputs |-> 2],
    [url |-> "", failOnLint |-> FALSE, failOnSyntax |-> TRUE, json |-> FALSE,
     inputs |-> 1] }

\* Requests are interchangeable: they are numbered in the order they arrive in.
InOrder ==
  \A p, q \in Requests : p < q /\ stage'[q] # "none" => stage'[p] # "none"

\* Either the client is run, from before the server starts, or the others send
\* requests; the limit of parser slots changes under the others only.
ClientBounded ==
  /\ opts' # opts => phase = "starting"
  /\ opts # None => limit' = limit \/ phase = "starting"
  /\ \A q \in Requests :
       req'[q] # req[q] /\ q \notin asked' => opts = None /\ req'[q] \in MCOthers

MCSpec ==
  /\ ClientInit
  /\ [][ClientNext /\ InOrder /\ ClientBounded]_<<serverVars, clientVars>>
  /\ ServerFairness
=============================================================================
