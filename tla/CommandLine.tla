----------------------------- MODULE CommandLine -----------------------------
(***************************************************************************)
(* A run of the command line client (cmd/merm8-cli/main.go) against the     *)
(* server of HTTPServer (--url): it sends its inputs one after the other,   *)
(* each under a timeout of its own, while other clients are served, and     *)
(* condenses the answers into an exit code.  What it does without a server  *)
(* is compared with that (AnalyzeLocal).                                    *)
(***************************************************************************)
EXTENDS HTTPServer

CONSTANTS Invocations   \* the arguments met here

\* What parseArgs makes of the arguments: the path of the URL, which findings make
\* the run fail, the format, and how many inputs there are.
AllInvocations == [url : {"", "/v1", "/v1/analyze"}, failOnLint : BOOLEAN,
                   failOnSyntax : BOOLEAN, json : BOOLEAN, inputs : Nat \ {0}]

ASSUME InvocationsKnown == Invocations \subseteq AllInvocations
ASSUME NoneIsNoInput ==
  /\ None \notin Requests /\ None \notin Invocations
  /\ None \notin {"unauthorized", "rate_limited", "http_error"}

exitOK == 0
exitFindings == 1
exitInternal == 2
exitTransport == 3

VARIABLES
  opts,     \* cliOptions, None before the run
  left,     \* the inputs still to be analyzed
  waiting,  \* the request the client waits for
  asked,    \* the requests it has sent
  found,    \* those of them whose analysis has issues
  results,  \* the results, of which only the set matters here
  broken,   \* the run itself has failed
  exitCode

clientVars == <<opts, left, waiting, asked, found, results, broken, exitCode>>

\* The endpoint of analyzeRemote; no token is sent with it.
Endpoint(url) == IF url = "/v1/analyze" THEN url
                 ELSE IF url = "/v1" THEN "/v1/analyze" ELSE "/analyze"

ClientRequest(o) ==
  [method |-> "POST", path |-> Endpoint(o.url), origin |-> "none", auth |-> "none"]

ASSUME ClientRequestsArrive == \A o \in Invocations : ClientRequest(o) \in Arrivals

-----------------------------------------------------------------------------
(* outputResult and the summary of the run.                                  *)

Result(valid, syntax, issues, error) ==
  [valid |-> valid, syntax |-> syntax, issues |-> issues, error |-> error]

TransportError == Result(FALSE, FALSE, FALSE, "transport_error")

\* The code in the body of an answer other than 2xx; the answer of the mux for an
\* unknown route is plain text.
ErrorCode(q) ==
  CASE sent[q] = 401    -> "unauthorized"
    [] sent[q] = 429    -> "rate_limited"
    [] route[q] # None  -> answer[q]
    [] OTHER            -> "http_error"

\* analyzeRemote, once the server has answered; a 200 is that of an analysis.
AnalyzeRemote(q, issues) ==
  IF sent[q] \in 200 .. 299
  THEN CASE answer[q] = "syntax_error" -> Result(FALSE, TRUE, FALSE, None)
         [] answer[q] = "unsupported_diagram_type" ->
              Result(TRUE, FALSE, TRUE, "unsupported_diagram_type")
         [] OTHER -> Result(TRUE, FALSE, issues, None)
  ELSE Result(FALSE, FALSE, FALSE, ErrorCode(q))

\* analyzeLocal, by what the parser returns.
AnalyzeLocal(p, issues) ==
  CASE p = "diagram"     -> Result(TRUE, FALSE, issues, None)
    [] p = "unlintable"  -> Result(FALSE, FALSE, FALSE, "unsupported_diagram_type")
    [] p = "syntaxError" -> Result(FALSE, TRUE, FALSE, None)
    [] OTHER             -> Result(FALSE, FALSE, FALSE, "internal_error")

IsSyntaxFailure(r) == r.syntax \/ (~r.valid /\ r.error = None)

\* The loop of run over the results.
RunSummary(o, rs) ==
  [hasFindings |-> \E r \in rs : \/ IsSyntaxFailure(r) /\ o.failOnSyntax
                                 \/ r.issues /\ o.failOnLint,
   hasInternalFailure |->
     \E r \in rs : r.error \notin {None, "unsupported_diagram_type", "transport_error"},
   hasTransport |-> TransportError \in rs]

\* Faulty variant: a finding hides that other inputs were not analyzed.
ChooseExitCodeFindingsFirst(s) ==
  IF s.hasFindings THEN exitFindings
  ELSE IF s.hasTransport THEN exitTransport
  ELSE IF s.hasInternalFailure THEN exitInternal
  ELSE exitOK

ChooseExitCode(s) ==
  IF s.hasTransport THEN exitTransport
  ELSE IF s.hasInternalFailure THEN exitInternal
  ELSE IF s.hasFindings THEN exitFindings
  ELSE exitOK

-----------------------------------------------------------------------------
(* run.                                                                      *)

ClientInit ==
  /\ ServerInit
  /\ opts = None
  /\ left = 0
  /\ waiting = None
  /\ asked = {} /\ found = {} /\ results = {}
  /\ broken = FALSE
  /\ exitCode = None

Idle == opts # None /\ exitCode = None /\ waiting = None

\* The arguments, the configuration and all the inputs are read before the first
\* input is sent.
Invoke(o) ==
  /\ opts = None
  /\ opts' = o
  /\ left' = o.inputs
  /\ UNCHANGED <<waiting, asked, found, results, broken, exitCode, serverVars>>

\* One of them cannot be read.
InvokeFails(o) ==
  /\ opts = None
  /\ opts' = o
  /\ broken' = TRUE
  /\ exitCode' = exitInternal
  /\ UNCHANGED <<left, waiting, asked, found, results, serverVars>>

SendInput(q) ==
  /\ Idle /\ left > 0
  /\ Arrive(q, ClientRequest(opts))
  /\ waiting' = q
  /\ asked' = asked \cup {q}
  /\ UNCHANGED <<opts, left, found, results, broken, exitCode>>

\* The body of the answer has been read.
GetAnswer(issues) ==
  /\ waiting # None
  /\ sent[waiting] \notin {None, Aborted}
  /\ issues => answer[waiting] = "ok"
  /\ results' = results \cup {AnalyzeRemote(waiting, issues)}
  /\ found' = IF issues THEN found \cup {waiting} ELSE found
  /\ left' = left - 1
  /\ waiting' = None
  /\ UNCHANGED <<opts, asked, broken, exitCode, serverVars>>

\* No connection, a connection that is lost, or the timeout of the request, which
\* leaves the server at work.
NoAnswer ==
  /\ (Idle /\ left > 0) \/ waiting # None
  /\ results' = results \cup {TransportError}
  /\ left' = left - 1
  /\ waiting' = None
  /\ UNCHANGED <<opts, asked, found, broken, exitCode, serverVars>>

\* emitOutput and chooseExitCode.
Finish ==
  /\ Idle /\ left = 0
  /\ exitCode' = ChooseExitCode(RunSummary(opts, results))
  /\ UNCHANGED <<opts, left, waiting, asked, found, results, broken, serverVars>>

\* emitOutput reports that the output cannot be written, as JSON only.
FinishFails ==
  /\ Idle /\ left = 0 /\ opts.json
  /\ broken' = TRUE
  /\ exitCode' = exitInternal
  /\ UNCHANGED <<opts, left, waiting, asked, found, results, serverVars>>

ClientStep ==
  \/ \E q \in Requests : SendInput(q)
  \/ \E issues \in BOOLEAN : GetAnswer(issues)
  \/ NoAnswer
  \/ Finish \/ FinishFails

ClientNext ==
  \/ \E o \in Invocations : Invoke(o) \/ InvokeFails(o)
  \/ ClientStep
  \/ ServerNext /\ UNCHANGED clientVars

ClientSpec == ClientInit /\ [][ClientNext]_<<serverVars, clientVars>>

-----------------------------------------------------------------------------
(* Properties                                                                *)

\* What the parser returned for a request that was answered with an analysis.
Parsed(q) ==
  CASE answer[q] = "syntax_error"             -> "syntaxError"
    [] answer[q] = "unsupported_diagram_type" -> "unlintable"
    [] OTHER                                  -> "diagram"

\* The exit code says what became of the inputs at the server, however many they
\* are and whatever became of the others (chooseExitCode): 0 and 1 only if each was
\* analyzed, 0 without and 1 with a finding of the kinds asked for; 2 only if one was
\* refused or the run itself failed; an input that got no answer is not passed over
\* for the findings or refusals of others.  Where each input was analyzed and has
\* rules, a run without a server has the same exit code.
ExitCodeTruthful ==
  exitCode # None =>
    LET syntaxFound == opts.failOnSyntax /\ \E q \in asked : outcome[q] = "syntax_error"
        lintFound == /\ opts.failOnLint
                     /\ \/ found # {}
                        \/ \E q \in asked : answer[q] = "unsupported_diagram_type"
        local == {AnalyzeLocal(Parsed(q), q \in found) : q \in asked}
    IN  /\ exitCode \in {exitOK, exitFindings} =>
             /\ Cardinality(asked) = opts.inputs
             /\ \A q \in asked : sent[q] = 200
             /\ exitCode = exitFindings <=> syntaxFound \/ lintFound
             /\ (\A q \in asked : answer[q] # "unsupported_diagram_type") =>
                  ChooseExitCode(RunSummary(opts, local)) = exitCode
        /\ exitCode = exitInternal =>
             broken \/ \E q \in asked : sent[q] \notin {None, Aborted, 200}
        /\ (\E q \in asked : sent[q] \in {None, Aborted}) =>
             broken \/ exitCode = exitTransport

=============================================================================
