----------------------------- MODULE PooledParse -----------------------------
(***************************************************************************)
(* A parse through the worker pool: parseWithWorkerPool and parserWorker.do *)
(* of internal/parser, composed with the pool itself (WorkerPool) and with  *)
(* the Node worker loop at the other end of the pipes.                      *)
(*                                                                          *)
(* A caller of WorkerPool is here one call of parseWithWorkerPool with the  *)
(* goroutine it starts for worker.do and, after a timeout, the goroutine    *)
(* that releases the worker.                                                *)
(***************************************************************************)
EXTENDS WorkerPool

CONSTANTS
  Replies,      \* the kinds of reply the Node worker sends in this instance
  NoiseLimit    \* how many foreign lines a worker process prints on stdout

\* What the Node worker answers to a request: an AST, a syntax error, a result
\* whose message starts with "internal parser error:" or "parser_memory_limit:",
\* a result without AST or error, and the envelope errors "parser_timeout:",
\* out of memory and any other.
AllReplies == {"valid", "syntax", "internal", "memoryResult", "incomplete",
               "timeout", "memoryError", "otherError"}

ASSUME RepliesKnown == Replies \subseteq AllReplies
ASSUME NoiseLimitIsNat == NoiseLimit \in Nat

\* What parseWithWorkerPool returns.
Outcomes == {"diagram", "syntaxError", "ErrTimeout", "ErrMemoryLimit",
             "ErrSubprocess", "ErrContract", "ErrDecode"}

VARIABLES
  op,          \* the goroutine of each caller that runs worker.do
  opWorker,    \* the worker that goroutine talks to
  opResult,    \* what do() returned: an error outcome or a reply
  chan,        \* the content of errCh or respCh (both have capacity 1)
  timedOut,    \* the channel timedOut is closed
  toRelease,   \* the release() decided but not yet begun: none, or its healthy
  result,      \* what the caller's select led to
  stdin,       \* request lines written to each worker and not yet answered
  stdout,      \* lines of each worker not yet read
  abandoned,   \* parses still running in a worker that has answered them
  noise        \* foreign lines each worker printed

parseVars == <<op, opWorker, opResult, chan, timedOut, toRelease, result,
               stdin, stdout, abandoned, noise>>
allVars == <<vars, parseVars>>

Nothing == "nothing"

OpPCs == {"none",     \* not started
          "writing",  \* in do(), before the write to stdin
          "reading",  \* in do(), in stdout.ReadBytes
          "returned", \* do() returned
          "sending",  \* found timedOut open, before the send
          "sent", "dropped"}

ErrorOutcomes == {"ErrSubprocess", "ErrMemoryLimit", "ErrContract", "ErrDecode"}

Noise == [id |-> Nothing, reply |-> "notJSON"]

Lines == [id : Callers, reply : AllReplies] \cup {Noise}

\* parseWithWorkerPool, case respCh, and mapParseResult.
ReplyOutcome(r) ==
  CASE r = "valid"                           -> "diagram"
    [] r \in {"syntax", "internal"}          -> "syntaxError"
    [] r \in {"memoryResult", "memoryError"} -> "ErrMemoryLimit"
    [] r = "incomplete"                      -> "ErrContract"
    [] r = "timeout"                         -> "ErrTimeout"
    [] r = "otherError"                      -> "ErrSubprocess"

PInit ==
  /\ Init
  /\ op = [c \in Callers |-> "none"]
  /\ opWorker = [c \in Callers |-> NoWorker]
  /\ opResult = [c \in Callers |-> Nothing]
  /\ chan = [c \in Callers |-> Nothing]
  /\ timedOut = [c \in Callers |-> FALSE]
  /\ toRelease = [c \in Callers |-> Nothing]
  /\ result = [c \in Callers |-> Nothing]
  /\ stdin = [w \in Workers |-> <<>>]
  /\ stdout = [w \in Workers |-> <<>>]
  /\ abandoned = [w \in Workers |-> {}]
  /\ noise = [w \in Workers |-> 0]

-----------------------------------------------------------------------------
\* The caller: borrow() returned a worker; start the goroutine and the timer.
StartOperation(c) ==
  /\ pc[c] = "holding"
  /\ op[c] = "none"
  /\ op' = [op EXCEPT ![c] = "writing"]
  /\ opWorker' = [opWorker EXCEPT ![c] = held[c]]
  /\ UNCHANGED <<vars, opResult, chan, timedOut, toRelease, result, stdin,
                 stdout, abandoned, noise>>

\* The caller's select, in any order when several cases are ready.
Selecting(c) == pc[c] = "holding" /\ op[c] # "none" /\ result[c] = Nothing

\* Faulty variant: a worker whose operation timed out goes back to the pool.
TimerFiresHealthy(c) ==
  /\ Selecting(c)
  /\ timedOut' = [timedOut EXCEPT ![c] = TRUE]
  /\ toRelease' = [toRelease EXCEPT ![c] = "healthy"]
  /\ result' = [result EXCEPT ![c] = "ErrTimeout"]
  /\ UNCHANGED <<vars, op, opWorker, opResult, chan, stdin, stdout, abandoned,
                 noise>>

\* Faulty variant: a worker whose operation timed out is never released.
TimerFiresForgets(c) ==
  /\ Selecting(c)
  /\ timedOut' = [timedOut EXCEPT ![c] = TRUE]
  /\ result' = [result EXCEPT ![c] = "ErrTimeout"]
  /\ UNCHANGED <<vars, op, opWorker, opResult, chan, toRelease, stdin, stdout,
                 abandoned, noise>>

TimerFires(c) ==
  /\ Selecting(c)
  /\ timedOut' = [timedOut EXCEPT ![c] = TRUE]
  /\ toRelease' = [toRelease EXCEPT ![c] = "unhealthy"]
  /\ result' = [result EXCEPT ![c] = "ErrTimeout"]
  /\ UNCHANGED <<vars, op, opWorker, opResult, chan, stdin, stdout, abandoned,
                 noise>>

\* Faulty variant: the error path returns without releasing the worker.
ReceiveErrorForgets(c) ==
  /\ Selecting(c)
  /\ chan[c] \in ErrorOutcomes
  /\ result' = [result EXCEPT ![c] = chan[c]]
  /\ chan' = [chan EXCEPT ![c] = Nothing]
  /\ UNCHANGED <<vars, op, opWorker, opResult, timedOut, toRelease, stdin,
                 stdout, abandoned, noise>>

ReceiveError(c) ==
  /\ Selecting(c)
  /\ chan[c] \in ErrorOutcomes
  /\ toRelease' = [toRelease EXCEPT ![c] = "unhealthy"]
  /\ result' = [result EXCEPT ![c] = chan[c]]
  /\ chan' = [chan EXCEPT ![c] = Nothing]
  /\ UNCHANGED <<vars, op, opWorker, opResult, timedOut, stdin, stdout,
                 abandoned, noise>>

ReceiveReply(c) ==
  /\ Selecting(c)
  /\ chan[c] \in AllReplies
  /\ toRelease' = [toRelease EXCEPT ![c] = "healthy"]
  /\ result' = [result EXCEPT ![c] = ReplyOutcome(chan[c])]
  /\ chan' = [chan EXCEPT ![c] = Nothing]
  /\ UNCHANGED <<vars, op, opWorker, opResult, timedOut, stdin, stdout,
                 abandoned, noise>>

\* pool.release(worker, healthy), after a timeout in its own goroutine.
ReleaseWorker(c) ==
  /\ toRelease[c] # Nothing
  /\ Release(c, toRelease[c] = "healthy")
  /\ toRelease' = [toRelease EXCEPT ![c] = Nothing]
  /\ UNCHANGED <<op, opWorker, opResult, chan, timedOut, result, stdin, stdout,
                 abandoned, noise>>

-----------------------------------------------------------------------------
\* The goroutine: worker.do(req), which holds opMu from its first to its last
\* line; then the look at timedOut; then the send.
DoReturns(c, r) ==
  /\ opResult' = [opResult EXCEPT ![c] = r]
  /\ op' = [op EXCEPT ![c] = "returned"]

\* What a failed write or read is classified as: a worker that was closed is a
\* subprocess error; for one that ended by itself the content of its stderr
\* decides whether it met its heap limit.
LostWorker(w) ==
  IF proc[w] = "reaped" THEN {"ErrSubprocess"}
                        ELSE {"ErrSubprocess", "ErrMemoryLimit"}

DoWrite(c) ==
  /\ op[c] = "writing"
  /\ IF proc[opWorker[c]] = "alive"
       THEN /\ stdin' = [stdin EXCEPT ![opWorker[c]] = Append(@, c)]
            /\ op' = [op EXCEPT ![c] = "reading"]
            /\ UNCHANGED opResult
       ELSE /\ \E r \in LostWorker(opWorker[c]) : DoReturns(c, r)
            /\ UNCHANGED stdin
  /\ UNCHANGED <<vars, opWorker, chan, timedOut, toRelease, result, stdout,
                 abandoned, noise>>

\* A line is read: it must be JSON and carry the id of the request.
DoReadLine(c) ==
  LET w == opWorker[c] IN
  /\ op[c] = "reading"
  /\ stdout[w] # <<>>
  /\ stdout' = [stdout EXCEPT ![w] = Tail(@)]
  /\ LET line == Head(stdout[w]) IN
       DoReturns(c, IF line = Noise     THEN "ErrDecode"
                    ELSE IF line.id # c THEN "ErrContract"
                    ELSE                     line.reply)
  /\ UNCHANGED <<vars, opWorker, chan, timedOut, toRelease, result, stdin,
                 abandoned, noise>>

\* End of file, or a pipe that cmd.Wait closed.
DoReadFails(c) ==
  LET w == opWorker[c] IN
  /\ op[c] = "reading"
  /\ \/ proc[w] = "reaped"
     \/ proc[w] = "exited" /\ stdout[w] = <<>>
  /\ \E r \in LostWorker(w) : DoReturns(c, r)
  /\ UNCHANGED <<vars, opWorker, chan, timedOut, toRelease, result, stdin,
                 stdout, abandoned, noise>>

CheckTimedOut(c) ==
  /\ op[c] = "returned"
  /\ op' = [op EXCEPT ![c] = IF timedOut[c] THEN "dropped" ELSE "sending"]
  /\ UNCHANGED <<vars, opWorker, opResult, chan, timedOut, toRelease, result,
                 stdin, stdout, abandoned, noise>>

\* Faulty variant: unbuffered channels, so a send needs a listening caller.
SendResultUnbuffered(c) ==
  /\ op[c] = "sending"
  /\ Selecting(c)
  /\ chan[c] = Nothing
  /\ chan' = [chan EXCEPT ![c] = opResult[c]]
  /\ op' = [op EXCEPT ![c] = "sent"]
  /\ UNCHANGED <<vars, opWorker, opResult, timedOut, toRelease, result, stdin,
                 stdout, abandoned, noise>>

SendResult(c) ==
  /\ op[c] = "sending"
  /\ chan[c] = Nothing
  /\ chan' = [chan EXCEPT ![c] = opResult[c]]
  /\ op' = [op EXCEPT ![c] = "sent"]
  /\ UNCHANGED <<vars, opWorker, opResult, timedOut, toRelease, result, stdin,
                 stdout, abandoned, noise>>

-----------------------------------------------------------------------------
\* The Node worker answers the oldest request.  On its own timeout it answers
\* although the parse it stopped waiting for goes on.
NodeReplies(w, r) ==
  /\ proc[w] = "alive"
  /\ stdin[w] # <<>>
  /\ stdin' = [stdin EXCEPT ![w] = Tail(@)]
  /\ stdout' = [stdout EXCEPT ![w] = Append(@, [id |-> Head(stdin[w]), reply |-> r])]
  /\ abandoned' = IF r = "timeout"
                    THEN [abandoned EXCEPT ![w] = @ \cup {Head(stdin[w])}]
                    ELSE abandoned
  /\ UNCHANGED <<vars, op, opWorker, opResult, chan, timedOut, toRelease,
                 result, noise>>

\* Faulty variant: the result of the parse is written when it comes at last.
NodeSettlesAnswers(w, c) ==
  /\ proc[w] = "alive"
  /\ c \in abandoned[w]
  /\ abandoned' = [abandoned EXCEPT ![w] = @ \ {c}]
  /\ stdout' = [stdout EXCEPT ![w] = Append(@, [id |-> c, reply |-> "valid"])]
  /\ UNCHANGED <<vars, op, opWorker, opResult, chan, timedOut, toRelease,
                 result, stdin, noise>>

\* The parse that the worker stopped waiting for ends: its promise settles after
\* the timer's rejection, which drops the result.
NodeSettles(w, c) ==
  /\ proc[w] = "alive"
  /\ c \in abandoned[w]
  /\ abandoned' = [abandoned EXCEPT ![w] = @ \ {c}]
  /\ UNCHANGED <<vars, op, opWorker, opResult, chan, timedOut, toRelease,
                 result, stdin, stdout, noise>>

\* A library running in the worker prints a line of its own while it parses, a
\* document that nobody waits for any more included.
NodePrints(w) ==
  /\ proc[w] = "alive"
  /\ stdin[w] # <<>> \/ abandoned[w] # {}
  /\ noise[w] < NoiseLimit
  /\ noise' = [noise EXCEPT ![w] = @ + 1]
  /\ stdout' = [stdout EXCEPT ![w] = Append(@, Noise)]
  /\ UNCHANGED <<vars, op, opWorker, opResult, chan, timedOut, toRelease,
                 result, stdin, abandoned>>

-----------------------------------------------------------------------------
\* A step of the pool or of a process: what a process that ends has not answered, and
\* what it still works on, is lost; what it has printed can be read.
PipesFollow ==
  LET alive == {w \in Workers : proc'[w] = "alive"}
  IN  /\ stdin' = [w \in Workers |-> IF w \in alive THEN stdin[w] ELSE <<>>]
      /\ abandoned' = [w \in Workers |-> IF w \in alive THEN abandoned[w] ELSE {}]
      /\ noise' = [w \in Workers |-> IF w \in alive THEN noise[w] ELSE 0]
      /\ UNCHANGED <<op, opWorker, opResult, chan, timedOut, toRelease, result,
                     stdout>>

\* The steps of the pool other than release(), which ReleaseWorker takes.
PoolStep(c) ==
  /\ \/ BorrowAgain(c)
     \/ StartWorker(c)
     \/ StartFails(c)
     \/ StartKept(c)
     \/ StartTooLate(c)
     \/ DiscardWorker(c)
     \/ AbortWorker(c)
     \/ AbortAccounted(c)
  /\ PipesFollow

ParseStep(c) ==
  \/ PoolStep(c)
  \/ StartOperation(c)
  \/ ReceiveError(c)
  \/ ReceiveReply(c)
  \/ ReleaseWorker(c)

OperationStep(c) ==
  \/ DoWrite(c)
  \/ DoReadLine(c)
  \/ DoReadFails(c)
  \/ CheckTimedOut(c)
  \/ SendResult(c)

PNext ==
  \/ \E c \in Callers : Borrow(c) /\ PipesFollow
  \/ \E c \in Callers : ParseStep(c) \/ TimerFires(c) \/ OperationStep(c)
  \/ \E w \in Workers : \E r \in Replies : NodeReplies(w, r)
  \/ \E w \in Workers : \E c \in Callers : NodeSettles(w, c)
  \/ \E w \in Workers : NodePrints(w)
  \/ Close /\ PipesFollow
  \/ CloseIdleWorker /\ PipesFollow
  \/ \E w \in Workers : ProcessExits(w) /\ PipesFollow

\* Goroutines run and timers fire.  The Node process owes nothing: it may hang.
PFairness ==
  /\ \A c \in Callers : /\ WF_allVars(ParseStep(c))
                        /\ WF_allVars(TimerFires(c))
                        /\ WF_allVars(OperationStep(c))
  /\ WF_allVars(CloseIdleWorker /\ PipesFollow)

PSpec == PInit /\ [][PNext]_allVars /\ PFairness

-----------------------------------------------------------------------------
\* The type invariant.
PTypeOK ==
  /\ TypeOK
  /\ op \in [Callers -> OpPCs]
  /\ opWorker \in [Callers -> Workers \cup {NoWorker}]
  /\ opResult \in [Callers -> ErrorOutcomes \cup AllReplies \cup {Nothing}]
  /\ chan \in [Callers -> ErrorOutcomes \cup AllReplies \cup {Nothing}]
  /\ timedOut \in [Callers -> BOOLEAN]
  /\ toRelease \in [Callers -> {Nothing, "healthy", "unhealthy"}]
  /\ result \in [Callers -> Outcomes \cup {Nothing}]
  /\ stdin \in [Workers -> Seq(Callers)]
  /\ stdout \in [Workers -> Seq(Lines)]
  /\ abandoned \in [Workers -> SUBSET Callers]
  /\ noise \in [Workers -> 0..NoiseLimit]

\* A worker that goes back to the pool has no request and no reply left in its pipes
\* and no goroutine in do(): every path that may leave a reply unread releases the
\* worker as unhealthy, and the worker writes no second reply for a parse that its
\* own timer has answered.  That is the one case in which the next caller does not
\* find the worker as new (TimedOutWorkersRecycled): the parse goes on and may print,
\* and such a line fails the next request with ErrDecode (DoReadLine).
PipesCleanWhenIdle ==
  /\ PTypeOK
  /\ \A w \in ToSet(idle) :
       /\ stdin[w] = <<>>
       /\ ToSet(stdout[w]) \subseteq {Noise}
       /\ stdout[w] # <<>> =>
            \E c \in Callers : opWorker[c] = w /\ opResult[c] = "timeout"
       /\ \A c \in Callers : opWorker[c] = w => op[c] \notin {"writing", "reading"}

\* The id check in do() never fires: no caller is ever given the reply to
\* another request, not even after timeouts on either side, foreign output, and on
\* a worker that still works on a document its last caller has given up.
NoForeignReply == \A c \in Callers : opResult[c] # "ErrContract"

\* At most one do() runs on a worker, so opMu is never waited for while the pool
\* hands workers out, and close() of an idle worker does not wait.
OneOperationPerWorker ==
  \A c, d \in Callers :
    (c # d /\ {op[c], op[d]} \subseteq {"writing", "reading"})
      => opWorker[c] # opWorker[d] \/ proc[opWorker[c]] = "reaped"

\* Pool mode "isolates stuck requests by recycling only the timed-out worker"
\* (API_GUIDE.md:45): no worker waits for the next request while one that timed out
\* still runs in it.
TimedOutWorkersRecycled == \A w \in ToSet(idle) : abandoned[w] = {}

\* parseWithWorkerPool has returned to its caller.
Returned(c) ==
  \/ timedOut[c]
  \/ pc[c] \in {"done", "refused", "failed"}

\* Every call returns although the Node process may hang or die.
ParseReturns == \A c \in Callers : pc[c] # "outside" ~> Returned(c)

\* The goroutine of do() ends as well, also when the caller stopped listening:
\* its channel has room, and the abort of the worker ends its read.
OperationEnds == \A c \in Callers : op[c] # "none" ~> op[c] \in {"sent", "dropped"}
=============================================================================
