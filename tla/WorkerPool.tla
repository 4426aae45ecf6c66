----------------------------- MODULE WorkerPool -----------------------------
(***************************************************************************)
(* The bounded pool of parser worker processes of                          *)
(* internal/parser/worker_pool.go.                                         *)
(*                                                                         *)
(* A caller is one use of the pool: one call of borrow() and, when that    *)
(* returned a worker, the release() of that worker, in whichever goroutine *)
(* it runs.  A worker is one Node process started by newFn.  Every action  *)
(* is one critical section of the pool's mutex, or one thing done between  *)
(* two critical sections with the mutex released (newFn, close, abort).    *)
(***************************************************************************)
EXTENDS Integers, FiniteSets, SequencesExt

CONSTANTS
  Callers,      \* uses of the pool
  Workers,      \* identities of worker processes
  NoWorker,     \* the nil *parserWorker
  MaxSize       \* the maxSize argument of newWorkerPool

ASSUME CallersFinite == IsFiniteSet(Callers)
ASSUME WorkersFinite == IsFiniteSet(Workers)
ASSUME NoWorkerIsNil == NoWorker \notin Workers
ASSUME MaxSizeIsInt  == MaxSize \in Int

VARIABLES
  idle,         \* p.idle, a stack whose top is its last element
  total,        \* p.total
  closing,      \* p.closing
  pc,           \* where each caller is
  held,         \* the worker in the hands of each caller
  proc,         \* the state of each worker process
  retiring      \* the workers close() took from p.idle and has yet to close

vars == <<idle, total, closing, pc, held, proc, retiring>>

-----------------------------------------------------------------------------
\* newWorkerPool raises a limit below one to one.
PoolSize == IF MaxSize < 1 THEN 1 ELSE MaxSize

PCs == {"outside",    \* has not called borrow()
        "waiting",    \* parked in cond.Wait()
        "woken",      \* signalled, has yet to get the mutex again
        "starting",   \* reserved a slot, in newFn()
        "started",    \* newFn() returned a worker, mutex not yet locked
        "discarding", \* the pool closed meanwhile: in w.close()
        "holding",    \* borrow() returned a worker
        "aborting",   \* in release(), in w.abort()
        "aborted",    \* in release(), after w.abort()
        "done",       \* release() returned
        "refused",    \* borrow() returned "worker pool is closing"
        "failed"}     \* borrow() returned the error of newFn

\* Where a caller accounts for one unit of p.total.
SlotPCs == {"starting", "started", "holding", "aborting", "aborted"}

\* Where a caller has a process that nobody else will close.
OwnerPCs == {"started", "discarding", "holding", "aborting"}

\* unborn: newFn did not create it yet; exited: ended by itself, cmd.Wait not
\* called; reaped: closeWithMode killed it and waited for it.
ProcStates == {"unborn", "alive", "exited", "reaped"}

Waiting == {c \in Callers : pc[c] = "waiting"}
Woken   == {c \in Callers : pc[c] = "woken"}
Slots   == {c \in Callers : pc[c] \in SlotPCs}

\* A process the operating system still knows.
Unreaped == {w \in Workers : proc[w] \in {"alive", "exited"}}

Init ==
  /\ idle = <<>>
  /\ total = 0
  /\ closing = FALSE
  /\ pc = [c \in Callers |-> "outside"]
  /\ held = [c \in Callers |-> NoWorker]
  /\ proc = [w \in Workers |-> "unborn"]
  /\ retiring = <<>>

-----------------------------------------------------------------------------
\* The caller moves to pc s and p.cond.Signal() wakes one waiter, if any.
MoveAndSignal(c, s) ==
  \/ /\ Waiting = {}
     /\ pc' = [pc EXCEPT ![c] = s]
  \/ \E x \in Waiting : pc' = [pc EXCEPT ![c] = s, ![x] = "woken"]

\* borrow: one turn of its loop under the mutex, up to a return, the start of a
\* worker or cond.Wait().
BorrowRefused(c) ==
  /\ closing
  /\ pc' = [pc EXCEPT ![c] = "refused"]
  /\ UNCHANGED <<idle, total, closing, held, proc, retiring>>

\* Faulty variant: the idle worker is taken but not removed from p.idle.
BorrowIdleNotPopped(c) ==
  /\ ~closing
  /\ Len(idle) > 0
  /\ held' = [held EXCEPT ![c] = Last(idle)]
  /\ pc' = [pc EXCEPT ![c] = "holding"]
  /\ UNCHANGED <<idle, total, closing, proc, retiring>>

BorrowIdle(c) ==
  /\ ~closing
  /\ Len(idle) > 0
  /\ held' = [held EXCEPT ![c] = Last(idle)]
  /\ idle' = Front(idle)
  /\ pc' = [pc EXCEPT ![c] = "holding"]
  /\ UNCHANGED <<total, closing, proc, retiring>>

BorrowReserve(c) ==
  /\ ~closing
  /\ Len(idle) = 0
  /\ total < PoolSize
  /\ total' = total + 1
  /\ pc' = [pc EXCEPT ![c] = "starting"]
  /\ UNCHANGED <<idle, closing, held, proc, retiring>>

BorrowWait(c) ==
  /\ ~closing
  /\ Len(idle) = 0
  /\ ~(total < PoolSize)
  /\ pc' = [pc EXCEPT ![c] = "waiting"]
  /\ UNCHANGED <<idle, total, closing, held, proc, retiring>>

BorrowTurn(c) ==
  \/ BorrowRefused(c)
  \/ BorrowIdle(c)
  \/ BorrowReserve(c)
  \/ BorrowWait(c)

Borrow(c)      == pc[c] = "outside" /\ BorrowTurn(c)
BorrowAgain(c) == pc[c] = "woken" /\ BorrowTurn(c)

\* borrow: newFn() with the mutex released.
StartWorker(c) ==
  /\ pc[c] = "starting"
  /\ \E w \in Workers :
       /\ proc[w] = "unborn"
       /\ proc' = [proc EXCEPT ![w] = "alive"]
       /\ held' = [held EXCEPT ![c] = w]
  /\ pc' = [pc EXCEPT ![c] = "started"]
  /\ UNCHANGED <<idle, total, closing, retiring>>

\* Faulty variant: the slot of a failed start is not given back.
StartFailsKeepsSlot(c) ==
  /\ pc[c] = "starting"
  /\ MoveAndSignal(c, "failed")
  /\ UNCHANGED <<idle, total, closing, held, proc, retiring>>

StartFails(c) ==
  /\ pc[c] = "starting"
  /\ total' = total - 1
  /\ MoveAndSignal(c, "failed")
  /\ UNCHANGED <<idle, closing, held, proc, retiring>>

\* borrow: the second look at p.closing, after newFn() succeeded.
StartKept(c) ==
  /\ pc[c] = "started"
  /\ ~closing
  /\ pc' = [pc EXCEPT ![c] = "holding"]
  /\ UNCHANGED <<idle, total, closing, held, proc, retiring>>

\* Faulty variant: the worker started too late is not closed.
StartTooLateLeaks(c) ==
  /\ pc[c] = "started"
  /\ closing
  /\ total' = total - 1
  /\ held' = [held EXCEPT ![c] = NoWorker]
  /\ MoveAndSignal(c, "refused")
  /\ UNCHANGED <<idle, closing, proc, retiring>>

StartTooLate(c) ==
  /\ pc[c] = "started"
  /\ closing
  /\ total' = total - 1
  /\ MoveAndSignal(c, "discarding")
  /\ UNCHANGED <<idle, closing, held, proc, retiring>>

DiscardWorker(c) ==
  /\ pc[c] = "discarding"
  /\ proc' = [proc EXCEPT ![held[c]] = "reaped"]
  /\ held' = [held EXCEPT ![c] = NoWorker]
  /\ pc' = [pc EXCEPT ![c] = "refused"]
  /\ UNCHANGED <<idle, total, closing, retiring>>

-----------------------------------------------------------------------------
\* Faulty variant: release() does not look at p.closing.
ReleaseIgnoresClosing(c, healthy) ==
  /\ pc[c] = "holding"
  /\ IF ~healthy
       THEN /\ pc' = [pc EXCEPT ![c] = "aborting"]
            /\ UNCHANGED <<idle, held>>
       ELSE /\ idle' = Append(idle, held[c])
            /\ held' = [held EXCEPT ![c] = NoWorker]
            /\ MoveAndSignal(c, "done")
  /\ UNCHANGED <<total, closing, proc, retiring>>

\* release(w, healthy)
Release(c, healthy) ==
  /\ pc[c] = "holding"
  /\ IF closing \/ ~healthy
       THEN /\ pc' = [pc EXCEPT ![c] = "aborting"]
            /\ UNCHANGED <<idle, held>>
       ELSE /\ idle' = Append(idle, held[c])
            /\ held' = [held EXCEPT ![c] = NoWorker]
            /\ MoveAndSignal(c, "done")
  /\ UNCHANGED <<total, closing, proc, retiring>>

\* release: w.abort() with the mutex released, which kills the process and
\* waits for its end.
AbortWorker(c) ==
  /\ pc[c] = "aborting"
  /\ proc' = [proc EXCEPT ![held[c]] = "reaped"]
  /\ pc' = [pc EXCEPT ![c] = "aborted"]
  /\ UNCHANGED <<idle, total, closing, held, retiring>>

\* Faulty variant: nobody is told that a slot became free.
AbortAccountedSilently(c) ==
  /\ pc[c] = "aborted"
  /\ total' = total - 1
  /\ held' = [held EXCEPT ![c] = NoWorker]
  /\ pc' = [pc EXCEPT ![c] = "done"]
  /\ UNCHANGED <<idle, closing, proc, retiring>>

AbortAccounted(c) ==
  /\ pc[c] = "aborted"
  /\ total' = total - 1
  /\ held' = [held EXCEPT ![c] = NoWorker]
  /\ MoveAndSignal(c, "done")
  /\ UNCHANGED <<idle, closing, proc, retiring>>

-----------------------------------------------------------------------------
\* close(): a second call returns at once, which changes nothing.
Close ==
  /\ ~closing
  /\ closing' = TRUE
  /\ retiring' = idle
  /\ idle' = <<>>
  /\ total' = total - Len(idle)
  /\ pc' = [c \in Callers |-> IF pc[c] = "waiting" THEN "woken" ELSE pc[c]]
  /\ UNCHANGED <<held, proc>>

\* close(): worker.close() of the next worker of its list.
CloseIdleWorker ==
  /\ retiring # <<>>
  /\ proc' = [proc EXCEPT ![Head(retiring)] = "reaped"]
  /\ retiring' = Tail(retiring)
  /\ UNCHANGED <<idle, total, closing, pc, held>>

\* A worker process ends by itself (crash, heap limit).  Nobody in the pool
\* notices.
ProcessExits(w) ==
  /\ proc[w] = "alive"
  /\ proc' = [proc EXCEPT ![w] = "exited"]
  /\ UNCHANGED <<idle, total, closing, pc, held, retiring>>

\* What a caller does by itself once it has called borrow().
CallerStep(c) ==
  \/ BorrowAgain(c)
  \/ StartWorker(c)
  \/ StartFails(c)
  \/ StartKept(c)
  \/ StartTooLate(c)
  \/ DiscardWorker(c)
  \/ \E healthy \in BOOLEAN : Release(c, healthy)
  \/ AbortWorker(c)
  \/ AbortAccounted(c)

Next ==
  \/ \E c \in Callers : Borrow(c) \/ CallerStep(c)
  \/ Close
  \/ CloseIdleWorker
  \/ \E w \in Workers : ProcessExits(w)

\* A goroutine that can run does run, newFn and abort return, and the user of a
\* worker releases it (parseWithWorkerPool does so at its timeout at the
\* latest).  Nobody has to call borrow() or close().
Fairness ==
  /\ \A c \in Callers : WF_vars(CallerStep(c))
  /\ WF_vars(CloseIdleWorker)

Spec == Init /\ [][Next]_vars /\ Fairness

-----------------------------------------------------------------------------
\* The type invariant.
TypeOK ==
  /\ idle \in Seq(Workers)
  /\ total \in Int
  /\ closing \in BOOLEAN
  /\ pc \in [Callers -> PCs]
  /\ held \in [Callers -> Workers \cup {NoWorker}]
  /\ proc \in [Workers -> ProcStates]
  /\ retiring \in Seq(Workers)

\* p.total counts exactly the idle workers, the workers in use or being
\* aborted, and the slots reserved for a worker being started: every early
\* return of borrow() and release() gives back what it took.
Accounting == total = Len(idle) + Cardinality(Slots)

\* There are never more worker processes than the pool's limit, the ones being
\* aborted by release() or closed by close() included.
CapacityRespected == Cardinality(Unreaped) <= PoolSize

\* A worker is in one place only: no two callers share one, none in use is
\* also idle, and close() never closes one that somebody uses.
ExclusiveOwnership ==
  /\ \A c, d \in Callers :
       (c # d /\ held[c] # NoWorker) => held[c] # held[d]
  /\ \A c \in Callers : held[c] \notin ToSet(idle) \cup ToSet(retiring)
  /\ IsInjective(idle)
  /\ IsInjective(retiring)

\* No wake-up is lost: when callers are parked in cond.Wait(), every idle worker
\* and every free slot has a caller on its way to it that Signal() woke.
NoLostWakeup ==
  Waiting # {} => Len(idle) + (PoolSize - total) <= Cardinality(Woken)

\* After close() took the idle workers, no release() adds another and no
\* borrow() parks: both look at p.closing under the mutex.
ClosedStaysEmpty == closing => idle = <<>> /\ Waiting = {}

\* A process that is not reaped has somebody who will reap or reuse it, so none
\* is left when close() and all callers have returned.
NoOrphanProcess ==
  \A w \in Unreaped :
    \/ w \in ToSet(idle) \cup ToSet(retiring)
    \/ \E c \in Callers : pc[c] \in OwnerPCs /\ held[c] = w

\* A process is not reaped under the feet of a caller that holds it or of one
\* that will take it from p.idle.
HeldNotReaped ==
  /\ \A c \in Callers : pc[c] \in OwnerPCs => held[c] \in Unreaped
  /\ ToSet(idle) \cup ToSet(retiring) \subseteq Unreaped

\* Every call of borrow() returns.
BorrowReturns ==
  \A c \in Callers :
    pc[c] \in {"waiting", "woken", "starting", "started", "discarding"}
      ~> pc[c] \in {"holding", "refused", "failed"}

\* After close(), every worker process ends and the count reaches zero.
CloseDrains == closing ~> (total = 0 /\ Unreaped = {})
=============================================================================
