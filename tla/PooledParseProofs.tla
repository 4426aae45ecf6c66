-------------------------- MODULE PooledParseProofs --------------------------
(***************************************************************************)
(* Proofs about WorkerPool, for any callers, workers and limit, and about   *)
(* PooledParse, which extends it, for any kinds of reply and amount of      *)
(* foreign output as well.                                                  *)
(*                                                                          *)
(* The inductive invariant of the pool grows in four layers: TypeOK with    *)
(* Shape (which caller holds a worker, what closing excludes), Counting     *)
(* (p.total, with the callers that discard a worker), Ownership (every      *)
(* process in one place), and NoLostWakeup, which needs the first two.      *)
(*                                                                          *)
(* The invariant PInv of the calls rests on the first and the third layer.  *)
(* Its own idea is Active: a caller whose do() runs, or has failed, still   *)
(* owns what is in the pipes of its worker, and it holds that worker or has *)
(* had it killed (ActiveOwns).  The pipes of a worker hold one request or   *)
(* one reply at most, which its active caller expects (PipesExpected); a    *)
(* foreign line is either met by that caller before any reply, or is left   *)
(* by a parse that the worker's own timer answered (Leftovers).  A worker   *)
(* in p.idle has no active caller.                                          *)
(***************************************************************************)
EXTENDS PooledParse, FiniteSetTheorems, SequenceTheorems, TLAPS

-----------------------------------------------------------------------------
(* The pool.                                                                 *)

HolderPCs == {"started", "discarding", "holding", "aborting", "aborted"}

\* What ties the control state of a caller to the worker in its hands and to
\* p.closing.
Shape ==
  /\ \A c \in Callers : held[c] # NoWorker <=> pc[c] \in HolderPCs
  /\ \A c \in Callers : pc[c] = "discarding" => closing
  /\ retiring # <<>> => closing
  /\ ClosedStaysEmpty

\* The first layer of the invariant holds initially.
LEMMA TypeInit == Init => TypeOK /\ Shape
  <1> SUFFICES ASSUME Init PROVE TypeOK /\ Shape
    OBVIOUS
  <1>1. TypeOK
    <2>1. idle \in Seq(Workers) /\ retiring \in Seq(Workers)
      BY EmptySeq DEF Init
    <2>2. closing \in BOOLEAN
      BY Zenon DEF Init
    <2>3. /\ total \in Int
          /\ pc \in [Callers -> PCs]
          /\ held \in [Callers -> Workers \cup {NoWorker}]
          /\ proc \in [Workers -> ProcStates]
      BY DEF Init, PCs, ProcStates
    <2> QED BY <2>1, <2>2, <2>3 DEF TypeOK
  <1>2. Shape
    BY DEF Init, Shape, HolderPCs, ClosedStaysEmpty, Waiting
  <1> QED BY <1>1, <1>2

\* Every step preserves the first layer.
LEMMA TypeNext == TypeOK /\ Shape /\ [Next]_vars => TypeOK' /\ Shape'
  <1> SUFFICES ASSUME TypeOK, Shape, [Next]_vars PROVE TypeOK' /\ Shape'
    OBVIOUS
  <1> USE DEF TypeOK, Shape, ClosedStaysEmpty, Waiting, HolderPCs, PCs, ProcStates
  <1>1. ASSUME NEW c \in Callers, pc[c] \in {"outside", "woken"}, BorrowTurn(c)
        PROVE TypeOK' /\ Shape'
    <2>1. CASE BorrowRefused(c)
      BY <1>1, <2>1 DEF BorrowRefused
    <2>2. CASE BorrowIdle(c)
      <3>1. /\ Last(idle) \in Workers
            /\ Front(idle) \in Seq(Workers)
        BY <2>2, SubSeqProperties DEF BorrowIdle, Last, Front
      <3> QED BY <1>1, <2>2, <3>1, NoWorkerIsNil DEF BorrowIdle
    <2>3. CASE BorrowReserve(c)
      BY <1>1, <2>3 DEF BorrowReserve
    <2>4. CASE BorrowWait(c)
      BY <1>1, <2>4 DEF BorrowWait
    <2> QED BY <1>1, <2>1, <2>2, <2>3, <2>4 DEF BorrowTurn
  <1>2. ASSUME NEW c \in Callers, CallerStep(c)
        PROVE TypeOK' /\ Shape'
    <2>1. CASE BorrowAgain(c)
      BY <1>1, <2>1 DEF BorrowAgain
    <2>2. CASE StartWorker(c)
      BY <2>2, NoWorkerIsNil DEF StartWorker
    <2>3. CASE StartFails(c)
      BY <2>3 DEF StartFails, MoveAndSignal
    <2>4. CASE StartKept(c)
      BY <2>4 DEF StartKept
    <2>5. CASE StartTooLate(c)
      BY <2>5 DEF StartTooLate, MoveAndSignal
    <2>6. CASE DiscardWorker(c)
      BY <2>6 DEF DiscardWorker
    <2>7. ASSUME NEW healthy \in BOOLEAN, Release(c, healthy)
          PROVE TypeOK' /\ Shape'
      <3>1. CASE closing \/ ~healthy
        BY <2>7, <3>1 DEF Release
      <3>2. CASE ~(closing \/ ~healthy)
        <4>1. Append(idle, held[c]) \in Seq(Workers)
          BY <2>7, AppendProperties DEF Release
        <4> QED BY <2>7, <3>2, <4>1, ZenonT(60) DEF Release, MoveAndSignal
      <3> QED BY <3>1, <3>2
    <2>8. CASE AbortWorker(c)
      BY <2>8 DEF AbortWorker
    <2>9. CASE AbortAccounted(c)
      BY <2>9 DEF AbortAccounted, MoveAndSignal
    <2> QED BY <1>2, <2>1, <2>2, <2>3, <2>4, <2>5, <2>6, <2>7, <2>8, <2>9
            DEF CallerStep
  <1>3. CASE Close
    BY <1>3 DEF Close
  <1>4. CASE CloseIdleWorker
    BY <1>4, HeadTailProperties DEF CloseIdleWorker
  <1>5. ASSUME NEW w \in Workers, ProcessExits(w)
        PROVE TypeOK' /\ Shape'
    BY <1>5 DEF ProcessExits
  <1>6. CASE UNCHANGED vars
    BY <1>6 DEF vars
  <1> QED BY <1>1, <1>2, <1>3, <1>4, <1>5, <1>6 DEF Next, Borrow

\* Type correctness for every number of callers and workers and every limit.
THEOREM TypeCorrect == Spec => [](TypeOK /\ Shape)
  <1> QED BY TypeInit, TypeNext, PTL DEF Spec

-----------------------------------------------------------------------------
Discarding == {c \in Callers : pc[c] = "discarding"}

\* The counter is exact, and with the workers that close() and a late start
\* took out of it, it stays within the limit.
Counting ==
  /\ Accounting
  /\ total + Len(retiring) + Cardinality(Discarding) <= PoolSize

\* Taking the last idle worker shortens the list by one.
LEMMA FrontLen ==
  ASSUME NEW S, NEW q \in Seq(S), Len(q) > 0
  PROVE  Front(q) \in Seq(S) /\ Len(Front(q)) = Len(q) - 1
  <1>1. Len(q) \in Nat /\ DOMAIN q = 1..Len(q)
    BY LenProperties
  <1>2. \A i \in 1..(Len(q) - 1) : q[i] \in S
    BY <1>1
  <1> QED BY <1>1, <1>2 DEF Front

\* The sets of callers that are counted are finite.
LEMMA CallerSets ==
  ASSUME NEW S \in SUBSET Callers
  PROVE  IsFiniteSet(S) /\ Cardinality(S) \in Nat
  BY CallersFinite, FS_Subset, FS_CardinalityType

\* Adding an element to a finite set or removing it changes the cardinality by
\* one or leaves it alone.
LEMMA CardinalityStep ==
  ASSUME NEW S, NEW x, IsFiniteSet(S), NEW T,
         \A y : y # x => (y \in T <=> y \in S)
  PROVE  /\ IsFiniteSet(T)
         /\ x \in S /\ x \in T => Cardinality(T) = Cardinality(S)
         /\ x \notin S /\ x \notin T => Cardinality(T) = Cardinality(S)
         /\ x \notin S /\ x \in T => Cardinality(T) = Cardinality(S) + 1
         /\ x \in S /\ x \notin T => Cardinality(T) = Cardinality(S) - 1
  <1>1. CASE x \in T
    <2>1. T = S \cup {x}
      BY <1>1
    <2> QED BY <1>1, <2>1, FS_AddElement
  <1>2. CASE x \notin T
    <2>1. T = S \ {x}
      BY <1>2
    <2> QED BY <1>2, <2>1, FS_RemoveElement
  <1> QED BY <1>1, <1>2

\* Caller c goes to control state s; at most one waiting caller is woken.
Moves(c, s) ==
  \/ pc' = [pc EXCEPT ![c] = s]
  \/ MoveAndSignal(c, s)

\* How the number of slots and of discarding callers follows a move.
LEMMA SlotMoves ==
  ASSUME TypeOK, NEW c \in Callers, NEW s, Moves(c, s), pc[c] # "waiting"
  PROVE  /\ Cardinality(Slots) \in Nat
         /\ (s \in SlotPCs <=> pc[c] \in SlotPCs) =>
              Cardinality(Slots') = Cardinality(Slots)
         /\ (s \in SlotPCs /\ pc[c] \notin SlotPCs) =>
              Cardinality(Slots') = Cardinality(Slots) + 1
         /\ (s \notin SlotPCs /\ pc[c] \in SlotPCs) =>
              Cardinality(Slots') = Cardinality(Slots) - 1
         /\ Cardinality(Discarding) \in Nat
         /\ (s = "discarding" <=> pc[c] = "discarding") =>
              Cardinality(Discarding') = Cardinality(Discarding)
         /\ (s = "discarding" /\ pc[c] # "discarding") =>
              Cardinality(Discarding') = Cardinality(Discarding) + 1
         /\ (s # "discarding" /\ pc[c] = "discarding") =>
              Cardinality(Discarding') = Cardinality(Discarding) - 1
  <1>1. /\ IsFiniteSet(Slots) /\ Cardinality(Slots) \in Nat
        /\ IsFiniteSet(Discarding) /\ Cardinality(Discarding) \in Nat
    BY CallerSets DEF Slots, Discarding
  <1>2. \A d \in Callers :
          d # c => \/ pc'[d] = pc[d]
                   \/ pc[d] = "waiting" /\ pc'[d] = "woken"
    BY DEF Moves, MoveAndSignal, TypeOK, Waiting
  <1>3. pc'[c] = s
    BY DEF Moves, MoveAndSignal, TypeOK, Waiting
  <1>4. \A y : y # c => (y \in Slots' <=> y \in Slots)
    BY <1>2 DEF Slots, SlotPCs
  <1>5. \A y : y # c => (y \in Discarding' <=> y \in Discarding)
    BY <1>2 DEF Discarding
  <1>6. /\ c \in Slots <=> pc[c] \in SlotPCs
        /\ c \in Discarding <=> pc[c] = "discarding"
        /\ c \in Slots' <=> s \in SlotPCs
        /\ c \in Discarding' <=> s = "discarding"
    BY <1>3 DEF Slots, Discarding
  <1> HIDE DEF Slots, Discarding, SlotPCs
  <1>7. /\ c \in Slots /\ c \in Slots' => Cardinality(Slots') = Cardinality(Slots)
        /\ c \notin Slots /\ c \notin Slots' => Cardinality(Slots') = Cardinality(Slots)
        /\ c \notin Slots /\ c \in Slots' => Cardinality(Slots') = Cardinality(Slots) + 1
        /\ c \in Slots /\ c \notin Slots' => Cardinality(Slots') = Cardinality(Slots) - 1
    BY <1>1, <1>4, CardinalityStep
  <1>8. /\ c \in Discarding /\ c \in Discarding' => Cardinality(Discarding') = Cardinality(Discarding)
        /\ c \notin Discarding /\ c \notin Discarding' => Cardinality(Discarding') = Cardinality(Discarding)
        /\ c \notin Discarding /\ c \in Discarding' => Cardinality(Discarding') = Cardinality(Discarding) + 1
        /\ c \in Discarding /\ c \notin Discarding' => Cardinality(Discarding') = Cardinality(Discarding) - 1
    BY <1>1, <1>5, CardinalityStep
  <1> QED BY <1>1, <1>6, <1>7, <1>8

\* The count is right initially.
LEMMA CountingInit == Init => Counting
  <1> SUFFICES ASSUME Init PROVE Counting
    OBVIOUS
  <1>1. Slots = {} /\ Discarding = {}
    BY DEF Init, Slots, SlotPCs, Discarding
  <1>2. Len(idle) = 0 /\ Len(retiring) = 0 /\ total = 0
    BY EmptySeq DEF Init
  <1> QED BY <1>1, <1>2, FS_EmptySet, MaxSizeIsInt DEF Counting, Accounting, PoolSize

\* Every step preserves the count.
LEMMA CountingNext ==
  TypeOK /\ Shape /\ Counting /\ [Next]_vars => Counting'
  <1> SUFFICES ASSUME TypeOK, Shape, Counting, [Next]_vars PROVE Counting'
    OBVIOUS
  <1>0. /\ total \in Int /\ PoolSize \in Int
        /\ Len(idle) \in Nat /\ Len(retiring) \in Nat
    BY MaxSizeIsInt, LenProperties DEF TypeOK, PoolSize
  <1>1. ASSUME NEW c \in Callers, pc[c] \in {"outside", "woken"}, BorrowTurn(c)
        PROVE Counting'
    <2>1. CASE BorrowRefused(c)
      <3>2. /\ Moves(c, "refused") /\ pc[c] \in {"outside", "woken"}
            /\ total' = total /\ Len(idle') = Len(idle) /\ retiring' = retiring
        BY <1>1, <2>1 DEF BorrowRefused, Moves
      <3>3. /\ Cardinality(Slots) \in Nat /\ Cardinality(Discarding) \in Nat
            /\ Cardinality(Slots') = Cardinality(Slots)
            /\ Cardinality(Discarding') = Cardinality(Discarding)
        BY <3>2, SlotMoves DEF SlotPCs
      <3> QED BY <1>0, <3>2, <3>3 DEF Counting, Accounting
    <2>2. CASE BorrowIdle(c)
      <3>1. Len(Front(idle)) = Len(idle) - 1
        BY <2>2, FrontLen DEF BorrowIdle, TypeOK
      <3>2. /\ Moves(c, "holding") /\ pc[c] \in {"outside", "woken"}
            /\ total' = total /\ Len(idle') = Len(idle) - 1 /\ retiring' = retiring
        BY <1>1, <2>2, <3>1 DEF BorrowIdle, Moves
      <3>3. /\ Cardinality(Slots) \in Nat /\ Cardinality(Discarding) \in Nat
            /\ Cardinality(Slots') = Cardinality(Slots) + 1
            /\ Cardinality(Discarding') = Cardinality(Discarding)
        BY <3>2, SlotMoves DEF SlotPCs
      <3> QED BY <1>0, <3>2, <3>3 DEF Counting, Accounting
    <2>3. CASE BorrowReserve(c)
      <3>1. Len(retiring) = 0 /\ Cardinality(Discarding) = 0 /\ total < PoolSize
        <4>1. retiring = <<>> /\ Discarding = {} /\ total < PoolSize
          BY <2>3 DEF BorrowReserve, Shape, Discarding
        <4> QED BY <4>1, EmptySeq, FS_EmptySet
      <3>2. /\ Moves(c, "starting") /\ pc[c] \in {"outside", "woken"}
            /\ total' = total + 1 /\ Len(idle') = Len(idle) /\ retiring' = retiring
        BY <1>1, <2>3 DEF BorrowReserve, Moves
      <3>3. /\ Cardinality(Slots) \in Nat /\ Cardinality(Discarding) \in Nat
            /\ Cardinality(Slots') = Cardinality(Slots) + 1
            /\ Cardinality(Discarding') = Cardinality(Discarding)
        BY <3>2, SlotMoves DEF SlotPCs
      <3> QED BY <1>0, <3>2, <3>3, <3>1 DEF Counting, Accounting
    <2>4. CASE BorrowWait(c)
      <3>2. /\ Moves(c, "waiting") /\ pc[c] \in {"outside", "woken"}
            /\ total' = total /\ Len(idle') = Len(idle) /\ retiring' = retiring
        BY <1>1, <2>4 DEF BorrowWait, Moves
      <3>3. /\ Cardinality(Slots) \in Nat /\ Cardinality(Discarding) \in Nat
            /\ Cardinality(Slots') = Cardinality(Slots)
            /\ Cardinality(Discarding') = Cardinality(Discarding)
        BY <3>2, SlotMoves DEF SlotPCs
      <3> QED BY <1>0, <3>2, <3>3 DEF Counting, Accounting
    <2> QED BY <1>1, <2>1, <2>2, <2>3, <2>4 DEF BorrowTurn
  <1>2. ASSUME NEW c \in Callers, CallerStep(c)
        PROVE Counting'
    <2>1. CASE BorrowAgain(c)
      BY <1>1, <2>1 DEF BorrowAgain
    <2>2. CASE StartWorker(c)
      <3>2. /\ Moves(c, "started") /\ pc[c] = "starting"
            /\ total' = total /\ Len(idle') = Len(idle) /\ retiring' = retiring
        BY <2>2 DEF StartWorker, Moves
      <3>3. /\ Cardinality(Slots) \in Nat /\ Cardinality(Discarding) \in Nat
            /\ Cardinality(Slots') = Cardinality(Slots)
            /\ Cardinality(Discarding') = Cardinality(Discarding)
        BY <3>2, SlotMoves DEF SlotPCs
      <3> QED BY <1>0, <3>2, <3>3 DEF Counting, Accounting
    <2>3. CASE StartFails(c)
      <3>2. /\ Moves(c, "failed") /\ pc[c] = "starting"
            /\ total' = total - 1 /\ Len(idle') = Len(idle) /\ retiring' = retiring
        BY <2>3 DEF StartFails, Moves
      <3>3. /\ Cardinality(Slots) \in Nat /\ Cardinality(Discarding) \in Nat
            /\ Cardinality(Slots') = Cardinality(Slots) - 1
            /\ Cardinality(Discarding') = Cardinality(Discarding)
        BY <3>2, SlotMoves DEF SlotPCs
      <3>4. Accounting'
        BY <1>0, <3>2, <3>3 DEF Counting, Accounting
      <3>5. total' + Len(retiring') + Cardinality(Discarding') <= PoolSize
        BY <1>0, <3>2, <3>3 DEF Counting
      <3> QED BY <3>4, <3>5 DEF Counting
    <2>4. CASE StartKept(c)
      <3>2. /\ Moves(c, "holding") /\ pc[c] = "started"
            /\ total' = total /\ Len(idle') = Len(idle) /\ retiring' = retiring
        BY <2>4 DEF StartKept, Moves
      <3>3. /\ Cardinality(Slots) \in Nat /\ Cardinality(Discarding) \in Nat
            /\ Cardinality(Slots') = Cardinality(Slots)
            /\ Cardinality(Discarding') = Cardinality(Discarding)
        BY <3>2, SlotMoves DEF SlotPCs
      <3> QED BY <1>0, <3>2, <3>3 DEF Counting, Accounting
    <2>5. CASE StartTooLate(c)
      <3>2. /\ Moves(c, "discarding") /\ pc[c] = "started"
            /\ total' = total - 1 /\ Len(idle') = Len(idle) /\ retiring' = retiring
        BY <2>5 DEF StartTooLate, Moves
      <3>3. /\ Cardinality(Slots) \in Nat /\ Cardinality(Discarding) \in Nat
            /\ Cardinality(Slots') = Cardinality(Slots) - 1
            /\ Cardinality(Discarding') = Cardinality(Discarding) + 1
        BY <3>2, SlotMoves DEF SlotPCs
      <3>4. Accounting'
        BY <1>0, <3>2, <3>3 DEF Counting, Accounting
      <3>5. total' + Len(retiring') + Cardinality(Discarding') <= PoolSize
        BY <1>0, <3>2, <3>3 DEF Counting
      <3> QED BY <3>4, <3>5 DEF Counting
    <2>6. CASE DiscardWorker(c)
      <3>2. /\ Moves(c, "refused") /\ pc[c] = "discarding"
            /\ total' = total /\ Len(idle') = Len(idle) /\ retiring' = retiring
        BY <2>6 DEF DiscardWorker, Moves
      <3>3. /\ Cardinality(Slots) \in Nat /\ Cardinality(Discarding) \in Nat
            /\ Cardinality(Slots') = Cardinality(Slots)
            /\ Cardinality(Discarding') = Cardinality(Discarding) - 1
        BY <3>2, SlotMoves DEF SlotPCs
      <3> QED BY <1>0, <3>2, <3>3, SMTT(40) DEF Counting, Accounting
    <2>7. ASSUME NEW healthy \in BOOLEAN, Release(c, healthy)
          PROVE Counting'
      <3>1. CASE closing \/ ~healthy
        <4>2. /\ Moves(c, "aborting") /\ pc[c] = "holding"
              /\ total' = total /\ Len(idle') = Len(idle) /\ retiring' = retiring
          BY <2>7, <3>1 DEF Release, Moves
        <4>3. /\ Cardinality(Slots) \in Nat /\ Cardinality(Discarding) \in Nat
              /\ Cardinality(Slots') = Cardinality(Slots)
              /\ Cardinality(Discarding') = Cardinality(Discarding)
          BY <4>2, SlotMoves DEF SlotPCs
        <4> QED BY <1>0, <4>2, <4>3 DEF Counting, Accounting
      <3>2. CASE ~(closing \/ ~healthy)
        <4>1. Len(Append(idle, held[c])) = Len(idle) + 1
          BY <2>7, AppendProperties DEF Release, TypeOK, Shape, HolderPCs
        <4>2. /\ Moves(c, "done") /\ pc[c] = "holding"
              /\ total' = total /\ Len(idle') = Len(idle) + 1 /\ retiring' = retiring
          BY <2>7, <3>2, <4>1 DEF Release, Moves
        <4>3. /\ Cardinality(Slots) \in Nat /\ Cardinality(Discarding) \in Nat
              /\ Cardinality(Slots') = Cardinality(Slots) - 1
              /\ Cardinality(Discarding') = Cardinality(Discarding)
          BY <4>2, SlotMoves DEF SlotPCs
        <4> QED BY <1>0, <4>2, <4>3 DEF Counting, Accounting
      <3> QED BY <3>1, <3>2
    <2>8. CASE AbortWorker(c)
      <3>2. /\ Moves(c, "aborted") /\ pc[c] = "aborting"
            /\ total' = total /\ Len(idle') = Len(idle) /\ retiring' = retiring
        BY <2>8 DEF AbortWorker, Moves
      <3>3. /\ Cardinality(Slots) \in Nat /\ Cardinality(Discarding) \in Nat
            /\ Cardinality(Slots') = Cardinality(Slots)
            /\ Cardinality(Discarding') = Cardinality(Discarding)
        BY <3>2, SlotMoves DEF SlotPCs
      <3> QED BY <1>0, <3>2, <3>3 DEF Counting, Accounting
    <2>9. CASE AbortAccounted(c)
      <3>2. /\ Moves(c, "done") /\ pc[c] = "aborted"
            /\ total' = total - 1 /\ Len(idle') = Len(idle) /\ retiring' = retiring
        BY <2>9 DEF AbortAccounted, Moves
      <3>3. /\ Cardinality(Slots) \in Nat /\ Cardinality(Discarding) \in Nat
            /\ Cardinality(Slots') = Cardinality(Slots) - 1
            /\ Cardinality(Discarding') = Cardinality(Discarding)
        BY <3>2, SlotMoves DEF SlotPCs
      <3>4. Accounting'
        BY <1>0, <3>2, <3>3 DEF Counting, Accounting
      <3>5. total' + Len(retiring') + Cardinality(Discarding') <= PoolSize
        BY <1>0, <3>2, <3>3 DEF Counting
      <3> QED BY <3>4, <3>5 DEF Counting
    <2> QED BY <1>2, <2>1, <2>2, <2>3, <2>4, <2>5, <2>6, <2>7, <2>8, <2>9
            DEF CallerStep
  <1>3. CASE Close
    <2>1. Slots' = Slots /\ Discarding' = Discarding
      BY <1>3 DEF Close, Slots, SlotPCs, Discarding, TypeOK
    <2>2. retiring = <<>> /\ Len(retiring) = 0
      BY <1>3, EmptySeq DEF Close, Shape
    <2>3. Len(idle') = 0 /\ Len(retiring') = Len(idle)
      BY <1>3, EmptySeq DEF Close
    <2>4. Cardinality(Slots) \in Nat /\ Cardinality(Discarding) \in Nat
      BY CallerSets DEF Slots, Discarding
    <2>5. total' = total - Len(idle)
      BY <1>3 DEF Close
    <2>6. Accounting'
      BY <1>0, <2>1, <2>3, <2>4, <2>5 DEF Counting, Accounting
    <2>7. total' + Len(retiring') + Cardinality(Discarding') <= PoolSize
      BY <1>0, <2>1, <2>2, <2>3, <2>4, <2>5 DEF Counting
    <2> QED BY <2>6, <2>7 DEF Counting
  <1>4. CASE CloseIdleWorker
    <2>1. Slots' = Slots /\ Discarding' = Discarding
      BY <1>4 DEF CloseIdleWorker, Slots, Discarding
    <2>2. Len(Tail(retiring)) = Len(retiring) - 1
      BY <1>4, HeadTailProperties DEF CloseIdleWorker, TypeOK
    <2>3. Cardinality(Slots) \in Nat /\ Cardinality(Discarding) \in Nat
      BY CallerSets DEF Slots, Discarding
    <2>4. total' = total /\ Len(idle') = Len(idle) /\ Len(retiring') = Len(retiring) - 1
      BY <1>4, <2>2 DEF CloseIdleWorker
    <2>5. Accounting'
      BY <2>1, <2>4 DEF Counting, Accounting
    <2>6. total' + Len(retiring') + Cardinality(Discarding') <= PoolSize
      BY <1>0, <2>1, <2>3, <2>4 DEF Counting
    <2> QED BY <2>5, <2>6 DEF Counting
  <1>5. ASSUME NEW w \in Workers, ProcessExits(w)
        PROVE Counting'
    BY <1>5 DEF ProcessExits, Slots, Discarding, Counting, Accounting
  <1>6. CASE UNCHANGED vars
    BY <1>6 DEF vars, Slots, Discarding, Counting, Accounting
  <1> QED BY <1>1, <1>2, <1>3, <1>4, <1>5, <1>6 DEF Next, Borrow

\* p.total is exact in every reachable state: no path through borrow(),
\* release() and close() loses or repeats an increment or a decrement.
THEOREM AccountingExact == Spec => []Accounting
  <1>1. Counting => Accounting
    BY DEF Counting
  <1> QED BY <1>1, TypeInit, TypeNext, CountingInit, CountingNext, PTL DEF Spec

-----------------------------------------------------------------------------
\* What the operations on the idle stack and on the list of close() do to the
\* set of workers they hold.
LEMMA EmptyElements == ToSet(<<>>) = {} /\ IsInjective(<<>>)
  BY DEF ToSet, IsInjective

\* What taking the last element does to the set of elements.
LEMMA PopElements ==
  ASSUME NEW S, NEW q \in Seq(S), Len(q) > 0, IsInjective(q)
  PROVE  /\ Last(q) \in S
         /\ Front(q) \in Seq(S)
         /\ IsInjective(Front(q))
         /\ ToSet(q) = ToSet(Front(q)) \cup {Last(q)}
         /\ Last(q) \notin ToSet(Front(q))
  <1>1. Len(q) \in Nat /\ DOMAIN q = 1..Len(q) /\ Len(q) \in 1..Len(q)
    BY LenProperties
  <1>2. /\ Front(q) \in Seq(S)
        /\ Len(Front(q)) = Len(q) - 1
        /\ DOMAIN Front(q) = 1..(Len(q) - 1)
    BY <1>1, FrontLen, LenProperties
  <1>3. \A i \in 1..(Len(q) - 1) : Front(q)[i] = q[i]
    BY <1>1 DEF Front
  <1>4. Last(q) \in S
    BY <1>1 DEF Last
  <1>5. IsInjective(Front(q))
    BY <1>1, <1>2, <1>3 DEF IsInjective
  <1>6. Last(q) \notin ToSet(Front(q))
    BY <1>1, <1>2, <1>3 DEF IsInjective, ToSet, Last
  <1>7. ToSet(q) = ToSet(Front(q)) \cup {Last(q)}
    <2>1. ASSUME NEW i \in 1..Len(q)
          PROVE  q[i] \in ToSet(Front(q)) \cup {Last(q)}
      <3>1. i \in 1..(Len(q) - 1) \/ i = Len(q)
        <4>1. ASSUME NEW n \in Nat, NEW j \in 1..n
              PROVE  j \in 1..(n - 1) \/ j = n
          OBVIOUS
        <4> QED BY <1>1, <4>1
      <3> QED BY <1>2, <1>3, <3>1 DEF ToSet, Last
    <2>2. ToSet(Front(q)) \cup {Last(q)} \subseteq ToSet(q)
      <3>1. \A i \in 1..(Len(q) - 1) : i \in 1..Len(q)
        BY <1>1
      <3> QED BY <1>1, <1>2, <1>3, <3>1 DEF ToSet, Last
    <2> QED BY <1>1, <2>1, <2>2 DEF ToSet
  <1> QED BY <1>2, <1>4, <1>5, <1>6, <1>7

\* What appending a new element does to it.
LEMMA PushElements ==
  ASSUME NEW S, NEW q \in Seq(S), NEW e \in S, IsInjective(q), e \notin ToSet(q)
  PROVE  /\ IsInjective(Append(q, e))
         /\ ToSet(Append(q, e)) = ToSet(q) \cup {e}
  <1>1. Len(q) \in Nat /\ DOMAIN q = 1..Len(q)
    BY LenProperties
  <1>2. /\ DOMAIN Append(q, e) = 1..(Len(q) + 1)
        /\ \A i \in 1..Len(q) : Append(q, e)[i] = q[i]
        /\ Append(q, e)[Len(q) + 1] = e
    BY <1>1, AppendProperties, LenProperties
  <1>3. \A i \in 1..(Len(q) + 1) : i \in 1..Len(q) \/ i = Len(q) + 1
    BY <1>1
  <1>4. IsInjective(Append(q, e))
    BY <1>1, <1>2, <1>3 DEF IsInjective, ToSet
  <1>5. ToSet(Append(q, e)) = ToSet(q) \cup {e}
    BY <1>1, <1>2, <1>3 DEF ToSet
  <1> QED BY <1>4, <1>5

\* What taking the first element does to it.
LEMMA TailElements ==
  ASSUME NEW S, NEW q \in Seq(S), q # <<>>, IsInjective(q)
  PROVE  /\ Head(q) \in S
         /\ IsInjective(Tail(q))
         /\ ToSet(q) = ToSet(Tail(q)) \cup {Head(q)}
         /\ Head(q) \notin ToSet(Tail(q))
  <1>1. Len(q) \in Nat /\ DOMAIN q = 1..Len(q) /\ Len(q) > 0
    BY LenProperties, EmptySeq
  <1>2. /\ Tail(q) \in Seq(S)
        /\ Len(Tail(q)) = Len(q) - 1
        /\ DOMAIN Tail(q) = 1..(Len(q) - 1)
        /\ \A i \in 1..(Len(q) - 1) : Tail(q)[i] = q[i + 1]
        /\ Head(q) = q[1]
    BY <1>1, HeadTailProperties, LenProperties
  <1>3. \A i \in 1..Len(q) : i = 1 \/ (i - 1 \in 1..(Len(q) - 1) /\ (i - 1) + 1 = i)
    BY <1>1
  <1>4. \A i \in 1..(Len(q) - 1) : i + 1 \in 1..Len(q) /\ i + 1 # 1
    BY <1>1
  <1>5. Head(q) \in S
    BY <1>1, <1>2
  <1>6. IsInjective(Tail(q))
    BY <1>1, <1>2, <1>4 DEF IsInjective
  <1>7. Head(q) \notin ToSet(Tail(q))
    BY <1>1, <1>2, <1>4 DEF IsInjective, ToSet
  <1>8. ToSet(q) = ToSet(Tail(q)) \cup {Head(q)}
    <2>1. ASSUME NEW i \in 1..Len(q)
          PROVE  q[i] \in ToSet(Tail(q)) \cup {Head(q)}
      <3>1. CASE i = 1
        BY <1>2, <3>1
      <3>2. CASE i - 1 \in 1..(Len(q) - 1) /\ (i - 1) + 1 = i
        <4>1. Tail(q)[i - 1] = q[i]
          BY <1>2, <3>2
        <4> QED BY <1>2, <3>2, <4>1 DEF ToSet
      <3> QED BY <1>3, <3>1, <3>2
    <2>2. ToSet(Tail(q)) \cup {Head(q)} \subseteq ToSet(q)
      BY <1>1, <1>2, <1>4 DEF ToSet
    <2> QED BY <1>1, <2>1, <2>2 DEF ToSet
  <1> QED BY <1>5, <1>6, <1>7, <1>8

-----------------------------------------------------------------------------
\* Who has which worker, and in which state its process then is.
Ownership ==
  /\ ExclusiveOwnership
  /\ HeldNotReaped
  /\ NoOrphanProcess
  /\ \A c \in Callers : held[c] # NoWorker => proc[held[c]] # "unborn"

\* Nobody owns anything initially.
LEMMA OwnershipInit == Init => Ownership
  <1> SUFFICES ASSUME Init PROVE Ownership
    OBVIOUS
  <1>1. /\ ToSet(idle) = {} /\ IsInjective(idle)
        /\ ToSet(retiring) = {} /\ IsInjective(retiring)
    BY EmptyElements DEF Init
  <1>2. Unreaped = {}
    BY DEF Init, Unreaped
  <1> QED BY <1>1, <1>2 DEF Init, Ownership, ExclusiveOwnership, HeldNotReaped,
                            NoOrphanProcess, OwnerPCs

\* Every step keeps every process in one place.
LEMMA OwnershipNext ==
  TypeOK /\ Shape /\ Ownership /\ [Next]_vars => Ownership'
  <1> SUFFICES ASSUME TypeOK, Shape, Ownership, [Next]_vars PROVE Ownership'
    OBVIOUS
  <1> USE DEF Ownership, ExclusiveOwnership, HeldNotReaped, NoOrphanProcess,
              Unreaped, OwnerPCs, HolderPCs, TypeOK
  \* A step that only moves a caller that has the same claim before and after.
  <1>0. ASSUME NEW c \in Callers, NEW s, Moves(c, s), pc[c] # "waiting",
               s \in OwnerPCs <=> pc[c] \in OwnerPCs,
               UNCHANGED <<idle, held, proc, retiring>>
        PROVE  Ownership'
    <2>1. \A d \in Callers : pc'[d] \in OwnerPCs <=> pc[d] \in OwnerPCs
      BY <1>0 DEF Moves, MoveAndSignal, Waiting
    <2> QED BY <1>0, <2>1
  <1>1. ASSUME NEW c \in Callers, pc[c] \in {"outside", "woken"}, BorrowTurn(c)
        PROVE Ownership'
    <2>1. CASE BorrowRefused(c)
      BY <1>0, <1>1, <2>1 DEF BorrowRefused, Moves
    <2>2. CASE BorrowIdle(c)
      <3>1. /\ Last(idle) \in Workers
            /\ IsInjective(Front(idle))
            /\ ToSet(idle) = ToSet(Front(idle)) \cup {Last(idle)}
            /\ Last(idle) \notin ToSet(Front(idle))
        BY <2>2, PopElements DEF BorrowIdle
      <3>2. retiring = <<>> /\ ToSet(retiring) = {}
        BY <2>2, EmptyElements DEF BorrowIdle, Shape
      <3>3. held[c] = NoWorker
        BY <1>1 DEF Shape
      <3> QED BY <1>1, <2>2, <3>1, <3>2, <3>3, NoWorkerIsNil DEF BorrowIdle
    <2>3. CASE BorrowReserve(c)
      BY <1>0, <1>1, <2>3 DEF BorrowReserve, Moves
    <2>4. CASE BorrowWait(c)
      BY <1>0, <1>1, <2>4 DEF BorrowWait, Moves
    <2> QED BY <1>1, <2>1, <2>2, <2>3, <2>4 DEF BorrowTurn
  <1>2. ASSUME NEW c \in Callers, CallerStep(c)
        PROVE Ownership'
    <2>1. CASE BorrowAgain(c)
      BY <1>1, <2>1 DEF BorrowAgain
    <2>2. CASE StartWorker(c)
      <3>1. PICK w \in Workers :
              /\ proc[w] = "unborn"
              /\ proc' = [proc EXCEPT ![w] = "alive"]
              /\ held' = [held EXCEPT ![c] = w]
        BY <2>2 DEF StartWorker
      <3>2. /\ pc[c] = "starting" /\ pc' = [pc EXCEPT ![c] = "started"]
            /\ idle' = idle /\ retiring' = retiring
        BY <2>2 DEF StartWorker
      <3>3. held[c] = NoWorker
        BY <3>2 DEF Shape
      <3>4. /\ \A d \in Callers : held[d] # w
            /\ w \notin ToSet(idle) \cup ToSet(retiring)
        BY <3>1, NoWorkerIsNil
      <3> QED BY <3>1, <3>2, <3>3, <3>4, NoWorkerIsNil
    <2>3. CASE StartFails(c)
      BY <1>0, <2>3 DEF StartFails, Moves
    <2>4. CASE StartKept(c)
      BY <1>0, <2>4 DEF StartKept, Moves
    <2>5. CASE StartTooLate(c)
      BY <1>0, <2>5 DEF StartTooLate, Moves
    <2>6. CASE DiscardWorker(c)
      BY <2>6, NoWorkerIsNil DEF DiscardWorker
    <2>7. ASSUME NEW healthy \in BOOLEAN, Release(c, healthy)
          PROVE Ownership'
      <3>1. CASE closing \/ ~healthy
        BY <1>0, <2>7, <3>1 DEF Release, Moves
      <3>2. CASE ~(closing \/ ~healthy)
        <4>1. /\ held[c] \in Workers
              /\ held[c] \notin ToSet(idle)
          BY <2>7 DEF Release, Shape
        <4>2. /\ IsInjective(Append(idle, held[c]))
              /\ ToSet(Append(idle, held[c])) = ToSet(idle) \cup {held[c]}
          BY <4>1, PushElements
        <4>3. /\ pc[c] = "holding" /\ pc'[c] = "done"
              /\ \A d \in Callers : d # c => (pc'[d] \in OwnerPCs <=> pc[d] \in OwnerPCs)
              /\ idle' = Append(idle, held[c])
              /\ held' = [held EXCEPT ![c] = NoWorker]
              /\ proc' = proc /\ retiring' = retiring
          BY <2>7, <3>2 DEF Release, MoveAndSignal, Waiting
        <4>4. retiring = <<>> /\ ToSet(retiring) = {}
          BY <3>2, EmptyElements DEF Shape
        <4> QED BY <4>1, <4>2, <4>3, <4>4, NoWorkerIsNil, SMTT(40)
      <3> QED BY <3>1, <3>2
    <2>8. CASE AbortWorker(c)
      BY <2>8, NoWorkerIsNil DEF AbortWorker, Shape
    <2>9. CASE AbortAccounted(c)
      <3>1. /\ pc[c] = "aborted" /\ pc'[c] = "done"
            /\ \A d \in Callers : d # c => (pc'[d] \in OwnerPCs <=> pc[d] \in OwnerPCs)
            /\ held' = [held EXCEPT ![c] = NoWorker]
            /\ UNCHANGED <<idle, proc, retiring>>
        BY <2>9 DEF AbortAccounted, MoveAndSignal, Waiting
      <3> QED BY <3>1, NoWorkerIsNil
    <2> QED BY <1>2, <2>1, <2>2, <2>3, <2>4, <2>5, <2>6, <2>7, <2>8, <2>9
            DEF CallerStep
  <1>3. CASE Close
    <2>1. /\ ToSet(idle') = {} /\ IsInjective(idle')
          /\ ToSet(retiring') = ToSet(idle) /\ ToSet(retiring) = {}
      BY <1>3, EmptyElements DEF Close, Shape
    <2>2. \A d \in Callers : pc'[d] \in OwnerPCs <=> pc[d] \in OwnerPCs
      BY <1>3 DEF Close
    <2> QED BY <1>3, <2>1, <2>2 DEF Close
  <1>4. CASE CloseIdleWorker
    <2>1. /\ Head(retiring) \in Workers
          /\ IsInjective(Tail(retiring))
          /\ ToSet(retiring) = ToSet(Tail(retiring)) \cup {Head(retiring)}
          /\ Head(retiring) \notin ToSet(Tail(retiring))
      BY <1>4, TailElements DEF CloseIdleWorker
    <2>2. ToSet(idle) = {}
      BY <1>4, EmptyElements DEF CloseIdleWorker, Shape, ClosedStaysEmpty
    <2> QED BY <1>4, <2>1, <2>2 DEF CloseIdleWorker
  <1>5. ASSUME NEW w \in Workers, ProcessExits(w)
        PROVE Ownership'
    BY <1>5 DEF ProcessExits
  <1>6. CASE UNCHANGED vars
    BY <1>6 DEF vars
  <1> QED BY <1>1, <1>2, <1>3, <1>4, <1>5, <1>6 DEF Next, Borrow

\* No worker is ever shared: not by two callers, not by a caller and p.idle,
\* not by a caller and close().
THEOREM OwnershipExclusive == Spec => []ExclusiveOwnership
  <1>1. Ownership => ExclusiveOwnership
    BY DEF Ownership
  <1> QED BY <1>1, TypeInit, TypeNext, OwnershipInit, OwnershipNext, PTL DEF Spec

\* No worker process is leaked by an error path, a timeout or a close().
THEOREM ProcessesOwned == Spec => []NoOrphanProcess
  <1>1. Ownership => NoOrphanProcess
    BY DEF Ownership
  <1> QED BY <1>1, TypeInit, TypeNext, OwnershipInit, OwnershipNext, PTL DEF Spec

-----------------------------------------------------------------------------
\* A sequence has at most as many elements as its length.
LEMMA SequenceCardinality ==
  ASSUME NEW S, NEW q \in Seq(S)
  PROVE  IsFiniteSet(ToSet(q)) /\ Cardinality(ToSet(q)) <= Len(q)
  <1>1. Len(q) \in Nat /\ DOMAIN q = 1..Len(q) /\ q \in [1..Len(q) -> S]
    BY LenProperties
  <1>2. q \in Surjection(1..Len(q), ToSet(q))
    BY <1>1 DEF Surjection, ToSet
  <1>3. IsFiniteSet(1..Len(q)) /\ Cardinality(1..Len(q)) = Len(q)
    BY <1>1, FS_Interval, SMTT(30)
  <1> QED BY <1>2, <1>3, FS_Surjection

\* The size of a union is at most the sum of the sizes.
LEMMA UnionCardinality ==
  ASSUME NEW S, NEW T, IsFiniteSet(S), IsFiniteSet(T)
  PROVE  /\ IsFiniteSet(S \cup T)
         /\ Cardinality(S) \in Nat /\ Cardinality(T) \in Nat
         /\ Cardinality(S \cup T) \in Nat
         /\ Cardinality(S \cup T) <= Cardinality(S) + Cardinality(T)
  <1>1. Cardinality(S) \in Nat /\ Cardinality(T) \in Nat
    BY FS_CardinalityType
  <1>2. IsFiniteSet(S \cap T)
    BY FS_Intersection
  <1>3. Cardinality(S \cap T) \in Nat
    BY <1>2, FS_CardinalityType
  <1>4. /\ IsFiniteSet(S \cup T)
        /\ Cardinality(S \cup T) = Cardinality(S) + Cardinality(T) - Cardinality(S \cap T)
    BY FS_Union
  <1>5. Cardinality(S \cup T) \in Nat
    BY <1>4, FS_CardinalityType
  <1> QED BY <1>1, <1>3, <1>4, <1>5

\* The limit on processes follows from the count and the ownership.
LEMMA CapacityFollows ==
  TypeOK /\ Shape /\ Counting /\ Ownership => CapacityRespected
  <1> SUFFICES ASSUME TypeOK, Shape, Counting, Ownership PROVE CapacityRespected
    OBVIOUS
  <1> DEFINE Owners == {c \in Callers : pc[c] \in OwnerPCs}
             HeldWorkers == {held[c] : c \in Owners}
             f == [c \in Owners |-> held[c]]
  <1>1. /\ IsFiniteSet(Owners) /\ Cardinality(Owners) \in Nat
        /\ IsFiniteSet(Slots) /\ Cardinality(Slots) \in Nat
        /\ IsFiniteSet(Discarding) /\ Cardinality(Discarding) \in Nat
    BY CallerSets DEF Slots, Discarding
  <1>2. IsFiniteSet(HeldWorkers) /\ Cardinality(HeldWorkers) <= Cardinality(Owners)
    <2>1. f \in Surjection(Owners, HeldWorkers)
      BY DEF Surjection
    <2> QED BY <1>1, <2>1, FS_Surjection
  <1>3. Cardinality(Owners) <= Cardinality(Slots) + Cardinality(Discarding)
    <2>1. Owners \subseteq Slots \cup Discarding
      BY DEF Slots, SlotPCs, Discarding, OwnerPCs
    <2>2. /\ IsFiniteSet(Slots \cup Discarding)
          /\ Cardinality(Slots \cup Discarding) <= Cardinality(Slots) + Cardinality(Discarding)
      BY <1>1, UnionCardinality
    <2>3. Cardinality(Owners) <= Cardinality(Slots \cup Discarding)
      BY <2>1, <2>2, FS_Subset
    <2> QED BY <1>1, <2>2, <2>3, FS_CardinalityType
  <1>4. /\ IsFiniteSet(ToSet(idle)) /\ Cardinality(ToSet(idle)) <= Len(idle)
        /\ IsFiniteSet(ToSet(retiring)) /\ Cardinality(ToSet(retiring)) <= Len(retiring)
        /\ Len(idle) \in Nat /\ Len(retiring) \in Nat
    BY SequenceCardinality, LenProperties DEF TypeOK
  <1>5. /\ Cardinality(ToSet(idle)) \in Nat
        /\ Cardinality(ToSet(retiring)) \in Nat
        /\ Cardinality(HeldWorkers) \in Nat
    BY <1>2, <1>4, FS_CardinalityType
  <1> DEFINE Pooled == ToSet(idle) \cup ToSet(retiring)
  <1>6. /\ IsFiniteSet(Pooled) /\ Cardinality(Pooled) \in Nat
        /\ Cardinality(Pooled) <= Cardinality(ToSet(idle)) + Cardinality(ToSet(retiring))
    BY <1>4, UnionCardinality
  <1>7. /\ IsFiniteSet(Pooled \cup HeldWorkers) /\ Cardinality(Pooled \cup HeldWorkers) \in Nat
        /\ Cardinality(Pooled \cup HeldWorkers) <= Cardinality(Pooled) + Cardinality(HeldWorkers)
    <2> HIDE DEF Pooled, HeldWorkers
    <2> QED BY <1>2, <1>6, UnionCardinality
  <1>8. Unreaped \subseteq Pooled \cup HeldWorkers
    BY DEF Ownership, NoOrphanProcess
  <1>9. Cardinality(Unreaped) \in Nat /\ Cardinality(Unreaped) <= Cardinality(Pooled \cup HeldWorkers)
    <2> HIDE DEF Pooled, HeldWorkers
    <2> QED BY <1>7, <1>8, FS_Subset, FS_CardinalityType
  <1>10. total \in Int /\ PoolSize \in Int
    BY MaxSizeIsInt DEF TypeOK, PoolSize
  <1> HIDE DEF Pooled, HeldWorkers, Owners
  <1>11. total = Len(idle) + Cardinality(Slots)
    BY DEF Counting, Accounting
  <1>12. total + Len(retiring) + Cardinality(Discarding) <= PoolSize
    BY DEF Counting
  <1>13. Cardinality(Unreaped) <= Len(idle) + Len(retiring) + Cardinality(Owners)
    BY <1>1, <1>2, <1>4, <1>5, <1>6, <1>7, <1>9, SMTT(40)
  <1>14. Cardinality(Unreaped) <= total + Len(retiring) + Cardinality(Discarding)
    BY <1>1, <1>3, <1>4, <1>9, <1>11, <1>13
  <1> QED BY <1>1, <1>4, <1>9, <1>10, <1>12, <1>14 DEF CapacityRespected

\* There are never more worker processes than the pool's limit, for every
\* number of callers, however starts, failures, releases and close()
\* interleave.
THEOREM Capacity == Spec => []CapacityRespected
  BY TypeInit, TypeNext, CountingInit, CountingNext, OwnershipInit,
     OwnershipNext, CapacityFollows, PTL DEF Spec

-----------------------------------------------------------------------------
\* How the sets of waiting and woken callers follow a move without a signal ...
LEMMA QuietMoves ==
  ASSUME TypeOK, NEW c \in Callers, NEW s,
         pc' = [pc EXCEPT ![c] = s], s # "waiting", s # "woken",
         pc[c] # "waiting"
  PROVE  /\ Waiting' = Waiting
         /\ Cardinality(Woken) \in Nat
         /\ Cardinality(Woken') \in Nat
         /\ pc[c] # "woken" => Cardinality(Woken') = Cardinality(Woken)
         /\ pc[c] = "woken" => Cardinality(Woken') = Cardinality(Woken) - 1
  <1>1. Waiting' = Waiting
    BY DEF Waiting, TypeOK
  <1>2. /\ IsFiniteSet(Woken) /\ Cardinality(Woken) \in Nat
        /\ Cardinality(Woken') \in Nat
    BY CallerSets DEF Woken
  <1>3. \A y : y # c => (y \in Woken' <=> y \in Woken)
    BY DEF Woken, TypeOK
  <1>4. c \notin Woken' /\ (c \in Woken <=> pc[c] = "woken")
    BY DEF Woken, TypeOK
  <1>5. /\ c \notin Woken => Cardinality(Woken') = Cardinality(Woken)
        /\ c \in Woken => Cardinality(Woken') = Cardinality(Woken) - 1
    BY <1>2, <1>3, <1>4, CardinalityStep
  <1> QED BY <1>1, <1>2, <1>4, <1>5

\* ... and with one.
LEMMA SignalMoves ==
  ASSUME TypeOK, NEW c \in Callers, NEW s,
         MoveAndSignal(c, s), s # "waiting", s # "woken",
         pc[c] # "waiting", pc[c] # "woken"
  PROVE  /\ Cardinality(Woken) \in Nat
         /\ Waiting = {} => Waiting' = {}
         /\ Waiting # {} => Cardinality(Woken') = Cardinality(Woken) + 1
  <1>1. IsFiniteSet(Woken) /\ Cardinality(Woken) \in Nat
    BY CallerSets DEF Woken
  <1>2. CASE Waiting = {} /\ pc' = [pc EXCEPT ![c] = s]
    BY <1>1, <1>2 DEF Waiting, TypeOK
  <1>3. ASSUME NEW x \in Waiting, pc' = [pc EXCEPT ![c] = s, ![x] = "woken"]
        PROVE  Waiting # {} /\ Cardinality(Woken') = Cardinality(Woken) + 1
    <2>1. x \notin Woken /\ x \in Woken' /\ \A y : y # x => (y \in Woken' <=> y \in Woken)
      BY <1>3 DEF Waiting, Woken, TypeOK
    <2> QED BY <1>1, <1>3, <2>1, CardinalityStep
  <1> QED BY <1>1, <1>2, <1>3 DEF MoveAndSignal

\* Nobody waits initially.
LEMMA WakeupInit == Init => NoLostWakeup
  BY DEF Init, NoLostWakeup, Waiting

\* Every step that frees a worker or a slot wakes somebody, or nobody waits.
LEMMA WakeupNext ==
  TypeOK /\ Shape /\ Counting /\ NoLostWakeup /\ [Next]_vars => NoLostWakeup'
  <1> SUFFICES ASSUME TypeOK, Shape, Counting, NoLostWakeup, [Next]_vars
               PROVE  NoLostWakeup'
    OBVIOUS
  <1>0. /\ total \in Int /\ PoolSize \in Int /\ Len(idle) \in Nat
    BY MaxSizeIsInt, LenProperties DEF TypeOK, PoolSize
  \* Steps that leave the counters alone, or make room and signal.
  <1>a. ASSUME NEW c \in Callers, NEW s, pc' = [pc EXCEPT ![c] = s],
               s # "waiting", s # "woken", pc[c] \notin {"waiting", "woken"},
               UNCHANGED <<idle, total>>
        PROVE  NoLostWakeup'
    <2>1. Waiting' = Waiting /\ Cardinality(Woken') = Cardinality(Woken)
      BY <1>a, QuietMoves
    <2> QED BY <1>a, <2>1 DEF NoLostWakeup
  <1>b. ASSUME NEW c \in Callers, NEW s, MoveAndSignal(c, s),
               s # "waiting", s # "woken", pc[c] \notin {"waiting", "woken"},
               Len(idle') - total' = Len(idle) - total + 1,
               total' \in Int, Len(idle') \in Int
        PROVE  NoLostWakeup'
    <2>1. /\ Cardinality(Woken) \in Nat
          /\ Waiting = {} => Waiting' = {}
          /\ Waiting # {} => Cardinality(Woken') = Cardinality(Woken) + 1
      BY <1>b, SignalMoves
    <2> QED BY <1>0, <1>b, <2>1, SMTT(40) DEF NoLostWakeup
  <1>1. ASSUME NEW c \in Callers, pc[c] \in {"outside", "woken"}, BorrowTurn(c)
        PROVE NoLostWakeup'
    <2>1. CASE BorrowRefused(c)
      <3>1. Waiting' = {}
        BY <2>1 DEF BorrowRefused, Shape, ClosedStaysEmpty, Waiting, TypeOK
      <3> QED BY <3>1 DEF NoLostWakeup
    <2>2. CASE BorrowIdle(c)
      <3>1. Len(idle') = Len(idle) - 1 /\ total' = total
        BY <2>2, FrontLen DEF BorrowIdle, TypeOK
      <3>2. /\ Waiting' = Waiting /\ Cardinality(Woken) \in Nat
            /\ Cardinality(Woken') \in Nat
            /\ Cardinality(Woken') >= Cardinality(Woken) - 1
        <4>1. pc' = [pc EXCEPT ![c] = "holding"] /\ pc[c] # "waiting"
          BY <1>1, <2>2 DEF BorrowIdle
        <4>2. /\ Waiting' = Waiting
              /\ Cardinality(Woken) \in Nat /\ Cardinality(Woken') \in Nat
              /\ pc[c] # "woken" => Cardinality(Woken') = Cardinality(Woken)
              /\ pc[c] = "woken" => Cardinality(Woken') = Cardinality(Woken) - 1
          BY <4>1, QuietMoves
        <4> QED BY <4>2
      <3> QED BY <1>0, <3>1, <3>2 DEF NoLostWakeup
    <2>3. CASE BorrowReserve(c)
      <3>1. idle' = idle /\ total' = total + 1
        BY <2>3 DEF BorrowReserve
      <3>2. /\ Waiting' = Waiting /\ Cardinality(Woken) \in Nat
            /\ Cardinality(Woken') \in Nat
            /\ Cardinality(Woken') >= Cardinality(Woken) - 1
        <4>1. pc' = [pc EXCEPT ![c] = "starting"] /\ pc[c] # "waiting"
          BY <1>1, <2>3 DEF BorrowReserve
        <4>2. /\ Waiting' = Waiting
              /\ Cardinality(Woken) \in Nat /\ Cardinality(Woken') \in Nat
              /\ pc[c] # "woken" => Cardinality(Woken') = Cardinality(Woken)
              /\ pc[c] = "woken" => Cardinality(Woken') = Cardinality(Woken) - 1
          BY <4>1, QuietMoves
        <4> QED BY <4>2
      <3> QED BY <1>0, <3>1, <3>2 DEF NoLostWakeup
    <2>4. CASE BorrowWait(c)
      <3>1. Cardinality(Woken') \in Nat
        BY CallerSets DEF Woken
      <3>2. Len(idle') = 0 /\ total' = total /\ total >= PoolSize
        BY <1>0, <2>4 DEF BorrowWait
      <3> QED BY <1>0, <3>1, <3>2 DEF NoLostWakeup
    <2> QED BY <1>1, <2>1, <2>2, <2>3, <2>4 DEF BorrowTurn
  <1>2. ASSUME NEW c \in Callers, CallerStep(c)
        PROVE NoLostWakeup'
    <2>1. CASE BorrowAgain(c)
      BY <1>1, <2>1 DEF BorrowAgain
    <2>2. CASE StartWorker(c)
      BY <1>a, <2>2 DEF StartWorker
    <2>3. CASE StartFails(c)
      <3>1. /\ MoveAndSignal(c, "failed") /\ pc[c] = "starting"
            /\ total' = total - 1 /\ idle' = idle
        BY <2>3 DEF StartFails
      <3>2. /\ Len(idle') - total' = Len(idle) - total + 1
            /\ total' \in Int /\ Len(idle') \in Int
        BY <1>0, <3>1
      <3> QED BY <1>b, <3>1, <3>2
    <2>4. CASE StartKept(c)
      BY <1>a, <2>4 DEF StartKept
    <2>5. CASE StartTooLate(c)
      <3>1. Waiting' = {}
        BY <2>5 DEF StartTooLate, MoveAndSignal, Shape, ClosedStaysEmpty, Waiting, TypeOK
      <3> QED BY <3>1 DEF NoLostWakeup
    <2>6. CASE DiscardWorker(c)
      BY <1>a, <2>6 DEF DiscardWorker
    <2>7. ASSUME NEW healthy \in BOOLEAN, Release(c, healthy)
          PROVE NoLostWakeup'
      <3>1. CASE closing \/ ~healthy
        BY <1>a, <2>7, <3>1 DEF Release
      <3>2. CASE ~(closing \/ ~healthy)
        <4>1. /\ MoveAndSignal(c, "done") /\ pc[c] = "holding"
              /\ total' = total /\ idle' = Append(idle, held[c])
          BY <2>7, <3>2 DEF Release
        <4>2. Len(idle') = Len(idle) + 1
          BY <4>1, AppendProperties DEF TypeOK, Shape, HolderPCs
        <4>3. /\ Len(idle') - total' = Len(idle) - total + 1
              /\ total' \in Int /\ Len(idle') \in Int
          BY <1>0, <4>1, <4>2
        <4> QED BY <1>b, <4>1, <4>3
      <3> QED BY <3>1, <3>2
    <2>8. CASE AbortWorker(c)
      BY <1>a, <2>8 DEF AbortWorker
    <2>9. CASE AbortAccounted(c)
      <3>1. /\ MoveAndSignal(c, "done") /\ pc[c] = "aborted"
            /\ total' = total - 1 /\ idle' = idle
        BY <2>9 DEF AbortAccounted
      <3>2. /\ Len(idle') - total' = Len(idle) - total + 1
            /\ total' \in Int /\ Len(idle') \in Int
        BY <1>0, <3>1
      <3> QED BY <1>b, <3>1, <3>2
    <2> QED BY <1>2, <2>1, <2>2, <2>3, <2>4, <2>5, <2>6, <2>7, <2>8, <2>9
            DEF CallerStep
  <1>3. CASE Close
    <2>1. Waiting' = {}
      BY <1>3 DEF Close, Waiting
    <2> QED BY <2>1 DEF NoLostWakeup
  <1>4. CASE CloseIdleWorker
    BY <1>4 DEF CloseIdleWorker, NoLostWakeup, Waiting, Woken
  <1>5. ASSUME NEW w \in Workers, ProcessExits(w)
        PROVE NoLostWakeup'
    BY <1>5 DEF ProcessExits, NoLostWakeup, Waiting, Woken
  <1>6. CASE UNCHANGED vars
    BY <1>6 DEF vars, NoLostWakeup, Waiting, Woken
  <1> QED BY <1>1, <1>2, <1>3, <1>4, <1>5, <1>6 DEF Next, Borrow

\* No wake-up is lost, although Signal() wakes one waiter only and a caller
\* that was not waiting may take the worker before it.
THEOREM WakeupsKept == Spec => []NoLostWakeup
  BY TypeInit, TypeNext, CountingInit, CountingNext, WakeupInit, WakeupNext,
     PTL DEF Spec

-----------------------------------------------------------------------------
(* The calls.                                                                *)

\* A caller that may still have a request or a reply in the pipes of its worker: its
\* do() runs, or has given up on the reply.
Active(c) == op[c] \in {"writing", "reading"} \/ opResult[c] \in ErrorOutcomes

\* The request of d was written to worker w, and no reply to it was read.
Expects(d, w) ==
  d \in Callers /\ opWorker[d] = w /\ Active(d) /\ op[d] # "writing"

UserPCs == {"holding", "aborting", "aborted"}

\* A process that was aborted is gone before the slot of its worker is free.
AbortedReaped == \A c \in Callers : pc[c] = "aborted" => proc[held[c]] = "reaped"

\* What the variables of a call say of its progress.
CallShape ==
  \A c \in Callers :
    /\ pc[c] \notin UserPCs \cup {"done"} => op[c] = "none"
    /\ op[c] = "none" => chan[c] = Nothing /\ toRelease[c] = Nothing
    /\ op[c] \in {"none", "writing", "reading"} => opResult[c] = Nothing
    /\ op[c] # "none" => opWorker[c] \in Workers
    /\ op[c] \notin {"none", "writing", "reading"} => opResult[c] # Nothing
    /\ chan[c] # Nothing => op[c] = "sent" /\ chan[c] = opResult[c]
    /\ toRelease[c] # Nothing => pc[c] = "holding"
    /\ toRelease[c] = "healthy" => opResult[c] \in AllReplies

\* A caller that is active has its worker, or has had it killed; no other caller is
\* active on that worker.
ActiveOwns ==
  /\ \A c \in Callers :
       Active(c) => \/ held[c] = opWorker[c] /\ pc[c] \in UserPCs
                    \/ proc[opWorker[c]] = "reaped"
  /\ \A c, d \in Callers :
       Active(c) /\ Active(d) /\ opWorker[c] = opWorker[d] => c = d

\* There is one request or one reply in the pipes of a worker at most, and the caller
\* it belongs to expects it.
PipesOf(w) ==
  /\ \A i \in DOMAIN stdin[w] : i = 1 /\ Expects(stdin[w][i], w)
  /\ \A i \in DOMAIN stdout[w] : stdout[w][i] # Noise =>
       /\ Expects(stdout[w][i].id, w)
       /\ stdin[w] = <<>>
       /\ \A j \in DOMAIN stdout[w] : stdout[w][j] # Noise => i = j

PipesExpected == \A w \in Workers : PipesOf(w)

\* The parse of caller d on worker w has met the Node-side timer: the caller has read
\* the answer, or has not come to it.
TimerAnswered(d, w) ==
  /\ opWorker[d] = w
  /\ \/ opResult[d] \in ErrorOutcomes \cup {"timeout"}
     \/ /\ op[d] = "reading"
        /\ \E i \in DOMAIN stdout[w] : stdout[w][i] = [id |-> d, reply |-> "timeout"]

\* A foreign line in the pipe of a worker is not going to be missed by the caller that
\* reads, unless the worker's own timer had answered before it was printed.
NoiseExplained(w) ==
  \E c \in Callers :
    /\ opWorker[c] = w
    /\ \/ opResult[c] \in ErrorOutcomes \cup {"timeout"}
       \/ op[c] = "reading" /\ (stdout[w][1] = Noise \/ stdout[w][1].reply = "timeout")

Leftovers ==
  \A w \in Workers :
    /\ \A d \in abandoned[w] : TimerAnswered(d, w)
    /\ \A i \in DOMAIN stdout[w] : stdout[w][i] = Noise => NoiseExplained(w)

PInv ==
  /\ PTypeOK /\ Shape /\ Ownership
  /\ AbortedReaped
  /\ CallShape
  /\ ActiveOwns
  /\ PipesExpected
  /\ Leftovers

-----------------------------------------------------------------------------
\* A line that is no noise is the reply to a request.
LEMMA LineKinds ==
  /\ \A l \in Lines : l # Noise =>
       l.id \in Callers /\ l.reply \in AllReplies /\ l = [id |-> l.id, reply |-> l.reply]
  /\ \A c \in Callers, r \in AllReplies :
       [id |-> c, reply |-> r] \in Lines /\ [id |-> c, reply |-> r] # Noise
  /\ Noise \in Lines
  BY DEF Lines, Noise, AllReplies

\* A sequence that is not empty has a first element.
LEMMA NonEmptyHasFirst ==
  ASSUME NEW S, NEW q \in Seq(S), q # <<>>
  PROVE  1 \in DOMAIN q
  <1>1. Len(q) \in Nat \ {0} /\ DOMAIN q = 1 .. Len(q)
    BY EmptySeq, LenProperties
  <1> QED BY <1>1

\* What reading a line does to a sequence of lines, and what printing one does.
LEMMA PipeTail ==
  ASSUME NEW S, NEW q \in Seq(S), q # <<>>
  PROVE  /\ Head(q) = q[1] /\ 1 \in DOMAIN q
         /\ Tail(q) \in Seq(S)
         /\ \A i \in DOMAIN Tail(q) : i + 1 \in DOMAIN q /\ i + 1 # 1 /\ Tail(q)[i] = q[i + 1]
         /\ \A i, j \in DOMAIN Tail(q) : i + 1 = j + 1 => i = j
         /\ \A i \in DOMAIN q : i # 1 => i - 1 \in DOMAIN Tail(q) /\ Tail(q)[i - 1] = q[i]
  <1>1. Len(q) \in Nat \ {0} /\ DOMAIN q = 1 .. Len(q)
    BY EmptySeq, LenProperties
  <1>2. /\ Tail(q) \in Seq(S) /\ Len(Tail(q)) = Len(q) - 1
        /\ \A i \in 1 .. Len(Tail(q)) : Tail(q)[i] = q[i + 1]
    BY HeadTailProperties
  <1>3. DOMAIN Tail(q) = 1 .. Len(q) - 1
    BY <1>2, LenProperties
  <1>4. Head(q) = q[1]
    OBVIOUS
  <1> QED BY <1>1, <1>2, <1>3, <1>4

\* Writing to a pipe adds at its end.
LEMMA PipeAppend ==
  ASSUME NEW S, NEW q \in Seq(S), NEW e \in S
  PROVE  /\ Append(q, e) \in Seq(S)
         /\ \A i \in DOMAIN q : i \in DOMAIN Append(q, e) /\ Append(q, e)[i] = q[i]
         /\ \E n \in DOMAIN Append(q, e) :
              /\ n \notin DOMAIN q /\ Append(q, e)[n] = e
              /\ \A i \in DOMAIN Append(q, e) : i \in DOMAIN q \/ i = n
              /\ q = <<>> => n = 1
         /\ 1 \in DOMAIN Append(q, e)
  <1>1. Len(q) \in Nat /\ DOMAIN q = 1 .. Len(q)
    BY LenProperties
  <1>2. /\ Append(q, e) \in Seq(S) /\ Len(Append(q, e)) = Len(q) + 1
        /\ \A i \in 1 .. Len(q) : Append(q, e)[i] = q[i]
        /\ Append(q, e)[Len(q) + 1] = e
    BY AppendProperties
  <1>3. DOMAIN Append(q, e) = 1 .. Len(q) + 1
    BY <1>2, LenProperties
  <1>4. q = <<>> => Len(q) = 0
    BY EmptySeq
  <1>5. /\ Len(q) + 1 \in DOMAIN Append(q, e) /\ Len(q) + 1 \notin DOMAIN q
        /\ \A i \in DOMAIN Append(q, e) : i \in DOMAIN q \/ i = Len(q) + 1
        /\ q = <<>> => Len(q) + 1 = 1
    BY <1>1, <1>3, <1>4
  <1> QED BY <1>1, <1>2, <1>3, <1>5

\* Nothing is in the pipes initially.
LEMMA PInvInit == ASSUME PInit PROVE PInv
  <1>1. TypeOK /\ Shape /\ Ownership
    BY TypeInit, OwnershipInit DEF PInit
  <1>2. /\ \A w \in Workers : stdin[w] = <<>> /\ stdout[w] = <<>>
        /\ stdin \in [Workers -> Seq(Callers)] /\ stdout \in [Workers -> Seq(Lines)]
    BY EmptySeq DEF PInit
  <1>3. PTypeOK
    <2>1. timedOut \in [Callers -> BOOLEAN]
      BY Zenon DEF PInit
    <2>2. noise \in [Workers -> 0 .. NoiseLimit]
      BY NoiseLimitIsNat DEF PInit
    <2> QED BY <1>1, <1>2, <2>1, <2>2 DEF PInit, PTypeOK, OpPCs, Outcomes
  <1>4. AbortedReaped /\ CallShape /\ ActiveOwns
    BY DEF PInit, Init, AbortedReaped, CallShape, ActiveOwns, Active, UserPCs, Nothing,
           ErrorOutcomes
  <1>5. PipesExpected /\ Leftovers
    BY <1>2 DEF PInit, PipesExpected, PipesOf, Leftovers
  <1> QED BY <1>1, <1>3, <1>4, <1>5 DEF PInv

-----------------------------------------------------------------------------
\* Every step of a parse is a step of the pool or leaves it alone.
LEMMA ParseIsPool == ASSUME [PNext]_allVars PROVE [Next]_vars
  <1>1. ASSUME NEW c \in Callers, ParseStep(c) \/ TimerFires(c) \/ OperationStep(c)
        PROVE  [Next]_vars
    <2>1. CASE PoolStep(c)
      BY <2>1 DEF PoolStep, Next, CallerStep
    <2>2. CASE ReleaseWorker(c)
      <3>1. (toRelease[c] = "healthy") \in BOOLEAN
        BY Zenon
      <3> QED BY <2>2, <3>1 DEF ReleaseWorker, Next, CallerStep
    <2>3. CASE StartOperation(c) \/ ReceiveError(c) \/ ReceiveReply(c) \/ TimerFires(c)
      BY <2>3 DEF StartOperation, ReceiveError, ReceiveReply, TimerFires
    <2>4. CASE OperationStep(c)
      BY <2>4 DEF OperationStep, DoWrite, DoReadLine, DoReadFails, CheckTimedOut, SendResult
    <2> QED BY <1>1, <2>1, <2>2, <2>3, <2>4 DEF ParseStep
  <1>2. CASE UNCHANGED allVars
    BY <1>2 DEF allVars
  <1>3. ASSUME NEW w \in Workers,
               \/ \E r \in Replies : NodeReplies(w, r)
               \/ \E c \in Callers : NodeSettles(w, c)
               \/ NodePrints(w)
        PROVE  [Next]_vars
    BY <1>3 DEF NodeReplies, NodeSettles, NodePrints
  <1> QED BY <1>1, <1>2, <1>3 DEF PNext, Next

\* What any step of the pool does to the callers that have had a worker.
LEMMA PoolFrame ==
  ASSUME TypeOK, Shape, Ownership, AbortedReaped, [Next]_vars
  PROVE  /\ \A w \in Workers : proc[w] = "reaped" => proc'[w] = "reaped"
         /\ \A c \in Callers : pc[c] \in UserPCs =>
              \/ pc'[c] \in UserPCs /\ held'[c] = held[c]
              \/ pc[c] = "aborted" /\ pc'[c] = "done"
              \/ pc[c] = "holding" /\ pc'[c] = "done"
         /\ \A c \in Callers : pc[c] = "done" => pc'[c] = "done"
         /\ AbortedReaped'
  <1> USE DEF UserPCs, AbortedReaped, TypeOK
  <1>1. ASSUME NEW c \in Callers, BorrowTurn(c), pc[c] \in {"outside", "woken"}
        PROVE  /\ UNCHANGED proc
               /\ \A d \in Callers : d # c => pc'[d] = pc[d] /\ held'[d] = held[d]
               /\ pc'[c] # "aborted"
    BY <1>1 DEF BorrowTurn, BorrowRefused, BorrowIdle, BorrowReserve, BorrowWait
  <1>2. CASE \E c \in Callers : Borrow(c) \/ BorrowAgain(c)
    BY <1>1, <1>2 DEF Borrow, BorrowAgain
  <1>3. ASSUME NEW c \in Callers, StartWorker(c) \/ StartKept(c)
        PROVE  /\ pc[c] \in {"starting", "started"} /\ pc'[c] # "aborted"
               /\ \A w \in Workers : proc[w] = "reaped" => proc'[w] = "reaped"
               /\ \A d \in Callers : d # c => pc'[d] = pc[d] /\ held'[d] = held[d]
    BY <1>3 DEF StartWorker, StartKept
  <1>4. ASSUME NEW c \in Callers, StartFails(c) \/ StartTooLate(c)
        PROVE  /\ pc[c] \in {"starting", "started"} /\ pc'[c] # "aborted"
               /\ UNCHANGED <<proc, held>>
               /\ \A d \in Callers : d # c => \/ pc'[d] = pc[d]
                                              \/ pc[d] = "waiting" /\ pc'[d] = "woken"
    BY <1>4 DEF StartFails, StartTooLate, MoveAndSignal, Waiting
  <1>5. ASSUME NEW c \in Callers, DiscardWorker(c) \/ AbortWorker(c)
        PROVE  /\ pc[c] \in {"discarding", "aborting"}
               /\ pc[c] = "discarding" => pc'[c] = "refused"
               /\ pc[c] = "aborting" => pc'[c] = "aborted" /\ held' = held
               /\ held[c] \in Workers
               /\ proc' = [proc EXCEPT ![held[c]] = "reaped"]
               /\ \A d \in Callers : d # c => pc'[d] = pc[d] /\ held'[d] = held[d]
    BY <1>5 DEF DiscardWorker, AbortWorker, Shape, HolderPCs
  <1>6. ASSUME NEW c \in Callers, NEW healthy \in BOOLEAN, Release(c, healthy)
        PROVE  /\ pc[c] = "holding" /\ UNCHANGED proc
               /\ \A d \in Callers : d # c => held'[d] = held[d]
               /\ \A d \in Callers : d # c => \/ pc'[d] = pc[d]
                                              \/ pc[d] = "waiting" /\ pc'[d] = "woken"
               /\ \/ pc'[c] = "aborting" /\ held' = held
                  \/ pc'[c] = "done"
    BY <1>6 DEF Release, MoveAndSignal, Waiting
  <1>7. ASSUME NEW c \in Callers, AbortAccounted(c)
        PROVE  /\ pc[c] = "aborted" /\ pc'[c] = "done" /\ UNCHANGED proc
               /\ \A d \in Callers : d # c => held'[d] = held[d]
               /\ \A d \in Callers : d # c => \/ pc'[d] = pc[d]
                                              \/ pc[d] = "waiting" /\ pc'[d] = "woken"
    BY <1>7 DEF AbortAccounted, MoveAndSignal, Waiting
  <1>8. CASE \E c \in Callers : StartWorker(c) \/ StartKept(c)
    <2>1. \A c \in Callers, w \in Workers : pc[c] = "aborted" => held[c] \in Workers
      BY DEF Shape, HolderPCs
    <2> QED BY <1>3, <1>8, <2>1 DEF Shape, HolderPCs
  <1>9. CASE \E c \in Callers : StartFails(c) \/ StartTooLate(c)
    BY <1>4, <1>9
  <1>10. CASE \E c \in Callers : DiscardWorker(c) \/ AbortWorker(c)
    <2>1. \A c \in Callers : pc[c] = "aborted" => held[c] \in Workers
      BY DEF Shape, HolderPCs
    <2> QED BY <1>5, <1>10, <2>1
  <1>11. CASE \E c \in Callers, healthy \in BOOLEAN : Release(c, healthy)
    BY <1>6, <1>11
  <1>12. CASE \E c \in Callers : AbortAccounted(c)
    BY <1>7, <1>12
  <1>13. CASE Close
    BY <1>13 DEF Close
  <1>14. CASE CloseIdleWorker
    <2>1. Head(retiring) \in Workers
      BY <1>14, HeadTailProperties DEF CloseIdleWorker
    <2>2. \A c \in Callers : pc[c] = "aborted" => held[c] \in Workers
      BY DEF Shape, HolderPCs
    <2> QED BY <1>14, <2>1, <2>2 DEF CloseIdleWorker
  <1>15. CASE \E w \in Workers : ProcessExits(w)
    <2>2. \A c \in Callers : pc[c] = "aborted" => held[c] \in Workers
      BY DEF Shape, HolderPCs
    <2> QED BY <1>15, <2>2 DEF ProcessExits
  <1>16. CASE UNCHANGED vars
    BY <1>16 DEF vars
  <1> QED BY <1>2, <1>8, <1>9, <1>10, <1>11, <1>12, <1>13, <1>14, <1>15, <1>16
          DEF Next, CallerStep

-----------------------------------------------------------------------------
\* A step in which the pipes only lose what a dead process had not answered.
LEMMA PipesFollowKeeps ==
  ASSUME PTypeOK, PipesExpected, Leftovers, PipesFollow
  PROVE  /\ PipesExpected' /\ Leftovers'
         /\ stdin' \in [Workers -> Seq(Callers)] /\ stdout' \in [Workers -> Seq(Lines)]
         /\ abandoned' \in [Workers -> SUBSET Callers]
         /\ noise' \in [Workers -> 0 .. NoiseLimit]
  <1>1. /\ UNCHANGED <<op, opWorker, opResult, stdout>>
        /\ stdin' \in [Workers -> Seq(Callers)]
        /\ \A w \in Workers : stdin'[w] = stdin[w] \/ stdin'[w] = <<>>
        /\ abandoned' \in [Workers -> SUBSET Callers]
        /\ \A w \in Workers : abandoned'[w] \subseteq abandoned[w]
        /\ noise' \in [Workers -> 0 .. NoiseLimit]
    BY EmptySeq, NoiseLimitIsNat DEF PipesFollow, PTypeOK
  <1>2. \A d, w : /\ Expects(d, w)' <=> Expects(d, w)
                  /\ TimerAnswered(d, w)' <=> TimerAnswered(d, w)
    BY <1>1 DEF Expects, Active, TimerAnswered
  <1>3. \A w : NoiseExplained(w)' <=> NoiseExplained(w)
    BY <1>1 DEF NoiseExplained
  <1>4. PipesExpected'
    BY <1>1, <1>2 DEF PipesExpected, PipesOf
  <1>5. Leftovers'
    BY <1>1, <1>2, <1>3 DEF Leftovers
  <1> QED BY <1>1, <1>4, <1>5 DEF PTypeOK

\* A step of the pool in which nobody releases a worker.
LEMMA PoolStepKeeps ==
  ASSUME PInv, [Next]_vars, PipesFollow,
         \A c \in Callers : pc[c] = "holding" => pc'[c] = "holding"
  PROVE  PInv'
  <1>1. TypeOK' /\ Shape' /\ Ownership'
    BY TypeNext, OwnershipNext DEF PInv, PTypeOK
  <1>2. /\ \A w \in Workers : proc[w] = "reaped" => proc'[w] = "reaped"
        /\ \A c \in Callers : pc[c] \in UserPCs =>
              \/ pc'[c] \in UserPCs /\ held'[c] = held[c]
              \/ pc[c] = "aborted" /\ pc'[c] = "done"
        /\ \A c \in Callers : pc[c] = "done" => pc'[c] = "done"
        /\ AbortedReaped'
    BY PoolFrame DEF PInv, PTypeOK
  <1>3. /\ PipesExpected' /\ Leftovers'
        /\ stdin' \in [Workers -> Seq(Callers)] /\ stdout' \in [Workers -> Seq(Lines)]
        /\ abandoned' \in [Workers -> SUBSET Callers]
        /\ noise' \in [Workers -> 0 .. NoiseLimit]
    BY PipesFollowKeeps DEF PInv
  <1>4. UNCHANGED <<op, opWorker, opResult, chan, timedOut, toRelease, result>>
    BY DEF PipesFollow
  <1>5. PTypeOK'
    BY <1>1, <1>3, <1>4 DEF PInv, PTypeOK
  <1>6. CallShape'
    BY <1>2, <1>4 DEF PInv, CallShape, UserPCs
  <1>7. \A c \in Callers : op[c] = "none" => ~Active(c)
    BY DEF PInv, CallShape, Active, Nothing, ErrorOutcomes
  <1>8. ActiveOwns'
    <2>1. \A c \in Callers : Active(c)' <=> Active(c)
      BY <1>4 DEF Active
    <2>2. \A c \in Callers : Active(c) => opWorker[c] \in Workers
      BY <1>7 DEF PInv, CallShape
    <2>3. \A c \in Callers : pc[c] = "aborted" => proc[held[c]] = "reaped"
      BY DEF PInv, AbortedReaped
    <2> QED BY <1>2, <1>4, <2>1, <2>2, <2>3 DEF PInv, ActiveOwns
  <1> QED BY <1>1, <1>2, <1>3, <1>5, <1>6, <1>8 DEF PInv

\* release(): a worker goes back to the pool only when its caller has had the reply.
LEMMA ReleaseWorkerKeeps ==
  ASSUME PInv, NEW c \in Callers, ReleaseWorker(c) PROVE PInv'
  <1>1. /\ Release(c, toRelease[c] = "healthy") /\ toRelease[c] # Nothing
        /\ toRelease' = [toRelease EXCEPT ![c] = Nothing]
        /\ UNCHANGED <<op, opWorker, opResult, chan, timedOut, result, stdin, stdout,
                       abandoned, noise>>
    BY DEF ReleaseWorker
  <1>2. [Next]_vars
    <2>1. (toRelease[c] = "healthy") \in BOOLEAN
      BY Zenon
    <2> QED BY <1>1, <2>1 DEF Next, CallerStep
  <1>3. TypeOK' /\ Shape' /\ Ownership'
    BY <1>2, TypeNext, OwnershipNext DEF PInv, PTypeOK
  <1>4. PTypeOK'
    BY <1>1, <1>3 DEF PInv, PTypeOK
  <1>5. AbortedReaped'
    BY <1>2, PoolFrame DEF PInv, PTypeOK
  <1>6. /\ pc[c] = "holding" /\ UNCHANGED proc
        /\ \A d \in Callers : d # c =>
             /\ held'[d] = held[d]
             /\ pc'[d] = pc[d] \/ (pc[d] = "waiting" /\ pc'[d] = "woken")
        /\ \/ pc'[c] = "aborting" /\ held' = held
           \/ pc'[c] = "done" /\ toRelease[c] = "healthy"
    BY <1>1 DEF Release, MoveAndSignal, Waiting, PInv, PTypeOK, TypeOK
  <1>7. CallShape'
    <2>1. /\ toRelease'[c] = Nothing
          /\ \A d \in Callers : d # c => toRelease'[d] = toRelease[d]
      BY <1>1 DEF PInv, PTypeOK
    <2>2. ASSUME NEW d \in Callers, d # c, op[d] # "none"
          PROVE  pc'[d] = pc[d]
      BY <1>6, <2>2 DEF PInv, CallShape, UserPCs
    <2>3. pc'[c] \in UserPCs \cup {"done"}
      BY <1>6 DEF UserPCs
    <2>4. op[c] # "none"
      BY <1>1 DEF PInv, CallShape
    <2> QED BY <1>1, <2>1, <2>2, <2>3, <2>4 DEF PInv, CallShape, Nothing
  <1>8. \A d \in Callers : /\ Active(d)' <=> Active(d)
                           /\ Active(d) => opWorker[d] \in Workers
    BY <1>1 DEF PInv, Active, CallShape, Nothing, ErrorOutcomes
  <1>9. toRelease[c] = "healthy" => ~Active(c)
    BY DEF PInv, CallShape, Active, ErrorOutcomes, AllReplies, Nothing
  <1>10. ActiveOwns'
    BY <1>1, <1>6, <1>8, <1>9 DEF PInv, ActiveOwns, UserPCs
  <1>11. PipesExpected' /\ Leftovers'
    BY <1>1 DEF PInv, PipesExpected, PipesOf, Leftovers, Expects, Active, TimerAnswered, NoiseExplained
  <1> QED BY <1>3, <1>4, <1>5, <1>7, <1>10, <1>11 DEF PInv

-----------------------------------------------------------------------------
\* The steps of the caller and of do() leave the pool as it is.
LEMMA PoolUnchanged ==
  ASSUME PInv, UNCHANGED vars
  PROVE  TypeOK' /\ Shape' /\ Ownership' /\ AbortedReaped'
  <1>1. TypeOK' /\ Shape' /\ Ownership'
    BY TypeNext, OwnershipNext DEF PInv, PTypeOK
  <1>2. AbortedReaped'
    BY DEF PInv, AbortedReaped, vars
  <1> QED BY <1>1, <1>2

\* The select of parseWithWorkerPool takes the timer, an error or a reply.
LEMMA SelectKeeps ==
  ASSUME PInv, NEW c \in Callers, TimerFires(c) \/ ReceiveError(c) \/ ReceiveReply(c)
  PROVE  PInv'
  <1>1. /\ UNCHANGED <<vars, op, opWorker, opResult, stdin, stdout, abandoned, noise>>
        /\ UNCHANGED <<idle, total, closing, pc, held, proc, retiring>>
        /\ pc[c] = "holding" /\ op[c] # "none"
    BY DEF TimerFires, ReceiveError, ReceiveReply, Selecting, vars
  <1>2. TypeOK' /\ Shape' /\ Ownership' /\ AbortedReaped'
    BY <1>1, PoolUnchanged
  <1>3. ReplyOutcome(chan[c]) \in Outcomes \/ chan[c] \notin AllReplies
    BY DEF ReplyOutcome, Outcomes, AllReplies
  <1>4. PTypeOK'
    <2>1. CASE TimerFires(c)
      <3>1. timedOut' \in [Callers -> BOOLEAN]
        BY <2>1, Zenon DEF TimerFires, PInv, PTypeOK
      <3> QED BY <1>1, <1>2, <2>1, <3>1 DEF TimerFires, PInv, PTypeOK, Outcomes
    <2>2. CASE ReceiveError(c)
      BY <1>1, <1>2, <2>2 DEF ReceiveError, PInv, PTypeOK, Outcomes, ErrorOutcomes
    <2>3. CASE ReceiveReply(c)
      BY <1>1, <1>2, <1>3, <2>3 DEF ReceiveReply, PInv, PTypeOK
    <2> QED BY <2>1, <2>2, <2>3
  <1>5. CallShape'
    <2>1. CASE TimerFires(c)
      BY <1>1, <2>1 DEF TimerFires, PInv, CallShape, PTypeOK, Nothing
    <2>2. CASE ReceiveError(c)
      BY <1>1, <2>2 DEF ReceiveError, PInv, CallShape, PTypeOK, Nothing
    <2>3. CASE ReceiveReply(c)
      BY <1>1, <2>3 DEF ReceiveReply, PInv, CallShape, PTypeOK, Nothing, AllReplies
    <2> QED BY <2>1, <2>2, <2>3
  <1>6. ActiveOwns' /\ PipesExpected' /\ Leftovers'
    BY <1>1 DEF PInv, ActiveOwns, PipesExpected, PipesOf, Leftovers, Expects, Active, TimerAnswered,
                NoiseExplained
  <1> QED BY <1>2, <1>4, <1>5, <1>6 DEF PInv

\* The goroutine of do() begins on a worker that nobody else expects anything of.
LEMMA StartOperationKeeps ==
  ASSUME PInv, NEW c \in Callers, StartOperation(c) PROVE PInv'
  <1>1. /\ UNCHANGED <<vars, opResult, chan, timedOut, toRelease, result, stdin, stdout,
                       abandoned, noise>>
        /\ UNCHANGED <<idle, total, closing, pc, held, proc, retiring>>
        /\ pc[c] = "holding" /\ op[c] = "none"
        /\ op' = [op EXCEPT ![c] = "writing"]
        /\ opWorker' = [opWorker EXCEPT ![c] = held[c]]
    BY DEF StartOperation, vars
  <1>2. TypeOK' /\ Shape' /\ Ownership' /\ AbortedReaped'
    BY <1>1, PoolUnchanged
  <1>3. /\ held[c] \in Workers /\ proc[held[c]] # "reaped"
        /\ \A d \in Callers : d # c => held[d] # held[c]
    BY <1>1 DEF PInv, PTypeOK, TypeOK, Shape, HolderPCs, Ownership, HeldNotReaped, OwnerPCs,
                Unreaped, ExclusiveOwnership
  <1>4. PTypeOK'
    BY <1>1, <1>2, <1>3 DEF PInv, PTypeOK, OpPCs
  <1>5. CallShape'
    BY <1>1, <1>3 DEF PInv, CallShape, PTypeOK, UserPCs
  <1>6. opResult[c] = Nothing /\ ~Active(c) /\ opResult[c] \notin ErrorOutcomes \cup {"timeout"}
    BY <1>1 DEF PInv, CallShape, Active, Nothing, ErrorOutcomes
  <1>7. \A d \in Callers : d # c => /\ Active(d)' <=> Active(d)
                                    /\ opWorker'[d] = opWorker[d] /\ op'[d] = op[d]
    BY <1>1 DEF Active, PInv, PTypeOK
  <1>8. opWorker'[c] = held[c] /\ op'[c] = "writing"
    BY <1>1 DEF PInv, PTypeOK
  <1>9. \A d \in Callers : d # c /\ Active(d) => opWorker[d] # held[c]
    BY <1>3 DEF PInv, ActiveOwns
  <1>10. ActiveOwns'
    BY <1>1, <1>3, <1>7, <1>8, <1>9 DEF PInv, ActiveOwns, UserPCs
  <1>11. \A d, w : Expects(d, w) => Expects(d, w)'
    BY <1>6, <1>7 DEF Expects
  <1>12. \A w \in Workers : /\ \A d \in Callers : TimerAnswered(d, w) => TimerAnswered(d, w)'
                            /\ NoiseExplained(w) => NoiseExplained(w)'
    <2>1. \A w \in Workers, d \in Callers : TimerAnswered(d, w) => d # c
      BY <1>1, <1>6 DEF TimerAnswered
    <2>2. \A w \in Workers, d \in Callers : TimerAnswered(d, w) => TimerAnswered(d, w)'
      BY <1>1, <1>7, <2>1 DEF TimerAnswered
    <2>3. ASSUME NEW w \in Workers, NoiseExplained(w) PROVE NoiseExplained(w)'
      <3>1. PICK d \in Callers :
              /\ opWorker[d] = w
              /\ \/ opResult[d] \in ErrorOutcomes \cup {"timeout"}
                 \/ op[d] = "reading" /\ (stdout[w][1] = Noise \/ stdout[w][1].reply = "timeout")
        BY <2>3 DEF NoiseExplained
      <3>2. d # c
        BY <1>1, <1>6, <3>1
      <3> QED BY <1>1, <1>7, <3>1, <3>2 DEF NoiseExplained
    <2> QED BY <2>2, <2>3
  <1>13. PipesExpected'
    BY <1>1, <1>11 DEF PInv, PipesExpected, PipesOf
  <1>14. Leftovers'
    BY <1>1, <1>12 DEF PInv, Leftovers, PTypeOK
  <1> QED BY <1>2, <1>4, <1>5, <1>10, <1>13, <1>14 DEF PInv

-----------------------------------------------------------------------------
\* do() has returned; the result is looked at and sent.
LEMMA AfterDoKeeps ==
  ASSUME PInv, NEW c \in Callers, CheckTimedOut(c) \/ SendResult(c) PROVE PInv'
  <1>1. /\ UNCHANGED <<vars, opWorker, opResult, timedOut, toRelease, result, stdin, stdout,
                       abandoned, noise>>
        /\ UNCHANGED <<idle, total, closing, pc, held, proc, retiring>>
        /\ op[c] \in {"returned", "sending"}
        /\ op'[c] \in {"dropped", "sending", "sent"}
        /\ op' \in [Callers -> OpPCs]
        /\ \A d \in Callers : d # c => op'[d] = op[d] /\ chan'[d] = chan[d]
        /\ \/ chan' = chan /\ op[c] = "returned"
           \/ chan' = [chan EXCEPT ![c] = opResult[c]] /\ op'[c] = "sent"
    BY DEF CheckTimedOut, SendResult, vars, PInv, PTypeOK, OpPCs
  <1>2. TypeOK' /\ Shape' /\ Ownership' /\ AbortedReaped'
    BY <1>1, PoolUnchanged
  <1>3. PTypeOK'
    BY <1>1, <1>2 DEF PInv, PTypeOK
  <1>4. CallShape'
    BY <1>1 DEF PInv, CallShape, PTypeOK
  <1>5. \A d \in Callers : /\ Active(d)' <=> Active(d)
                           /\ op'[d] = "writing" <=> op[d] = "writing"
                           /\ op'[d] = "reading" <=> op[d] = "reading"
    BY <1>1 DEF Active
  <1>6. ActiveOwns' /\ PipesExpected' /\ Leftovers'
    BY <1>1, <1>5 DEF PInv, ActiveOwns, PipesExpected, PipesOf, Leftovers, Expects, TimerAnswered,
                      NoiseExplained, PTypeOK
  <1> QED BY <1>2, <1>3, <1>4, <1>6 DEF PInv

\* do() fails before it has read anything: what is in the pipes is still expected.
LEMMA DoFailsKeeps ==
  ASSUME PInv, NEW c \in Callers, NEW r \in ErrorOutcomes,
         op[c] \in {"writing", "reading"}, DoReturns(c, r),
         UNCHANGED <<vars, opWorker, chan, timedOut, toRelease, result, stdin, stdout,
                     abandoned, noise>>
  PROVE  PInv'
  <1>1. /\ UNCHANGED <<idle, total, closing, pc, held, proc, retiring>>
        /\ op'[c] = "returned" /\ opResult'[c] = r
        /\ op' \in [Callers -> OpPCs]
        /\ opResult' \in [Callers -> ErrorOutcomes \cup AllReplies \cup {Nothing}]
        /\ \A d \in Callers : d # c => op'[d] = op[d] /\ opResult'[d] = opResult[d]
    BY DEF DoReturns, vars, PInv, PTypeOK, OpPCs
  <1>2. TypeOK' /\ Shape' /\ Ownership' /\ AbortedReaped'
    BY PoolUnchanged
  <1>3. r # Nothing
    BY DEF ErrorOutcomes, Nothing
  <1>4. PTypeOK'
    BY <1>1, <1>2 DEF PInv, PTypeOK
  <1>5. CallShape'
    BY <1>1, <1>3 DEF PInv, CallShape, PTypeOK, ErrorOutcomes, AllReplies, Nothing
  <1>6. \A d \in Callers : Active(d)' <=> Active(d)
    BY <1>1 DEF Active
  <1>7. ActiveOwns'
    BY <1>1, <1>6 DEF PInv, ActiveOwns
  <1>8. \A d, v : Expects(d, v) => Expects(d, v)'
    BY <1>1, <1>6 DEF Expects
  <1>9. \A v \in Workers : /\ \A d \in Callers : TimerAnswered(d, v) => TimerAnswered(d, v)'
                           /\ NoiseExplained(v) => NoiseExplained(v)'
    BY <1>1 DEF TimerAnswered, NoiseExplained
  <1>10. PipesExpected'
    BY <1>8 DEF PInv, PipesExpected, PipesOf
  <1>11. Leftovers'
    BY <1>9 DEF PInv, Leftovers, PTypeOK
  <1> QED BY <1>2, <1>4, <1>5, <1>7, <1>10, <1>11 DEF PInv

\* The request is written to a worker whose pipes hold neither request nor reply, or
\* the worker is gone.
LEMMA DoWriteKeeps ==
  ASSUME PInv, NEW c \in Callers, DoWrite(c) PROVE PInv'
  <1>1. /\ op[c] = "writing"
        /\ UNCHANGED <<vars, opWorker, chan, timedOut, toRelease, result, stdout, abandoned,
                       noise>>
        /\ UNCHANGED <<idle, total, closing, pc, held, proc, retiring>>
    BY DEF DoWrite, vars
  <1>0. PICK w \in Workers : w = opWorker[c]
    BY <1>1 DEF PInv, CallShape
  <1>2. CASE proc[w] # "alive"
    <2>1. PICK r \in LostWorker(w) : DoReturns(c, r) /\ stdin' = stdin
      BY <1>0, <1>2 DEF DoWrite
    <2>2. r \in ErrorOutcomes
      BY DEF LostWorker, ErrorOutcomes
    <2> QED BY <1>1, <2>1, <2>2, DoFailsKeeps
  <1>3. CASE proc[w] = "alive"
    <2>1. /\ stdin' = [stdin EXCEPT ![w] = Append(@, c)]
          /\ op' = [op EXCEPT ![c] = "reading"]
          /\ UNCHANGED opResult
      BY <1>0, <1>3 DEF DoWrite
    <2>2. /\ w \in Workers /\ Active(c)
      BY <1>1 DEF Active
    <2>3. /\ \A d \in Callers : d # c => op'[d] = op[d]
          /\ op'[c] = "reading" /\ op' \in [Callers -> OpPCs]
          /\ \A d \in Callers : Active(d)' <=> Active(d)
      BY <1>1, <2>1 DEF PInv, PTypeOK, Active, OpPCs
    <2>4. ~Expects(c, w) /\ \A d : Expects(d, w) => d = c
      BY <1>1, <1>0, <2>2 DEF PInv, ActiveOwns, Expects
    <2>5. stdin[w] = <<>> /\ \A i \in DOMAIN stdout[w] : stdout[w][i] = Noise
      <3>1. stdin[w] \in Seq(Callers)
        BY <2>2 DEF PInv, PTypeOK
      <3>2. DOMAIN stdin[w] = {} /\ \A i \in DOMAIN stdout[w] : stdout[w][i] = Noise
        BY <2>2, <2>4 DEF PInv, PipesExpected, PipesOf
      <3>3. stdin[w] # <<>> => 1 \in DOMAIN stdin[w]
        BY <3>1, NonEmptyHasFirst
      <3> QED BY <3>2, <3>3
    <2>6. stdin'[w] = <<c>> /\ \A v \in Workers : v # w => stdin'[v] = stdin[v]
      BY <2>1, <2>2, <2>5 DEF PInv, PTypeOK
    <2>7. <<c>> \in Seq(Callers) /\ DOMAIN <<c>> = {1} /\ <<c>>[1] = c
      OBVIOUS
    <2>8. stdin' \in [Workers -> Seq(Callers)]
      BY <2>1, <2>6, <2>7 DEF PInv, PTypeOK
    <2>9. TypeOK' /\ Shape' /\ Ownership' /\ AbortedReaped'
      BY <1>1, PoolUnchanged
    <2>10. PTypeOK'
      BY <1>1, <2>1, <2>3, <2>8, <2>9 DEF PInv, PTypeOK
    <2>11. CallShape'
      BY <1>1, <2>1, <2>3 DEF PInv, CallShape
    <2>12. ActiveOwns'
      BY <1>1, <2>3 DEF PInv, ActiveOwns
    <2>13. \A d, v : Expects(d, v) => Expects(d, v)'
      BY <1>1, <2>3 DEF Expects
    <2>14. Expects(c, w)'
      BY <1>1, <1>0, <2>2, <2>3 DEF Expects
    <2>15. PipesExpected'
      <3>1. ASSUME NEW v \in Workers, v # w
            PROVE  PipesOf(v)'
        <4>1. PipesOf(v) /\ stdin'[v] = stdin[v] /\ stdout'[v] = stdout[v]
          BY <1>1, <2>6, <3>1 DEF PInv, PipesExpected, PipesOf
        <4> QED BY <2>13, <4>1 DEF PipesOf
      <3>2. PipesOf(w)'
        BY <1>1, <2>5, <2>6, <2>7, <2>14 DEF PipesOf
      <3> QED BY <3>1, <3>2 DEF PipesExpected, PipesOf
    <2>16. \A v \in Workers : /\ \A d \in Callers : TimerAnswered(d, v) => TimerAnswered(d, v)'
                              /\ NoiseExplained(v) => NoiseExplained(v)'
      BY <1>1, <2>1, <2>3 DEF TimerAnswered, NoiseExplained
    <2>17. Leftovers'
      BY <1>1, <2>16 DEF PInv, Leftovers, PTypeOK
    <2> QED BY <2>9, <2>10, <2>11, <2>12, <2>15, <2>17 DEF PInv
  <1> QED BY <1>2, <1>3

\* A read fails.
LEMMA DoReadFailsKeeps ==
  ASSUME PInv, NEW c \in Callers, DoReadFails(c) PROVE PInv'
  <1>1. PICK r \in LostWorker(opWorker[c]) : DoReturns(c, r)
    BY DEF DoReadFails
  <1>2. r \in ErrorOutcomes
    BY DEF LostWorker, ErrorOutcomes
  <1> QED BY <1>1, <1>2, DoFailsKeeps DEF DoReadFails

\* A line is read.  It is noise, and what else is in the pipes stays expected; or it is
\* the reply to the caller's own request, after which the pipes hold at most what an
\* abandoned parse has printed.
LEMMA DoReadLineKeeps ==
  ASSUME PInv, NEW c \in Callers, DoReadLine(c)
  PROVE  PInv' /\ opResult'[c] # "ErrContract"
  <1>0. PICK w \in Workers : w = opWorker[c]
    BY DEF DoReadLine, PInv, CallShape
  <1> DEFINE line == Head(stdout[w])
             r == IF line = Noise THEN "ErrDecode"
                  ELSE IF line.id # c THEN "ErrContract" ELSE line.reply
  <1>1. /\ op[c] = "reading" /\ stdout[w] # <<>>
        /\ stdout' = [stdout EXCEPT ![w] = Tail(@)]
        /\ DoReturns(c, r)
        /\ UNCHANGED <<vars, opWorker, chan, timedOut, toRelease, result, stdin, abandoned,
                       noise>>
        /\ UNCHANGED <<idle, total, closing, pc, held, proc, retiring>>
    BY <1>0 DEF DoReadLine, vars
  <1>2. w \in Workers /\ Active(c) /\ c \in Callers
    BY <1>1 DEF PInv, CallShape, Active
  <1>3. stdout[w] \in Seq(Lines) /\ \A v \in Workers : v # w => stdout'[v] = stdout[v]
    BY <1>1, <1>2 DEF PInv, PTypeOK
  <1>4. stdout'[w] = Tail(stdout[w])
    BY <1>1, <1>2 DEF PInv, PTypeOK
  <1> DEFINE q == stdout[w]
  <1>5. /\ Head(q) = q[1] /\ 1 \in DOMAIN q
        /\ Tail(q) \in Seq(Lines)
        /\ \A i \in DOMAIN Tail(q) : i + 1 \in DOMAIN q /\ i + 1 # 1 /\ Tail(q)[i] = q[i + 1]
        /\ \A i, j \in DOMAIN Tail(q) : i + 1 = j + 1 => i = j
        /\ \A i \in DOMAIN q : i # 1 => i - 1 \in DOMAIN Tail(q) /\ Tail(q)[i - 1] = q[i]
    BY <1>1, <1>3, PipeTail
  <1>6. \A d : Expects(d, w) => d = c
    BY <1>0, <1>1, <1>2 DEF PInv, ActiveOwns, Expects
  <1>7. PipesOf(w)
    BY <1>2 DEF PInv, PipesExpected, PipesOf
  <1>8. line \in Lines /\ (line # Noise => line.id = c)
    <2>1. q[1] \in Lines
      BY <1>3, <1>5
    <2> QED BY <1>5, <1>6, <1>7, <2>1 DEF PipesOf
  <1>9. \/ line = Noise /\ r = "ErrDecode"
        \/ line # Noise /\ line.id = c /\ r = line.reply /\ r \in AllReplies
    BY <1>8, LineKinds
  <1>10. r \in ErrorOutcomes \cup AllReplies /\ r # Nothing /\ r # "ErrContract"
    BY <1>9 DEF ErrorOutcomes, AllReplies, Nothing
  <1> HIDE DEF r
  <1>11. /\ op'[c] = "returned" /\ opResult'[c] = r
         /\ op' \in [Callers -> OpPCs]
         /\ opResult' \in [Callers -> ErrorOutcomes \cup AllReplies \cup {Nothing}]
         /\ \A d \in Callers : d # c => op'[d] = op[d] /\ opResult'[d] = opResult[d]
    BY <1>1, <1>10 DEF DoReturns, PInv, PTypeOK, OpPCs
  <1>12. stdout' \in [Workers -> Seq(Lines)]
    BY <1>1, <1>4, <1>5 DEF PInv, PTypeOK
  <1>13. TypeOK' /\ Shape' /\ Ownership' /\ AbortedReaped'
    BY <1>1, PoolUnchanged
  <1>14. PTypeOK'
    BY <1>1, <1>11, <1>12, <1>13 DEF PInv, PTypeOK
  <1>15. CallShape'
    <2>1. toRelease[c] # "healthy"
      BY <1>1 DEF PInv, CallShape, AllReplies, Nothing
    <2> QED BY <1>1, <1>10, <1>11, <2>1 DEF PInv, CallShape, PTypeOK
  <1>16. \A d \in Callers : d # c => (Active(d)' <=> Active(d))
    BY <1>11 DEF Active
  <1>17. ActiveOwns'
    BY <1>1, <1>2, <1>11, <1>16 DEF PInv, ActiveOwns
  <1>18. \A d, v : d # c /\ Expects(d, v) => Expects(d, v)'
    BY <1>1, <1>11, <1>16 DEF Expects
  <1>19. line = Noise => Expects(c, w)'
    BY <1>0, <1>1, <1>2, <1>9, <1>11 DEF Expects, Active, ErrorOutcomes
  <1>20. PipesExpected'
    <2> HIDE DEF q, line
    <2>1. ASSUME NEW v \in Workers, v # w PROVE PipesOf(v)'
      <3>1. PipesOf(v) /\ stdin'[v] = stdin[v] /\ stdout'[v] = stdout[v]
        BY <1>1, <1>3, <2>1 DEF PInv, PipesExpected, PipesOf
      <3>2. ~Expects(c, v)
        BY <1>0, <2>1 DEF Expects
      <3> QED BY <1>18, <3>1, <3>2 DEF PipesOf
    <2>2. PipesOf(w)'
      <3>1. stdin'[w] = stdin[w] /\ stdout'[w] = Tail(q)
        BY <1>1, <1>4 DEF q
      <3>2. CASE line = Noise
        <4>1. \A d : Expects(d, w) => Expects(d, w)'
          BY <1>18, <1>19, <3>2
        <4> QED BY <1>5, <1>7, <3>1, <4>1 DEF PipesOf, q
      <3>3. CASE line # Noise
        <4>1. stdin[w] = <<>> /\ \A j \in DOMAIN q : q[j] # Noise => j = 1
          BY <1>5, <1>7, <3>3 DEF PipesOf, q, line
        <4>2. DOMAIN stdin[w] = {}
          BY <4>1
        <4>3. \A i \in DOMAIN Tail(q) : Tail(q)[i] = Noise
          BY <1>5, <4>1
        <4> QED BY <3>1, <4>2, <4>3 DEF PipesOf
      <3> QED BY <3>2, <3>3
    <2> QED BY <2>1, <2>2 DEF PipesExpected, PipesOf
  <1>21. Leftovers'
    <2> HIDE DEF q, line
    <2>1. ASSUME NEW v \in Workers, v # w
          PROVE  /\ \A d \in abandoned'[v] : TimerAnswered(d, v)'
                 /\ \A i \in DOMAIN stdout'[v] : stdout'[v][i] = Noise => NoiseExplained(v)'
      <3>1. stdout'[v] = stdout[v] /\ abandoned'[v] = abandoned[v] /\ opWorker[c] # v
        BY <1>0, <1>1, <1>3, <2>1
      <3>2. \A d \in Callers : TimerAnswered(d, v) => TimerAnswered(d, v)'
        BY <1>1, <1>11, <3>1 DEF TimerAnswered
      <3>3. NoiseExplained(v) => NoiseExplained(v)'
        BY <1>1, <1>11, <3>1 DEF NoiseExplained
      <3> QED BY <3>1, <3>2, <3>3 DEF PInv, Leftovers, PTypeOK
    <2>2. \A d \in abandoned'[w] : TimerAnswered(d, w)'
      <3> SUFFICES ASSUME NEW d \in abandoned[w] PROVE TimerAnswered(d, w)'
        BY <1>1
      <3>1. TimerAnswered(d, w) /\ d \in Callers
        BY <1>0, <1>2 DEF PInv, Leftovers, PTypeOK
      <3>2. CASE d # c
        <4>1. op[d] # "reading"
          BY <1>0, <1>1, <1>2, <3>1, <3>2 DEF PInv, ActiveOwns, Active, TimerAnswered
        <4> QED BY <1>1, <1>11, <3>1, <3>2, <4>1 DEF TimerAnswered
      <3>3. CASE d = c
        <4>1. opResult[c] = Nothing
          BY <1>1 DEF PInv, CallShape
        <4>2. PICK i \in DOMAIN q : q[i] = [id |-> c, reply |-> "timeout"]
          BY <3>1, <3>3, <4>1 DEF TimerAnswered, q, ErrorOutcomes, Nothing
        <4>3. q[i] # Noise
          BY <4>2, LineKinds DEF AllReplies
        <4>4. line # Noise => line = q[i]
          BY <1>5, <1>7, <4>3 DEF PipesOf, q, line
        <4>5. r \in ErrorOutcomes \cup {"timeout"}
          BY <1>9, <4>2, <4>4 DEF ErrorOutcomes
        <4> QED BY <1>0, <1>1, <1>11, <3>3, <4>5 DEF TimerAnswered
      <3> QED BY <3>2, <3>3
    <2>3. (\E i \in DOMAIN stdout'[w] : stdout'[w][i] = Noise) => NoiseExplained(w)'
      <3> SUFFICES ASSUME NEW i \in DOMAIN Tail(q), Tail(q)[i] = Noise
                   PROVE  NoiseExplained(w)'
        BY <1>4 DEF q
      <3>1. NoiseExplained(w)
        BY <1>0, <1>2, <1>5 DEF PInv, Leftovers, q
      <3>2. PICK d \in Callers :
              /\ opWorker[d] = w
              /\ \/ opResult[d] \in ErrorOutcomes \cup {"timeout"}
                 \/ op[d] = "reading" /\ (stdout[w][1] = Noise \/ stdout[w][1].reply = "timeout")
        BY <3>1 DEF NoiseExplained
      <3>3. CASE d # c
        <4>1. op[d] # "reading"
          BY <1>0, <1>1, <1>2, <3>2, <3>3 DEF PInv, ActiveOwns, Active
        <4> QED BY <1>1, <1>11, <3>2, <3>3, <4>1 DEF NoiseExplained
      <3>4. CASE d = c
        <4>1. opResult[c] = Nothing
          BY <1>1 DEF PInv, CallShape
        <4>2. line = Noise \/ line.reply = "timeout"
          BY <1>5, <3>2, <3>4, <4>1 DEF q, line, ErrorOutcomes, Nothing
        <4>3. r \in ErrorOutcomes \cup {"timeout"}
          BY <1>9, <4>2 DEF ErrorOutcomes
        <4> QED BY <1>0, <1>1, <1>11, <4>3 DEF NoiseExplained
      <3> QED BY <3>3, <3>4
    <2> QED BY <2>1, <2>2, <2>3 DEF Leftovers
  <1> QED BY <1>10, <1>11, <1>13, <1>14, <1>15, <1>17, <1>20, <1>21 DEF PInv

-----------------------------------------------------------------------------
\* A step of the Node worker w concerns its own pipes.
NodeStep(w) ==
  /\ UNCHANGED <<vars, op, opWorker, opResult, chan, timedOut, toRelease, result>>
  /\ \A v \in Workers : v # w => /\ stdin'[v] = stdin[v] /\ stdout'[v] = stdout[v]
                                 /\ abandoned'[v] = abandoned[v]

\* What is left to show for a step of the Node worker.
LEMMA NodeStepKeeps ==
  ASSUME PInv, NEW w \in Workers, NodeStep(w),
         stdin' \in [Workers -> Seq(Callers)], stdout' \in [Workers -> Seq(Lines)],
         abandoned' \in [Workers -> SUBSET Callers], noise' \in [Workers -> 0 .. NoiseLimit],
         PipesOf(w)',
         \A d \in abandoned'[w] : TimerAnswered(d, w)',
         \A i \in DOMAIN stdout'[w] : stdout'[w][i] = Noise => NoiseExplained(w)'
  PROVE  PInv'
  <1>1. /\ UNCHANGED <<idle, total, closing, pc, held, proc, retiring>>
        /\ UNCHANGED <<vars, op, opWorker, opResult, chan, timedOut, toRelease, result>>
    BY DEF NodeStep, vars
  <1>2. TypeOK' /\ Shape' /\ Ownership' /\ AbortedReaped'
    BY <1>1, PoolUnchanged
  <1>3. PTypeOK'
    BY <1>1, <1>2 DEF PInv, PTypeOK
  <1>4. CallShape' /\ ActiveOwns'
    BY <1>1 DEF PInv, CallShape, ActiveOwns, Active
  <1>5. ASSUME NEW v \in Workers, v # w
        PROVE  /\ PipesOf(v)'
               /\ \A d \in abandoned'[v] : TimerAnswered(d, v)'
               /\ \A i \in DOMAIN stdout'[v] : stdout'[v][i] = Noise => NoiseExplained(v)'
    <2>1. /\ stdin'[v] = stdin[v] /\ stdout'[v] = stdout[v] /\ abandoned'[v] = abandoned[v]
          /\ PipesOf(v)
          /\ \A d \in abandoned[v] : TimerAnswered(d, v)
          /\ \A i \in DOMAIN stdout[v] : stdout[v][i] = Noise => NoiseExplained(v)
      BY <1>5 DEF NodeStep, PInv, PipesExpected, Leftovers
    <2>2. \A d : /\ Expects(d, v)' <=> Expects(d, v)
                 /\ TimerAnswered(d, v)' <=> TimerAnswered(d, v)
      BY <1>1, <2>1 DEF Expects, Active, TimerAnswered
    <2>3. NoiseExplained(v)' <=> NoiseExplained(v)
      BY <1>1, <2>1 DEF NoiseExplained
    <2> QED BY <2>1, <2>2, <2>3 DEF PipesOf
  <1>6. PipesExpected' /\ Leftovers'
    BY <1>5 DEF PipesExpected, Leftovers
  <1> QED BY <1>2, <1>3, <1>4, <1>6 DEF PInv

\* The worker answers the one request it has: the reply is the only one in its pipe.
LEMMA NodeRepliesKeeps ==
  ASSUME PInv, NEW w \in Workers, NEW r \in Replies, NodeReplies(w, r) PROVE PInv'
  <1>0. PICK d : d = Head(stdin[w])
    OBVIOUS
  <1> DEFINE q == stdout[w]
             e == [id |-> d, reply |-> r]
  <1>1. /\ UNCHANGED <<vars, op, opWorker, opResult, chan, timedOut, toRelease, result, noise>>
        /\ stdin[w] \in Seq(Callers) /\ stdin[w] # <<>> /\ q \in Seq(Lines)
        /\ abandoned[w] \in SUBSET Callers
    BY DEF NodeReplies, PInv, PTypeOK
  <1>2. /\ d = stdin[w][1] /\ 1 \in DOMAIN stdin[w]
        /\ Tail(stdin[w]) \in Seq(Callers)
        /\ \A i \in DOMAIN Tail(stdin[w]) : i + 1 \in DOMAIN stdin[w] /\ i + 1 # 1
    BY <1>0, <1>1, PipeTail
  <1>3. PipesOf(w)
    BY DEF PInv, PipesExpected
  <1>4. d \in Callers /\ Expects(d, w) /\ \A i \in DOMAIN q : q[i] = Noise
    BY <1>1, <1>2, <1>3 DEF PipesOf, Expects
  <1>5. Tail(stdin[w]) = <<>>
    <2>1. 1 \notin DOMAIN Tail(stdin[w])
      BY <1>2, <1>3 DEF PipesOf
    <2> QED BY <1>2, <2>1, NonEmptyHasFirst
  <1>6. e \in Lines /\ e # Noise /\ e.id = d /\ e.reply = r
    BY <1>4, LineKinds, RepliesKnown
  <1>7. /\ stdin'[w] = Tail(stdin[w]) /\ stdout'[w] = Append(q, e)
        /\ \A v \in Workers : v # w => /\ stdin'[v] = stdin[v] /\ stdout'[v] = stdout[v]
                                       /\ abandoned'[v] = abandoned[v]
        /\ abandoned'[w] = IF r = "timeout" THEN abandoned[w] \cup {d} ELSE abandoned[w]
        /\ abandoned' \in [Workers -> SUBSET Callers]
    BY <1>0, <1>4 DEF NodeReplies, PInv, PTypeOK
  <1> HIDE DEF e, q
  <1>8. Append(q, e) \in Seq(Lines)
    BY <1>1, <1>6, PipeAppend
  <1>9. PICK n \in DOMAIN Append(q, e) :
          /\ n \notin DOMAIN q /\ Append(q, e)[n] = e
          /\ \A i \in DOMAIN Append(q, e) : i \in DOMAIN q \/ i = n
    BY <1>1, <1>6, PipeAppend
  <1>10. \A i \in DOMAIN q : i \in DOMAIN Append(q, e) /\ Append(q, e)[i] = q[i]
    BY <1>1, <1>6, PipeAppend
  <1>11. stdin' \in [Workers -> Seq(Callers)] /\ stdout' \in [Workers -> Seq(Lines)]
    BY <1>0, <1>2, <1>8 DEF NodeReplies, PInv, PTypeOK, e, q
  <1>12. PipesOf(w)'
    <2>1. Expects(d, w)'
      BY <1>1, <1>4 DEF Expects, Active
    <2>2. \A i \in DOMAIN Append(q, e) : Append(q, e)[i] # Noise => i = n
      BY <1>4, <1>9, <1>10
    <2>3. DOMAIN stdin'[w] = {}
      BY <1>5, <1>7
    <2> QED BY <1>5, <1>6, <1>7, <1>9, <2>1, <2>2, <2>3 DEF PipesOf
  <1>13. ASSUME NEW x \in abandoned'[w] PROVE TimerAnswered(x, w)'
    <2>1. CASE x \in abandoned[w]
      <3>1. TimerAnswered(x, w)
        BY <2>1 DEF PInv, Leftovers
      <3> QED BY <1>1, <1>7, <1>10, <3>1 DEF TimerAnswered, q
    <2>2. CASE x = d /\ r = "timeout"
      BY <1>1, <1>4, <1>7, <1>9, <2>2 DEF TimerAnswered, Expects, Active, e
    <2> QED BY <1>7, <1>13, <2>1, <2>2
  <1>14. ASSUME NEW i \in DOMAIN stdout'[w], stdout'[w][i] = Noise PROVE NoiseExplained(w)'
    <2>1. i \in DOMAIN q /\ q[i] = Noise
      BY <1>6, <1>7, <1>9, <1>10, <1>14
    <2>2. NoiseExplained(w)
      BY <2>1 DEF PInv, Leftovers, q
    <2>3. stdout'[w][1] = stdout[w][1]
      <3>1. q # <<>>
        BY <2>1
      <3> QED BY <1>1, <1>7, <1>10, <3>1, NonEmptyHasFirst DEF q
    <2> QED BY <1>1, <2>2, <2>3 DEF NoiseExplained
  <1>15. NodeStep(w) /\ noise' \in [Workers -> 0 .. NoiseLimit]
    BY <1>1, <1>7 DEF NodeStep, PInv, PTypeOK
  <1> QED BY <1>7, <1>11, <1>12, <1>13, <1>14, <1>15, NodeStepKeeps

\* A parse that nobody waits for ends, without a word.
LEMMA NodeSettlesKeeps ==
  ASSUME PInv, NEW w \in Workers, NEW c \in Callers, NodeSettles(w, c) PROVE PInv'
  <1>1. /\ UNCHANGED <<vars, op, opWorker, opResult, chan, timedOut, toRelease, result, noise,
                       stdin, stdout>>
        /\ \A v \in Workers : v # w => abandoned'[v] = abandoned[v]
        /\ abandoned'[w] \subseteq abandoned[w]
        /\ abandoned' \in [Workers -> SUBSET Callers]
    BY DEF NodeSettles, PInv, PTypeOK
  <1>2. /\ \A d : /\ Expects(d, w)' <=> Expects(d, w)
                  /\ TimerAnswered(d, w)' <=> TimerAnswered(d, w)
        /\ NoiseExplained(w)' <=> NoiseExplained(w)
    BY <1>1 DEF Expects, Active, TimerAnswered, NoiseExplained
  <1>3. PipesOf(w)'
    BY <1>1, <1>2 DEF PInv, PipesExpected, PipesOf
  <1>4. /\ \A d \in abandoned'[w] : TimerAnswered(d, w)'
        /\ \A i \in DOMAIN stdout'[w] : stdout'[w][i] = Noise => NoiseExplained(w)'
    BY <1>1, <1>2 DEF PInv, Leftovers
  <1>5. /\ NodeStep(w) /\ noise' \in [Workers -> 0 .. NoiseLimit]
        /\ stdin' \in [Workers -> Seq(Callers)] /\ stdout' \in [Workers -> Seq(Lines)]
    BY <1>1 DEF NodeStep, PInv, PTypeOK
  <1> QED BY <1>1, <1>3, <1>4, <1>5, NodeStepKeeps

\* A foreign line is printed while the worker has a request, and its caller will read
\* that line first; or for a parse that the worker's own timer has answered.
LEMMA NodePrintsKeeps ==
  ASSUME PInv, NEW w \in Workers, NodePrints(w) PROVE PInv'
  <1> DEFINE q == stdout[w]
             p == Append(q, Noise)
  <1>1. /\ UNCHANGED <<vars, op, opWorker, opResult, chan, timedOut, toRelease, result, stdin,
                       abandoned>>
        /\ stdin[w] \in Seq(Callers) /\ q \in Seq(Lines) /\ abandoned[w] \in SUBSET Callers
        /\ stdin[w] # <<>> \/ abandoned[w] # {}
    BY DEF NodePrints, PInv, PTypeOK
  <1>2. stdout'[w] = p /\ \A v \in Workers : v # w => stdout'[v] = stdout[v]
    BY DEF NodePrints, PInv, PTypeOK
  <1> HIDE DEF p, q
  <1>3. p \in Seq(Lines) /\ 1 \in DOMAIN p
    BY <1>1, LineKinds, PipeAppend DEF p
  <1>4. PICK n \in DOMAIN p : /\ n \notin DOMAIN q /\ p[n] = Noise
                              /\ \A i \in DOMAIN p : i \in DOMAIN q \/ i = n
                              /\ q = <<>> => n = 1
    BY <1>1, LineKinds, PipeAppend DEF p
  <1>5. \A i \in DOMAIN q : i \in DOMAIN p /\ p[i] = q[i]
    BY <1>1, LineKinds, PipeAppend DEF p
  <1>6. PipesOf(w)
    BY DEF PInv, PipesExpected
  <1>7. \A d : Expects(d, w)' <=> Expects(d, w)
    BY <1>1 DEF Expects, Active
  <1>8. PipesOf(w)'
    BY <1>1, <1>2, <1>4, <1>5, <1>6, <1>7 DEF PipesOf, q
  <1>9. ASSUME NEW d \in abandoned'[w] PROVE TimerAnswered(d, w)'
    <2>1. TimerAnswered(d, w)
      BY <1>1, <1>9 DEF PInv, Leftovers
    <2> QED BY <1>1, <1>2, <1>5, <2>1 DEF TimerAnswered, q
  <1>10. \/ q = <<>> /\ p[1] = Noise
         \/ 1 \in DOMAIN q /\ p[1] = q[1]
    BY <1>1, <1>4, <1>5, NonEmptyHasFirst
  <1>11. NoiseExplained(w)'
    <2>1. CASE stdin[w] # <<>>
      <3> DEFINE d == stdin[w][1]
      <3>1. Expects(d, w) /\ d \in Callers
        BY <1>1, <1>6, <2>1, NonEmptyHasFirst DEF PipesOf, Expects
      <3>2. p[1] = Noise
        BY <1>6, <1>10, <2>1 DEF PipesOf, q
      <3> QED BY <1>1, <1>2, <3>1, <3>2 DEF NoiseExplained, Expects, Active
    <2>2. CASE abandoned[w] # {}
      <3>1. PICK d \in abandoned[w] : TimerAnswered(d, w)
        BY <2>2 DEF PInv, Leftovers
      <3>2. d \in Callers
        BY <1>1
      <3>3. CASE opResult[d] \in ErrorOutcomes \cup {"timeout"}
        BY <1>1, <3>1, <3>2, <3>3 DEF NoiseExplained, TimerAnswered
      <3>4. CASE opResult[d] \notin ErrorOutcomes \cup {"timeout"}
        <4>1. /\ op[d] = "reading" /\ opWorker[d] = w
              /\ \E i \in DOMAIN q : q[i] = [id |-> d, reply |-> "timeout"]
          BY <3>1, <3>4 DEF TimerAnswered, q
        <4>2. PICK i \in DOMAIN q : q[i] = [id |-> d, reply |-> "timeout"]
          BY <4>1
        <4>3. q[i] # Noise /\ q[i].reply = "timeout"
          BY <3>2, <4>2, LineKinds, ZenonT(60) DEF AllReplies
        <4>4. q # <<>>
          BY <4>2
        <4>5. p[1] = q[1] /\ 1 \in DOMAIN q
          BY <1>10, <4>4
        <4>6. p[1] = Noise \/ p[1].reply = "timeout"
          BY <1>6, <4>3, <4>5 DEF PipesOf, q
        <4> QED BY <1>1, <1>2, <3>2, <4>1, <4>6 DEF NoiseExplained
      <3> QED BY <3>3, <3>4
    <2> QED BY <1>1, <2>1, <2>2
  <1>12. stdout' \in [Workers -> Seq(Lines)]
    BY <1>2, <1>3 DEF NodePrints, PInv, PTypeOK, p, q
  <1>13. noise' \in [Workers -> 0 .. NoiseLimit]
    BY NoiseLimitIsNat DEF NodePrints, PInv, PTypeOK
  <1>14. /\ NodeStep(w) /\ stdin' \in [Workers -> Seq(Callers)]
         /\ abandoned' \in [Workers -> SUBSET Callers]
    BY <1>1, <1>2 DEF NodeStep, PInv, PTypeOK
  <1> QED BY <1>8, <1>9, <1>11, <1>12, <1>13, <1>14, NodeStepKeeps

-----------------------------------------------------------------------------
\* The steps of the pool in which nobody releases a worker leave the callers that hold
\* one as they are.
LEMMA HoldersStay ==
  ASSUME TypeOK,
         \/ \E c \in Callers : Borrow(c) \/ PoolStep(c)
         \/ Close \/ CloseIdleWorker
         \/ \E w \in Workers : ProcessExits(w)
  PROVE  \A c \in Callers : pc[c] = "holding" => pc'[c] = "holding"
  <1> USE DEF TypeOK
  <1>1. ASSUME NEW c \in Callers, BorrowTurn(c), pc[c] \in {"outside", "woken"}
        PROVE  \A d \in Callers : pc[d] = "holding" => pc'[d] = "holding"
    BY <1>1 DEF BorrowTurn, BorrowRefused, BorrowIdle, BorrowReserve, BorrowWait
  <1>2. ASSUME NEW c \in Callers, PoolStep(c)
        PROVE  \A d \in Callers : pc[d] = "holding" => pc'[d] = "holding"
    <2>1. CASE BorrowAgain(c)
      BY <1>1, <2>1 DEF BorrowAgain
    <2>2. CASE StartWorker(c) \/ StartKept(c) \/ DiscardWorker(c) \/ AbortWorker(c)
      BY <2>2 DEF StartWorker, StartKept, DiscardWorker, AbortWorker
    <2>3. CASE StartFails(c) \/ StartTooLate(c) \/ AbortAccounted(c)
      BY <2>3 DEF StartFails, StartTooLate, AbortAccounted, MoveAndSignal, Waiting
    <2> QED BY <1>2, <2>1, <2>2, <2>3 DEF PoolStep
  <1>3. CASE Close \/ CloseIdleWorker \/ \E w \in Workers : ProcessExits(w)
    BY <1>3 DEF Close, CloseIdleWorker, ProcessExits, Waiting
  <1> QED BY <1>1, <1>2, <1>3 DEF Borrow

\* Every step of a parse, of its operation, of the pool or of a Node worker preserves the
\* invariant.
LEMMA PInvNext == PInv /\ [PNext]_allVars => PInv'
  <1> SUFFICES ASSUME PInv, [PNext]_allVars PROVE PInv'
    OBVIOUS
  <1>1. [Next]_vars /\ TypeOK
    BY ParseIsPool DEF PInv, PTypeOK
  <1>2. CASE \/ \E c \in Callers : Borrow(c) /\ PipesFollow
             \/ Close /\ PipesFollow
             \/ CloseIdleWorker /\ PipesFollow
             \/ \E w \in Workers : ProcessExits(w) /\ PipesFollow
    BY <1>1, <1>2, HoldersStay, PoolStepKeeps
  <1>3. ASSUME NEW c \in Callers, ParseStep(c) PROVE PInv'
    <2>1. CASE PoolStep(c)
      <3>1. PipesFollow
        BY <2>1 DEF PoolStep
      <3> QED BY <1>1, <2>1, <3>1, HoldersStay, PoolStepKeeps
    <2> QED BY <1>3, <2>1, StartOperationKeeps, SelectKeeps, ReleaseWorkerKeeps DEF ParseStep
  <1>4. ASSUME NEW c \in Callers, OperationStep(c) PROVE PInv'
    BY <1>4, DoWriteKeeps, DoReadLineKeeps, DoReadFailsKeeps, AfterDoKeeps DEF OperationStep
  <1>5. ASSUME NEW c \in Callers, TimerFires(c) PROVE PInv'
    BY <1>5, SelectKeeps
  <1>6. CASE UNCHANGED allVars
    <2>1. /\ UNCHANGED <<vars, op, opWorker, opResult, chan, timedOut, toRelease, result, stdin,
                         stdout, abandoned, noise>>
          /\ UNCHANGED <<idle, total, closing, pc, held, proc, retiring>>
      BY <1>6 DEF allVars, parseVars, vars
    <2>2. TypeOK' /\ Shape' /\ Ownership' /\ AbortedReaped'
      BY <2>1, PoolUnchanged
    <2>3. PTypeOK' /\ CallShape'
      BY <2>1, <2>2 DEF PInv, PTypeOK, CallShape
    <2>4. ActiveOwns' /\ PipesExpected' /\ Leftovers'
      BY <2>1 DEF PInv, ActiveOwns, PipesExpected, PipesOf, Leftovers, Expects, Active,
                  TimerAnswered, NoiseExplained
    <2> QED BY <2>2, <2>3, <2>4 DEF PInv
  <1> QED BY <1>2, <1>3, <1>4, <1>5, <1>6, NodeRepliesKeeps, NodeSettlesKeeps, NodePrintsKeeps
          DEF PNext

\* Only a line that was read can give a foreign reply, and the line read is the caller's.
LEMMA ForeignNext == PInv /\ NoForeignReply /\ [PNext]_allVars => NoForeignReply'
  <1> SUFFICES ASSUME PInv, NoForeignReply, [PNext]_allVars,
                      NEW d \in Callers, opResult'[d] = "ErrContract"
               PROVE  FALSE
    BY DEF NoForeignReply
  <1>1. opResult' # opResult
    BY DEF NoForeignReply
  <1>2. PICK c \in Callers : DoWrite(c) \/ DoReadLine(c) \/ DoReadFails(c)
    <2>1. UNCHANGED allVars => opResult' = opResult
      BY DEF allVars, parseVars
    <2>2. PipesFollow => opResult' = opResult
      BY DEF PipesFollow
    <2>3. \A c \in Callers : ParseStep(c) \/ TimerFires(c) => opResult' = opResult
      BY <2>2 DEF ParseStep, PoolStep, StartOperation, ReceiveError, ReceiveReply, ReleaseWorker,
                  TimerFires
    <2>4. \A c \in Callers : CheckTimedOut(c) \/ SendResult(c) => opResult' = opResult
      BY DEF CheckTimedOut, SendResult
    <2>5. \A w \in Workers : /\ \A r \in Replies : NodeReplies(w, r) => opResult' = opResult
                             /\ \A c \in Callers : NodeSettles(w, c) => opResult' = opResult
                             /\ NodePrints(w) => opResult' = opResult
      BY DEF NodeReplies, NodeSettles, NodePrints
    <2> QED BY <1>1, <2>1, <2>2, <2>3, <2>4, <2>5 DEF PNext, OperationStep
  <1>3. PICK r : DoReturns(c, r)
    BY <1>1, <1>2 DEF DoWrite, DoReadLine, DoReadFails
  <1>4. d = c
    BY <1>3 DEF DoReturns, NoForeignReply, PInv, PTypeOK
  <1>5. CASE DoReadLine(c)
    BY <1>4, <1>5, DoReadLineKeeps
  <1>6. CASE DoWrite(c) \/ DoReadFails(c)
    <2>1. PICK x \in LostWorker(opWorker[c]) : DoReturns(c, x)
      BY <1>1, <1>6 DEF DoWrite, DoReadFails
    <2>2. x # "ErrContract"
      BY DEF LostWorker
    <2> QED BY <1>4, <2>1, <2>2 DEF DoReturns, PInv, PTypeOK
  <1> QED BY <1>2, <1>5, <1>6

\* A worker that nobody holds and that is not reaped is expected to do nothing: what is
\* in its pipes can only be what an abandoned parse has printed.
LEMMA CleanFollows == PInv => PipesCleanWhenIdle
  <1> SUFFICES ASSUME PInv, NEW w \in ToSet(idle)
               PROVE  /\ stdin[w] = <<>>
                      /\ ToSet(stdout[w]) \subseteq {Noise}
                      /\ stdout[w] # <<>> =>
                           \E c \in Callers : opWorker[c] = w /\ opResult[c] = "timeout"
                      /\ \A c \in Callers :
                           opWorker[c] = w => op[c] \notin {"writing", "reading"}
    BY DEF PInv, PipesCleanWhenIdle
  <1>1. w \in Workers /\ proc[w] # "reaped" /\ \A c \in Callers : held[c] # w
    BY DEF PInv, Ownership, HeldNotReaped, ExclusiveOwnership, Unreaped
  <1>2. \A c \in Callers : opWorker[c] = w => ~Active(c)
    BY <1>1 DEF PInv, ActiveOwns
  <1>3. /\ \A i \in DOMAIN stdin[w] : FALSE
        /\ \A i \in DOMAIN stdout[w] : stdout[w][i] = Noise
    BY <1>1, <1>2 DEF PInv, PipesExpected, PipesOf, Expects
  <1>4. stdin[w] \in Seq(Callers) /\ stdout[w] \in Seq(Lines)
    BY <1>1 DEF PInv, PTypeOK
  <1>5. stdin[w] = <<>>
    BY <1>3, <1>4, NonEmptyHasFirst
  <1>6. ToSet(stdout[w]) \subseteq {Noise}
    BY <1>3 DEF ToSet
  <1>7. ASSUME stdout[w] # <<>>
        PROVE  \E c \in Callers : opWorker[c] = w /\ opResult[c] = "timeout"
    <2>1. 1 \in DOMAIN stdout[w]
      BY <1>4, <1>7, NonEmptyHasFirst
    <2>2. NoiseExplained(w)
      BY <1>1, <1>3, <2>1 DEF PInv, Leftovers
    <2> QED BY <1>2, <2>2 DEF NoiseExplained, Active
  <1> QED BY <1>2, <1>5, <1>6, <1>7 DEF Active

-----------------------------------------------------------------------------
\* Every worker in p.idle is ready for the next caller: no request and no reply is left
\* in its pipes, no do() runs on it, and foreign output is there only where the worker's
\* own timer gave a parse up.
THEOREM IdleWorkersClean == PSpec => []PipesCleanWhenIdle
  <1>1. PInit => PInv
    BY PInvInit
  <1> QED BY <1>1, PInvNext, CleanFollows, PTL DEF PSpec

\* The request id that do() compares always matches: no caller is ever given the answer
\* to another document.
THEOREM RepliesOwn == PSpec => []NoForeignReply
  <1>1. PInit => PInv /\ NoForeignReply
    BY PInvInit DEF PInit, NoForeignReply, Nothing
  <1> QED BY <1>1, PInvNext, ForeignNext, PTL DEF PSpec

\* opMu is never waited for: two calls of do() are never in one live worker.
THEOREM OperationsExclusive == PSpec => []OneOperationPerWorker
  <1>1. PInit => PInv
    BY PInvInit
  <1>2. PInv => OneOperationPerWorker
    BY DEF PInv, ActiveOwns, Active, OneOperationPerWorker
  <1> QED BY <1>1, <1>2, PInvNext, PTL DEF PSpec

==============================================================================
