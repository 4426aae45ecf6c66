SPECIFICATION Spec
CONSTANTS
  Callers = {c1, c2, c3}
  Workers = {w1, w2, w3}
  NoWorker = NoWorker
  MaxSize = 2
INVARIANTS
  Accounting ExclusiveOwnership NoLostWakeup NoOrphanProcess
PROPERTIES
  BorrowReturns CloseDrains
CHECK_DEADLOCK FALSE
