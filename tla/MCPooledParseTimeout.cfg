SPECIFICATION PSpec
CONSTANTS
  Callers = {c1, c2}
  Workers = {w1, w2}
  NoWorker = NoWorker
  MaxSize = 1
  Replies = {"valid", "timeout"}
  NoiseLimit = 1
INVARIANT TimedOutWorkersRecycled
CHECK_DEADLOCK FALSE
