SPECIFICATION Spec
CONSTANTS
  Requests = {q1, q2}
  Keys = {"k1", "k2", "k3", "k4"}
  Size <- MCSize
  MaxEntries = 2
  MaxBytes = 4
  TTL = 1
  None = None
  MaxTime = 1
INVARIANT CacheConsistent
PROPERTY StoringEnds
