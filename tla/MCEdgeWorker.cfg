SPECIFICATION Spec
CONSTANTS
  N = 3
  Keys = {k1, k2}
  Weights = {2, 4}
  MaxEntries = 2
  MaxBytes = 3
  TTL = 1
  MaxInflight = 1
  MaxRetries = 1
  BadInputs = {"rate_limited", "invalid_json"}
  Failures = {"timeout", "http"}
  None = None
  MaxTime = 1
INVARIANTS CallsShared AnswersOwnDocument
PROPERTIES CachesBounded ReviewsEnd
CHECK_DEADLOCK FALSE
