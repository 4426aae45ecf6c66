SPECIFICATION Spec
CONSTANTS
  Keys = {"k1", "k2", "k3"}
  Values = {"small", "large", "big"}
  Readers = {q1}
  Weight <- MCWeight
  Configs <- MCConfigs
  Default <- MCDefault
  Limit <- MCLimit
  None = None
  MaxTime = 2
  MaxRecords = 3
INVARIANT ListMapHeapBytesAgree
PROPERTIES CachesBounded EvictionJustified
