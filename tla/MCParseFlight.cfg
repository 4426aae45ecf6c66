SPECIFICATION Spec
CONSTANTS
  r1 = r1
  r2 = r2
  r3 = r3
  None = None
  Requests = {r1, r2, r3}
  Keys <- MCKeys
  KeyOf <- MCKeyOf
  PooledKeys <- MCPooledKeys
  Environment <- MCEnvironment
  Asked <- MCAsked
  Raws = {"valid", "internal", "fails"}
  Faults = {"version", "evict", "close"}
INVARIANTS
  OneParsePerKey
  NobodyWaitsInVain
  AnswersOwnKey
  ParsedAsConfigured
PROPERTY RequestsReturn
CHECK_DEADLOCK FALSE
