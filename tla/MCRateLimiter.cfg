SPECIFICATION Spec
CONSTANTS
  Requests = {q1, q2}
  Clients = {"internet", "intranet"}
  Addresses = {"internet", "intranet", "lan", "proxy1", "proxy2"}
  PublicAddresses = {"internet", "proxy1"}
  TrustedProxyCIDRs <- MCTrustedProxyCIDRs
  Claims <- MCClaims
  Blank = "blank"
  NoAddress = NoAddress
  Limit = 2
  Window = 3
  Second = 2
  MaxClients = 1
  CleanupBatch = 1
  None = None
  MaxProxies = 2
  MaxDelay = 1
  MaxTime = 7
SYMMETRY MCSymmetry
INVARIANT BurstBounded
PROPERTY ResetHonoured
