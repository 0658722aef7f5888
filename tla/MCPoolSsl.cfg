\* Every caller in the repository asks for SLACK_METHOD_GET | SLACK_METHOD_SSL.
CONSTANTS
  r1 = r1
  r2 = r2
  r3 = r3
  r4 = r4
  Requests = {r1, r2, r3, r4}
  Ssl = {r1, r2, r3, r4}
  Rtm = {}
  HttpProxy = FALSE
  MaxConnections = 2
  MaxTries = 3
  None = None
  Crashed = Crashed
SPECIFICATION Spec
SYMMETRY SslSymmetry
INVARIANTS
  OnePlace
  PoolBounded
  WorkConserving
  ActiveListed
  NoStaleAttempt
  Supervised
  TriesBounded
  FirstComeFirstServed
PROPERTY RetryYields
CHECK_DEADLOCK FALSE
