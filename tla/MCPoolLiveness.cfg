\* Two TLS requests and a plain one with SLACK_METHOD_RTM on one slot, so every
\* retry meets a queue.
CONSTANTS
  r1 = r1
  r2 = r2
  r3 = r3
  Requests = {r1, r2, r3}
  Ssl = {r1, r2}
  Rtm = {r3}
  HttpProxy = FALSE
  MaxConnections = 1
  MaxTries = 2
  None = None
  Crashed = Crashed
SPECIFICATION FairSpec
INVARIANTS
  PoolInv
  OrderInv
PROPERTY EveryRequestEnds
CHECK_DEADLOCK FALSE
