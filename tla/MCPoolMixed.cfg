\* One TLS request and two plain ones, which look their host up in DNS.
CONSTANTS
  r1 = r1
  r2 = r2
  r3 = r3
  Requests = {r1, r2, r3}
  Ssl = {r1}
  Rtm = {}
  HttpProxy = FALSE
  MaxConnections = 2
  MaxTries = 2
  None = None
  Crashed = Crashed
SPECIFICATION Spec
INVARIANTS
  TypeOK
  ClosedIsQuiet
SYMMETRY PlainSymmetry
PROPERTY ImplementsLifecycle
CHECK_DEADLOCK FALSE
