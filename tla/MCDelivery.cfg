\* Three TLS requests, two at a time, each tried twice.
CONSTANTS
  r1 = r1
  r2 = r2
  r3 = r3
  Requests = {r1, r2, r3}
  Ssl = {r1, r2, r3}
  Rtm = {}
  HttpProxy = FALSE
  MaxConnections = 2
  MaxTries = 2
  MaxCookies = 2
  None = None
  Crashed = Crashed
SPECIFICATION DSpec
SYMMETRY SslSymmetry
INVARIANT CookiesFollow
CHECK_DEADLOCK FALSE
