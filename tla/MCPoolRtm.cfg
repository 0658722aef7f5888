\* A request posted with SLACK_METHOD_RTM, which the public interface offers.
CONSTANTS
  r1 = r1
  r2 = r2
  Requests = {r1, r2}
  Ssl = {r1, r2}
  Rtm = {r1}
  HttpProxy = FALSE
  MaxConnections = 1
  MaxTries = 3
  None = None
  Crashed = Crashed
SPECIFICATION Spec
INVARIANT ActiveListed
CHECK_DEADLOCK FALSE
