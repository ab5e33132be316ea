\* One failing query.
CONSTANTS
  Queries = {x1}
  Hosts = {"doh", "cdn"}
  Home = "doh"
  IPs = {"a", "b", "c"}
  Addr <- MCAddr
  Ids = {0, 1}
  Lengths = {40}
  MaxRedirects = 0
  None = None
  Truncated = Truncated
SPECIFICATION Spec
INVARIANT FailedIPDisconfirmed
CHECK_DEADLOCK FALSE
