\* Two overlapping queries, no redirects.
CONSTANTS
  Queries = {x1, x2}
  Hosts = {"doh", "cdn"}
  Home = "doh"
  IPs = {"a", "b", "c"}
  Addr <- MCAddr
  Ids = {0, 1}
  Lengths = {40}
  MaxRedirects = 0
  None = None
  Truncated = Truncated
SPECIFICATION Spec
INVARIANTS TypeOK ResponseMatches NoIPTwice
PROPERTIES HangoverMeansReply OnlyOwnDisconfirm
CHECK_DEADLOCK FALSE
