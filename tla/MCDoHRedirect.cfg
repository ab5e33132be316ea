\* One query that may be redirected, of lengths around the block size, under fair scheduling.
CONSTANTS
  Queries = {x1}
  Hosts = {"doh", "cdn"}
  Home = "doh"
  IPs = {"a", "b", "c"}
  Addr <- MCAddr
  Ids = {0, 1}
  Lengths = {40, 112, 113, 114, 123, 124, 125, 300}
  MaxRedirects = 1
  None = None
  Truncated = Truncated
SPECIFICATION FairSpec
INVARIANT PaddedToBlock
PROPERTY EveryQueryReported
CHECK_DEADLOCK FALSE
