\* One association, used by two DNS queries and by other packets; SetDNS meanwhile.
CONSTANTS
  Conns = {c1}
  Queries = {x1, x2}
  Transports = {t1, t2}
  MaxPackets = 2
  None = None
SPECIFICATION FairSpec
INVARIANTS TypeOK SummaryComplete
PROPERTIES DiscardedOnce Expires
CHECK_DEADLOCK FALSE
