\* One connection of any kind: a DNS socket with two queries, or a relay.
CONSTANTS
  Conns = {c1}
  MaxQueries = 2
  MaxBytes = 2
  MaxChunk = 2
  MinSplit = 1
  MaxSplit = 2
  Transports = {t1, t2}
  None = None
SPECIFICATION FairSpec
INVARIANTS TypeOK FramesWhole SummaryTrue AlwaysSplits ReportsTrue
PROPERTIES QueriesSettle ReportedWhenOver RelayEnds NewTransportUsed
CHECK_DEADLOCK FALSE
