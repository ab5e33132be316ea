\* Three goroutines race on one new host with two addresses, two calls each.
CONSTANTS
  Hosts = {h1}
  IPs = {i1, i2}
  Procs = {p1, p2, p3}
  None = None
  MaxCalls = 2
  MaxAnswers = 2
SPECIFICATION Spec
INVARIANTS TypeOK SameIPSet NoDuplicates
PROPERTY ImplementsIPMap
CHECK_DEADLOCK FALSE
