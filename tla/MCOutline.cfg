\* Two UDP flows, any number of updates, one Disconnect.
CONSTANT Conns = {u1, u2}
SPECIFICATION FairSpec
INVARIANTS TypeOK ServedByCurrent
PROPERTIES LoopEnds ProxySocketsClosed
CHECK_DEADLOCK FALSE
