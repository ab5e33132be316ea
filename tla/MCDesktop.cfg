\* Every command line and every network.
CONSTANT udpMaxRetryAttempts = 5
SPECIFICATION FairSpec
INVARIANTS TypeOK VerdictTrue
PROPERTY CheckEnds
CHECK_DEADLOCK FALSE
