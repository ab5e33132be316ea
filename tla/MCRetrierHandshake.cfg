\* A TLS handshake, with a server that answers the hello if it gets it.
CONSTANTS
  Usages = {"http"}
  MaxBytes = 1
  MaxChunk = 1
  MinSplit = 1
  MaxSplit = 1
  RequestLen = 1
  Flaky = {1}
SPECIFICATION ServedSpec
PROPERTY FailedWriteRetried
CHECK_DEADLOCK FALSE
