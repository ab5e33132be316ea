\* A request in one write, to a server that answers complete requests only.
CONSTANTS
  Usages = {"relay"}
  MaxBytes = 1
  MaxChunk = 1
  MinSplit = 1
  MaxSplit = 1
  RequestLen = 1
  Flaky = {1}
SPECIFICATION ServedSpec
PROPERTY RetryEnds
CHECK_DEADLOCK FALSE
