\* Both callers, one retry, partial writes, resets, half-closes and deadlines.
CONSTANTS
  Usages = {"relay", "http"}
  MaxBytes = 3
  MaxChunk = 2
  MinSplit = 1
  MaxSplit = 2
  RequestLen = 0
  Flaky = {1, 2}
SPECIFICATION FairSpec
INVARIANTS TypeOK StreamInv StreamIntact CloseNotLost SteadyState WriteDeadlineKept
PROPERTIES ConnFinal CallsReturn
