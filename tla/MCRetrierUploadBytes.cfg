\* An upload in two chunks.
CONSTANTS
  Usages = {"relay"}
  MaxBytes = 2
  MaxChunk = 1
  MinSplit = 1
  MaxSplit = 1
  RequestLen = 0
  Flaky = {1, 2}
SPECIFICATION Spec
INVARIANT UploadBytesTotal
