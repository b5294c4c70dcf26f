\* The same on a device that may still have all its work queued.
SPECIFICATION Spec
CONSTANTS
  Requests = {1, 2, 3}
  Prompt <- MCPrompt
  MaxNew = 3
  NumBlocks = 5
  BlockSize = 2
  MaxActive = 3
  Buckets = {2}
  ChunkSize = 3
  MaxYields = 1
  MaxAhead = 9
INVARIANTS PagesHoldHistory
CHECK_DEADLOCK FALSE
