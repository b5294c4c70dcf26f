\* Three rows exceed the one graph bucket and run eagerly; a resumed request is rebuilt
\* by the whole-prompt path and replayed, on a device that has caught up by then.
SPECIFICATION Spec
CONSTANTS
  Requests = {1, 2, 3}
  Prompt <- MCPrompt
  MaxNew = 3
  NumBlocks = 5
  BlockSize = 2
  MaxActive = 3
  Buckets = {2}
  ChunkSize = 3
  MaxYields = 1
  MaxAhead = 0
INVARIANTS
    RowsStayApart
    SampledFromOwnHistory
    PagesHoldHistory
CHECK_DEADLOCK FALSE
