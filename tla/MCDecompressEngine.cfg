\* Both layer formats, DOCA calls may fail.
CONSTANTS
  l1 = l1
  l2 = l2
  Layers <- MCLayers
  Segments = 3
  MemNum = 4
  BufpairNum = 4
  CompressedModes = {TRUE, FALSE}
  DocaMayFail = TRUE
  BlobNum = 2
  EngineFailCalls <- MCEngineFailCalls
SPECIFICATION DpuSpec
\* Both loops block in epoll_wait once every segment is untarred.
CHECK_DEADLOCK FALSE
INVARIANTS  EngineSingleOwner BlobsConserved
