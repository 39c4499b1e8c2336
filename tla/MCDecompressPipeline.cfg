\* Compressed layers, DOCA calls succeed: order, bufpairs, progress.
CONSTANTS
  l1 = l1
  l2 = l2
  Layers <- MCLayers
  Segments = 3
  MemNum = 4
  BufpairNum = 4
  CompressedModes = {TRUE}
  DocaMayFail = FALSE
  BlobNum = 2
SPECIFICATION Spec
\* Both loops block in epoll_wait once every segment is untarred.
CHECK_DEADLOCK FALSE
INVARIANTS TypeOK UntarInOrder BufpairsConserved
PROPERTY AllSegmentsUntarred
