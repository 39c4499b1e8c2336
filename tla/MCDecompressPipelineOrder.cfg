\* Uncompressed layers: a request queued for want of a slot is overtaken.
CONSTANTS
  l1 = l1
  l2 = l2
  Layers <- MCLayers
  Segments = 3
  MemNum = 4
  BufpairNum = 4
  CompressedModes = {FALSE}
  DocaMayFail = FALSE
  BlobNum = 2
SPECIFICATION Spec
CHECK_DEADLOCK FALSE
INVARIANT UntarInOrder
