\* Uncompressed layers: a segment arrives before onConnected set conn_.
CONSTANTS
  l1 = l1
  l2 = l2
  Layers <- MCLayers
  Segments = 2
  MemNum = 4
  BufpairNum = 4
  CompressedModes = {FALSE}
  DocaMayFail = FALSE
  BlobNum = 2
SPECIFICATION Spec
CHECK_DEADLOCK FALSE
INVARIANT NoUndefinedBehaviour
