\* Two single-segment images with one layer, pulled one after the other.
CONSTANTS
  i1 = i1
  i2 = i2
  l1 = l1
  l2 = l2
  l3 = l3
  Images = {i1, i2}
  Layers = {l1, l2, l3}
  LayersOf <- MCLayersShared
  Segments = 1
  Threads = 2
  UntarMayFail = FALSE
  OneAtATime = TRUE
SPECIFICATION Spec
\* The loops and pool threads block once every image is answered.
CHECK_DEADLOCK FALSE
PROPERTY EveryImageAnswered
