\* Disjoint layers, two pool threads for three layers, any untar step may
\* fail.
CONSTANTS
  i1 = i1
  i2 = i2
  l1 = l1
  l2 = l2
  l3 = l3
  Images = {i1, i2}
  Layers = {l1, l2, l3}
  LayersOf <- MCLayersDisjoint
  Segments = 2
  Threads = 2
  UntarMayFail = TRUE
  OneAtATime = FALSE
SPECIFICATION Spec
\* The loops and pool threads block once every image is answered.
CHECK_DEADLOCK FALSE
INVARIANTS TypeOK NoAssertFailure
PROPERTY EveryImageAnswered
