\* Both images' metadata loads; the host has two send slots, so the
\* DecompressConnectionRequest and one OffloadRequest use them all.
CONSTANTS i1 = i1  i2 = i2  l1 = l1  l2 = l2  l3 = l3
          Images <- MCImages
          Layers <- MCLayers
          LayersOf <- MCLayersOf
          MetadataOk <- MCMetadataOk
          MemNum = 2
          ThreadNums <- MCThreadNums
SPECIFICATION Spec
\* Once every pull is answered the host loop blocks in epoll_wait for good.
CHECK_DEADLOCK FALSE
INVARIANT TypeOK
INVARIANT NoStrandedFunctor
INVARIANT PoolLoopsReady
INVARIANT MetadataOwnedOnce
PROPERTY EveryPullCompletes
PROPERTY PoolStartCompletes
