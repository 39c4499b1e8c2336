CONSTANTS
  Client = Client
  Server = Server
  MemNum = 2
  NoMsg <- MCNoMsg
  Layers <- MCLayers
  Segments = 2
  LinkMayFail = TRUE
SPECIFICATION Spec
\* Once every fetch is answered both event loops block in the poller for
\* good; a state in which nothing can happen before that is reported by
\* AllSegmentsFetched.
CHECK_DEADLOCK FALSE
INVARIANT TypeOK
INVARIANT NoReceiverNotReady
INVARIANT FetchedLayersPublished
PROPERTY ChannelRefinement
PROPERTY AllSegmentsFetched
