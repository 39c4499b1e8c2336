CONSTANTS
  Client = Client
  Server = Server
  CreateMayFail = FALSE
  ConnectQpMayFail = TRUE
SPECIFICATION Spec
CHECK_DEADLOCK FALSE
INVARIANT NoOrphanConnection
