CONSTANTS
  Client = Client
  Server = Server
  CreateMayFail = TRUE
  ConnectQpMayFail = TRUE
SPECIFICATION Spec
\* Every behaviour ends with both bootstrap connections closed and both
\* loops idle; a handshake stuck before that is reported by
\* BootstrapClosed.
CHECK_DEADLOCK FALSE
INVARIANT TypeOK
INVARIANT PeerReadyBeforeTraffic
INVARIANT NoConnectorAssert
PROPERTY BootstrapClosed
