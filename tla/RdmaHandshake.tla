--------------------------- MODULE RdmaHandshake ---------------------------
(***************************************************************************)
(* The RDMA connection handshake: an RdmaClient and an RdmaServer          *)
(* (src/network/rdma/RdmaClient.cc, RdmaServer.cc), each with the          *)
(* RdmaConnector (RdmaConnector.cc) kept in the context of its bootstrap   *)
(* TCP connection.                                                         *)
(*                                                                         *)
(* Each side, once its TCP connection is up, creates its RdmaConnection    *)
(* and sends its exchange record (INFO).  On reading the peer's record it  *)
(* calls connectQp (RTR, fillRq, RTS), hands the connection to its owner   *)
(* (newRdmaConnection: connectEstablished) and sends the completion byte   *)
(* (ACK).  On reading the peer's ACK it runs the connected callback and    *)
(* shuts the TCP connection down.  RdmaConnection::create and connectQp    *)
(* may fail on either side.                                                *)
(*                                                                         *)
(* The TCP byte stream of each side is a sequence of tokens: the record   *)
(* in two parts, "ACK", and "FIN" (the end of the stream).  A read         *)
(* delivers any non-empty prefix of the data sent so far, so a record and  *)
(* the ACK behind it may be read together.  The TCP layer follows muduo:   *)
(* shutdown() sends FIN after the pending output and stops the message     *)
(* callback (connected() is false); reading FIN runs handleClose, which    *)
(* reports the disconnection and closes the socket.                        *)
(*                                                                         *)
(* Before all this the client's TcpConnector (src/network/tcp/             *)
(* TcpConnector.cc) connects to the server, which may not be listening     *)
(* yet (TcpServer::start, Acceptor::listen): a refused attempt is retried  *)
(* after retryDelayMs_, which doubles up to kMaxRetryDelayMs.  The         *)
(* kernel's TCP handshake is the environment: a pending connect completes  *)
(* if the server listens and is refused otherwise.                         *)
(***************************************************************************)
EXTENDS Naturals, Sequences, ChannelPoller

CONSTANTS Client, Server,    \* the two sides (model values)
          CreateMayFail,     \* RdmaConnection::create may fail
          ConnectQpMayFail   \* RdmaConnection::connectQp may fail

Side == {Client, Server}
Peer(s) == IF s = Client THEN Server ELSE Client

\* The exchange record is sizeof(RdmaExchangeInfo) bytes and may arrive
\* in pieces: INFO_A is its first part and INFO_B the rest.
Token == {"INFO_A", "INFO_B", "ACK", "FIN"}
Info == <<"INFO_A", "INFO_B">>

\* TcpConnector::kInitRetryDelayMs and kMaxRetryDelayMs (TcpConnector.h).
InitRetryDelayMs == 500
MaxRetryDelayMs == 30 * 1000

NoChannel == <<>>

\* The asserts on the connector's path: startInLoop's state check,
\* connecting's !channel_, Poller::updateChannel's, Channel::remove's and
\* Poller::removeChannel's, and ~Channel's.
AssertSites == {"startInLoop", "connecting", "update", "remove", "destroy"}

\* The assert at site a, failing when ok does not hold.
Fails(a, ok) == IF ok THEN {} ELSE {a}

VARIABLES
  cstate,       \* TcpConnector::state_ of the client
  timer,        \* a startInLoop is queued (start) or scheduled (retry)
  retryDelay,   \* TcpConnector::retryDelayMs_
  listening,    \* the server's Acceptor listens (Acceptor::listenning_)
  chan,         \* TcpConnector::channel_: NoChannel or <<the Channel>>
  resetQueued,  \* a resetChannel functor is queued in the client's loop
  failed,       \* the asserts of the connector and its Channel that failed
  sock,         \* the client's socket in the kernel: "none", "pending"
                \* (connect in progress), "open" (accepted by the server's
                \* listen queue) or "refused"
  tcp,          \* bootstrap TcpConnection: "none", "up" (connected()),
                \* "shut" (after shutdown()), "closed" (after handleClose)
  out,          \* out[s]: the tokens s wrote to its TCP connection
  rd,           \* rd[s]: how many of the peer's tokens s has read
  inbuf,        \* the TCP input Buffer handshakeQp has not consumed
  rstate,       \* RdmaConnector::state_
  qp,           \* state of the side's queue pair: "none" (no connection
                \* created), "init", "rtr", "rts"
  established,  \* the owner holds the connection (newRdmaConnection ran)
  connected,    \* the connected callback ran
  sent          \* the application posted its first RDMA message

connectorVars == <<cstate, timer, retryDelay, listening, sock, chan,
                   resetQueued, failed>>
handshakeVars == <<tcp, out, rd, inbuf, rstate, qp, established, connected,
                   sent>>
vars == <<connectorVars, handshakeVars>>

TypeOK ==
  /\ cstate \in {"Disconnected", "Connecting", "Connected"}
  /\ timer \in BOOLEAN
  /\ retryDelay \in {InitRetryDelayMs * 2^i : i \in 0 .. 5} \cup {MaxRetryDelayMs}
  /\ listening \in BOOLEAN
  /\ sock \in {"none", "pending", "open", "refused"}
  /\ chan \in {NoChannel} \cup {<<c>> : c \in ChannelRecords}
  /\ resetQueued \in BOOLEAN
  /\ failed \subseteq AssertSites
  /\ tcp \in [Side -> {"none", "up", "shut", "closed"}]
  /\ out \in [Side -> Seq(Token)]
  /\ rd \in [Side -> Nat]
  /\ inbuf \in [Side -> Seq(Token \ {"FIN"})]
  /\ rstate \in [Side -> {"NotInit", "Init", "RTS", "Connected"}]
  /\ qp \in [Side -> {"none", "init", "rtr", "rts"}]
  /\ established \in [Side -> BOOLEAN]
  /\ connected \in [Side -> BOOLEAN]
  /\ sent \in [Side -> BOOLEAN]

\* TcpConnection::shutdown: FIN follows the pending output.
Shutdown(s) ==
  /\ tcp' = [tcp EXCEPT ![s] = "shut"]
  /\ out' = [out EXCEPT ![s] = Append(@, "FIN")]

-----------------------------------------------------------------------------
(* RdmaConnector                                                          *)

\* onTcpConnection (connected) -> initialRdmaResource: create fails, the
\* TCP connection is shut down and the connector stays in NotInit.
InitialRdmaResourceFail(s) ==
  /\ CreateMayFail
  /\ Shutdown(s)
  /\ UNCHANGED <<rstate, qp>>

\* create succeeds (the QP is in INIT), the exchange record is sent and
\* the connector enters Init.
InitialRdmaResourceOk(s) ==
  /\ qp' = [qp EXCEPT ![s] = "init"]
  /\ out' = [out EXCEPT ![s] = @ \o Info]
  /\ rstate' = [rstate EXCEPT ![s] = "Init"]
  /\ tcp' = [tcp EXCEPT ![s] = "up"]

\* handshakeQp in Init with less than a whole record in the buffer b:
\* return and wait for more.
WaitForRecord(s, b) ==
  /\ rstate[s] = "Init" /\ Len(b) < Len(Info)
  /\ inbuf' = [inbuf EXCEPT ![s] = b]
  /\ UNCHANGED <<tcp, out, rstate, qp, established, connected, sent>>

\* Mutant: the completion byte is sent before connectQp's result is
\* checked.
ConnectQpFailAckFirst(s, b) ==
  /\ ConnectQpMayFail
  /\ rstate[s] = "Init" /\ Len(b) >= Len(Info) /\ SubSeq(b, 1, 2) = Info
  /\ inbuf' = [inbuf EXCEPT ![s] = SubSeq(b, 3, Len(b))]
  /\ \E q \in {"init", "rtr"} : qp' = [qp EXCEPT ![s] = q]
  /\ tcp' = [tcp EXCEPT ![s] = "shut"]
  /\ out' = [out EXCEPT ![s] = @ \o <<"ACK", "FIN">>]
  /\ UNCHANGED <<rstate, established, connected, sent>>

\* Mutant: the failed connectQp returns without shutting TCP down.
ConnectQpFailNoShutdown(s, b) ==
  /\ ConnectQpMayFail
  /\ rstate[s] = "Init" /\ Len(b) >= Len(Info) /\ SubSeq(b, 1, 2) = Info
  /\ inbuf' = [inbuf EXCEPT ![s] = SubSeq(b, 3, Len(b))]
  /\ \E q \in {"init", "rtr"} : qp' = [qp EXCEPT ![s] = q]
  /\ UNCHANGED <<tcp, out, rstate, established, connected, sent>>

\* handshakeQp in Init with the peer's record at the head of the buffer b:
\* connectQp fails (in the RTR transition, or after it in fillRq or the
\* RTS transition), the TCP connection is shut down and handshakeQp
\* returns.
ConnectQpFail(s, b) ==
  /\ ConnectQpMayFail
  /\ rstate[s] = "Init" /\ Len(b) >= Len(Info) /\ SubSeq(b, 1, 2) = Info
  /\ inbuf' = [inbuf EXCEPT ![s] = SubSeq(b, 3, Len(b))]
  /\ \E q \in {"init", "rtr"} : qp' = [qp EXCEPT ![s] = q]
  /\ Shutdown(s)
  /\ UNCHANGED <<rstate, established, connected, sent>>

\* The connected callback: the client applications (ContentClient,
\* OffloadClientEpoll, DecompressClientEpoll) post their first request in
\* it; the server applications only log.
OnConnected(s) ==
  /\ connected' = [connected EXCEPT ![s] = TRUE]
  /\ sent' = [sent EXCEPT ![s] = (s = Client)]

\* connectQp succeeds: RTS, newRdmaConnection (the owner stores the
\* connection and calls connectEstablished), then the ACK is sent.  If the
\* peer's ACK is already in the buffer, handshakeQp goes on in the RTS
\* branch: Connected, connected callback, connection_ = nullptr and
\* shutdown.
ConnectQpOk(s, b) ==
  LET rest == SubSeq(b, 3, Len(b)) IN
  /\ rstate[s] = "Init" /\ Len(b) >= Len(Info) /\ SubSeq(b, 1, 2) = Info
  /\ qp' = [qp EXCEPT ![s] = "rts"]
  /\ established' = [established EXCEPT ![s] = TRUE]
  /\ IF rest = <<>>
       THEN /\ rstate' = [rstate EXCEPT ![s] = "RTS"]
            /\ out' = [out EXCEPT ![s] = Append(@, "ACK")]
            /\ inbuf' = [inbuf EXCEPT ![s] = rest]
            /\ UNCHANGED <<tcp, connected, sent>>
       ELSE /\ rstate' = [rstate EXCEPT ![s] = "Connected"]
            /\ out' = [out EXCEPT ![s] = @ \o <<"ACK", "FIN">>]
            /\ tcp' = [tcp EXCEPT ![s] = "shut"]
            /\ inbuf' = [inbuf EXCEPT ![s] = Tail(rest)]
            /\ OnConnected(s)

\* handshakeQp in RTS with the peer's ACK in the buffer.
ReceiveAck(s, b) ==
  /\ rstate[s] = "RTS" /\ b # <<>>
  /\ rstate' = [rstate EXCEPT ![s] = "Connected"]
  /\ inbuf' = [inbuf EXCEPT ![s] = Tail(b)]
  /\ OnConnected(s)
  /\ Shutdown(s)
  /\ UNCHANGED <<qp, established>>

-----------------------------------------------------------------------------
(* The TCP connection as seen by RdmaClient / RdmaServer                  *)

\* A side's TcpConnection is established (connectEstablished) and
\* onTcpConnection runs initialRdmaResource.
OnTcpConnection(s) ==
  /\ tcp[s] = "none"
  /\ \/ InitialRdmaResourceFail(s)
     \/ InitialRdmaResourceOk(s)
  /\ UNCHANGED <<rd, inbuf, established, connected, sent>>

-----------------------------------------------------------------------------
(* TcpConnector (client) and Acceptor (server)                            *)

\* Mutant: the delay doubles without the kMaxRetryDelayMs cap.
RetryNoCap ==
  /\ cstate' = "Disconnected"
  /\ sock' = "none"
  /\ timer' = TRUE
  /\ retryDelay' = retryDelay * 2

\* TcpConnector::retry: close the socket, back to kDisconnected, and, as
\* connect_ stays true (nothing calls stop), schedule startInLoop after
\* retryDelayMs_ and double the delay up to kMaxRetryDelayMs.
Retry ==
  /\ cstate' = "Disconnected"
  /\ sock' = "none"
  /\ timer' = TRUE
  /\ retryDelay' = IF retryDelay * 2 < MaxRetryDelayMs THEN retryDelay * 2
                                                      ELSE MaxRetryDelayMs

\* Mutant: removeAndResetChannel without queueing resetChannel.
RemoveAndResetChannelNoReset ==
  /\ chan' = <<ChannelRemove(DisableAll(chan[1]))>>
  /\ failed' = failed \cup Fails("update", PollerUpdateOk(chan[1]))
                      \cup Fails("remove", ChannelRemoveOk(DisableAll(chan[1])))
  /\ UNCHANGED resetQueued

\* removeAndResetChannel: disableAll, remove it from the Poller, and
\* queue resetChannel, as channel_ is inside Channel::handleEvent.
RemoveAndResetChannel ==
  /\ chan' = <<ChannelRemove(DisableAll(chan[1]))>>
  /\ failed' = failed \cup Fails("update", PollerUpdateOk(chan[1]))
                      \cup Fails("remove", ChannelRemoveOk(DisableAll(chan[1])))
  /\ resetQueued' = TRUE

\* connecting: kConnecting; assert(!channel_); a new Channel for the
\* socket (channel_.reset destroys the old one, if any) waits for
\* writability.
Connecting(f) ==
  /\ cstate' = "Connecting"
  /\ sock' = "pending"
  /\ chan' = <<EnableWriting(NewChannel)>>
  /\ failed' = f \cup Fails("connecting", chan = NoChannel)
                      \cup Fails("destroy", chan = NoChannel \/ ChannelDestroyOk(chan[1]))
                      \cup Fails("update", PollerUpdateOk(NewChannel))

\* The queued or scheduled startInLoop: assert kDisconnected, connect().
\* A non-blocking connect to a listening server returns EINPROGRESS
\* (connecting); one to a closed port may be refused at once
\* (ECONNREFUSED: retry).  A retry's timer fires in a later iteration of
\* the loop, after the functors queued in this one ran.
StartInLoop ==
  /\ timer /\ ~resetQueued
  /\ LET f == failed \cup Fails("startInLoop", cstate = "Disconnected")
     IN  \/ /\ Connecting(f)
            /\ timer' = FALSE
            /\ UNCHANGED retryDelay
         \/ /\ ~listening
            /\ Retry
            /\ failed' = f
            /\ UNCHANGED chan
  /\ UNCHANGED <<listening, resetQueued, handshakeVars>>

\* The channel's events on a refused socket include POLLERR: handleError
\* (kConnecting) removes the channel and retries; a POLLOUT after it
\* finds handleWrite in kDisconnected, which it asserts.
ConnectRefused ==
  /\ cstate = "Connecting" /\ sock = "refused"
  /\ RemoveAndResetChannel
  /\ Retry
  /\ UNCHANGED <<listening, handshakeVars>>

\* handleWrite on an accepted socket (kConnecting, SO_ERROR 0): remove
\* the channel, kConnected and newConnectionCallback (TcpClient creates
\* the TcpConnection and calls connectEstablished).
ConnectSucceeded ==
  /\ cstate = "Connecting" /\ sock = "open"
  /\ RemoveAndResetChannel
  /\ cstate' = "Connected"
  /\ OnTcpConnection(Client)
  /\ UNCHANGED <<timer, retryDelay, listening, sock>>

\* The queued resetChannel runs in doPendingFunctors: channel_.reset()
\* destroys the Channel.
ResetChannel ==
  /\ resetQueued
  /\ chan' = NoChannel
  /\ resetQueued' = FALSE
  /\ failed' = failed \cup Fails("destroy", ChannelDestroyOk(chan[1]))
  /\ UNCHANGED <<cstate, timer, retryDelay, listening, sock, handshakeVars>>

\* RdmaServer::start -> TcpServer::start -> Acceptor::listen.
Listen ==
  /\ ~listening
  /\ listening' = TRUE
  /\ UNCHANGED <<cstate, timer, retryDelay, sock, chan, resetQueued, failed,
                 handshakeVars>>

\* Acceptor::handleRead accepts the client's connection and
\* TcpServer::newConnection creates the server's TcpConnection and runs
\* connectEstablished in its loop.
AcceptConnection ==
  /\ sock = "open"
  /\ OnTcpConnection(Server)
  /\ UNCHANGED connectorVars

\* The kernel completes a pending connect: it is accepted into the
\* listen queue if the server listens and refused (RST) otherwise.
KernelConnect ==
  /\ sock = "pending"
  /\ sock' = IF listening THEN "open" ELSE "refused"
  /\ UNCHANGED <<cstate, timer, retryDelay, listening, chan, resetQueued,
                 failed, handshakeVars>>

-----------------------------------------------------------------------------
(* Bootstrap TCP connection, as seen by RdmaClient / RdmaServer           *)

\* onTcpMessage: data from the peer is read into the buffer and, while
\* the connection is connected(), handshakeQp runs on it (RdmaClient and
\* RdmaServer::onTcpMessage).
TcpMessage(s) ==
  /\ tcp[s] = "up"
  /\ \E k \in rd[s] + 1 .. Len(out[Peer(s)]) :
       LET data == SubSeq(out[Peer(s)], rd[s] + 1, k)
           b == inbuf[s] \o data
       IN /\ \A i \in 1 .. Len(data) : data[i] # "FIN"
          /\ rd' = [rd EXCEPT ![s] = k]
          /\ \/ WaitForRecord(s, b)
             \/ ConnectQpFail(s, b)
             \/ ConnectQpOk(s, b)
             \/ ReceiveAck(s, b)

\* After shutdown() connected() is false: onTcpMessage logs and returns.
TcpMessageIgnored(s) ==
  /\ tcp[s] = "shut"
  /\ rd[s] < Len(out[Peer(s)])
  /\ out[Peer(s)][rd[s] + 1] # "FIN"
  /\ rd' = [rd EXCEPT ![s] = @ + 1]
  /\ UNCHANGED <<tcp, out, inbuf, rstate, qp, established, connected, sent>>

\* The peer's FIN is read: handleClose reports the disconnection
\* (onTcpConnection only logs it) and the socket is closed, which ends
\* this side's stream too; the connector goes with the TcpConnection.
TcpClose(s) ==
  /\ tcp[s] \in {"up", "shut"}
  /\ rd[s] < Len(out[Peer(s)])
  /\ out[Peer(s)][rd[s] + 1] = "FIN"
  /\ rd' = [rd EXCEPT ![s] = @ + 1]
  /\ tcp' = [tcp EXCEPT ![s] = "closed"]
  /\ out' = IF tcp[s] = "up" THEN [out EXCEPT ![s] = Append(@, "FIN")]
                              ELSE out
  /\ UNCHANGED <<inbuf, rstate, qp, established, connected, sent>>

Init ==
  /\ cstate = "Disconnected"
  /\ timer = TRUE
  /\ retryDelay = InitRetryDelayMs
  /\ listening = FALSE
  /\ sock = "none"
  /\ chan = NoChannel
  /\ resetQueued = FALSE
  /\ failed = {}
  /\ tcp = [s \in Side |-> "none"]
  /\ out = [s \in Side |-> <<>>]
  /\ rd = [s \in Side |-> 0]
  /\ inbuf = [s \in Side |-> <<>>]
  /\ rstate = [s \in Side |-> "NotInit"]
  /\ qp = [s \in Side |-> "none"]
  /\ established = [s \in Side |-> FALSE]
  /\ connected = [s \in Side |-> FALSE]
  /\ sent = [s \in Side |-> FALSE]

\* The steps of one side's event loop.
SideStep(s) ==
  \/ s = Client /\ (StartInLoop \/ ConnectRefused \/ ConnectSucceeded
                    \/ ResetChannel)
  \/ s = Server /\ (Listen \/ AcceptConnection)
  \/ (TcpMessage(s) \/ TcpMessageIgnored(s) \/ TcpClose(s))
     /\ UNCHANGED connectorVars

Next == KernelConnect \/ \E s \in Side : SideStep(s)

\* Each side's event loop runs every handler whose socket or timer is
\* ready; the server is started; the kernel answers a pending connect.
Spec == Init /\ [][Next]_vars
        /\ WF_vars(KernelConnect) /\ \A s \in Side : WF_vars(SideStep(s))

-----------------------------------------------------------------------------
(* Properties                                                             *)

\* A side's application sends its first RDMA message (from the connected
\* callback) only once the peer's queue pair is in RTS with its receives
\* posted and the peer's owner holds the connection: the ACK that
\* triggers the callback is sent only after a successful connectQp.
PeerReadyBeforeTraffic ==
  \A s \in Side : sent[s] => qp[Peer(s)] = "rts" /\ established[Peer(s)]

\* The handshake never parks while both sides are alive: every side's
\* bootstrap TCP connection is eventually closed, whether the handshake
\* succeeded or create or connectQp failed on either side.
BootstrapClosed == \A s \in Side : <>(tcp[s] = "closed")

\* No assert of the client's connector path fails, across refusals,
\* retries and the reconnects after them: each connect finds channel_
\* reset by the resetChannel the previous removeAndResetChannel queued,
\* the channel it removes is disabled and still registered, and each
\* Channel is out of the Poller when it is destroyed.
NoConnectorAssert == failed = {}

\* A side whose bootstrap TCP connection closed holds an established
\* RdmaConnection only if its connected callback ran: a handshake cut
\* short by a TCP-level failure discards the in-progress connection.
NoOrphanConnection ==
  \A s \in Side : tcp[s] = "closed" /\ established[s] => connected[s]

=============================================================================
