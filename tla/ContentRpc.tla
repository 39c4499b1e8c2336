----------------------------- MODULE ContentRpc -----------------------------
(***************************************************************************)
(* A ContentClient (src/dpu/content_fetcher.cc) and a ContentServer        *)
(* (src/host/server/content_server.cc) over one RdmaConnection pair.       *)
(*                                                                         *)
(* The client is created by ContentFetcher::fetch with the request for     *)
(* segment 0 of a layer, connects, and on the connected callback sends     *)
(* as many queued requests as it has free slots.  A slot stays taken       *)
(* until a response arrives; then inflight_sends_.front() is released.    *)
(* The response to segment 0 queues the layer's other segments in front.  *)
(* The server answers each request from one slot it acquires, posts and   *)
(* releases at once.  A request or response is the pair <<layer, index>>; *)
(* the file contents and protobuf framing are left out.                   *)
(***************************************************************************)
EXTENDS RdmaConnection, Functions

CONSTANTS Layers,    \* layers the fetcher is asked for (1..n)
          Segments   \* total_segments of every layer

ASSUME Segments \in Nat \ {0}

Payload == Layers \X (0 .. Segments - 1)

VARIABLES
  created,   \* ContentFetcher::clients_ holds the client
  conn,      \* ContentClient::conn_ is set (onConnected ran)
  unsend,    \* unsend_reqs_
  inflight,  \* inflight_sends_: slots of requests awaiting a response
  fetched,   \* layers ContentFetcher::fetch was called for
  sentLog,   \* history: sentLog[e] = messages e handed to send(), in order
  recvLog    \* history: recvLog[e] = messages e's receive callback read

appVars == <<created, conn, unsend, inflight, fetched, sentLog, recvLog>>
vars == <<connVars, appVars>>

TypeOK ==
  /\ free \in [Endpoint -> Seq(Slot)]
  /\ sendBuf \in [Endpoint -> [Slot -> Payload \cup {NoMsg}]]
  /\ recvBuf \in [Endpoint -> [Slot -> Payload \cup {NoMsg}]]
  /\ rq \in [Endpoint -> Seq(Slot)]
  /\ sq \in [Endpoint -> Seq([slot : Slot, msg : Payload])]
  /\ sqUsed \in [Endpoint -> 0 .. TxDepth]
  /\ wire \in [Endpoint -> Seq(Payload \cup {NoMsg})]
  /\ cq \in [Endpoint -> Seq(Wc)]
  /\ armed \in [Endpoint -> BOOLEAN]
  /\ events \in [Endpoint -> Nat]
  /\ pc \in [Endpoint -> {"idle", "poll", "dispatch", "callback",
                          "terminated"}]
  /\ wcs \in [Endpoint -> Seq(Wc)]
  /\ linkUp \in BOOLEAN
  /\ created \in BOOLEAN /\ conn \in BOOLEAN
  /\ unsend \in Seq(Payload)
  /\ inflight \in Seq(Slot)
  /\ fetched \subseteq Layers
  /\ sentLog \in [Endpoint -> Seq(Payload)]
  /\ recvLog \in [Endpoint -> Seq(Payload)]

-----------------------------------------------------------------------------

\* ContentClient::trySendRequests, started from the unsent queue u, the
\* free deque f and the in-flight deque inf: while there is a request
\* and a free slot, sendRequest acquires the front slot, pops the front
\* request, writes it and sends it, and remembers the slot.  Nothing is
\* sent before onConnected set conn_.
TrySendRequests(u, f, inf) ==
  LET k == IF ~conn' THEN 0 ELSE IF Len(u) <= Len(f) THEN Len(u) ELSE Len(f)
      slots == SubSeq(f, 1, k)
      reqs == SubSeq(u, 1, k)
  IN /\ free' = [free EXCEPT ![Client] = SubSeq(f, k + 1, Len(f))]
     /\ unsend' = SubSeq(u, k + 1, Len(u))
     /\ inflight' = inf \o slots
     /\ PostSends(Client, slots, reqs)
     /\ sentLog' = [sentLog EXCEPT ![Client] = @ \o reqs]

\* ContentFetcher::fetch for a layer, run in the fetcher's loop: the first
\* call creates the client with the segment-0 request queued and starts
\* connecting.
FetchNewClient(l) ==
  /\ pc[Client] = "idle"
  /\ l \notin fetched
  /\ ~created
  /\ created' = TRUE
  /\ fetched' = fetched \cup {l}
  /\ unsend' = Append(unsend, <<l, 0>>)
  /\ UNCHANGED <<connVars, conn, inflight, sentLog, recvLog>>

\* Later calls queue the request on the existing client and try to send.
FetchExistingClient(l) ==
  /\ pc[Client] = "idle"
  /\ l \notin fetched
  /\ created
  /\ fetched' = fetched \cup {l}
  /\ UNCHANGED conn
  /\ TrySendRequests(Append(unsend, <<l, 0>>), free[Client], inflight)
  /\ UNCHANGED <<recvBuf, rq, wire, cq, armed, events, pc, wcs, linkUp,
                 created, recvLog>>

\* ContentClient::onConnected, called once the handshake completed.
OnConnected ==
  /\ pc[Client] = "idle"
  /\ created /\ ~conn
  /\ conn' = TRUE
  /\ TrySendRequests(unsend, free[Client], inflight)
  /\ UNCHANGED <<recvBuf, rq, wire, cq, armed, events, pc, wcs, linkUp,
                 created, fetched, recvLog>>

\* ContentClient::onRecvSuccess: read the response, release the oldest
\* in-flight slot, hand the segment on, queue the other segments in front
\* when this was segment 0, and try to send.
ClientOnRecv ==
  LET resp == recvBuf[Client][CallbackSlot(Client)]
      more == IF resp[2] = 0 /\ Segments > 1
                THEN [i \in 1 .. Segments - 1 |-> <<resp[1], i>>]
                ELSE <<>>
  IN /\ pc[Client] = "callback"
     /\ recvLog' = [recvLog EXCEPT ![Client] = Append(@, resp)]
     /\ UNCHANGED conn
     /\ TrySendRequests(more \o unsend,
                        Append(free[Client], Head(inflight)), Tail(inflight))
     /\ ReturnFromCallback(Client)
     /\ UNCHANGED <<recvBuf, rq, wire, cq, armed, events, linkUp, created,
                    fetched>>

\* Mutant: the server returns its slot to the front of the free deque.
ServerOnRecvReleaseFront ==
  LET req == recvBuf[Server][CallbackSlot(Server)]
      s == FrontFree(Server)
  IN /\ pc[Server] = "callback"
     /\ recvLog' = [recvLog EXCEPT ![Server] = Append(@, req)]
     /\ PostSends(Server, <<s>>, <<req>>)
     /\ sentLog' = [sentLog EXCEPT ![Server] = Append(@, req)]
     /\ UNCHANGED free
     /\ ReturnFromCallback(Server)
     /\ UNCHANGED <<recvBuf, rq, wire, cq, armed, events, linkUp, created,
                    conn, unsend, inflight, fetched>>

\* ContentServer::onRecvSuccess: read the request, acquire a slot, write
\* the response for the same layer and index, send it and release the
\* slot right after posting.
ServerOnRecv ==
  LET req == recvBuf[Server][CallbackSlot(Server)]
      s == FrontFree(Server)
  IN /\ pc[Server] = "callback"
     /\ recvLog' = [recvLog EXCEPT ![Server] = Append(@, req)]
     /\ PostSends(Server, <<s>>, <<req>>)
     /\ sentLog' = [sentLog EXCEPT ![Server] = Append(@, req)]
     /\ free' = [free EXCEPT ![Server] = Append(Tail(@), s)]
     /\ ReturnFromCallback(Server)
     /\ UNCHANGED <<recvBuf, rq, wire, cq, armed, events, linkUp, created,
                    conn, unsend, inflight, fetched>>

-----------------------------------------------------------------------------

Init ==
  /\ ConnInit
  /\ created = FALSE /\ conn = FALSE
  /\ unsend = <<>> /\ inflight = <<>>
  /\ fetched = {}
  /\ sentLog = [e \in Endpoint |-> <<>>]
  /\ recvLog = [e \in Endpoint |-> <<>>]

\* The steps of one endpoint's event-loop thread.
LoopStep(e) ==
  \/ HandleReadStep(e) /\ UNCHANGED appVars
  \/ e = Client /\ (ClientOnRecv \/ OnConnected
                    \/ \E l \in Layers : FetchNewClient(l)
                                          \/ FetchExistingClient(l))
  \/ e = Server /\ ServerOnRecv

Next ==
  \/ \E e \in Endpoint : LoopStep(e) \/ (NicStep(e) /\ UNCHANGED appVars)
  \/ LinkFail /\ UNCHANGED appVars

\* Each event loop runs a ready handler (the poller reports a readable
\* completion channel for as long as it holds an event); the NICs keep
\* transmitting and delivering.  Fetch requests are not forced.
Fairness ==
  \A e \in Endpoint :
    /\ WF_vars(HandleReadStep(e) /\ UNCHANGED appVars)
    /\ WF_vars(NicStep(e) /\ UNCHANGED appVars)
    /\ WF_vars(e = Client /\ (ClientOnRecv \/ OnConnected))
    /\ WF_vars(e = Server /\ ServerOnRecv)

Spec == Init /\ [][Next]_vars /\ Fairness

-----------------------------------------------------------------------------
(* Properties                                                             *)

\* What each endpoint sent and its peer has not yet read.
InTransit(e) == SubSeq(sentLog[e], Len(recvLog[Peer(e)]) + 1, Len(sentLog[e]))

Channel == INSTANCE MessageChannel
             WITH Msg <- Payload, MaxBatch <- MemNum,
                  chan <- [e \in Endpoint |-> InTransit(e)], got <- recvLog

\* The connection behaves as a reliable FIFO channel: each receive
\* callback (ContentClient/ContentServer::onRecvSuccess) reads exactly the
\* next message its peer passed to send(), never a slot the NIC has since
\* overwritten (handleRead reposts the receive before the callback runs)
\* and never a send slot the sender overwrote before its NIC read it
\* (ContentServer releases its slot right after posting).
ChannelRefinement == Channel!Spec

\* Flow control of the slot pools: every message an endpoint has posted
\* and not yet had delivered will find a receive posted at the peer, so
\* the NIC never answers RNR (rnr_retry is bounded; exhausting it fails
\* the send and terminates the process).  It relies on the client
\* holding a slot until the response arrives and the server answering
\* each request exactly once.
NoReceiverNotReady ==
  \A e \in Endpoint :
    linkUp => Len(sq[e]) + Len(wire[e]) <= Len(rq[Peer(e)])

\* Unless the link breaks (the transport has no timeout, so a broken link
\* may leave an endpoint waiting for ever), every segment of every fetched
\* layer is eventually read by the ContentClient's receive callback: no
\* completion is left in a CQ whose notification was consumed (handleRead
\* re-arms before it drains) and no request waits for ever for a slot.
AllSegmentsFetched ==
  \A l \in Layers :
    l \in fetched ~> \/ \A i \in 0 .. Segments - 1 :
                           <<l, i>> \in Range(recvLog[Client])
                     \/ ~linkUp

=============================================================================
