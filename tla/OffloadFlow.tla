---------------------------- MODULE OffloadFlow ----------------------------
(***************************************************************************)
(* The offload path of an image pull, from the host's command server to  *)
(* the DPU and back, and the host event loop that runs it.               *)
(*                                                                         *)
(* CommandServer reads a CreateContainerRequest and calls               *)
(* OffloadClientEpoll::offload (host/client/offload_client_epoll.cc),     *)
(* which queues the image in pending_tasks_ and, once the DPU answered   *)
(* the DecompressConnectionRequest, sends one OffloadRequest per free     *)
(* send slot.  OffloadServerEpoll (dpu/offload_server_epoll.cc) starts   *)
(* a fetch per layer and answers at once; every answer frees the host's  *)
(* slot and sends the next pending image.  The untar threads report each *)
(* layer with completeTask, which posts a functor to the host loop       *)
(* through EventLoop::runInLoop -> queueInLoop (network/EventLoop.cc):   *)
(* push under the mutex, then write the eventfd.  The loop polls, runs   *)
(* the handlers of the ready channels, then swaps out and runs the       *)
(* pending functors.  Everything on the host (command server, offload    *)
(* client) shares that one loop (client_main.cc).                        *)
(*                                                                         *)
(* The RDMA connection is a FIFO channel each way (ContentRpc shows the   *)
(* RdmaConnection pair refines one); fetching, decompressing and untarring *)
(* a layer is the environment (DecompressPipeline and UntarEngine model   *)
(* it), here reduced to an untar thread eventually posting completeTask. *)
(***************************************************************************)
EXTENDS LoopThreads

CONSTANTS Images,       \* images pulled (model values)
          Layers,       \* layer digests (model values)
          LayersOf,     \* LayersOf[i]: the layers of image i's manifest
          MetadataOk,   \* images whose manifest.json and config load
          MemNum        \* offload_client_rdma_mem_num: host send slots

ASSUME /\ LayersOf \in [Images -> SUBSET Layers \ {{}}]
       /\ MetadataOk \subseteq Images
       /\ MemNum \in Nat \ {0}

Instance == {<<i, l>> \in Images \X Layers : l \in LayersOf[i]}
Request == [type : {"conn"}] \cup [type : {"offload"}, img : Images]
\* The loop's channels other than the command connections: the eventfd,
\* the RDMA client's handshake, the completion channel and the command
\* server's listening socket.
Fd == {"wakeup", "connect", "rdma", "listen"}
\* A functor in pendingFunctors_: completeTask's lambda for an image,
\* the connectDestroyed of a command connection; with I/O loop threads,
\* a command connection's offload call or its removeConnection.
Functor == [kind : {"complete", "destroy", "offload", "remove"}, img : Images]
\* A framed protobuf message: the 4-byte length header and the body,
\* which may reach the reader in separate reads.
FrameChunks == 2

VARIABLES
  \* the host loop (EventLoop)
  hpc,          \* "poll", "handle" (the active channels), "functors"
  activeFd,     \* activeChannels_ not yet handled (wakeup, RDMA, handshake)
  activeTcp,    \* activeChannels_ not yet handled: command connections
  functors,     \* pendingFunctors_: the images of queued completeTask calls
  running,      \* the local functors vector doPendingFunctors swapped out
  calling,      \* callingPendingFunctors_
  readable,     \* the eventfd counter is non-zero
  \* OffloadClientEpoll and CommandServer
  conn,         \* conn_ is set (onConnected ran)
  connected,    \* connected_
  freeSend,     \* free send slots of conn_
  inflight,     \* length of inflight_sends_
  pending,      \* pending_tasks_
  tasks,        \* the images tasks_ holds
  counted,      \* counted[i]: tasks_[i].untar_layers
  answered,     \* images a CreateContainerResponse was sent for
  assertFailed, \* completeTask's assert(it_tasks != tasks_.end()) failed
  \* the command connections (one per client_cli process and image)
  cli,          \* cli[i]: "idle", "connecting", "sent" (request written),
                \* "done" (response read, connection shut down)
  backlog,      \* connections the kernel completed, not yet accepted
  accepted,     \* TcpServer::connections_
  reqRead,      \* reqRead[i]: request chunks the server has read
  respRead,     \* respRead[i]: response chunks client_cli has read
  ioLoop,       \* ioLoop[i]: the loop getNextLoop gave connection i
  established,  \* connections whose connectEstablished has run
  closing,      \* I/O-loop connections whose handleClose has run
  ioWaking,     \* I/O-loop connections whose thread pushed a functor on
                \* the host loop and has not written its eventfd
  \* the RDMA connection and the DPU
  c2s, s2c,     \* requests to the DPU, responses to the host
  decompConnect,\* OffloadServerEpoll called DecompressClientEpoll::connect
  fetched,      \* layers the DPU started fetching, per image
  \* the untar threads
  done,         \* layers whose completeTask was pushed
  waking        \* layers whose thread pushed but has not written the eventfd

hostVars == <<hpc, activeFd, activeTcp, functors, running, calling, readable>>
clientVars == <<conn, connected, freeSend, inflight, pending, tasks, counted,
                answered, assertFailed>>
ioVars == <<ioLoop, established, closing, ioWaking, next>>
cmdVars == <<cli, backlog, accepted, reqRead, respRead, ioVars>>
vars == <<hostVars, clientVars, cmdVars, c2s, s2c, decompConnect, fetched,
          done, waking>>

\* The images a client_cli process was started for.
Pulled == {i \in Images : cli[i] # "idle"}

TypeOK ==
  /\ hpc \in {"poll", "handle", "functors"}
  /\ activeFd \subseteq Fd /\ activeTcp \subseteq Images
  /\ functors \in Seq(Functor) /\ running \in Seq(Functor)
  /\ calling \in BOOLEAN /\ readable \in BOOLEAN
  /\ conn \in BOOLEAN /\ connected \in BOOLEAN
  /\ freeSend \in 0 .. MemNum /\ inflight \in 0 .. MemNum
  /\ pending \in Seq(Images)
  /\ tasks \subseteq Images /\ counted \in [Images -> Nat]
  /\ answered \subseteq Pulled /\ assertFailed \in BOOLEAN
  /\ cli \in [Images -> {"idle", "connecting", "sent", "done"}]
  /\ backlog \subseteq Pulled /\ accepted \subseteq Pulled
  /\ reqRead \in [Images -> 0 .. FrameChunks]
  /\ respRead \in [Images -> 0 .. FrameChunks]
  /\ ioLoop \in [Images -> {BaseLoop, NULL} \cup Threads]
  /\ established \subseteq Pulled /\ closing \subseteq established
  /\ ioWaking \subseteq Pulled
  /\ c2s \in Seq(Request) /\ s2c \in Seq(Request)
  /\ decompConnect \in BOOLEAN
  /\ fetched \subseteq Instance /\ done \subseteq fetched
  /\ waking \subseteq done
  /\ calling <=> hpc = "functors"
  /\ PoolTypeOK

-----------------------------------------------------------------------------
(* OffloadClientEpoll                                                      *)

\* loadMetadata: the cached or freshly parsed manifest and config.
LoadMetadata(i) == i \in MetadataOk

\* tryOffloadTask with offloadTaskToDpu inlined, on the pending queue pt,
\* the free slot count fs and the in-flight count inf the calling handler
\* left: with a task and a free slot, take the oldest task; if its
\* metadata loads, register it in tasks_ (emplace: kept if present), note
\* the slot in inflight_sends_ and send the OffloadRequest; either way pop
\* the task.  A failed loadMetadata returns with the slot acquired.
TryOffloadTask(pt, fs, inf) ==
  IF pt = <<>> \/ fs = 0
    THEN /\ pending' = pt /\ freeSend' = fs /\ inflight' = inf
         /\ UNCHANGED <<tasks, counted, c2s>>
    ELSE LET i == Head(pt) IN
         /\ pending' = Tail(pt)
         /\ freeSend' = fs - 1
         /\ IF LoadMetadata(i)
              THEN /\ tasks' = tasks \cup {i}
                   /\ counted' = IF i \in tasks THEN counted
                                 ELSE [counted EXCEPT ![i] = 0]
                   /\ inflight' = inf + 1
                   /\ c2s' = Append(c2s, [type |-> "offload", img |-> i])
              ELSE /\ inflight' = inf
                   /\ UNCHANGED <<tasks, counted, c2s>>

\* conn_->releaseSendBuf(inflight_sends_.front()).
ReleaseSendBuf(fs) == fs + 1

\* Mutant: only a functor queued while the functors run wakes the loop.
NeedsWakeupCallingOnly(inLoop, callingPF) == callingPF

\* queueInLoop's condition for writing the eventfd after the push.
NeedsWakeup(inLoop, callingPF) == ~inLoop \/ callingPF

\* An untar thread's completeTask: runInLoop from a thread that is not the
\* loop's, so queueInLoop pushes the functor under the mutex; the eventfd
\* write that follows is UntarWakeup.
UntarComplete(x) ==
  /\ x \in fetched \ done
  /\ functors' = Append(functors, [kind |-> "complete", img |-> x[1]])
  /\ done' = done \cup {x}
  /\ waking' = IF NeedsWakeup(FALSE, calling) THEN waking \cup {x} ELSE waking
  /\ UNCHANGED <<hpc, activeFd, activeTcp, running, calling, readable,
                 clientVars, cmdVars, c2s, s2c, decompConnect, fetched>>

\* queueInLoop's wakeup(): write 1 to the eventfd.
UntarWakeup(x) ==
  /\ x \in waking
  /\ readable' = TRUE
  /\ waking' = waking \ {x}
  /\ UNCHANGED <<hpc, activeFd, activeTcp, functors, running, calling,
                 clientVars, cmdVars, c2s, s2c, decompConnect, fetched, done>>

-----------------------------------------------------------------------------
(* The command connections: client_cli and the command server's TcpServer *)

\* client_cli's main for image i: client.connect() and loop.loop(); the
\* kernel completes the connection into the listening socket's backlog.
\* An image is pulled at most once.
Pull(i) ==
  /\ cli[i] = "idle"
  /\ cli' = [cli EXCEPT ![i] = "connecting"]
  /\ backlog' = backlog \cup {i}
  /\ UNCHANGED <<hostVars, clientVars, accepted, reqRead, respRead, ioVars,
                 c2s, s2c,
                 decompConnect, fetched, done, waking>>

\* sendTcpPbMsg: the length header, then the body; the chunks of the
\* request on connection i that client_cli has written.
SentChunks(i) == IF cli[i] \in {"sent", "done"} THEN FrameChunks ELSE 0

\* receiveTcpPbMsg on an input buffer holding buffered chunks of a frame:
\* return false, leaving the buffer as it is, while the header or the
\* body is incomplete; else take the frame out and parse it.
ReceiveTcpPbMsg(buffered) == buffered >= FrameChunks

\* CommandClient::OnConnection in client_cli's own loop: the connection is
\* up, send the CreateContainerRequest.
CliConnected(i) ==
  /\ cli[i] = "connecting"
  /\ cli' = [cli EXCEPT ![i] = "sent"]
  /\ UNCHANGED <<hostVars, clientVars, backlog, accepted, reqRead, respRead,
                 ioVars,
                 c2s, s2c, decompConnect, fetched, done, waking>>

\* CommandClient::OnMessage after a read that brought some of the
\* CreateContainerResponse: receiveTcpPbMsg, and on a whole frame with
\* success set, shutdown() and quit() (client_cli ends).
CliRead(i) ==
  /\ cli[i] = "sent" /\ i \in answered /\ respRead[i] < FrameChunks
  /\ \E n \in respRead[i] + 1 .. FrameChunks :
       /\ respRead' = [respRead EXCEPT ![i] = n]
       /\ cli' = IF ReceiveTcpPbMsg(n) THEN [cli EXCEPT ![i] = "done"] ELSE cli
  /\ UNCHANGED <<hostVars, clientVars, backlog, accepted, reqRead, ioVars,
                 c2s, s2c,
                 decompConnect, fetched, done, waking>>

\* Mutant: an answer to a CreateContainerRequest needs one layer more.
AllLayersCountedLate(c, i) == c = Cardinality(LayersOf[i]) + 1

\* task_info.untar_layers == task_info.total_layers.
AllLayersCounted(c, i) == c = Cardinality(LayersOf[i])

\* OffloadClientEpoll::completeTask's functor for image i: assert the
\* image is in tasks_, count the layer, and once all are counted erase it
\* and send the CreateContainerResponse.
CompleteTask(i) ==
  \/ /\ i \notin tasks
     /\ assertFailed' = TRUE
     /\ UNCHANGED <<tasks, counted, answered>>
  \/ /\ i \in tasks
     /\ counted' = [counted EXCEPT ![i] = @ + 1]
     /\ IF AllLayersCounted(counted[i] + 1, i)
          THEN tasks' = tasks \ {i} /\ answered' = answered \cup {i}
          ELSE UNCHANGED <<tasks, answered>>
     /\ UNCHANGED assertFailed

-----------------------------------------------------------------------------
(* The host loop: EventLoop::loop                                          *)

\* The channels with an event: the eventfd, the RDMA client's bootstrap
\* (its handshake ends in onConnected), the completion channel and the
\* listening socket (level-triggered: readable while the backlog holds a
\* connection).
ReadyFd ==
  {f \in Fd : \/ f = "wakeup" /\ readable
              \/ f = "connect" /\ ~conn
              \/ f = "rdma" /\ s2c # <<>>
              \/ f = "listen" /\ backlog # {}}

\* The accepted command connections with unread request bytes, or with
\* the end of stream client_cli's shutdown() sends after the request.
TcpReady ==
  {i \in accepted : /\ ioLoop[i] = BaseLoop
                    /\ reqRead[i] < SentChunks(i) \/ cli[i] = "done"}

\* poller_->poll: block until some channel has an event, and return the
\* active channels (any non-empty part of the ready ones: the rest may
\* become visible only to a later epoll_wait).  The 10 s timeout is left
\* out, so a functor that only the timeout would run is never run.
Poll ==
  /\ hpc = "poll"
  /\ \E F \in SUBSET ReadyFd, T \in SUBSET TcpReady :
       /\ F # {} \/ T # {}
       /\ activeFd' = F /\ activeTcp' = T
  /\ hpc' = "handle"
  /\ UNCHANGED <<functors, running, calling, readable, clientVars, cmdVars,
                 c2s, s2c, decompConnect, fetched, done, waking>>

\* The wakeup channel's handleRead: read the eventfd, clearing it.
HandleWakeup ==
  /\ hpc = "handle" /\ "wakeup" \in activeFd
  /\ activeFd' = activeFd \ {"wakeup"}
  /\ readable' = FALSE
  /\ UNCHANGED <<hpc, activeTcp, functors, running, calling, clientVars,
                 cmdVars, c2s, s2c, decompConnect, fetched, done, waking>>

\* OffloadClientEpoll::onConnected: set conn_, take a send slot, note it
\* in inflight_sends_ and send the DecompressConnectionRequest.
HandleConnect ==
  /\ hpc = "handle" /\ "connect" \in activeFd
  /\ activeFd' = activeFd \ {"connect"}
  /\ conn' = TRUE
  /\ freeSend' = freeSend - 1 /\ inflight' = inflight + 1
  /\ c2s' = Append(c2s, [type |-> "conn"])
  /\ UNCHANGED <<hpc, activeTcp, functors, running, calling, readable,
                 connected, pending, tasks, counted, answered, assertFailed,
                 cmdVars, s2c, decompConnect, fetched, done, waking>>

\* One completion of the RDMA connection's handleRead batch, delivered to
\* OffloadClientEpoll::onRecvSuccess: release inflight_sends_.front(), then
\* handleDecompressConnectionResponse (set connected_) or
\* handleOffloadResponse, each ending in tryOffloadTask.  The channel stays
\* active while the batch has more.
HandleRdma ==
  LET m == Head(s2c) IN
  /\ hpc = "handle" /\ "rdma" \in activeFd /\ s2c # <<>>
  /\ s2c' = Tail(s2c)
  /\ activeFd' \in IF Tail(s2c) = <<>> THEN {activeFd \ {"rdma"}}
                   ELSE {activeFd, activeFd \ {"rdma"}}
  /\ connected' = (connected \/ m.type = "conn")
  /\ TryOffloadTask(pending, ReleaseSendBuf(freeSend), inflight - 1)
  /\ UNCHANGED <<hpc, activeTcp, functors, running, calling, readable, conn,
                 answered, assertFailed, cmdVars, decompConnect, fetched,
                 done, waking>>

\* OffloadClientEpoll::offload's functor, which runInLoop runs at once in
\* the loop thread: append to pending_tasks_ and, if connected_,
\* tryOffloadTask.
Offload(i) ==
  IF connected
    THEN TryOffloadTask(Append(pending, i), freeSend, inflight)
    ELSE /\ pending' = Append(pending, i)
         /\ UNCHANGED <<freeSend, inflight, tasks, counted, c2s>>

\* TcpServer::newConnection for the accepted socket: a TcpConnection on
\* the loop getNextLoop returns, stored in connections_.  On the base
\* loop, runInLoop(connectEstablished) runs at once and registers its
\* channel for reading; an I/O loop runs it later (IoEstablish).
NewConnection(i) ==
  /\ accepted' = accepted \cup {i}
  /\ ioLoop' = [ioLoop EXCEPT ![i] = NextLoop]
  /\ next' = AdvanceNext
  /\ established' = IF NextLoop = BaseLoop THEN established \cup {i}
                    ELSE established

\* Acceptor::handleRead: accept one connection of the backlog and hand it
\* to newConnection.
HandleAccept ==
  /\ hpc = "handle" /\ "listen" \in activeFd
  /\ activeFd' = activeFd \ {"listen"}
  /\ \E i \in backlog : backlog' = backlog \ {i} /\ NewConnection(i)
  /\ UNCHANGED <<hpc, activeTcp, functors, running, calling, readable,
                 clientVars, cli, reqRead, respRead, closing, ioWaking, c2s,
                 s2c, decompConnect, fetched, done, waking>>

\* TcpServer::removeConnection, run by the closing connection's
\* handleClose in the loop thread: runInLoop(removeConnectionInLoop) runs
\* at once, erases the connection from connections_ and queues its
\* connectDestroyed, waking the loop only if queueInLoop says so.
RemoveConnection(i) ==
  /\ accepted' = accepted \ {i}
  /\ functors' = Append(functors, [kind |-> "destroy", img |-> i])
  /\ readable' = (readable \/ NeedsWakeup(TRUE, calling))

\* The command connection i's channel: TcpConnection::handleRead reads
\* what has arrived into its input buffer (the header alone may come
\* first) and calls CommandServer::OnMessage, which takes a whole
\* CreateContainerRequest with receiveTcpPbMsg and calls pullImage, i.e.
\* offload; at the end of the stream, handleClose.
HandleTcp(i) ==
  /\ hpc = "handle" /\ i \in activeTcp
  /\ activeTcp' = activeTcp \ {i}
  /\ \/ /\ reqRead[i] < SentChunks(i)
        /\ \E n \in reqRead[i] + 1 .. SentChunks(i) :
             /\ reqRead' = [reqRead EXCEPT ![i] = n]
             /\ IF ReceiveTcpPbMsg(n) /\ ~ReceiveTcpPbMsg(reqRead[i])
                  THEN Offload(i)
                  ELSE UNCHANGED <<pending, freeSend, inflight, tasks,
                                   counted, c2s>>
        /\ UNCHANGED <<functors, readable, accepted>>
     \/ /\ reqRead[i] = SentChunks(i) /\ cli[i] = "done"
        /\ RemoveConnection(i)
        /\ UNCHANGED <<reqRead, pending, freeSend, inflight, tasks, counted,
                       c2s>>
  /\ UNCHANGED <<hpc, activeFd, running, calling, conn, connected, answered,
                 assertFailed, cli, backlog, respRead, ioVars, s2c,
                 decompConnect,
                 fetched, done, waking>>

-----------------------------------------------------------------------------
(* The command connections on I/O loop threads (numThreads_ > 0)          *)

\* Connection i's I/O loop runs the connectEstablished newConnection
\* queued on it: the channel is registered for reading.
IoEstablish(i) ==
  /\ i \in accepted /\ ioLoop[i] # BaseLoop /\ i \notin established
  /\ established' = established \cup {i}
  /\ UNCHANGED <<hostVars, clientVars, cli, backlog, accepted, reqRead,
                 respRead, ioLoop, closing, ioWaking, next, c2s, s2c,
                 decompConnect, fetched, done, waking>>

\* runInLoop on the host loop from an I/O loop thread: queueInLoop pushes
\* the functor under the mutex; the eventfd write that follows is
\* IoWakeup.
QueueFromIo(i, kind) ==
  /\ functors' = Append(functors, [kind |-> kind, img |-> i])
  /\ ioWaking' = IF NeedsWakeup(FALSE, calling) THEN ioWaking \cup {i}
                 ELSE ioWaking

\* An I/O loop is inside queueInLoop for one of its connections.
IoBusy(l) == \E j \in ioWaking : ioLoop[j] = l

\* Connection i's channel on its I/O loop: handleRead and
\* CommandServer::OnMessage as on the base loop, but pullImage's offload
\* queues its lambda on the host loop; at the end of the stream
\* handleClose disables the channel and removeConnection queues
\* removeConnectionInLoop on the host loop.
IoHandleTcp(i) ==
  /\ i \in established /\ ioLoop[i] # BaseLoop /\ i \notin closing
  /\ ~IoBusy(ioLoop[i])
  /\ \/ /\ reqRead[i] < SentChunks(i)
        /\ \E n \in reqRead[i] + 1 .. SentChunks(i) :
             /\ reqRead' = [reqRead EXCEPT ![i] = n]
             /\ IF ReceiveTcpPbMsg(n) /\ ~ReceiveTcpPbMsg(reqRead[i])
                  THEN QueueFromIo(i, "offload")
                  ELSE UNCHANGED <<functors, ioWaking>>
        /\ UNCHANGED closing
     \/ /\ reqRead[i] = SentChunks(i) /\ cli[i] = "done"
        /\ closing' = closing \cup {i}
        /\ QueueFromIo(i, "remove")
        /\ UNCHANGED reqRead
  /\ UNCHANGED <<hpc, activeFd, activeTcp, running, calling, readable,
                 clientVars, cli, backlog, accepted, respRead, ioLoop,
                 established, next, c2s, s2c, decompConnect, fetched, done,
                 waking>>

\* The I/O loop thread's wakeup() of the host loop.
IoWakeup(i) ==
  /\ i \in ioWaking
  /\ readable' = TRUE
  /\ ioWaking' = ioWaking \ {i}
  /\ UNCHANGED <<hpc, activeFd, activeTcp, functors, running, calling,
                 clientVars, cli, backlog, accepted, reqRead, respRead, ioLoop,
                 established, closing, next, c2s, s2c, decompConnect, fetched,
                 done, waking>>

\* The I/O loop threads.
IoLoops ==
  \E i \in Images : IoEstablish(i) \/ IoHandleTcp(i) \/ IoWakeup(i)

-----------------------------------------------------------------------------
\* The end of the handling phase and the start of doPendingFunctors: set
\* callingPendingFunctors_ and swap pendingFunctors_ out under the mutex.
StartFunctors ==
  /\ hpc = "handle" /\ activeFd = {} /\ activeTcp = {}
  /\ hpc' = "functors" /\ calling' = TRUE
  /\ running' = functors /\ functors' = <<>>
  /\ UNCHANGED <<activeFd, activeTcp, readable, clientVars, cmdVars, c2s,
                 s2c, decompConnect, fetched, done, waking>>

\* Run the next swapped-out functor: completeTask's lambda; offload's
\* lambda, pushed by an I/O loop thread; removeConnectionInLoop, pushed
\* by an I/O loop's handleClose, which erases the connection from
\* connections_ and queues connectDestroyed on that I/O loop (which only
\* removes its channel); or a closed base-loop connection's
\* connectDestroyed (the model drops the connection from the ready ones
\* when it is erased).
RunFunctor ==
  LET f == Head(running) IN
  /\ hpc = "functors" /\ running # <<>>
  /\ running' = Tail(running)
  /\ CASE f.kind = "complete" ->
            /\ CompleteTask(f.img)
            /\ UNCHANGED <<freeSend, inflight, pending, c2s, accepted>>
       [] f.kind = "offload" ->
            /\ Offload(f.img)
            /\ UNCHANGED <<answered, assertFailed, accepted>>
       [] f.kind = "remove" ->
            /\ accepted' = accepted \ {f.img}
            /\ UNCHANGED <<tasks, counted, answered, assertFailed, freeSend,
                           inflight, pending, c2s>>
       [] f.kind = "destroy" ->
            UNCHANGED <<tasks, counted, answered, assertFailed, freeSend,
                        inflight, pending, c2s, accepted>>
  /\ UNCHANGED <<hpc, activeFd, activeTcp, functors, calling, readable, conn,
                 connected, cli, backlog, reqRead, respRead, ioVars, s2c,
                 decompConnect, fetched, done, waking>>

\* Mutant: callingPendingFunctors_ is left set after the functors ran.
EndFunctorsKeepCalling ==
  /\ hpc = "functors" /\ running = <<>>
  /\ hpc' = "poll"
  /\ UNCHANGED <<activeFd, activeTcp, functors, running, calling, readable,
                 clientVars, cmdVars, c2s, s2c, decompConnect, fetched, done,
                 waking>>

\* doPendingFunctors ends: clear callingPendingFunctors_ and poll again
\* (quit() is never called on the host loop).
EndFunctors ==
  /\ hpc = "functors" /\ running = <<>>
  /\ hpc' = "poll" /\ calling' = FALSE
  /\ UNCHANGED <<activeFd, activeTcp, functors, running, readable, clientVars,
                 cmdVars, c2s, s2c, decompConnect, fetched, done, waking>>

-----------------------------------------------------------------------------
(* OffloadServerEpoll (DPU)                                                *)

\* onRecvSuccess for the oldest request: a DecompressConnectionRequest is
\* answered (the slot is acquired and released around the send) and then
\* DecompressClientEpoll::connect is called; an OffloadRequest starts a
\* fetch of every layer and is answered with success at once.
Serve ==
  LET m == Head(c2s) IN
  /\ c2s # <<>>
  /\ c2s' = Tail(c2s)
  /\ s2c' = Append(s2c, m)
  /\ IF m.type = "conn"
       THEN decompConnect' = TRUE /\ UNCHANGED fetched
       ELSE /\ fetched' = fetched \cup {x \in Instance : x[1] = m.img}
            /\ UNCHANGED decompConnect
  /\ UNCHANGED <<hostVars, clientVars, cmdVars, done, waking>>

-----------------------------------------------------------------------------

\* main: TcpServer::start has the pool to start; then the loop starts
\* polling with nothing queued, and offload_client's connect() has
\* started the RDMA handshake.
Init ==
  /\ PoolInit
  /\ hpc = "poll" /\ activeFd = {} /\ activeTcp = {}
  /\ functors = <<>> /\ running = <<>> /\ calling = FALSE
  /\ readable = FALSE
  /\ conn = FALSE /\ connected = FALSE
  /\ freeSend = MemNum /\ inflight = 0
  /\ pending = <<>> /\ tasks = {} /\ counted = [i \in Images |-> 0]
  /\ answered = {} /\ assertFailed = FALSE
  /\ cli = [i \in Images |-> "idle"] /\ backlog = {} /\ accepted = {}
  /\ reqRead = [i \in Images |-> 0] /\ respRead = [i \in Images |-> 0]
  /\ c2s = <<>> /\ s2c = <<>>
  /\ decompConnect = FALSE /\ fetched = {}
  /\ done = {} /\ waking = {}
  /\ ioLoop = [i \in Images |-> BaseLoop]
  /\ established = {} /\ closing = {} /\ ioWaking = {}

\* The host loop thread.
HostLoop ==
  \/ Poll \/ HandleWakeup \/ HandleConnect \/ HandleRdma \/ HandleAccept
  \/ \E i \in Images : HandleTcp(i)
  \/ StartFunctors \/ RunFunctor \/ EndFunctors

allVars == <<vars, startVars>>

\* A step of the running host process: command_server.start() has
\* returned, and a failed assert aborts the process.
Flow(A) == PoolStarted /\ ~assertFailed /\ A /\ UNCHANGED startVars

\* The main thread starts the loop threads in TcpServer::start; the
\* clients connect once the server listens.
Next ==
  \/ PoolStartNext /\ UNCHANGED vars
  \/ Flow(\/ \E i \in Images : Pull(i) \/ CliConnected(i) \/ CliRead(i)
          \/ HostLoop
          \/ IoLoops
          \/ Serve
          \/ \E x \in Instance : UntarComplete(x) \/ UntarWakeup(x))

\* A loop thread blocked on mutex_ is woken by every unlock, so it takes
\* the mutex if the main thread keeps releasing it (after spurious
\* wakeups).  The main thread, the loop threads, the host loop, the DPU loop, every
\* untar thread and every client_cli loop keep running while they have
\* work; pulls are not forced.
Spec ==
  /\ Init /\ [][Next]_allVars
  /\ WF_allVars(MainStep /\ UNCHANGED vars)
  /\ SF_allVars(\E k \in Threads : ThreadStep(k) /\ UNCHANGED vars)
  /\ WF_allVars(Flow(HostLoop))
  /\ WF_allVars(Flow(Serve))
  /\ WF_allVars(Flow(IoLoops))
  /\ \A x \in Instance : WF_allVars(Flow(UntarComplete(x)))
  /\ \A x \in Instance : WF_allVars(Flow(UntarWakeup(x)))
  /\ \A i \in Images : WF_allVars(Flow(CliConnected(i) \/ CliRead(i)))

-----------------------------------------------------------------------------
(* Properties                                                             *)

\* The loop never blocks in epoll_wait while a functor is queued and
\* nothing will wake it: a completeTask pushed by an untar thread, or an
\* offload or removeConnectionInLoop pushed by an I/O loop thread, comes
\* with queueInLoop's eventfd write, done or still to come.
NoStrandedFunctor ==
  (hpc = "poll" /\ ReadyFd = {} /\ TcpReady = {} /\ functors # <<>>)
    => waking \cup ioWaking # {}

\* Every client_cli pulling an image whose metadata loads eventually
\* reads a successful CreateContainerResponse and ends: its connection is
\* accepted, its request is read however the frame is split, it is
\* offloaded although pulls arrive before the DPU connection and exceed
\* the send slots, and its completion is run.
EveryPullCompletes ==
  \A i \in MetadataOk : cli[i] = "connecting" ~> (cli[i] = "done" \/ assertFailed)

====
