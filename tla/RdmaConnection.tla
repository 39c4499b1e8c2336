--------------------------- MODULE RdmaConnection ---------------------------
(***************************************************************************)
(* The steady state of an established RdmaConnection pair                 *)
(* (src/network/rdma/RdmaConnection.{h,cc}) together with the reliable-   *)
(* connected queue pairs and NICs it drives.                              *)
(*                                                                         *)
(* Each endpoint owns MemNum buffer pairs (slot ids 0..MemNum-1), the      *)
(* deque of free send slots, one receive queue, one send queue and one    *)
(* completion queue with its completion channel.  Its event-loop thread   *)
(* runs handleRead, modelled as the program counter pc:                   *)
(*   "idle"      waiting in the poller for the completion channel;        *)
(*   "poll"      at ibv_poll_cq in the do/while loop;                     *)
(*   "dispatch"  at the head of the polled batch wcs;                     *)
(*   "callback"  inside recvSuccessCallback_ for the head of wcs (the     *)
(*               application module supplies that step and ends it with   *)
(*               ReturnFromCallback);                                     *)
(*   "terminated" after std::terminate on a failed completion.            *)
(*                                                                         *)
(* The NIC (not code of the repository) reads a send slot when it         *)
(* transmits the work request, not when it is posted; it writes a         *)
(* message into the slot of the oldest posted receive; a message that     *)
(* meets an empty receive queue is held back by RNR retries.  The ACK is  *)
(* folded into the delivery step, so a send completion appears exactly    *)
(* when the peer's receive completion does.                               *)
(***************************************************************************)
EXTENDS Integers, Sequences, SequencesExt

CONSTANTS Client, Server,  \* the two endpoints (model values)
          MemNum,          \* RdmaConfig mem_num: buffer pairs per endpoint
          NoMsg,           \* the content of a slot nothing was written to
          LinkMayFail      \* whether the link between the NICs may break

ASSUME MemNum \in Nat \ {0} /\ LinkMayFail \in BOOLEAN

Endpoint == {Client, Server}
Peer(e) == IF e = Client THEN Server ELSE Client

Slot == 0 .. MemNum - 1
\* RdmaConnection::create: tx_depth = rx_depth = mem_num + 5 and the CQ
\* holds both.
TxDepth == MemNum + 5
WcCapacity == 2 * (MemNum + 5)

VARIABLES
  free,     \* free_bufpairs_: deque of free send slots
  sendBuf,  \* sendBuf[e][s]: what the send half of buffer pair s holds
  recvBuf,  \* recvBuf[e][s]: what the receive half of buffer pair s holds
  rq,       \* posted receive work requests, oldest first (their slots)
  sq,       \* posted send work requests the NIC has not transmitted yet;
            \* msg is what the slot held when the request was posted
  sqUsed,   \* send queue entries in use: posted and completion not polled
  wire,     \* wire[e]: messages transmitted by e, not yet delivered
  cq,       \* completions not yet polled
  armed,    \* ibv_req_notify_cq armed and no event generated since
  events,   \* completion-channel events not yet taken by ibv_get_cq_event
  pc,       \* where e's event-loop thread is in handleRead
  wcs,      \* wcs_: the polled batch not yet dispatched
  linkUp    \* the link between the two NICs works

connVars == <<free, sendBuf, recvBuf, rq, sq, sqUsed, wire, cq, armed,
              events, pc, wcs, linkUp>>

Wc == [op : {"send", "recv"}, ok : BOOLEAN, slot : Slot]

\* Append the completion w to e's CQ and, if the CQ is armed, raise one
\* event on its completion channel (what the NIC and driver do).
AddCqe(cqs, arm, evs, e, w) ==
  <<[cqs EXCEPT ![e] = Append(@, w)],
    [arm EXCEPT ![e] = FALSE],
    IF arm[e] THEN [evs EXCEPT ![e] = @ + 1] ELSE evs>>

-----------------------------------------------------------------------------
(* Operations the application calls on the connection.                   *)

\* The first free slot of e (acquireFreeSendBuf), defined when free[e] is
\* not empty.
FrontFree(e) == Head(free[e])

\* The application writes the messages msgs into the distinct slots
\* slots of e and calls send() for each in turn (sendInLoop/postSend).
\* ibv_post_send fails once the send queue is full: the error is logged
\* and that message is dropped.
PostSends(e, slots, msgs) ==
  LET room == TxDepth - sqUsed[e]
      n    == IF Len(slots) <= room THEN Len(slots) ELSE room
      Written(s) == \E i \in 1 .. Len(slots) : slots[i] = s
      MsgFor(s) == msgs[CHOOSE i \in 1 .. Len(slots) : slots[i] = s]
  IN /\ sendBuf' = [sendBuf EXCEPT ![e] =
                      [s \in Slot |-> IF Written(s) THEN MsgFor(s)
                                                    ELSE @[s]]]
     /\ sq' = [sq EXCEPT ![e] =
                 @ \o [i \in 1 .. n |-> [slot |-> slots[i], msg |-> msgs[i]]]]
     /\ sqUsed' = [sqUsed EXCEPT ![e] = @ + n]

\* The slot of the receive completion the callback was handed.
CallbackSlot(e) == Head(wcs[e]).slot

\* recvSuccessCallback_ returns into the dispatch loop of handleRead.
ReturnFromCallback(e) ==
  /\ wcs' = [wcs EXCEPT ![e] = Tail(@)]
  /\ pc' = [pc EXCEPT ![e] = IF Len(wcs[e]) = 1 THEN "poll" ELSE "dispatch"]

-----------------------------------------------------------------------------
(* handleRead, run by e's event-loop thread when the completion channel  *)
(* is readable.                                                           *)

\* Mutant: the CQ is never re-armed after an event is taken.
GetCqEventNoRearm(e) ==
  /\ pc[e] = "idle"
  /\ events[e] > 0
  /\ events' = [events EXCEPT ![e] = @ - 1]
  /\ pc' = [pc EXCEPT ![e] = "poll"]
  /\ UNCHANGED <<free, sendBuf, recvBuf, rq, sq, sqUsed, wire, cq, armed,
                 wcs, linkUp>>

\* ibv_get_cq_event takes one event, every tenth is acknowledged, and
\* ibv_req_notify_cq re-arms the CQ before it is drained.
GetCqEvent(e) ==
  /\ pc[e] = "idle"
  /\ events[e] > 0
  /\ events' = [events EXCEPT ![e] = @ - 1]
  /\ armed' = [armed EXCEPT ![e] = TRUE]
  /\ pc' = [pc EXCEPT ![e] = "poll"]
  /\ UNCHANGED <<free, sendBuf, recvBuf, rq, sq, sqUsed, wire, cq, wcs,
                 linkUp>>

\* Mutant: every polled completion is counted as a finished send.
PollCqBatchCountAll(e) ==
  /\ pc[e] = "poll"
  /\ cq[e] # <<>>
  /\ LET n == IF Len(cq[e]) <= WcCapacity THEN Len(cq[e]) ELSE WcCapacity
     IN /\ wcs' = [wcs EXCEPT ![e] = SubSeq(cq[e], 1, n)]
        /\ cq' = [cq EXCEPT ![e] = SubSeq(@, n + 1, Len(@))]
        /\ sqUsed' = [sqUsed EXCEPT ![e] = @ - n]
  /\ pc' = [pc EXCEPT ![e] = "dispatch"]
  /\ UNCHANGED <<free, sendBuf, recvBuf, rq, sq, wire, armed, events,
                 linkUp>>

\* ibv_poll_cq returns up to wc_capacity_ completions; polling frees the
\* send queue entries of the send completions among them.
PollCqBatch(e) ==
  /\ pc[e] = "poll"
  /\ cq[e] # <<>>
  /\ LET n == IF Len(cq[e]) <= WcCapacity THEN Len(cq[e]) ELSE WcCapacity
         batch == SubSeq(cq[e], 1, n)
         sends == {i \in 1 .. n : batch[i].op = "send"}
     IN /\ wcs' = [wcs EXCEPT ![e] = batch]
        /\ cq' = [cq EXCEPT ![e] = SubSeq(@, n + 1, Len(@))]
        /\ sqUsed' = [sqUsed EXCEPT ![e] = @ - Cardinality(sends)]
  /\ pc' = [pc EXCEPT ![e] = "dispatch"]
  /\ UNCHANGED <<free, sendBuf, recvBuf, rq, sq, wire, armed, events,
                 linkUp>>

\* ibv_poll_cq returns 0: the do/while loop ends and handleRead returns.
PollCqEmpty(e) ==
  /\ pc[e] = "poll"
  /\ cq[e] = <<>>
  /\ pc' = [pc EXCEPT ![e] = "idle"]
  /\ UNCHANGED <<free, sendBuf, recvBuf, rq, sq, sqUsed, wire, cq, armed,
                 events, wcs, linkUp>>

\* A failed completion: the fail callback only logs, then std::terminate.
DispatchFailedWc(e) ==
  /\ pc[e] = "dispatch"
  /\ ~Head(wcs[e]).ok
  /\ pc' = [pc EXCEPT ![e] = "terminated"]
  /\ UNCHANGED <<free, sendBuf, recvBuf, rq, sq, sqUsed, wire, cq, armed,
                 events, wcs, linkUp>>

\* A successful send completion: sendCompleteSuccessCallback_ (a no-op in
\* every application of the repository).
DispatchSendWc(e) ==
  /\ pc[e] = "dispatch"
  /\ Head(wcs[e]).ok /\ Head(wcs[e]).op = "send"
  /\ wcs' = [wcs EXCEPT ![e] = Tail(@)]
  /\ pc' = [pc EXCEPT ![e] = IF Len(wcs[e]) = 1 THEN "poll" ELSE "dispatch"]
  /\ UNCHANGED <<free, sendBuf, recvBuf, rq, sq, sqUsed, wire, cq, armed,
                 events, linkUp>>

\* Mutant: the receive of the slot is not posted again.
DispatchRecvWcNoRepost(e) ==
  /\ pc[e] = "dispatch"
  /\ Head(wcs[e]).ok /\ Head(wcs[e]).op = "recv"
  /\ pc' = [pc EXCEPT ![e] = "callback"]
  /\ UNCHANGED <<free, sendBuf, recvBuf, rq, sq, sqUsed, wire, cq, armed,
                 events, wcs, linkUp>>

\* A successful receive completion: the slot's receive is posted again
\* BEFORE recvSuccessCallback_ reads the slot.
DispatchRecvWc(e) ==
  /\ pc[e] = "dispatch"
  /\ Head(wcs[e]).ok /\ Head(wcs[e]).op = "recv"
  /\ rq' = [rq EXCEPT ![e] = Append(@, CallbackSlot(e))]
  /\ pc' = [pc EXCEPT ![e] = "callback"]
  /\ UNCHANGED <<free, sendBuf, recvBuf, sq, sqUsed, wire, cq, armed,
                 events, wcs, linkUp>>

-----------------------------------------------------------------------------
(* The NICs and the link: the environment of the code.                    *)

\* e's NIC transmits its oldest posted send, reading the slot now.
Transmit(e) ==
  /\ linkUp
  /\ sq[e] # <<>>
  /\ wire' = [wire EXCEPT ![e] = Append(@, sendBuf[e][Head(sq[e]).slot])]
  /\ sq' = [sq EXCEPT ![e] = Tail(@)]
  /\ UNCHANGED <<free, sendBuf, recvBuf, rq, sqUsed, cq, armed, events, pc,
                 wcs, linkUp>>

\* The oldest message e transmitted lands in the slot of the peer's oldest
\* posted receive; the peer gets a receive completion and e, on the ACK,
\* a send completion.  With no receive posted the NIC keeps answering RNR
\* and the message waits.
Deliver(e) ==
  LET p == Peer(e)
      s == Head(rq[p])
      r == AddCqe(cq, armed, events, p, [op |-> "recv", ok |-> TRUE, slot |-> s])
      a == AddCqe(r[1], r[2], r[3], e, [op |-> "send", ok |-> TRUE, slot |-> s])
  IN /\ linkUp
     /\ wire[e] # <<>>
     /\ rq[p] # <<>>
     /\ recvBuf' = [recvBuf EXCEPT ![p][s] = Head(wire[e])]
     /\ rq' = [rq EXCEPT ![p] = Tail(@)]
     /\ wire' = [wire EXCEPT ![e] = Tail(@)]
     /\ cq' = a[1] /\ armed' = a[2] /\ events' = a[3]
     /\ UNCHANGED <<free, sendBuf, sq, sqUsed, pc, wcs, linkUp>>

\* The link breaks: nothing is transmitted or delivered any more.
LinkFail ==
  /\ LinkMayFail /\ linkUp
  /\ linkUp' = FALSE
  /\ UNCHANGED <<free, sendBuf, recvBuf, rq, sq, sqUsed, wire, cq, armed,
                 events, pc, wcs>>

\* An endpoint with an unacknowledged send on a broken link exhausts its
\* transport retries: its queue pair enters the error state and the first
\* completion it reports is a failed send (the flushed work requests that
\* follow are never polled, the process terminates at the first).
RetryExceeded(e) ==
  LET f == AddCqe(cq, armed, events, e,
                  [op |-> "send", ok |-> FALSE, slot |-> 0])
  IN /\ ~linkUp
     /\ pc[e] # "terminated"
     /\ sq[e] # <<>> \/ wire[e] # <<>>
     /\ sq' = [sq EXCEPT ![e] = <<>>]
     /\ wire' = [wire EXCEPT ![e] = <<>>]
     /\ cq' = f[1] /\ armed' = f[2] /\ events' = f[3]
     /\ UNCHANGED <<free, sendBuf, recvBuf, rq, sqUsed, pc, wcs, linkUp>>

-----------------------------------------------------------------------------

\* The constructor queues buffer pairs 0..mem_num-1 as free, in order.
InitialFree == [i \in 1 .. MemNum |-> i - 1]

\* fillRq (in connectQp) posts one receive per buffer pair, in order.
FillRq == [i \in 1 .. MemNum |-> i - 1]

\* Right after RdmaConnector::handshakeQp on both sides: connectQp posted
\* one receive per buffer pair in order (fillRq), create armed the CQ,
\* and the constructor queued every slot as free.
ConnInit ==
  /\ free = [e \in Endpoint |-> InitialFree]
  /\ sendBuf = [e \in Endpoint |-> [s \in Slot |-> NoMsg]]
  /\ recvBuf = [e \in Endpoint |-> [s \in Slot |-> NoMsg]]
  /\ rq = [e \in Endpoint |-> FillRq]
  /\ sq = [e \in Endpoint |-> <<>>]
  /\ sqUsed = [e \in Endpoint |-> 0]
  /\ wire = [e \in Endpoint |-> <<>>]
  /\ cq = [e \in Endpoint |-> <<>>]
  /\ armed = [e \in Endpoint |-> TRUE]
  /\ events = [e \in Endpoint |-> 0]
  /\ pc = [e \in Endpoint |-> "idle"]
  /\ wcs = [e \in Endpoint |-> <<>>]
  /\ linkUp = TRUE

\* The steps of handleRead other than the receive callback.
HandleReadStep(e) ==
  \/ GetCqEvent(e)
  \/ PollCqBatch(e)
  \/ PollCqEmpty(e)
  \/ DispatchFailedWc(e)
  \/ DispatchSendWc(e)
  \/ DispatchRecvWc(e)

NicStep(e) == Transmit(e) \/ Deliver(e) \/ RetryExceeded(e)

=============================================================================
