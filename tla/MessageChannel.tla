--------------------------- MODULE MessageChannel ---------------------------
(***************************************************************************)
(* What an established RdmaConnection pair promises its users: every      *)
(* message an endpoint hands to send() reaches the peer's receive         *)
(* callback at most once, unaltered and in the order it was sent.  A      *)
(* message may stay in transit forever (a broken link is never reported   *)
(* to the receiver), so this specification says nothing about progress.   *)
(*                                                                         *)
(* chan[e] is the sequence of messages sent by e and not yet received by  *)
(* its peer; got[e] is the sequence of messages e's receive callback has  *)
(* been handed.  A receive handler may send a batch of messages in the    *)
(* same step, as the handlers of the application layer do.                *)
(***************************************************************************)
EXTENDS Sequences, SequencesExt

CONSTANTS Endpoint,   \* the two ends of the connection
          Peer(_),    \* the other end
          Msg,        \* the messages users send
          MaxBatch    \* the largest batch one handler sends

VARIABLES chan, got

vars == <<chan, got>>

TypeOK ==
  /\ chan \in [Endpoint -> Seq(Msg)]
  /\ got \in [Endpoint -> Seq(Msg)]

Init ==
  /\ chan = [e \in Endpoint |-> <<>>]
  /\ got = [e \in Endpoint |-> <<>>]

\* e sends the non-empty batch ms.
Send(e, ms) ==
  /\ ms # <<>>
  /\ chan' = [chan EXCEPT ![e] = @ \o ms]
  /\ UNCHANGED got

\* e's receive callback is handed the oldest message its peer sent, and
\* the callback sends the (possibly empty) batch ms.
Receive(e, ms) ==
  /\ chan[Peer(e)] # <<>>
  /\ got' = [got EXCEPT ![e] = Append(@, Head(chan[Peer(e)]))]
  /\ chan' = [chan EXCEPT ![Peer(e)] = Tail(@), ![e] = @ \o ms]

Next ==
  \E e \in Endpoint, ms \in BoundedSeq(Msg, MaxBatch) :
    Send(e, ms) \/ Receive(e, ms)

Spec == Init /\ [][Next]_vars

=============================================================================
