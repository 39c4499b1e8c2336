---------------------------- MODULE ChannelPoller ----------------------------
(***************************************************************************)
(* A Channel's registration with its loop's Poller (src/network/          *)
(* Channel.{h,cc}, Poller.cc, EventLoop.cc): the events it asks for, the   *)
(* Poller's index_ for it (kNew, kAdded, kDeleted), Channel::addedToLoop_, *)
(* and whether Poller::channels_ maps its fd to it.  A channel is a record *)
(* and each call an operator on it; the asserts of the calls are          *)
(* predicates on the channel they are made on.                            *)
(***************************************************************************)

\* The Channel constructor: no events, index_ = kNew (-1).
NewChannel == [events |-> {}, index |-> "new", added |-> FALSE,
               inMap |-> FALSE]

ChannelRecords ==
  [events : SUBSET {"read", "write"}, index : {"new", "added", "deleted"},
   added : BOOLEAN, inMap : BOOLEAN]

\* Poller::updateChannel's asserts: a kNew channel is not in channels_,
\* a kDeleted or kAdded one is.
PollerUpdateOk(c) ==
  /\ c.index = "new" => ~c.inMap
  /\ c.index \in {"added", "deleted"} => c.inMap

\* Poller::updateChannel: a kNew or kDeleted channel is put in channels_
\* (kNew) and added to epoll (kAdded); a kAdded one with no events is
\* deleted from epoll (kDeleted), else modified.
PollerUpdate(c) ==
  IF c.index \in {"new", "deleted"}
    THEN [c EXCEPT !.index = "added", !.inMap = TRUE]
  ELSE IF c.events = {} THEN [c EXCEPT !.index = "deleted"]
  ELSE c

\* Channel::update: addedToLoop_ = true, then EventLoop::updateChannel.
ChannelUpdate(c) == PollerUpdate([c EXCEPT !.added = TRUE])

\* Channel::enableWriting and Channel::disableAll.
EnableWriting(c) == ChannelUpdate([c EXCEPT !.events = @ \cup {"write"}])
DisableAll(c) == ChannelUpdate([c EXCEPT !.events = {}])

\* Channel::remove's assert(isNoneEvent()) and Poller::removeChannel's:
\* in channels_, kAdded or kDeleted.
ChannelRemoveOk(c) ==
  c.events = {} /\ c.inMap /\ c.index \in {"added", "deleted"}

\* Channel::remove: addedToLoop_ = false; Poller::removeChannel erases it
\* from channels_, deletes a kAdded one from epoll, and sets kNew.
ChannelRemove(c) == [c EXCEPT !.added = FALSE, !.inMap = FALSE, !.index = "new"]

\* ~Channel's asserts: not added to the loop, not in the Poller.
ChannelDestroyOk(c) == ~c.added /\ ~c.inMap

=============================================================================
