-------------------------- MODULE ConnectionCreate --------------------------
(***************************************************************************)
(* Resource set-up and teardown of one RdmaConnection:                     *)
(* DevContext::create (src/network/rdma/DevContext.cc) followed by the     *)
(* rest of RdmaConnection::create (RdmaConnection.cc), the goto chains     *)
(* that unwind a failure, connectQp (RTR, fillRq, RTS), the hand-over to  *)
(* the owner (connectEstablished) and ~RdmaConnection.                     *)
(*                                                                         *)
(* Each call that the code checks may fail; a failure jumps to the label   *)
(* the code names, and the code from that label on runs in order, falling *)
(* through the following labels.  Every handle starts as nullptr, so a     *)
(* destroy reached for a handle that was never created is a call on a     *)
(* null handle, which libibverbs dereferences: the process crashes.        *)
(* Leaving a scope releases what its unique_ptr or vector holds.           *)
(*                                                                         *)
(* A resource is the verbs object (or memory) a handle refers to:          *)
(* "devlist" (ibv_get_device_list), "ctx" (ibv_open_device, owned by the   *)
(* DevContext), "mem" (local_mem), "chan", "pd", "cq", "mr", "qp".         *)
(***************************************************************************)
EXTENDS Naturals, Sequences, SequencesExt

CONSTANTS FailCalls,  \* the checked calls that may fail in this model
          Dirs,       \* the listings readdir may give of gid_attrs/types
          MemNum      \* buffer pairs: fillRq posts one receive for each

None == "none"

Res == {"devlist", "ctx", "mem", "chan", "pd", "cq", "mr", "qp"}

\* The objects each verbs object refers to; the referenced ones must
\* outlive it (a QP uses its PD and CQ, a CQ its completion channel, an
\* MR its PD and the registered memory, all of them the device context).
DependsOn == [devlist |-> {}, ctx |-> {}, mem |-> {},
              chan |-> {"ctx"}, pd |-> {"ctx"}, cq |-> {"ctx", "chan"},
              mr |-> {"pd", "mem"}, qp |-> {"ctx", "pd", "cq"}]

-----------------------------------------------------------------------------
(* DevContext::get_rocev2_gid_index                                        *)

\* kMaxGidCount (DevContext.h): the capacity of gid_index_list_.
MaxGidCount == 256

\* An entry of .../ports/<port>/gid_attrs/types as the scan sees it: the
\* GID index atoi gives for its name, the first line of the entry
\* ("" when fopen or getline fails, as for "." and ".."), and whether
\* the GID file of that index starts with the IPv4-mapped prefix
\* (is_ipv4_gid).
Entry == [idx : Nat, type : {"", "IB/RoCE v1", "RoCE v2"}, ipv4 : BOOLEAN]

\* The readdir loop: keep the index of each RoCE v2 entry with an
\* IPv4-mapped GID, in directory order, while fewer than kMaxGidCount are
\* kept.
RECURSIVE ScanTypes(_, _)
ScanTypes(entries, kept) ==
  IF entries = <<>> \/ Len(kept) >= MaxGidCount THEN kept
  ELSE LET e == Head(entries)
       IN ScanTypes(Tail(entries),
                    IF e.type = "RoCE v2" /\ e.ipv4 THEN Append(kept, e.idx)
                                                    ELSE kept)

\* Mutant: the kept indices are not sorted.
Rocev2GidIndexNoSort(dir) == ScanTypes(dir, <<>>)

\* get_rocev2_gid_index: the scan, then qsort ascending into
\* gid_index_list_.
Rocev2GidIndex(dir) == SortSeq(ScanTypes(dir, <<>>), LAMBDA a, b : a < b)

\* The indices the spec says the list holds: every RoCE v2 entry with an
\* IPv4-mapped GID.
Eligible(dir) == {dir[i].idx : i \in {j \in DOMAIN dir : dir[j].type = "RoCE v2"
                                                    /\ dir[j].ipv4}}

-----------------------------------------------------------------------------
(* create's steps                                                          *)

\* A step of create: the call, what its success allocates and frees, the
\* label its failure jumps to (None: the code does not check it), and what
\* the jump releases by leaving a scope.
S(call, alloc, free, fail, leave) ==
  [call |-> call, alloc |-> alloc, free |-> free, fail |-> fail,
   leave |-> leave]

\* DevContext::create.  A failure after ibv_open_device jumps out of the
\* block that holds the DevContext, whose destructor closes the device.
DevSteps ==
  << S("ibv_get_device_list", {"devlist"}, {}, "fail_get_device_list", {}),
     S("num_devices", {}, {}, "clean_dev_list", {}),
     S("ib_dev_id_by_name", {}, {}, "clean_dev_list", {}),
     S("ibv_open_device", {"ctx"}, {}, "clean_dev_list", {}),
     S("get_rocev2_gid_index", {}, {}, "clean_dev_list", {"ctx"}),
     S("ibv_query_gid", {}, {}, "clean_dev_list", {"ctx"}),
     S("ibv_free_device_list", {}, {"devlist"}, None, {}) >>

\* RdmaConnection::create allocates local_mem after DevContext::create.
LocalMemStep == << S("local_mem", {"mem"}, {}, None, {}) >>

\* The rest of RdmaConnection::create, with the labels of its gotos.
ConnSteps ==
  << S("ibv_create_comp_channel", {"chan"}, {}, "fail_create_comp_channel", {}),
     S("fcntl", {}, {}, "clean_cq", {}),
     S("ibv_alloc_pd", {"pd"}, {}, "fail_create_pd", {}),
     S("ibv_query_device", {}, {}, "clean_pd", {}),
     S("ibv_query_port", {}, {}, "clean_pd", {}),
     S("tx_depth_limit", {}, {}, "clean_pd", {}),
     S("rx_depth_limit", {}, {}, "clean_pd", {}),
     S("ibv_create_cq", {"cq"}, {}, "clean_pd", {}),
     S("ibv_req_notify_cq", {}, {}, "clean_cq", {}),
     S("ibv_reg_mr", {"mr"}, {}, "clean_cq", {}),
     S("ibv_create_qp", {"qp"}, {}, "clean_mr", {}),
     S("ibv_modify_qp", {}, {}, "clean_qp", {}) >>

CreateSteps == DevSteps \o LocalMemStep \o ConnSteps

\* The code after each label: the handle it destroys and the label it
\* falls through to ("return": the function returns the error).
DevUnwind ==
  [clean_dev_list |-> [destroy |-> "devlist", then |-> "fail_get_device_list"],
   fail_get_device_list |-> [destroy |-> None, then |-> "return"]]

\* Mutant: clean_mr falls through past clean_cq.
ConnUnwindSkipCq ==
  [clean_qp |-> [destroy |-> "qp", then |-> "clean_mr"],
   clean_mr |-> [destroy |-> "mr", then |-> "clean_pd"],
   clean_cq |-> [destroy |-> "cq", then |-> "clean_pd"],
   clean_pd |-> [destroy |-> "pd", then |-> "fail_create_pd"],
   fail_create_pd |-> [destroy |-> "chan", then |-> "fail_create_comp_channel"],
   fail_create_comp_channel |-> [destroy |-> None, then |-> "return"]]

ConnUnwind ==
  [clean_qp |-> [destroy |-> "qp", then |-> "clean_mr"],
   clean_mr |-> [destroy |-> "mr", then |-> "clean_cq"],
   clean_cq |-> [destroy |-> "cq", then |-> "clean_pd"],
   clean_pd |-> [destroy |-> "pd", then |-> "fail_create_pd"],
   fail_create_pd |-> [destroy |-> "chan", then |-> "fail_create_comp_channel"],
   fail_create_comp_channel |-> [destroy |-> None, then |-> "return"]]

Unwind == DevUnwind @@ ConnUnwind

\* Mutant: ~RdmaConnection deallocates the PD before deregistering the MR.
DestructorOrderPdFirst == <<"qp", "cq", "pd", "mr", "chan", "ctx", "mem">>

\* ~RdmaConnection destroys the non-null handles in its body, then the
\* members dev_ctx_ (closing the device) and local_mem_ are destroyed in
\* reverse order of declaration.
DestructorOrder == <<"qp", "cq", "mr", "pd", "chan", "ctx", "mem">>

\* The handles destroyed when create returns: the DevContext's unique_ptr
\* and the local_mem vector (moved into the connection on success).
Scoped == {"ctx", "mem"}

VARIABLES
  pc,    \* <<"step", i>>: about to make CreateSteps[i]; <<"label", l>>:
         \* at label l; <<"return">>; <<"failed">> (create returned);
         \* <<"created">> (the RdmaConnection owns the resources);
         \* <<"fill">>, <<"rts">>: in connectQp; <<"qpfailed">>;
         \* <<"established">> (the owner holds it, connectEstablished ran);
         \* <<"dtor", i>>: ~RdmaConnection at DestructorOrder[i];
         \* <<"destroyed">>; <<"crashed">>
  live,  \* the resources created and not yet destroyed
  posted, \* receives fillRq has posted
  gids,   \* DevContext::gid_index_list_ (its first gid_count_ entries)
  eligible \* history: the eligible indices of the directory scanned

vars == <<pc, live, posted, gids, eligible>>

PcValues ==
  ({"step"} \X (1 .. Len(CreateSteps))) \cup ({"label"} \X DOMAIN Unwind)
  \cup ({"dtor"} \X (1 .. Len(DestructorOrder)))
  \cup {<<"return">>, <<"failed">>, <<"created">>, <<"destroyed">>,
      <<"crashed">>, <<"fill">>, <<"rts">>, <<"qpfailed">>,
      <<"established">>}

TypeOK ==
  /\ pc \in PcValues /\ live \subseteq Res /\ posted \in 0 .. MemNum
  /\ gids \in Seq(Nat) /\ eligible \subseteq Nat

Init ==
  /\ pc = <<"step", 1>> /\ live = {} /\ posted = 0
  /\ gids = <<>> /\ eligible = {}

\* Mutant: the last step of create does not end the sequence.
StepOkOffByOne ==
  /\ pc[1] = "step"
  /\ LET s == CreateSteps[pc[2]] IN
       /\ s.call # "get_rocev2_gid_index"
       /\ live' = (live \cup s.alloc) \ s.free
       /\ pc' = IF pc[2] <= Len(CreateSteps) THEN <<"step", pc[2] + 1>>
                                             ELSE <<"created">>
  /\ UNCHANGED <<posted, gids, eligible>>

\* The call succeeds: the next step, or, after ibv_modify_qp to INIT, the
\* RdmaConnection is constructed and owns every handle.
StepOk ==
  /\ pc[1] = "step"
  /\ LET s == CreateSteps[pc[2]] IN
       /\ s.call # "get_rocev2_gid_index"
       /\ live' = (live \cup s.alloc) \ s.free
       /\ pc' = IF pc[2] < Len(CreateSteps) THEN <<"step", pc[2] + 1>>
                                            ELSE <<"created">>
  /\ UNCHANGED <<posted, gids, eligible>>

\* The call fails and the code jumps to its label.
StepFail ==
  /\ pc[1] = "step"
  /\ LET s == CreateSteps[pc[2]] IN
       /\ s.call # "get_rocev2_gid_index"
       /\ s.fail # None /\ s.call \in FailCalls
       /\ live' = live \ s.leave
       /\ pc' = <<"label", s.fail>>
  /\ UNCHANGED <<posted, gids, eligible>>

\* DevContext::create calls get_rocev2_gid_index on the directory the
\* kernel lists, and jumps to clean_dev_list (closing the device as the
\* DevContext goes out of scope) when no GID was kept.
ScanGids ==
  /\ pc[1] = "step"
  /\ LET s == CreateSteps[pc[2]] IN
       /\ s.call = "get_rocev2_gid_index"
       /\ \E dir \in Dirs :
            /\ gids' = Rocev2GidIndex(dir)
            /\ eligible' = Eligible(dir)
            /\ IF gids' = <<>>
                 THEN /\ pc' = <<"label", s.fail>>
                      /\ live' = live \ s.leave
                 ELSE /\ pc' = <<"step", pc[2] + 1>>
                      /\ UNCHANGED live
  /\ UNCHANGED posted

\* The code after a label destroys its handle (if it names one) and falls
\* through.
UnwindDestroy ==
  /\ pc[1] = "label"
  /\ LET u == Unwind[pc[2]] IN
       /\ u.destroy = None \/ u.destroy \in live
       /\ live' = live \ {u.destroy}
       /\ pc' = IF u.then = "return" THEN <<"return">> ELSE <<"label", u.then>>
  /\ UNCHANGED <<posted, gids, eligible>>

\* The handle the label destroys is still nullptr: the destroy call
\* dereferences it.
UnwindNullDestroy ==
  /\ pc[1] = "label"
  /\ LET u == Unwind[pc[2]] IN
       /\ u.destroy # None /\ u.destroy \notin live
       /\ pc' = <<"crashed">>
       /\ UNCHANGED live
  /\ UNCHANGED <<posted, gids, eligible>>

\* create returns the error; the DevContext and local_mem go out of scope.
ReturnError ==
  /\ pc = <<"return">>
  /\ pc' = <<"failed">>
  /\ live' = live \ Scoped
  /\ UNCHANGED <<posted, gids, eligible>>

-----------------------------------------------------------------------------
(* After create: connectQp and the hand-over to the owner                 *)

\* handshakeQp read the peer's record and calls connectQp: modify the QP
\* to RTR; on failure connectQp returns the error.
ModifyQpRtr ==
  /\ pc = <<"created">>
  /\ \/ pc' = <<"fill">>
     \/ "ibv_modify_qp_rtr" \in FailCalls /\ pc' = <<"qpfailed">>
  /\ UNCHANGED <<live, posted, gids, eligible>>

\* Mutant: fillRq stops one buffer pair short.
PostRecvOffByOne ==
  /\ pc = <<"fill">>
  /\ \/ /\ posted < MemNum - 1
        /\ posted' = posted + 1
        /\ UNCHANGED pc
     \/ posted >= MemNum - 1 /\ pc' = <<"rts">> /\ UNCHANGED posted
     \/ /\ posted < MemNum - 1 /\ "ibv_post_recv" \in FailCalls
        /\ pc' = <<"qpfailed">> /\ UNCHANGED posted
  /\ UNCHANGED <<live, gids, eligible>>

\* fillRq: postRecv for each buffer pair in turn; the first failure
\* returns the error (the receives already posted stay posted).
PostRecv ==
  /\ pc = <<"fill">>
  /\ \/ /\ posted < MemNum
        /\ posted' = posted + 1
        /\ UNCHANGED pc
     \/ posted = MemNum /\ pc' = <<"rts">> /\ UNCHANGED posted
     \/ /\ posted < MemNum /\ "ibv_post_recv" \in FailCalls
        /\ pc' = <<"qpfailed">> /\ UNCHANGED posted
  /\ UNCHANGED <<live, gids, eligible>>

\* Modify the QP to RTS; on success handshakeQp runs newRdmaConnection:
\* the RdmaClient or RdmaServer stores the connection for good and calls
\* connectEstablished, which registers the completion channel's Channel.
ModifyQpRts ==
  /\ pc = <<"rts">>
  /\ \/ pc' = <<"established">>
     \/ "ibv_modify_qp_rts" \in FailCalls /\ pc' = <<"qpfailed">>
  /\ UNCHANGED <<live, posted, gids, eligible>>

\* The RdmaConnector holds the only reference to a connection that was
\* not handed over: after a failed connectQp it shuts the TCP connection
\* down, and if the peer's record never comes the TCP connection closes
\* too; the TcpConnection and its RdmaConnector go, and the connection
\* with them.
Release ==
  /\ pc \in {<<"created">>, <<"qpfailed">>}
  /\ pc' = <<"dtor", 1>>
  /\ UNCHANGED <<live, posted, gids, eligible>>

\* ~RdmaConnection: each handle is destroyed if it is not nullptr.
DtorStep ==
  /\ pc[1] = "dtor"
  /\ live' = live \ {DestructorOrder[pc[2]]}
  /\ pc' = IF pc[2] < Len(DestructorOrder) THEN <<"dtor", pc[2] + 1>>
                                           ELSE <<"destroyed">>
  /\ UNCHANGED <<posted, gids, eligible>>

Next ==
  \/ StepOk \/ StepFail \/ ScanGids \/ UnwindDestroy \/ UnwindNullDestroy
  \/ ReturnError \/ DtorStep
  \/ ModifyQpRtr \/ PostRecv \/ ModifyQpRts \/ Release

Spec == Init /\ [][Next]_vars

-----------------------------------------------------------------------------
(* Properties                                                             *)

\* Whatever call fails, create returns with nothing left allocated, and
\* a successful create leaves the RdmaConnection owning exactly what it
\* created (the device list freed), which its destructor releases in
\* full: the goto labels and the destructor together match the
\* allocations one for one.  (A path that crashes on a null handle, the
\* fcntl failure, never returns.)
NoLeak ==
  /\ pc \in {<<"failed">>, <<"destroyed">>} => live = {}
  /\ pc[1] \in {"created", "fill", "rts", "qpfailed", "established"}
     => live = Res \ {"devlist"}

\* A connection reaches its owner (and traffic) only with a receive
\* posted for every buffer pair: the state RdmaConnection's steady-state
\* model starts from.
EstablishedWithFullRq == pc = <<"established">> => posted = MemNum

\* No verbs object is destroyed while another live object still refers
\* to it, on the unwind paths of create as in ~RdmaConnection (the spec:
\* the queue pair first, in dependency order).
DependencyOrder ==
  [][\A r \in live \ live' : \A d \in live' : r \notin DependsOn[d]]_vars

\* The GID list a DevContext is created with holds exactly the RoCE v2,
\* IPv4-mapped GID indices of the device's port, ascending, so that
\* gid_index_list_[0], the GID every exchange record advertises, is the
\* smallest of them whatever order readdir lists the directory in.
GidListSorted ==
  pc[1] \in {"created", "fill", "rts", "qpfailed", "established"}
  => gids = SetToSortSeq(eligible, LAMBDA a, b : a < b)

====
