----------------------------- MODULE DocaEngine -----------------------------
(***************************************************************************)
(* Set-up and hand-over of the DOCA compress engine the DPU decompresses   *)
(* with: CompressEngine::create (src/doca/compress.cc) with                *)
(* DocaCore::create (src/doca/core.cc) inside it, the goto chains that     *)
(* unwind a failed call, and the C++ objects the engine then passes        *)
(* through on its way to DecompressClientEpoll::compress_engine_           *)
(* (dpu_main.cc runDecompressClient): each is move-constructed from the    *)
(* one before and destroyed at the end of its scope.                       *)
(*                                                                         *)
(* A resource is a DOCA object or registration: "dev" (the opened device), *)
(* "compress", "ctx_dev" (doca_ctx_dev_add), "ctx_started", "buf_inv",     *)
(* "buf_inv_started", "workq", "workq_in_ctx" (doca_ctx_workq_add).  A     *)
(* local pointer the unwind passes to a destroy call before any call      *)
(* assigned it is indeterminate: the call may crash or fail harmlessly.   *)
(***************************************************************************)
EXTENDS Naturals, Sequences, FiniteSets, TLC

CONSTANT EngineFailCalls   \* the checked DOCA calls that may fail

NoLabel == "none"

\* A call of create: what its success creates, the local pointer it
\* assigns, and the label its failure jumps to (NoLabel: the code only
\* logs; "return": create returns the error at once).
Call(name, alloc, assign, fail) ==
  [name |-> name, alloc |-> alloc, assign |-> assign, fail |-> fail]

\* CompressEngine::create up to its call of DocaCore::create.
EngineCalls ==
  << Call("parse_pci_addr", {}, {}, "return"),
     Call("open_doca_device_with_pci", {"dev"}, {"dev"}, "FAIL_OPEN_DOCA_DEVICE"),
     Call("doca_compress_create", {"compress"}, {"compress"}, "return"),
     Call("doca_compress_as_ctx", {}, {}, "return") >>

\* DocaCore::create(ctx, dev, ...).
CoreCalls ==
  << Call("doca_ctx_dev_add", {"ctx_dev"}, {}, "fail_ctx_dev_add"),
     Call("doca_ctx_start", {"ctx_started"}, {}, "fail_ctx_start"),
     Call("doca_buf_inventory_create", {"buf_inv"}, {"buf_inv"}, "fail_buf_inv"),
     Call("doca_buf_inventory_start", {"buf_inv_started"}, {},
          "fail_buf_inventory_start"),
     Call("doca_workq_create", {"workq"}, {"workq"}, "fail_workq_create"),
     Call("doca_workq_get_depth", {}, {}, NoLabel),
     Call("doca_ctx_get_event_driven_supported", {}, {}, NoLabel),
     Call("doca_workq_set_event_driven_enable", {}, {}, "fail_ctx_workq_add"),
     Call("doca_workq_get_event_handle", {}, {}, "fail_ctx_workq_add"),
     Call("doca_ctx_workq_add", {"workq_in_ctx"}, {}, "fail_ctx_workq_add"),
     Call("doca_workq_event_handle_arm", {}, {}, "fail_ctx_workq_add"),
     Call("doca_workq_get_event_driven_enable", {}, {}, NoLabel) >>

SetupCalls == EngineCalls \o CoreCalls

\* The code after each label of DocaCore::create: the resource its call
\* releases, the local pointer it passes, and the label it falls through
\* to.  fail_buf_inv ends DocaCore::create, whose error sends
\* CompressEngine::create to FAIL_CREATE_DOCA_CORE.
CoreUnwind ==
  [fail_ctx_workq_add |-> [res |-> "workq", via |-> "workq",
                           then |-> "fail_workq_create"],
   fail_workq_create |-> [res |-> "ctx_started", via |-> NoLabel,
                          then |-> "fail_ctx_start"],
   fail_ctx_start |-> [res |-> "ctx_dev", via |-> NoLabel,
                       then |-> "fail_ctx_dev_add"],
   fail_ctx_dev_add |-> [res |-> "buf_inv_started", via |-> "buf_inv",
                         then |-> "fail_buf_inventory_start"],
   fail_buf_inventory_start |-> [res |-> "buf_inv", via |-> "buf_inv",
                                 then |-> "fail_buf_inv"],
   fail_buf_inv |-> [res |-> NoLabel, via |-> NoLabel,
                     then |-> "FAIL_CREATE_DOCA_CORE"]]

\* The labels of CompressEngine::create: both destroy compress.
EngineUnwind ==
  [FAIL_CREATE_DOCA_CORE |-> [res |-> NoLabel, via |-> NoLabel,
                              then |-> "FAIL_OPEN_DOCA_DEVICE"],
   FAIL_OPEN_DOCA_DEVICE |-> [res |-> "compress", via |-> "compress",
                              then |-> "return"]]

Unwind == CoreUnwind @@ EngineUnwind

\* What ~DocaCore releases when none of its four pointers is null.
CoreRes == {"workq_in_ctx", "workq", "ctx_started", "ctx_dev", "dev", "buf_inv"}

\* The objects that hold the engine's pointers on their way to the
\* DecompressClientEpoll: the DocaCore built by DocaCore::create's return
\* statement, the tl::expected it is moved into, CompressEngine's
\* by-value DocaCore parameter; the CompressEngine built by create's
\* return statement, the tl::expected it is moved into, the
\* DecompressClientEpoll constructor's by-value parameter and its
\* compress_engine_ member.
EngineSlots == {"engTmp", "engExp", "engParam", "member"}
Slots == {"coreTmp", "coreExp", "coreParam"} \cup EngineSlots

\* The object lifetimes of a successful create, in program order.
Life ==
  << [op |-> "construct_core", to |-> "coreTmp"],
     [op |-> "move_core", from |-> "coreTmp", to |-> "coreExp"],
     [op |-> "destroy_core", at |-> "coreTmp"],
     [op |-> "move_core", from |-> "coreExp", to |-> "coreParam"],
     [op |-> "construct_engine", from |-> "coreParam", to |-> "engTmp"],
     [op |-> "move_engine", from |-> "engTmp", to |-> "engExp"],
     [op |-> "destroy_engine", at |-> "engTmp"],
     [op |-> "destroy_core", at |-> "coreParam"],
     [op |-> "destroy_core", at |-> "coreExp"],
     [op |-> "move_engine", from |-> "engExp", to |-> "engParam"],
     [op |-> "move_engine", from |-> "engParam", to |-> "member"],
     [op |-> "destroy_engine", at |-> "engParam"] >>

VARIABLES
  epc,      \* <<"call", i>>: about to make SetupCalls[i]; <<"label", l>>;
            \* <<"life", i>>: at Life[i]; <<"ready">>: DecompressClientEpoll
            \* holds the engine (p.set_value); <<"started">>: decompressStart
            \* enabled the channel; <<"failed">>: create returned an error
            \* (runDecompressClient returns, the promise is broken);
            \* <<"crashed">>
  elive,    \* the resources created and not yet released
  assigned, \* the local pointers of create that a call has assigned
  own,      \* own[s]: which of the engine's pointers object s holds
  cbTarget, \* the object the engine Channel's read callback calls
  alive,    \* the objects constructed and not yet destroyed
  twice     \* history: a destructor released a resource already released

engineVars == <<epc, elive, assigned, own, cbTarget, alive, twice>>

NoOwn == [core |-> FALSE, compress |-> FALSE, channel |-> FALSE]

EngineInit ==
  /\ epc = <<"call", 1>> /\ elive = {} /\ assigned = {}
  /\ own = [s \in Slots |-> NoOwn] /\ cbTarget = NoLabel
  /\ alive = {} /\ twice = FALSE

\* The call succeeds.  After the last call DocaCore::create returns the
\* core and the objects' lifetimes begin.
SetupOk ==
  /\ epc[1] = "call"
  /\ LET c == SetupCalls[epc[2]] IN
       /\ elive' = elive \cup c.alloc
       /\ assigned' = assigned \cup c.assign
       /\ epc' = IF epc[2] < Len(SetupCalls) THEN <<"call", epc[2] + 1>>
                                             ELSE <<"life", 1>>
  /\ UNCHANGED <<own, cbTarget, alive, twice>>

\* The call fails: create returns the error, or jumps to its label.
SetupFail ==
  /\ epc[1] = "call"
  /\ LET c == SetupCalls[epc[2]] IN
       /\ c.fail # NoLabel /\ c.name \in EngineFailCalls
       /\ epc' = IF c.fail = "return" THEN <<"failed">> ELSE <<"label", c.fail>>
  /\ UNCHANGED <<elive, assigned, own, cbTarget, alive, twice>>

Fallthrough(u) == IF u.then = "return" THEN <<"failed">> ELSE <<"label", u.then>>

\* The code at a label releases its resource and falls through.
UnwindStep ==
  /\ epc[1] = "label"
  /\ LET u == Unwind[epc[2]] IN
       /\ u.via = NoLabel \/ u.via \in assigned
       /\ elive' = elive \ {u.res}
       /\ epc' = Fallthrough(u)
  /\ UNCHANGED <<assigned, own, cbTarget, alive, twice>>

\* The label's call gets a pointer no call assigned: the call on an
\* indeterminate pointer crashes, or fails and the unwind goes on.
UnwindIndeterminate ==
  /\ epc[1] = "label"
  /\ LET u == Unwind[epc[2]] IN
       /\ u.via # NoLabel /\ u.via \notin assigned
       /\ epc' \in {<<"crashed">>, Fallthrough(u)}
  /\ UNCHANGED <<elive, assigned, own, cbTarget, alive, twice>>

\* Release the resources S; releasing one that is gone is recorded.
Release(S) ==
  /\ elive' = elive \ S
  /\ twice' = (twice \/ ~(S \subseteq elive))

\* Mutant: DocaCore's move constructor leaves the source's pointers.
CoreHandOverNoNull(o, from, to) == [o EXCEPT ![to].core = o[from].core]

\* DocaCore's move constructor: take the pointers, null the source's.
CoreHandOver(o, from, to) ==
  [o EXCEPT ![to].core = o[from].core, ![from].core = FALSE]

\* ~DocaCore: nothing when a pointer is null, else release everything.
CoreDtorRes(o, s) == IF o[s].core THEN CoreRes ELSE {}

\* ~CompressEngine: with compress_ set, swap the core out and destroy it,
\* then doca_compress_destroy; with compress_ null return at once.  The
\* core_ member is destroyed after the body either way.
EngineDtorRes(o, s) ==
  CoreDtorRes(o, s) \cup (IF o[s].compress THEN {"compress"} ELSE {})

\* The CompressEngine constructor: compress_, core_ moved from the
\* parameter, a new Channel on the workq's event handle whose callbacks
\* call this object.
ConstructEngine(o, from, to) ==
  [CoreHandOver(o, from, to) EXCEPT ![to].compress = TRUE, ![to].channel = TRUE]

\* CompressEngine's move constructor: compress_, core_ (DocaCore's move)
\* and channel_ (a unique_ptr) taken, the Channel's callbacks re-bound
\* to this object, the source's compress_ nulled.
MoveEngine(o, from, to) ==
  [CoreHandOver(o, from, to) EXCEPT ![to].compress = o[from].compress,
                                    ![to].channel = o[from].channel,
                                    ![from].compress = FALSE,
                                    ![from].channel = FALSE]

\* One object lifetime event of a successful create.
LifeStep ==
  /\ epc[1] = "life"
  /\ LET e == Life[epc[2]] IN
       \/ /\ e.op = "construct_core"
          /\ own' = [own EXCEPT ![e.to].core = TRUE]
          /\ alive' = alive \cup {e.to}
          /\ UNCHANGED <<elive, cbTarget, twice>>
       \/ /\ e.op = "move_core"
          /\ own' = CoreHandOver(own, e.from, e.to)
          /\ alive' = alive \cup {e.to}
          /\ UNCHANGED <<elive, cbTarget, twice>>
       \/ /\ e.op = "construct_engine"
          /\ own' = ConstructEngine(own, e.from, e.to)
          /\ alive' = alive \cup {e.to} /\ cbTarget' = e.to
          /\ UNCHANGED <<elive, twice>>
       \/ /\ e.op = "move_engine"
          /\ own' = MoveEngine(own, e.from, e.to)
          /\ alive' = alive \cup {e.to} /\ cbTarget' = e.to
          /\ UNCHANGED <<elive, twice>>
       \/ /\ e.op \in {"destroy_core", "destroy_engine"}
          /\ Release(IF e.op = "destroy_core" THEN CoreDtorRes(own, e.at)
                                              ELSE EngineDtorRes(own, e.at))
          /\ own' = [own EXCEPT ![e.at] = NoOwn]
          /\ alive' = alive \ {e.at}
          /\ UNCHANGED cbTarget
  /\ epc' = IF epc[2] < Len(Life) THEN <<"life", epc[2] + 1>> ELSE <<"ready">>
  /\ UNCHANGED assigned

\* decompressStart: CompressEngine::start enables reading on the channel.
EngineStart ==
  /\ epc = <<"ready">>
  /\ epc' = <<"started">>
  /\ UNCHANGED <<elive, assigned, own, cbTarget, alive, twice>>

EngineNext ==
  \/ SetupOk \/ SetupFail \/ UnwindStep \/ UnwindIndeterminate
  \/ LifeStep \/ EngineStart

EngineStarted == epc = <<"started">>

-----------------------------------------------------------------------------
(* Properties                                                             *)

\* Through every move of the hand-over and every destructor of a
\* moved-from object, the engine's DOCA objects have exactly one owner:
\* no two live objects hold the DocaCore pointers or compress_, whatever
\* holds the core holds live resources, no destructor releases a
\* resource twice, the Channel always calls back into the object that
\* owns it, and the DecompressClientEpoll ends up owning all of it.
EngineSingleOwner ==
  /\ ~twice
  /\ \A k \in {"core", "compress"} :
       Cardinality({s \in alive : own[s][k]}) <= 1
  /\ \A s \in alive : own[s].core => CoreRes \subseteq elive
  /\ \A s \in alive : own[s].channel => cbTarget = s
  /\ epc \in {<<"ready">>, <<"started">>} =>
       own["member"] = [core |-> TRUE, compress |-> TRUE, channel |-> TRUE]

====
