------------------------- MODULE DecompressPipeline -------------------------
(***************************************************************************)
(* The decompress pipeline between the DPU and the host:                   *)
(*   - DecompressClientEpoll (src/dpu/decompress_client_epoll.cc) on the  *)
(*     DPU receives layer segments from the ContentFetcher, runs them     *)
(*     through the DOCA compress engine (one job at a time, into one of   *)
(*     the engine's bufpairs whose dst memory is host memory) and tells   *)
(*     the host with a DecompressFinishRequest; uncompressed segments are *)
(*     sent inline in the request;                                        *)
(*   - DecompressServerEpoll (src/host/client/decompress_server_epoll.cc) *)
(*     on the host answers each request and hands the segment to the      *)
(*     untar engine.                                                      *)
(* Both run on single-threaded event loops; the RDMA connection between   *)
(* them is a reliable FIFO channel (ContentRpc checks that refinement),   *)
(* and the client's send slots are a count of free slots.  A segment is   *)
(* the pair <<layer, index>>; the data a bufpair holds is the segment it  *)
(* was decompressed from, or Partial while the engine is writing it.      *)
(***************************************************************************)
EXTENDS Naturals, Sequences, FiniteSets

CONSTANTS Layers,       \* layers fetched (model values)
          CompressedModes, \* values of content_server_layer_is_compressed
          Segments,     \* total_segments of every layer
          MemNum,       \* send slots of the client's RdmaConnection
          BufpairNum,   \* bufpairs of the DOCA compress engine
          DocaMayFail,  \* DOCA calls may return an error
          BlobNum       \* blob_num: the blobs BlobPool is constructed with

ASSUME /\ Segments \in Nat \ {0} /\ MemNum \in Nat \ {0}
       /\ BufpairNum \in Nat \ {0}
       /\ CompressedModes \subseteq BOOLEAN /\ DocaMayFail \in BOOLEAN
       /\ BlobNum \in Nat \ {0}

Seg == Layers \X (0 .. Segments - 1)
Bufpair == 0 .. BufpairNum - 1
Partial == <<"partial">>      \* dst memory the engine is still writing
NoData == <<"nodata">>
NoJob == [seg |-> NoData, buf |-> 0, inWorkq |-> FALSE]
\* RdmaInfo: what a DecompressFinishRequest carries.
RdmaInfo == [seg : Seg, buf : Bufpair, inline : BOOLEAN]
Request == [type : {"mmap"}] \cup [type : {"finish"}, info : RdmaInfo]
Response == [type : {"mmap"}] \cup
            [type : {"finish"}, buf : Bufpair, inline : BOOLEAN]
UB == {"null_conn", "empty_send_buf", "export_desc"}

VARIABLES
  compressed,      \* GetLayerResponse.iscompressed (one flag for the run)
  connectCalled,   \* OffloadServerEpoll called DecompressClientEpoll::connect
  conn,            \* conn_ is set (onConnected ran)
  connected,       \* connected_: the MmapInfoResponse was handled
  freeSend,        \* free send slots of conn_
  inflight,        \* length of inflight_sends_
  pendingCompress, \* pending_compress_jobs_
  pendingRdma,     \* pending_rdma_jobs_
  busy,            \* decompress_busy_ (= the engine's engine_busy_)
  freeBufpairs,    \* the engine's free_bufpairs_ (a stack)
  job,             \* compress_job_
  dst,             \* dst[b]: what bufpair b's dst memory holds
  c2s, s2c,        \* requests and responses on the RDMA connection
  next,            \* next[l]: index of the next segment of l to arrive
  untarLog,        \* history: what the server handed to UntarEngine::untar
  failed,          \* a DOCA call returned an error
  ub,              \* undefined behaviour the code reached
  pool,            \* BlobPool::blobs_.size()
  blobsMade        \* the blobs BlobPool has constructed

blobVars == <<pool, blobsMade>>
vars == <<compressed, connectCalled, conn, connected, freeSend, inflight,
          pendingCompress, pendingRdma, busy, freeBufpairs, job, dst, c2s, s2c,
          next, untarLog, failed, ub, blobVars>>

TypeOK ==
  /\ compressed \in CompressedModes
  /\ connectCalled \in BOOLEAN /\ conn \in BOOLEAN /\ connected \in BOOLEAN
  /\ freeSend \in 0 .. MemNum /\ inflight \in 0 .. MemNum
  /\ pendingCompress \in Seq(Seg) /\ pendingRdma \in Seq(RdmaInfo)
  /\ busy \in BOOLEAN /\ freeBufpairs \in Seq(Bufpair)
  /\ job \in [seg : Seg, buf : Bufpair, inWorkq : BOOLEAN] \cup {NoJob}
  /\ dst \in [Bufpair -> Seg \cup {NoData, Partial}]
  /\ c2s \in Seq(Request) /\ s2c \in Seq(Response)
  /\ next \in [Layers -> 0 .. Segments]
  /\ untarLog \in Seq([seg : Seg, data : Seg \cup {NoData, Partial}])
  /\ failed \in BOOLEAN /\ ub \subseteq UB
  /\ pool \in Nat /\ blobsMade \in Nat

-----------------------------------------------------------------------------

-----------------------------------------------------------------------------
(* BlobPool (src/utils/blob_pool.h), shared by the ContentFetcher's loop  *)
(* and this one under its mutex; blob_cap_ is not 0, so is_use holds.     *)

\* BlobPool::kInc
KInc == 4

\* acquireBlob: when blobs_ is empty, construct kInc more; pop the back.
AcquireBlob(p) == IF p = 0 THEN KInc - 1 ELSE p - 1
BlobsAfterAcquire(p, made) == IF p = 0 THEN made + KInc ELSE made

\* releaseBlob: push the blob back.
ReleaseBlob(p) == p + 1

-----------------------------------------------------------------------------
(* CompressEngine (src/doca/compress.h, compress.cc).                     *)

\* The CompressEngine constructor makes mem_num bufpairs and pushes their
\* ids 0 .. mem_num-1 onto free_bufpairs_.
EngineFreeBufpairs == [i \in 1 .. BufpairNum |-> i - 1]

\* The DOCA calls of mmap_start (set_memrange, set_permissions when a mask
\* is given, buf_inventory_buf_by_addr) can each fail; doca_mmap_start's
\* result is overwritten and never looked at.
MmapStartErrors == {"memrange", "permissions", "buf_by_addr"}

\* mmap_export_dpu: doca_mmap_export_dpu can fail.
MmapExportErrors == {"export_dpu"}

\* mmap_create_from_export: doca_mmap_create_from_export and
\* buf_inventory_buf_by_addr can fail.
MmapCreateFromExportErrors == {"create_from_export", "buf_by_addr"}

\* The result of an engine call: DOCA_SUCCESS, or when DOCA calls may fail
\* one of the errors of the calls it makes.
DocaResult(errors) == {"ok"} \cup (IF DocaMayFail THEN errors ELSE {})

\* src_mmaps_start and dst_mmaps_start: for each bufpair, create_mmap (null
\* on failure) and mmap_start; the first error is returned.
SrcMmapsStart == DocaResult({"create_mmap"} \cup MmapStartErrors)
DstMmapsStart == DocaResult({"create_mmap"} \cup MmapStartErrors)

\* dst_mmaps_export_dpu: mmap_export_dpu for each bufpair, stopping at the
\* first error.
DstMmapsExportDpu == DocaResult(MmapExportErrors)

\* dst_mmaps_create_from_export: create_mmap and mmap_create_from_export
\* for each bufpair and the export descriptor the host sent for it.
DstMmapsCreateFromExport ==
  DocaResult({"create_mmap"} \cup MmapCreateFromExportErrors)

\* DocaCore::submit_job: doca_workq_submit, which may fail; the error is
\* returned, and logged.
SubmitJob == DocaResult({"submit"})

\* start_job: assert the engine idle, remember the bufpair as
\* ongoing_bufpair_id_, submit the job from its src to its dst memory and
\* set engine_busy_ whatever submit_job returned; the engine writes the dst
\* memory until the job is done.  A job that was not submitted never
\* completes.
StartJob(seg, b, d) ==
  /\ \E r \in SubmitJob : job' = [seg |-> seg, buf |-> b, inWorkq |-> r = "ok"]
  /\ busy' = TRUE /\ dst' = [d EXCEPT ![b] = Partial]

AcquireFreeBufpair(fbp) == SubSeq(fbp, 1, Len(fbp) - 1)

\* Mutant: the job is taken from the back of pending_compress_jobs_.
TryStartDecompressJobLifo(pcq, fbp, d, p) ==
  IF pcq = <<>> \/ fbp = <<>>
  THEN /\ pendingCompress' = pcq /\ freeBufpairs' = fbp /\ dst' = d
       /\ busy' = FALSE /\ pool' = p /\ UNCHANGED <<job, failed>>
  ELSE LET b == fbp[Len(fbp)]
       IN /\ job' = [seg |-> pcq[Len(pcq)], buf |-> b, inWorkq |-> TRUE]
          /\ freeBufpairs' = SubSeq(fbp, 1, Len(fbp) - 1)
          /\ pendingCompress' = SubSeq(pcq, 1, Len(pcq) - 1)
          /\ busy' = TRUE /\ dst' = [d EXCEPT ![b] = Partial]
          /\ pool' = ReleaseBlob(p)
          /\ UNCHANGED failed

\* Mutant: startDecompressJob gives the blob back before it checks
\* set_data_by_offset, so a failed job keeps a blob the pool hands out.
TryStartDecompressJobReleaseEarly(pcq, fbp, d, p) ==
  IF pcq = <<>> \/ fbp = <<>>
  THEN /\ pendingCompress' = pcq /\ freeBufpairs' = fbp /\ dst' = d
       /\ busy' = FALSE /\ pool' = p /\ UNCHANGED <<job, failed>>
  ELSE LET b == fbp[Len(fbp)]
       IN /\ freeBufpairs' = AcquireFreeBufpair(fbp)
          /\ pool' = ReleaseBlob(p)
          /\ \/ /\ pendingCompress' = Tail(pcq)
                /\ StartJob(Head(pcq), b, d)
                /\ UNCHANGED failed
             \/ /\ DocaMayFail
                /\ job' = [seg |-> Head(pcq), buf |-> b, inWorkq |-> FALSE]
                /\ pendingCompress' = pcq /\ dst' = d
                /\ failed' = TRUE /\ busy' = FALSE

\* tryStartDecompressJob, called only when decompress_busy_ is clear
\* (it asserts so), from the job queue pcq, the free bufpairs fbp and
\* the dst memory d: with a job and a free bufpair (acquireFreeBufpair pops
\* the back), startDecompressJob records compress_job_, copies the segment
\* and submits the job, which writes the bufpair's dst memory; the
\* segment's blob goes back to the pool (p blobs) once the copy is set.
\* When set_data_by_offset fails it returns false: the job stays queued
\* with its blob and the acquired bufpair is never given back.
TryStartDecompressJob(pcq, fbp, d, p) ==
  IF pcq = <<>> \/ fbp = <<>>
  THEN /\ pendingCompress' = pcq /\ freeBufpairs' = fbp /\ dst' = d
       /\ busy' = FALSE /\ pool' = p /\ UNCHANGED <<job, failed>>
  ELSE LET b == fbp[Len(fbp)]
       IN /\ freeBufpairs' = AcquireFreeBufpair(fbp)
          /\ \/ /\ pendingCompress' = Tail(pcq)
                /\ StartJob(Head(pcq), b, d)
                /\ pool' = ReleaseBlob(p)
                /\ UNCHANGED failed
             \/ /\ DocaMayFail
                /\ job' = [seg |-> Head(pcq), buf |-> b, inWorkq |-> FALSE]
                /\ pendingCompress' = pcq /\ dst' = d
                /\ pool' = p
                /\ failed' = TRUE /\ busy' = FALSE

\* Mutant: the request is sent without taking a slot.
SendDecompressFinishRequestNoAcquire(info, fs, inf) ==
  /\ freeSend' = fs /\ inflight' = inf + 1
  /\ c2s' = Append(c2s, [type |-> "finish", info |-> info])

\* sendDecompressFinishRequest on a slot taken from the fs free ones, with
\* inf slots in inflight_sends_:
\* remember the slot in inflight_sends_ and post the request.
SendDecompressFinishRequest(info, fs, inf) ==
  /\ freeSend' = fs - 1 /\ inflight' = inf + 1
  /\ c2s' = Append(c2s, [type |-> "finish", info |-> info])

\* The pattern of submitDecompressTask and onDecompressTaskSuccess:
\* acquireFreeSendBuf, send when it has a value, else queue the request.
SendOrQueue(info) ==
  \/ /\ freeSend > 0
     /\ SendDecompressFinishRequest(info, freeSend, inflight)
     /\ UNCHANGED pendingRdma
  \/ /\ freeSend = 0
     /\ pendingRdma' = Append(pendingRdma, info)
     /\ UNCHANGED <<freeSend, inflight, c2s>>

\* onRecvSuccess starts with conn_->releaseSendBuf(inflight_sends_.front()):
\* the slot of the oldest request goes back to the fs free ones.
ReleaseSendBuf(fs) == fs + 1

-----------------------------------------------------------------------------
(* DecompressClientEpoll, on the DPU's decompress event loop.             *)

\* OffloadServerEpoll::handleDecompressConnectionReqeust calls connect(),
\* which starts the RdmaClient in the loop.
Connect ==
  /\ ~connectCalled
  /\ connectCalled' = TRUE
  /\ UNCHANGED <<conn, connected, freeSend, inflight, pendingCompress,
                 pendingRdma, busy, freeBufpairs, job, dst, c2s, s2c, next,
                 untarLog, failed, ub, blobVars>>

\* onConnected: set conn_, take a slot and send the MmapInfoRequest.
OnConnected ==
  /\ connectCalled /\ ~conn
  /\ conn' = TRUE
  /\ freeSend' = freeSend - 1 /\ inflight' = inflight + 1
  /\ c2s' = Append(c2s, [type |-> "mmap"])
  /\ UNCHANGED <<connectCalled, connected, pendingCompress, pendingRdma, busy,
                 freeBufpairs, job, dst, s2c, next, untarLog, failed, ub,
                 blobVars>>

\* ContentFetcher::onRecvSuccess copies the segment into a blob from the
\* pool and calls submitDecompressTask, which runs in the loop, for the
\* next segment of layer l (the ContentFetcher receives a layer's segments
\* in index order, which ContentRpc checks).  A compressed segment is
\* queued with its blob and a job started when the engine is idle and the
\* MmapInfoResponse was handled; an uncompressed one is sent inline at
\* once through conn_, which is a null pointer until onConnected ran, and
\* its blob released after the send.
SubmitDecompressTask(l) ==
  LET seg == <<l, next[l]>>
      p == AcquireBlob(pool)
  IN /\ connectCalled
     /\ next[l] < Segments
     /\ next' = [next EXCEPT ![l] = @ + 1]
     /\ blobsMade' = BlobsAfterAcquire(pool, blobsMade)
     /\ \/ /\ compressed
           /\ IF connected /\ ~busy
                THEN TryStartDecompressJob(Append(pendingCompress, seg),
                                           freeBufpairs, dst, p)
                ELSE /\ pendingCompress' = Append(pendingCompress, seg)
                     /\ pool' = p
                     /\ UNCHANGED <<busy, freeBufpairs, job, dst, failed>>
           /\ UNCHANGED <<freeSend, inflight, pendingRdma, c2s, ub>>
        \/ /\ ~compressed /\ ~conn
           /\ ub' = ub \cup {"null_conn"}
           /\ pool' = p
           /\ UNCHANGED <<freeSend, inflight, pendingCompress, pendingRdma,
                          busy, freeBufpairs, job, dst, c2s, failed>>
        \/ /\ ~compressed /\ conn
           /\ SendOrQueue([seg |-> seg, buf |-> 0, inline |-> TRUE])
           /\ pool' = IF freeSend > 0 THEN ReleaseBlob(p) ELSE p
           /\ UNCHANGED <<pendingCompress, busy, freeBufpairs, job, dst,
                          failed, ub>>
     /\ UNCHANGED <<connectCalled, conn, connected, s2c, untarLog>>

\* onDecompressTaskSuccess, with d the dst memory after the job: send the
\* DecompressFinishRequest naming the bufpair, or queue it when no slot is
\* free, clear decompress_busy_ and start the next job.
OnDecompressTaskSuccess(d) ==
  /\ SendOrQueue([seg |-> job.seg, buf |-> job.buf, inline |-> FALSE])
  /\ TryStartDecompressJob(pendingCompress, freeBufpairs, d, pool)

\* CompressEngine::handleRead, on the engine's event channel, which fires
\* once the submitted job is done: retrieve the finished job (its dst memory now holds the segment), clear engine_busy_
\* and call the success callback.  A failed retrieve terminates the
\* process and is not modelled.
HandleRead ==
  /\ busy /\ job.inWorkq
  /\ OnDecompressTaskSuccess([dst EXCEPT ![job.buf] = job.seg])
  /\ UNCHANGED <<connectCalled, conn, connected, s2c, next, untarLog, ub,
                 blobsMade>>

\* onRecvSuccess for the MmapInfoResponse: release the slot, then
\* handleMmapInfoResponse maps the engine's src and the host's exported dst
\* memory (either DOCA call may fail and return false), sets connected_
\* and starts the first job.
HandleMmapInfoResponse ==
  /\ s2c # <<>> /\ Head(s2c).type = "mmap"
  /\ s2c' = Tail(s2c)
  /\ freeSend' = ReleaseSendBuf(freeSend) /\ inflight' = inflight - 1
  /\ \/ /\ \E r \in SrcMmapsStart \X DstMmapsCreateFromExport :
             r # <<"ok", "ok">>
        /\ failed' = TRUE
        /\ UNCHANGED <<connected, pendingCompress, busy, freeBufpairs, job,
                       dst, pool>>
     \/ /\ connected' = TRUE
        /\ TryStartDecompressJob(pendingCompress, freeBufpairs, dst, pool)
  /\ UNCHANGED <<connectCalled, conn, pendingRdma, c2s, next, untarLog, ub,
                 blobsMade>>

\* Mutant: the bufpair named by the response is never given back.
ReleaseFreeBufpairNever(fbp, r) == fbp

\* releaseFreeBufpair(resp.bufpair_id()), only when the data was not
\* inline.
ReleaseFreeBufpair(fbp, r) == IF r.inline THEN fbp ELSE Append(fbp, r.buf)

\* Mutant: a job is never started after a bufpair came back.
RestartDecompressNever(r) == FALSE

\* After giving the bufpair back, tryStartDecompressJob runs when
\* decompress_busy_ is clear.
RestartDecompress(r) == ~r.inline /\ ~busy

\* onRecvSuccess for a DecompressFinishResponse: release the slot, then
\* handleDecompressFinishResponse sends the oldest queued request on a slot
\* it acquires and dereferences without a check, gives the bufpair back
\* (not for inline data) and starts a job when the engine is idle; the
\* blob of a request sent inline goes back to the pool.
HandleDecompressFinishResponse ==
  LET r == Head(s2c)
      fs == ReleaseSendBuf(freeSend)
      fbp == ReleaseFreeBufpair(freeBufpairs, r)
      p == IF pendingRdma # <<>> /\ fs > 0 /\ Head(pendingRdma).inline
             THEN ReleaseBlob(pool) ELSE pool
  IN /\ s2c # <<>> /\ r.type = "finish"
     /\ s2c' = Tail(s2c)
     /\ \/ /\ pendingRdma = <<>>
           /\ freeSend' = fs /\ inflight' = inflight - 1
           /\ UNCHANGED <<pendingRdma, c2s, ub>>
        \/ /\ pendingRdma # <<>> /\ fs = 0
           /\ ub' = ub \cup {"empty_send_buf"}
           /\ UNCHANGED <<freeSend, inflight, pendingRdma, c2s>>
        \/ /\ pendingRdma # <<>> /\ fs > 0
           /\ SendDecompressFinishRequest(Head(pendingRdma), fs, inflight - 1)
           /\ pendingRdma' = Tail(pendingRdma)
           /\ UNCHANGED ub
     /\ IF RestartDecompress(r)
          THEN TryStartDecompressJob(pendingCompress, fbp, dst, p)
          ELSE /\ freeBufpairs' = fbp /\ pool' = p
               /\ UNCHANGED <<pendingCompress, busy, job, dst, failed>>
     /\ UNCHANGED <<connectCalled, conn, connected, next, untarLog, blobsMade>>

-----------------------------------------------------------------------------
(* DecompressServerEpoll, on the host's event loop.                      *)

\* handleMmapInfoRequest: start the dst mmaps (on failure return false and
\* send nothing), export them to the DPU (on failure the code logs and goes
\* on to dereference the empty result) and send the MmapInfoResponse from
\* a slot it releases right after posting.
HandleMmapInfoRequest ==
  /\ c2s # <<>> /\ Head(c2s).type = "mmap"
  /\ c2s' = Tail(c2s)
  /\ \/ /\ \E r \in DstMmapsStart : r # "ok"
        /\ failed' = TRUE /\ UNCHANGED <<s2c, ub>>
     \/ /\ \E r \in DstMmapsExportDpu : r # "ok"
        /\ ub' = ub \cup {"export_desc"} /\ UNCHANGED <<s2c, failed>>
     \/ /\ s2c' = Append(s2c, [type |-> "mmap"])
        /\ UNCHANGED <<failed, ub>>
  /\ UNCHANGED <<connectCalled, conn, connected, freeSend, inflight,
                 pendingCompress, pendingRdma, busy, freeBufpairs, job, dst,
                 next, untarLog, blobVars>>

\* handleDecompressFinishRequest: copy the segment (inline from the
\* request, else out of the bufpair's dst memory), send the response and
\* hand the copy to UntarEngine::untar.
HandleDecompressFinishRequest ==
  LET info == Head(c2s).info
      data == IF info.inline THEN info.seg ELSE dst[info.buf]
  IN /\ c2s # <<>> /\ Head(c2s).type = "finish"
     /\ c2s' = Tail(c2s)
     /\ s2c' = Append(s2c, [type |-> "finish", buf |-> info.buf,
                             inline |-> info.inline])
     /\ untarLog' = Append(untarLog, [seg |-> info.seg, data |-> data])
     /\ UNCHANGED <<connectCalled, conn, connected, freeSend, inflight,
                    pendingCompress, pendingRdma, busy, freeBufpairs, job,
                    dst, next, failed, ub, blobVars>>

-----------------------------------------------------------------------------

Init ==
  /\ compressed \in CompressedModes
  /\ connectCalled = FALSE /\ conn = FALSE /\ connected = FALSE
  /\ freeSend = MemNum /\ inflight = 0
  /\ pendingCompress = <<>> /\ pendingRdma = <<>>
  /\ busy = FALSE
  /\ freeBufpairs = EngineFreeBufpairs
  /\ job = NoJob
  /\ dst = [b \in Bufpair |-> NoData]
  /\ c2s = <<>> /\ s2c = <<>>
  /\ next = [l \in Layers |-> 0]
  /\ untarLog = <<>>
  /\ failed = FALSE /\ ub = {}
  /\ pool = BlobNum /\ blobsMade = BlobNum

\* The handlers of the DPU's decompress loop (the engine's completion
\* channel and the connection's callbacks) and of the host's loop.
ClientLoop ==
  /\ \/ OnConnected \/ HandleRead
     \/ HandleMmapInfoResponse \/ HandleDecompressFinishResponse
  /\ UNCHANGED compressed
ServerLoop ==
  /\ HandleMmapInfoRequest \/ HandleDecompressFinishRequest
  /\ UNCHANGED compressed

\* Undefined behaviour is taken to end the process.
Next ==
  /\ ub = {}
  /\ \/ (Connect \/ \E l \in Layers : SubmitDecompressTask(l))
        /\ UNCHANGED compressed
     \/ ClientLoop \/ ServerLoop

\* Each loop runs the handler of a ready event; the segments arriving and
\* the connect call come from elsewhere and are not forced.
Spec == Init /\ [][Next]_vars
          /\ WF_vars(ub = {} /\ ClientLoop) /\ WF_vars(ub = {} /\ ServerLoop)

-----------------------------------------------------------------------------
(* Properties                                                             *)

Untarred == {untarLog[i].seg : i \in DOMAIN untarLog}
Submitted(seg) == seg[2] < next[seg[1]]

\* Number of places bufpair b is held in: the free stack, the running
\* job, a queued or in-flight DecompressFinishRequest naming it, or a
\* response the DPU has not handled yet.
Holders(b) ==
  LET Count(q, P(_)) == Cardinality({i \in DOMAIN q : P(q[i])})
  IN Count(freeBufpairs, LAMBDA x : x = b)
     + (IF busy /\ job.buf = b THEN 1 ELSE 0)
     + Count(pendingRdma, LAMBDA x : ~x.inline /\ x.buf = b)
     + Count(c2s, LAMBDA m : m.type = "finish" /\ ~m.info.inline
                              /\ m.info.buf = b)
     + Count(s2c, LAMBDA m : m.type = "finish" /\ ~m.inline /\ m.buf = b)

UntarInOrder ==
  \A i \in DOMAIN untarLog :
    untarLog[i].seg[2] =
      Cardinality({j \in 1 .. i - 1 : untarLog[j].seg[1] = untarLog[i].seg[1]})

\* Every bufpair is held by exactly one owner: none is lost (the pool
\* would shrink until jobs stall) and none is handed out twice.
BufpairsConserved == \A b \in Bufpair : Holders(b) = 1

\* Number of blobs held by segments not yet copied out: a compressed one
\* waiting in pending_compress_jobs_ (also after a failed
\* startDecompressJob), an uncompressed one waiting in pending_rdma_jobs_.
BlobsHeld ==
  Len(pendingCompress)
  + Cardinality({i \in DOMAIN pendingRdma : pendingRdma[i].inline})

\* Every blob the pool constructed is in the pool or held by exactly one
\* waiting segment: the fetcher's acquire, the loop's releases after
\* startDecompressJob's copy and after an inline send, and a job whose
\* set_data_by_offset failed and is retried, never release a blob twice
\* (a blob another segment would then overwrite) or lose one, as long as
\* the process has not crashed on undefined behaviour.
BlobsConserved == ub = {} => blobsMade = pool + BlobsHeld

\* The DPU side never reaches undefined behaviour: no dereference of the
\* null conn_, of an empty send slot or of a failed export.
NoUndefinedBehaviour == ub = {}

\* Every segment that reached submitDecompressTask is eventually handed to
\* untar, unless a DOCA call failed or the process crashed: no job waits
\* for ever for the engine, a bufpair or a send slot.
AllSegmentsUntarred ==
  \A seg \in Seg :
    Submitted(seg) ~> (seg \in Untarred \/ failed \/ ub # {})

=============================================================================
