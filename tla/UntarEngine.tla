---------------------------- MODULE UntarEngine ----------------------------
(***************************************************************************)
(* The host's untar stage (src/host/client/untar_engine.cc) and the       *)
(* completion count of OffloadClientEpoll (offload_client_epoll.cc).      *)
(*                                                                         *)
(* DecompressServerEpoll's loop calls UntarEngine::untar for every        *)
(* segment.  untar looks the layer up in untar_map_ (a concurrent map     *)
(* keyed by layer digest); for a new layer it creates a queue, adds an    *)
(* untar_task for it to a pool of worker threads, enqueues the segment   *)
(* and only then inserts the queue into the map.  A worker runs one task *)
(* to its end: popen tar, write each dequeued segment until the one with *)
(* index total_segments - 1, pclose, erase the layer from the map and    *)
(* post completeTask to the offload client's loop, which counts the      *)
(* image's untarred layers and answers the image once all are counted.   *)
(* A segment is the record [image, idx] of the image it was fetched for  *)
(* and its index; its bytes are left out.                                *)
(***************************************************************************)
EXTENDS Naturals, Sequences, FiniteSets

CONSTANTS Images,        \* images offloaded (model values)
          Layers,        \* layer digests (model values)
          LayersOf,      \* LayersOf[i]: the layers of image i's manifest
          Segments,      \* total_segments of every layer
          Threads,       \* decompress_server_untar_num_threads
          UntarMayFail,  \* popen, fwrite or pclose may fail
          OneAtATime     \* an image is offloaded only after the last was answered

ASSUME /\ LayersOf \in [Images -> SUBSET Layers \ {{}}]
       /\ Segments \in Nat \ {0} /\ Threads \in Nat \ {0}
       /\ UntarMayFail \in BOOLEAN /\ OneAtATime \in BOOLEAN

\* One fetch of a layer for an image: the unit whose segments arrive in
\* index order (DecompressPipeline's UntarInOrder, for compressed layers).
Instance == {<<i, l>> \in Images \X Layers : l \in LayersOf[i]}
Data == [image : Images, idx : 0 .. Segments - 1]
\* Queue ids: at most one queue per segment handed to untar.
MaxQueues == Cardinality(Instance) * Segments
QueueId == 1 .. MaxQueues
None == 0
Worker == 1 .. Threads
Result == [layer : Layers, image : Images, success : BOOLEAN]

VARIABLES
  delivered,   \* delivered[n]: segments of instance n handed to untar
  srv,         \* the server loop inside untar: idle, or about to emplace
  umap,        \* untar_map_: layer -> queue id, or None
  queues,      \* the task queues created: layer, image, items
  written,     \* written[q]: segments the task of q wrote into tar's stdin
  execQ,       \* tasks added to the executor not yet taken by a worker
  worker,      \* worker[t]: its task's queue and where it is in untar_task
  posted,      \* completeTask calls not yet run by the offload loop
  offloaded,   \* images offloadTaskToDpu registered in tasks_
  tasks,       \* the images tasks_ holds
  counted,     \* counted[i]: tasks_[i].untar_layers
  answered,    \* images a CreateContainerResponse was sent for
  assertFailed \* completeTask's assert(it_tasks != tasks_.end()) failed

vars == <<delivered, srv, umap, queues, written, execQ, worker, posted,
          offloaded, tasks, counted, answered, assertFailed>>

TypeOK ==
  /\ delivered \in [Instance -> 0 .. Segments]
  /\ srv \in [pc : {"idle"}] \cup
            [pc : {"emplace"}, layer : Layers, q : QueueId]
  /\ umap \in [Layers -> QueueId \cup {None}]
  /\ queues \in Seq([layer : Layers, image : Images, items : Seq(Data)])
  /\ Len(queues) <= MaxQueues
  /\ written \in [QueueId -> Seq(Data)]
  /\ execQ \in Seq(QueueId)
  /\ worker \in [Worker -> [pc : {"idle", "popen", "loop", "close"},
                            q : QueueId \cup {None}]]
  /\ \A t \in Worker : worker[t].pc = "idle" <=> worker[t].q = None
  /\ posted \in Seq(Result)
  /\ offloaded \subseteq Images /\ answered \subseteq Images
  /\ tasks \subseteq Images /\ counted \in [Images -> Nat]
  /\ assertFailed \in BOOLEAN

-----------------------------------------------------------------------------

\* Mutant: the task never recognises its last segment.
IsLastSegmentOffByOne(d) == d.idx = Segments

\* untar_task stops reading at the segment with index total_segments - 1.
IsLastSegment(d) == d.idx = Segments - 1

\* Mutant: the worker is freed but still points at its old task.
WorkerDoneKeepQueue(w) == [w EXCEPT !.pc = "idle"]

\* The worker thread returns from untar_task and takes the next task.
WorkerDone(w) == [w EXCEPT !.pc = "idle", !.q = None]

\* USPSCQueue::dequeue: the oldest segment (the caller blocks while the
\* queue is empty).
Dequeue(s) == [item |-> Head(s), rest |-> Tail(s)]

\* completeTask(UntarResult{layer, image, ok}): post to the offload loop.
PostComplete(q, ok) ==
  posted' = Append(posted, [layer |-> queues[q].layer,
                            image |-> queues[q].image, success |-> ok])

\* OffloadClientEpoll::offloadTaskToDpu registers the image in tasks_
\* with no layer counted and sends the OffloadRequest.
Offload(i) ==
  /\ i \notin offloaded
  /\ OneAtATime => offloaded \subseteq answered
  /\ offloaded' = offloaded \cup {i}
  /\ tasks' = tasks \cup {i}
  /\ counted' = [counted EXCEPT ![i] = 0]
  /\ UNCHANGED <<delivered, srv, umap, queues, written, execQ, worker, posted,
                 answered, assertFailed>>

\* UntarEngine::untar for the next segment of instance n, as far as the
\* map insert: a known layer's segment goes to the queue the map holds; a
\* new layer gets a queue and a task added to the executor, and the
\* segment is enqueued, before the queue is put into the map.
Untar(n) ==
  LET d == [image |-> n[1], idx |-> delivered[n]]
      l == n[2]
      q == Len(queues) + 1
  IN /\ srv.pc = "idle"
     /\ n[1] \in offloaded /\ delivered[n] < Segments
     /\ delivered' = [delivered EXCEPT ![n] = @ + 1]
     /\ \/ /\ umap[l] # None
           /\ queues' = [queues EXCEPT ![umap[l]].items = Append(@, d)]
           /\ UNCHANGED <<srv, execQ>>
        \/ /\ umap[l] = None
           /\ queues' = Append(queues, [layer |-> l, image |-> n[1],
                                        items |-> <<d>>])
           /\ execQ' = Append(execQ, q)
           /\ srv' = [pc |-> "emplace", layer |-> l, q |-> q]
     /\ UNCHANGED <<umap, written, worker, posted, offloaded, tasks, counted,
                    answered, assertFailed>>

\* untar_map_.emplace(layer, task_queue), which inserts only when the key
\* is absent.
UntarEmplace ==
  /\ srv.pc = "emplace"
  /\ umap' = IF umap[srv.layer] = None THEN [umap EXCEPT ![srv.layer] = srv.q]
                                       ELSE umap
  /\ srv' = [pc |-> "idle"]
  /\ UNCHANGED <<delivered, queues, written, execQ, worker, posted, offloaded,
                 tasks, counted, answered, assertFailed>>

\* An idle pool thread takes the oldest added task.
Dispatch(t) ==
  /\ worker[t].pc = "idle" /\ execQ # <<>>
  /\ worker' = [worker EXCEPT ![t] = [pc |-> "popen", q |-> Head(execQ)]]
  /\ execQ' = Tail(execQ)
  /\ UNCHANGED <<delivered, srv, umap, queues, written, posted, offloaded,
                 tasks, counted, answered, assertFailed>>

\* popen("tar xf - -C ..."): on failure report the layer failed and
\* return, leaving the layer in untar_map_.
Popen(t) ==
  /\ worker[t].pc = "popen"
  /\ \/ /\ UntarMayFail
        /\ PostComplete(worker[t].q, FALSE)
        /\ worker' = [worker EXCEPT ![t] = WorkerDone(@)]
     \/ /\ worker' = [worker EXCEPT ![t].pc = "loop"]
        /\ UNCHANGED posted
  /\ UNCHANGED <<delivered, srv, umap, queues, written, execQ, offloaded,
                 tasks, counted, answered, assertFailed>>

\* One pass of untar_task's loop: dequeue a segment and fwrite it; a
\* failed write closes tar and reports the layer failed (the map entry
\* stays); the last index ends the loop.
Write(t) ==
  LET q == worker[t].q
      deq == Dequeue(queues[q].items)
  IN /\ worker[t].pc = "loop" /\ queues[q].items # <<>>
     /\ queues' = [queues EXCEPT ![q].items = deq.rest]
     /\ \/ /\ UntarMayFail
           /\ PostComplete(q, FALSE)
           /\ worker' = [worker EXCEPT ![t] = WorkerDone(@)]
           /\ UNCHANGED written
        \/ /\ written' = [written EXCEPT ![q] = Append(@, deq.item)]
           /\ worker' = [worker EXCEPT ![t].pc =
                           IF IsLastSegment(deq.item) THEN "close" ELSE "loop"]
           /\ UNCHANGED posted
     /\ UNCHANGED <<delivered, srv, umap, execQ, offloaded, tasks, counted,
                    answered, assertFailed>>

\* After the loop: pclose, untar_map_.erase(layer) (whatever queue the key
\* now holds), and report the layer with pclose's status.
Close(t) ==
  LET q == worker[t].q
  IN /\ worker[t].pc = "close"
     /\ umap' = [umap EXCEPT ![queues[q].layer] = None]
     /\ \E ok \in IF UntarMayFail THEN BOOLEAN ELSE {TRUE} : PostComplete(q, ok)
     /\ worker' = [worker EXCEPT ![t] = WorkerDone(@)]
     /\ UNCHANGED <<delivered, srv, queues, written, execQ, offloaded, tasks,
                    counted, answered, assertFailed>>

\* Mutant: the image is answered one layer early.
AllLayersCountedEarly(c, i) == c + 1 >= Cardinality(LayersOf[i])

\* task_info.untar_layers == task_info.total_layers (the manifest's
\* layer count).
AllLayersCounted(c, i) == c = Cardinality(LayersOf[i])

\* OffloadClientEpoll::completeTask, run in the offload loop: find the
\* image in tasks_ (asserting it is there), count the layer whatever its
\* success, and once all are counted erase the image and send a
\* CreateContainerResponse with success set.
CompleteTask ==
  LET r == Head(posted)
      c == counted[r.image] + 1
  IN /\ posted # <<>>
     /\ posted' = Tail(posted)
     /\ \/ /\ r.image \notin tasks
           /\ assertFailed' = TRUE
           /\ UNCHANGED <<tasks, counted, answered>>
        \/ /\ r.image \in tasks
           /\ counted' = [counted EXCEPT ![r.image] = c]
           /\ IF AllLayersCounted(c, r.image)
                THEN /\ tasks' = tasks \ {r.image}
                     /\ answered' = answered \cup {r.image}
                ELSE UNCHANGED <<tasks, answered>>
           /\ UNCHANGED assertFailed
     /\ UNCHANGED <<delivered, srv, umap, queues, written, execQ, worker,
                    offloaded>>

-----------------------------------------------------------------------------

Init ==
  /\ delivered = [n \in Instance |-> 0]
  /\ srv = [pc |-> "idle"]
  /\ umap = [l \in Layers |-> None]
  /\ queues = <<>>
  /\ written = [q \in QueueId |-> <<>>]
  /\ execQ = <<>>
  /\ worker = [t \in Worker |-> [pc |-> "idle", q |-> None]]
  /\ posted = <<>>
  /\ offloaded = {} /\ tasks = {} /\ counted = [i \in Images |-> 0]
  /\ answered = {}
  /\ assertFailed = FALSE

\* The decompress server's loop handing segments to untar.
ServerLoop == (\E n \in Instance : Untar(n)) \/ UntarEmplace
\* One pool thread.
WorkerStep(t) == Dispatch(t) \/ Popen(t) \/ Write(t) \/ Close(t)

\* A failed assert aborts the process.
Next ==
  /\ ~assertFailed
  /\ \/ \E i \in Images : Offload(i)
     \/ ServerLoop
     \/ \E t \in Worker : WorkerStep(t)
     \/ CompleteTask

\* The DPU delivers every segment of an offloaded image (DecompressPipeline
\* checks that), the server loop and the offload loop run ready handlers,
\* and the pool threads are scheduled.  Offloads are not forced.
Spec ==
  /\ Init /\ [][Next]_vars
  /\ WF_vars(~assertFailed /\ ServerLoop)
  /\ \A t \in Worker : WF_vars(~assertFailed /\ WorkerStep(t))
  /\ WF_vars(~assertFailed /\ CompleteTask)

-----------------------------------------------------------------------------
(* Properties                                                             *)

\* completeTask never meets an image that tasks_ no longer holds (its
\* assert): every UntarResult belongs to an image still being untarred.
NoAssertFailure == ~assertFailed

\* Every offloaded image is eventually answered: no segment is left in a
\* queue no task reads, no task waits for ever for a segment and every
\* layer is counted.
EveryImageAnswered ==
  \A i \in Images : i \in offloaded ~> (i \in answered \/ assertFailed)

=============================================================================
