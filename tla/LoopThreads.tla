---------------------------- MODULE LoopThreads ----------------------------
(***************************************************************************)
(* The start of a TcpServer's I/O loop threads (network/Thread.cc,        *)
(* CountDownLatch.cc, EventLoopThread.cc, EventLoopThreadPool.cc), run by *)
(* the main thread in TcpServer::start before the base loop polls.        *)
(*                                                                         *)
(* EventLoopThreadPool::start creates the threads one at a time.  For     *)
(* each, Thread::start calls pthread_create and waits on the thread's     *)
(* CountDownLatch until the new thread has stored its tid; then           *)
(* EventLoopThread::startLoop waits on cond_, under mutex_, while loop_   *)
(* is NULL.  The new thread constructs its EventLoop, publishes it in     *)
(* loop_ and notifies under mutex_, releases it and runs loop() for ever. *)
(* The main thread's check of loop_, its cond_.wait and its re-locking   *)
(* after a wakeup are separate steps; std::condition_variable may wake   *)
(* it spuriously.  getNextLoop then hands the loops out round-robin.      *)
(***************************************************************************)
EXTENDS Integers, Sequences, FiniteSets

CONSTANT ThreadNums     \* the values of numThreads_ a run starts with

ASSUME ThreadNums \subseteq Nat /\ ThreadNums # {}

\* EventLoop identities: the base loop, and thread k's loop is k.
BaseLoop == 0
NULL == -1

MaxThreads == CHOOSE n \in ThreadNums : \A m \in ThreadNums : m <= n
Threads == 1 .. MaxThreads

VARIABLES
  numThreads,   \* numThreads_ (command_server_thread_num)
  mpc,          \* the main thread: "create", "latch", "lock", "check",
                \* "waitcall", "wait", "relock", "started"
  tpc,          \* tpc[k]: thread k: "none", "tid", "countdown", "publish",
                \* "unlock", "loop"
  tid,          \* tid[k]: Thread::tid_, 0 until runInThread stores it
  latch,        \* latch[k]: the count of thread k's CountDownLatch
  loopPtr,      \* loopPtr[k]: EventLoopThread::loop_
  mutex,        \* mutex[k]: the holder of mutex_: "none", "main", "thread"
  waiting,      \* the main thread is in cond_.wait and not yet notified
  loops,        \* EventLoopThreadPool::loops_
  next          \* EventLoopThreadPool::next_

startVars == <<numThreads, mpc, tpc, tid, latch, loopPtr, mutex, waiting,
               loops>>

\* The EventLoopThread the main thread is starting.
Cur == Len(loops) + 1

PoolTypeOK ==
  /\ numThreads \in ThreadNums
  /\ mpc \in {"create", "latch", "lock", "check", "waitcall", "wait",
              "relock", "started"}
  /\ tpc \in [Threads -> {"none", "tid", "countdown", "publish", "unlock",
                          "loop"}]
  /\ tid \in [Threads -> Nat] /\ latch \in [Threads -> 0 .. 1]
  /\ loopPtr \in [Threads -> Threads \cup {NULL}]
  /\ mutex \in [Threads -> {"none", "main", "thread"}]
  /\ waiting \in BOOLEAN
  /\ loops \in Seq(Threads \cup {NULL}) /\ Len(loops) <= numThreads
  /\ next \in 0 .. MaxThreads

\* The EventLoopThreadPool of TcpServer's constructor, numThreads_ set by
\* setThreadNum.
PoolInit ==
  /\ numThreads \in ThreadNums
  /\ mpc = "create"
  /\ tpc = [k \in Threads |-> "none"] /\ tid = [k \in Threads |-> 0]
  /\ latch = [k \in Threads |-> 1] /\ loopPtr = [k \in Threads |-> NULL]
  /\ mutex = [k \in Threads |-> "none"] /\ waiting = FALSE
  /\ loops = <<>> /\ next = 0

-----------------------------------------------------------------------------
(* The main thread                                                         *)

\* new EventLoopThread, startLoop -> Thread::start: pthread_create runs
\* ThreadData::runInThread in thread Cur; wait on the latch.
CreateThread ==
  /\ mpc = "create" /\ Len(loops) < numThreads
  /\ tpc' = [tpc EXCEPT ![Cur] = "tid"]
  /\ mpc' = "latch"
  /\ UNCHANGED <<numThreads, tid, latch, loopPtr, mutex, waiting, loops, next>>

\* CountDownLatch::wait returns once the count is 0; startLoop takes
\* mutex_ (std::unique_lock).
LatchWait ==
  /\ mpc = "latch" /\ latch[Cur] = 0
  /\ mpc' = "lock"
  /\ UNCHANGED <<numThreads, tpc, tid, latch, loopPtr, mutex, waiting, loops,
                 next>>

\* Mutant: startLoop tests loop_ with if, not while: after a wakeup it
\* takes loop_ as it is.
LockIfOnce ==
  /\ mpc \in {"lock", "relock"} /\ mutex[Cur] = "none"
  /\ IF mpc = "relock"
       THEN /\ loops' = Append(loops, loopPtr[Cur])
            /\ mpc' = "create"
            /\ UNCHANGED mutex
       ELSE /\ mutex' = [mutex EXCEPT ![Cur] = "main"]
            /\ mpc' = "check"
            /\ UNCHANGED loops
  /\ UNCHANGED <<numThreads, tpc, tid, latch, loopPtr, waiting, next>>

\* Taking mutex_: in unique_lock's constructor ("lock") or inside
\* cond_.wait after a wakeup ("relock"); either way the while loop then
\* tests loop_ again.
Lock ==
  /\ mpc \in {"lock", "relock"} /\ mutex[Cur] = "none"
  /\ mutex' = [mutex EXCEPT ![Cur] = "main"]
  /\ mpc' = "check"
  /\ UNCHANGED <<numThreads, tpc, tid, latch, loopPtr, waiting, loops, next>>

\* while (loop_ == NULL): with loop_ set, take it, release mutex_ and
\* push it on loops_; else call cond_.wait.
Check ==
  /\ mpc = "check"
  /\ IF loopPtr[Cur] # NULL
       THEN /\ loops' = Append(loops, loopPtr[Cur])
            /\ mutex' = [mutex EXCEPT ![Cur] = "none"]
            /\ mpc' = "create"
       ELSE /\ mpc' = "waitcall"
            /\ UNCHANGED <<loops, mutex>>
  /\ UNCHANGED <<numThreads, tpc, tid, latch, loopPtr, waiting, next>>

\* cond_.wait(lock): release mutex_ and block, atomically.
WaitCall ==
  /\ mpc = "waitcall"
  /\ mutex' = [mutex EXCEPT ![Cur] = "none"]
  /\ waiting' = TRUE
  /\ mpc' = "wait"
  /\ UNCHANGED <<numThreads, tpc, tid, latch, loopPtr, loops, next>>

\* cond_.wait returns to re-take mutex_: after notify_one, or spuriously.
Wake ==
  /\ mpc = "wait"
  /\ waiting' = FALSE
  /\ mpc' = "relock"
  /\ UNCHANGED <<numThreads, tpc, tid, latch, loopPtr, mutex, loops, next>>

\* Every thread started: start returns (cb is empty, so numThreads_ = 0
\* calls nothing) and TcpServer::start goes on to listen.
PoolStartDone ==
  /\ mpc = "create" /\ Len(loops) = numThreads
  /\ mpc' = "started"
  /\ UNCHANGED <<numThreads, tpc, tid, latch, loopPtr, mutex, waiting, loops,
                 next>>

-----------------------------------------------------------------------------
(* The new threads                                                        *)

\* runInThread: *tid_ = CurrentThread::tid().
SetTid(k) ==
  /\ tpc[k] = "tid"
  /\ tid' = [tid EXCEPT ![k] = k]
  /\ tpc' = [tpc EXCEPT ![k] = "countdown"]
  /\ UNCHANGED <<numThreads, mpc, latch, loopPtr, mutex, waiting, loops, next>>

\* latch_->countDown(); then func_() is threadFunc, which constructs its
\* EventLoop (callback_ is empty) before taking mutex_.
CountDown(k) ==
  /\ tpc[k] = "countdown"
  /\ latch' = [latch EXCEPT ![k] = 0]
  /\ tpc' = [tpc EXCEPT ![k] = "publish"]
  /\ UNCHANGED <<numThreads, mpc, tid, loopPtr, mutex, waiting, loops, next>>

\* Mutant: loop_ is set and cond_ notified without taking mutex_.
PublishUnlocked(k) ==
  /\ tpc[k] = "publish"
  /\ loopPtr' = [loopPtr EXCEPT ![k] = k]
  /\ waiting' = FALSE
  /\ tpc' = [tpc EXCEPT ![k] = "loop"]
  /\ UNCHANGED <<numThreads, mpc, tid, latch, mutex, loops, next>>

\* lock_guard on mutex_, loop_ = &loop, cond_.notify_one().
Publish(k) ==
  /\ tpc[k] = "publish" /\ mutex[k] = "none"
  /\ mutex' = [mutex EXCEPT ![k] = "thread"]
  /\ loopPtr' = [loopPtr EXCEPT ![k] = k]
  /\ waiting' = FALSE
  /\ tpc' = [tpc EXCEPT ![k] = "unlock"]
  /\ UNCHANGED <<numThreads, mpc, tid, latch, loops, next>>

\* The lock_guard's scope ends; loop.loop() runs (quit is never called).
Unlock(k) ==
  /\ tpc[k] = "unlock"
  /\ mutex' = [mutex EXCEPT ![k] = "none"]
  /\ tpc' = [tpc EXCEPT ![k] = "loop"]
  /\ UNCHANGED <<numThreads, mpc, tid, latch, loopPtr, waiting, loops, next>>

PoolStarted == mpc = "started"

PoolStartNext ==
  \/ CreateThread \/ LatchWait \/ Lock \/ Check \/ WaitCall \/ Wake
  \/ PoolStartDone
  \/ \E k \in Threads : SetTid(k) \/ CountDown(k) \/ Publish(k) \/ Unlock(k)

\* The steps of the main thread and of thread k; a spurious wakeup is
\* left out of MainStep, so no fairness forces one.
MainStep ==
  \/ CreateThread \/ LatchWait \/ Lock \/ Check \/ WaitCall
  \/ ~waiting /\ Wake
  \/ PoolStartDone

ThreadStep(k) == SetTid(k) \/ CountDown(k) \/ Publish(k) \/ Unlock(k)

-----------------------------------------------------------------------------

\* EventLoopThreadPool::getNextLoop: the base loop while loops_ is empty,
\* else loops_[next_], advancing next_ round-robin.
NextLoop == IF loops = <<>> THEN BaseLoop ELSE loops[next + 1]

AdvanceNext ==
  IF loops = <<>> THEN next
  ELSE IF next + 1 >= Len(loops) THEN 0 ELSE next + 1

-----------------------------------------------------------------------------
(* Properties                                                             *)

\* Every loop EventLoopThreadPool::start collected is the EventLoop of its
\* own thread, published by threadFunc and already running loop(), never
\* NULL and never another thread's: startLoop's wait on cond_ returns only
\* once loop_ is set, however the wakeup came; and Thread::start gets past
\* the latch only after the new thread stored its tid.
PoolLoopsReady ==
  /\ \A j \in 1 .. Len(loops) : loops[j] = j /\ tpc[j] = "loop"
  /\ mpc \in {"lock", "check", "waitcall", "wait", "relock"} => tid[Cur] # 0

\* TcpServer::start returns: the main thread is never left waiting on
\* cond_ or the latch for a thread that already published its loop.
PoolStartCompletes == <>PoolStarted

=============================================================================
