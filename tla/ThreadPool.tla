----------------------------- MODULE ThreadPool -----------------------------
(***************************************************************************)
(* The global thread pool of src/threadpool.c, with the part of the event  *)
(* loop it hands its results to: the loop's wq_async handle (win/async.c), *)
(* the completion port and the close of the loop (win/core.c).             *)
(*                                                                         *)
(* A thread is a loop thread (named by its loop) or a worker.  A critical  *)
(* section is two steps: taking the lock, and the body with the release.   *)
(* uv_queue_work and uv_cancel are not thread safe: they run on the thread *)
(* of the request's loop, in a callback (lpc[l] = "user" while draining)   *)
(* or between two iterations.                                              *)
(***************************************************************************)
EXTENDS Integers, Sequences, FiniteSets, Functions

CONSTANTS
  Loops,               \* event loops, each with its own thread
  Reqs,                \* uv_work_t requests
  LoopOf,              \* LoopOf[r]: the loop request r is used with
  ARRAY_SIZE,          \* length of default_threads (4 in the code)
  MAX_THREADPOOL_SIZE, \* 128 in the code
  EnvSizes,            \* possible values of atoi(getenv("UV_THREADPOOL_SIZE"))
  HasDestructor,       \* TRUE where cleanup() is compiled (#ifndef _WIN32)
  exit_message,        \* the queue node that tells workers to leave
  MainThread,          \* the thread that runs cleanup()
  NoThread, NoReq,     \* "no owner", "no request"
  MaxCalls,            \* bound: uv_queue_work and uv_cancel calls on a request
  MaxSpurious          \* bound: spurious wake-ups of uv_cond_wait

Workers == 1..MAX_THREADPOOL_SIZE
Threads == Loops \cup Workers \cup {MainThread}
Items == Reqs \cup {exit_message}

ASSUME ConstantsAssumption ==
  /\ LoopOf \in [Reqs -> Loops]
  /\ ARRAY_SIZE \in Nat \ {0}
  /\ MAX_THREADPOOL_SIZE \in Nat /\ MAX_THREADPOOL_SIZE >= ARRAY_SIZE
  /\ EnvSizes \subseteq Int
  /\ HasDestructor \in BOOLEAN
  /\ exit_message \notin Reqs
  /\ NoThread \notin Threads
  /\ NoReq \notin Items
  /\ Loops \cap (Workers \cup {MainThread}) = {}
  /\ MaxCalls \in Nat
  /\ MaxSpurious \in Nat

VARIABLES
  mutex,         \* owner of the pool's mutex
  wq,            \* the pool's queue of work
  idle_threads,
  nthreads,
  initialized,
  wpc,           \* wpc[t]: where worker t is
  cur,           \* cur[t]: the request worker t took
  spurious,      \* spurious wake-ups so far
  work,          \* work[r]: w->work, a function, NULL or uv__cancelled
  linked,        \* linked[r]: ~QUEUE_EMPTY(&w->wq)
  active_reqs,   \* loop->active_reqs
  loop_wq,       \* loop->wq, finished work
  wq_mutex,      \* owner of loop->wq_mutex
  async_sent,    \* loop->wq_async.async_sent
  iocp,          \* packets for wq_async in the loop's completion port
  pending,       \* wq_async's request is in the loop's pending queue
  lpc,           \* lpc[l]: where the thread of loop l is
  arg,           \* arg[l]: the request its current call is about
  draining,      \* it is inside uv__work_done's while loop
  local,         \* uv__work_done's local queue
  result,        \* result[r]: status of the last after_work_cb
  calls,         \* calls made on the request so far
  main           \* where the thread that runs cleanup() is

poolVars == <<mutex, wq, idle_threads, wpc, cur, spurious>>
initVars == <<nthreads, initialized>>
reqVars  == <<work, linked>>
loopVars == <<active_reqs, loop_wq, wq_mutex, async_sent, iocp, pending>>
callVars == <<lpc, arg, draining, local, result, calls>>
vars == <<poolVars, initVars, reqVars, loopVars, callVars, main>>

WorkerPcs == {"none", "lock", "head", "wait", "wake", "work", "done_lock",
              "done", "async_post", "exited"}
LoopPcs == {"user", "post_lock", "post", "cancel_lock", "cancel_wq_lock",
            "cancel", "cancelled", "insert_lock", "insert", "async_post",
            "done_lock", "done_move", "closed"}
MainPcs == {"running", "post_lock", "post", "join", "exited"}

Init ==
  /\ mutex = NoThread
  /\ wq = <<>>
  /\ idle_threads = 0
  /\ nthreads = 0
  /\ initialized = FALSE
  /\ wpc = [t \in Workers |-> "none"]
  /\ cur = [t \in Workers |-> NoReq]
  /\ spurious = 0
  /\ work = [r \in Reqs |-> "NULL"]
  /\ linked = [r \in Reqs |-> FALSE]
  /\ active_reqs = {}
  /\ loop_wq = [l \in Loops |-> <<>>]
  /\ wq_mutex = [l \in Loops |-> NoThread]
  /\ async_sent = [l \in Loops |-> FALSE]
  /\ iocp = [l \in Loops |-> 0]
  /\ pending = [l \in Loops |-> FALSE]
  /\ lpc = [l \in Loops |-> "user"]
  /\ arg = [l \in Loops |-> NoReq]
  /\ draining = [l \in Loops |-> FALSE]
  /\ local = [l \in Loops |-> <<>>]
  /\ result = [r \in Reqs |-> "none"]
  /\ calls = [r \in Reqs |-> 0]
  /\ main = "running"

-----------------------------------------------------------------------------
(* Building blocks.                                                        *)

\* uv_cond_signal: one waiter, if there is one, becomes runnable.  The
\* caller's own next program counter is given by self -> to.
Waiting == {t \in Workers : wpc[t] = "wait"}

CondSignal(pc) ==
  IF Waiting = {} THEN wpc' = pc
  ELSE \E t \in Waiting : wpc' = [pc EXCEPT ![t] = "wake"]

\* The body of post() under the pool's mutex.
PostBodyOneIdle(q) ==
  /\ wq' = Append(wq, q)
  /\ IF idle_threads > 1 THEN CondSignal(wpc) ELSE UNCHANGED wpc
  /\ mutex' = NoThread

PostBody(q) ==
  /\ wq' = Append(wq, q)
  /\ IF idle_threads > 0 THEN CondSignal(wpc) ELSE UNCHANGED wpc
  /\ mutex' = NoThread

AsyncTestOnly(l) == UNCHANGED async_sent

\* uv_async_send(&loop->wq_async) under the loop's wq_mutex: exchange the
\* flag, and post a packet in the next step if it was clear.
AsyncExchange(l) == async_sent' = [async_sent EXCEPT ![l] = TRUE]

\* QUEUE_REMOVE(&w->wq): the node leaves whichever queue it is in.
Without(q, r) ==
  LET i == CHOOSE n \in 1..Len(q) : q[n] = r
  IN  IF r \in Range(q) THEN SubSeq(q, 1, i - 1) \o SubSeq(q, i + 1, Len(q))
      ELSE q

LoopAt(l, pc) == main = "running" /\ lpc[l] = pc

LoopGoto(l, pc) == lpc' = [lpc EXCEPT ![l] = pc]

\* The call returns to its caller.
Return(l) == LoopGoto(l, "user") /\ arg' = [arg EXCEPT ![l] = NoReq]

\* The call goes on.
Continue(l, pc) == LoopGoto(l, pc) /\ UNCHANGED arg

-----------------------------------------------------------------------------
(* uv_queue_work: register the request, create the pool, post.             *)

\* init_once: the pool's size from the environment.  nthreads is unsigned,
\* so a negative value is a huge one.
EnvSizeUnclamped(val) == IF val < 0 THEN MAX_THREADPOOL_SIZE
                         ELSE IF val = 0 THEN 1 ELSE val

EnvSize(val) ==
  IF val < 0 THEN MAX_THREADPOOL_SIZE
  ELSE IF val = 0 THEN 1
  ELSE IF val > MAX_THREADPOOL_SIZE THEN MAX_THREADPOOL_SIZE ELSE val

\* The environment may be unset, and the array of handles for a larger pool
\* may fail to be allocated.
PoolSizes == {ARRAY_SIZE} \cup {EnvSize(val) : val \in EnvSizes}

init_once ==
  \E n \in PoolSizes :
    /\ nthreads' = n
    /\ wpc' = [t \in Workers |-> IF t <= n THEN "lock" ELSE "none"]
    /\ initialized' = TRUE

uv_queue_work(l, r) ==
  /\ LoopAt(l, "user")
  /\ LoopOf[r] = l
  /\ r \notin active_reqs
  /\ calls[r] < MaxCalls
  /\ calls' = [calls EXCEPT ![r] = @ + 1]
  /\ active_reqs' = active_reqs \cup {r}
  /\ IF initialized THEN UNCHANGED <<initVars, wpc>> ELSE init_once
  /\ work' = [work EXCEPT ![r] = "uv__queue_work"]
  /\ arg' = [arg EXCEPT ![l] = r]
  /\ LoopGoto(l, "post_lock")
  /\ UNCHANGED <<mutex, wq, idle_threads, cur, spurious, linked, loop_wq,
                 wq_mutex, async_sent, iocp, pending, draining, local, result,
                 main>>

PostLock(l) ==
  /\ LoopAt(l, "post_lock")
  /\ mutex = NoThread
  /\ mutex' = l
  /\ LoopGoto(l, "post")
  /\ UNCHANGED <<wq, idle_threads, wpc, cur, spurious, initVars, reqVars,
                 loopVars, arg, draining, local, result, calls, main>>

post(l) ==
  /\ LoopAt(l, "post")
  /\ PostBody(arg[l])
  /\ linked' = [linked EXCEPT ![arg[l]] = TRUE]
  /\ Return(l)
  /\ UNCHANGED <<idle_threads, cur, spurious, initVars, work, loopVars,
                 draining, local, result, calls, main>>

-----------------------------------------------------------------------------
(* The worker.                                                             *)

WorkerGoto(t, pc) == wpc' = [wpc EXCEPT ![t] = pc]

WorkerLock(t) ==
  /\ wpc[t] = "lock"
  /\ mutex = NoThread
  /\ mutex' = t
  /\ WorkerGoto(t, "head")
  /\ UNCHANGED <<wq, idle_threads, cur, spurious, initVars, reqVars, loopVars,
                 callVars, main>>

WorkerWait(t) ==
  /\ wpc[t] = "head"
  /\ wq = <<>>
  /\ idle_threads' = idle_threads + 1
  /\ mutex' = NoThread
  /\ WorkerGoto(t, "wait")
  /\ UNCHANGED <<wq, cur, spurious, initVars, reqVars, loopVars, callVars,
                 main>>

SpuriousWake(t) ==
  /\ wpc[t] = "wait"
  /\ spurious < MaxSpurious
  /\ spurious' = spurious + 1
  /\ WorkerGoto(t, "wake")
  /\ UNCHANGED <<mutex, wq, idle_threads, cur, initVars, reqVars, loopVars,
                 callVars, main>>

WorkerWake(t) ==
  /\ wpc[t] = "wake"
  /\ mutex = NoThread
  /\ mutex' = t
  /\ idle_threads' = idle_threads - 1
  /\ WorkerGoto(t, "head")
  /\ UNCHANGED <<wq, cur, spurious, initVars, reqVars, loopVars, callVars,
                 main>>

WorkerTake(t) ==
  /\ wpc[t] = "head"
  /\ wq # <<>>
  /\ Head(wq) # exit_message
  /\ wq' = Tail(wq)
  /\ linked' = [linked EXCEPT ![Head(wq)] = FALSE]
  /\ cur' = [cur EXCEPT ![t] = Head(wq)]
  /\ mutex' = NoThread
  /\ WorkerGoto(t, "work")
  /\ UNCHANGED <<idle_threads, spurious, initVars, work, loopVars, callVars,
                 main>>

\* The exit message stays at the head; the signal passes it on.
WorkerExit(t) ==
  /\ wpc[t] = "head"
  /\ wq # <<>>
  /\ Head(wq) = exit_message
  /\ CondSignal([wpc EXCEPT ![t] = "exited"])
  /\ mutex' = NoThread
  /\ UNCHANGED <<wq, idle_threads, cur, spurious, initVars, reqVars, loopVars,
                 callVars, main>>

\* w->work(w) returns.  uv__cancelled would abort the process instead.
WorkerWork(t) ==
  /\ wpc[t] = "work"
  /\ work[cur[t]] = "uv__queue_work"
  /\ WorkerGoto(t, "done_lock")
  /\ UNCHANGED <<mutex, wq, idle_threads, cur, spurious, initVars, reqVars,
                 loopVars, callVars, main>>

WorkerDoneLock(t) ==
  LET l == LoopOf[cur[t]] IN
  /\ wpc[t] = "done_lock"
  /\ wq_mutex[l] = NoThread
  /\ wq_mutex' = [wq_mutex EXCEPT ![l] = t]
  /\ WorkerGoto(t, "done")
  /\ UNCHANGED <<mutex, wq, idle_threads, cur, spurious, initVars, reqVars,
                 active_reqs, loop_wq, async_sent, iocp, pending, callVars,
                 main>>

WorkerDone(t) ==
  LET r == cur[t]
      l == LoopOf[r] IN
  /\ wpc[t] = "done"
  /\ work' = [work EXCEPT ![r] = "NULL"]
  /\ loop_wq' = [loop_wq EXCEPT ![l] = Append(@, r)]
  /\ linked' = [linked EXCEPT ![r] = TRUE]
  /\ AsyncExchange(l)
  /\ IF async_sent[l]
     THEN /\ wq_mutex' = [wq_mutex EXCEPT ![l] = NoThread]
          /\ cur' = [cur EXCEPT ![t] = NoReq]
          /\ WorkerGoto(t, "lock")
     ELSE WorkerGoto(t, "async_post") /\ UNCHANGED <<wq_mutex, cur>>
  /\ UNCHANGED <<mutex, wq, idle_threads, spurious, initVars, active_reqs,
                 iocp, pending, callVars, main>>

WorkerAsyncPost(t) ==
  LET l == LoopOf[cur[t]] IN
  /\ wpc[t] = "async_post"
  /\ iocp' = [iocp EXCEPT ![l] = @ + 1]
  /\ wq_mutex' = [wq_mutex EXCEPT ![l] = NoThread]
  /\ cur' = [cur EXCEPT ![t] = NoReq]
  /\ WorkerGoto(t, "lock")
  /\ UNCHANGED <<mutex, wq, idle_threads, spurious, initVars, reqVars,
                 active_reqs, loop_wq, async_sent, pending, callVars, main>>

-----------------------------------------------------------------------------
(* uv_cancel.                                                              *)

\* A caller may cancel a request until its after_work_cb runs.
uv_cancel(l, r) ==
  /\ LoopAt(l, "user")
  /\ LoopOf[r] = l
  /\ r \in active_reqs
  /\ calls[r] < MaxCalls
  /\ calls' = [calls EXCEPT ![r] = @ + 1]
  /\ arg' = [arg EXCEPT ![l] = r]
  /\ LoopGoto(l, "cancel_lock")
  /\ UNCHANGED <<poolVars, initVars, reqVars, loopVars, draining, local,
                 result, main>>

CancelLock(l) ==
  /\ LoopAt(l, "cancel_lock")
  /\ mutex = NoThread
  /\ mutex' = l
  /\ LoopGoto(l, "cancel_wq_lock")
  /\ UNCHANGED <<wq, idle_threads, wpc, cur, spurious, initVars, reqVars,
                 loopVars, arg, draining, local, result, calls, main>>

CancelWqLock(l) ==
  /\ LoopAt(l, "cancel_wq_lock")
  /\ wq_mutex[l] = NoThread
  /\ wq_mutex' = [wq_mutex EXCEPT ![l] = l]
  /\ LoopGoto(l, "cancel")
  /\ UNCHANGED <<poolVars, initVars, reqVars, active_reqs, loop_wq, async_sent,
                 iocp, pending, arg, draining, local, result, calls, main>>

\* cancelled = !QUEUE_EMPTY(&w->wq) && w->work != NULL
CancellableWhileRunning(r) == work[r] # "NULL"

Cancellable(r) == linked[r] /\ work[r] # "NULL"

\* The decision and the unlinking, under both locks; UV_EBUSY otherwise.
uv__work_cancel(l) ==
  LET r == arg[l] IN
  /\ LoopAt(l, "cancel")
  /\ IF Cancellable(r)
     THEN /\ wq' = Without(wq, r)
          /\ loop_wq' = [loop_wq EXCEPT ![l] = Without(@, r)]
          /\ local' = [local EXCEPT ![l] = Without(@, r)]
          /\ Continue(l, "cancelled")
     ELSE Return(l) /\ UNCHANGED <<wq, loop_wq, local>>
  /\ mutex' = NoThread
  /\ wq_mutex' = [wq_mutex EXCEPT ![l] = NoThread]
  /\ UNCHANGED <<idle_threads, wpc, cur, spurious, initVars, reqVars,
                 active_reqs, async_sent, iocp, pending, draining, result,
                 calls, main>>

MarkCancelled(l) ==
  /\ LoopAt(l, "cancelled")
  /\ work' = [work EXCEPT ![arg[l]] = "uv__cancelled"]
  /\ LoopGoto(l, "insert_lock")
  /\ UNCHANGED <<poolVars, initVars, linked, loopVars, arg, draining, local,
                 result, calls, main>>

InsertLock(l) ==
  /\ LoopAt(l, "insert_lock")
  /\ wq_mutex[l] = NoThread
  /\ wq_mutex' = [wq_mutex EXCEPT ![l] = l]
  /\ LoopGoto(l, "insert")
  /\ UNCHANGED <<poolVars, initVars, reqVars, active_reqs, loop_wq, async_sent,
                 iocp, pending, arg, draining, local, result, calls, main>>

InsertCancelled(l) ==
  /\ LoopAt(l, "insert")
  /\ loop_wq' = [loop_wq EXCEPT ![l] = Append(@, arg[l])]
  /\ linked' = [linked EXCEPT ![arg[l]] = TRUE]
  /\ AsyncExchange(l)
  /\ IF async_sent[l]
     THEN wq_mutex' = [wq_mutex EXCEPT ![l] = NoThread] /\ Return(l)
     ELSE Continue(l, "async_post") /\ UNCHANGED wq_mutex
  /\ UNCHANGED <<poolVars, initVars, work, active_reqs, iocp, pending,
                 draining, local, result, calls, main>>

LoopAsyncPost(l) ==
  /\ LoopAt(l, "async_post")
  /\ iocp' = [iocp EXCEPT ![l] = @ + 1]
  /\ wq_mutex' = [wq_mutex EXCEPT ![l] = NoThread]
  /\ Return(l)
  /\ UNCHANGED <<poolVars, initVars, reqVars, active_reqs, loop_wq, async_sent,
                 pending, draining, local, result, calls, main>>

-----------------------------------------------------------------------------
(* The loop: poll, the wake-up request, uv__work_done, close.              *)

Between(l) == LoopAt(l, "user") /\ ~draining[l]

uv_poll(l) ==
  /\ Between(l)
  /\ iocp[l] > 0
  /\ iocp' = [iocp EXCEPT ![l] = @ - 1]
  /\ pending' = [pending EXCEPT ![l] = TRUE]
  /\ UNCHANGED <<poolVars, initVars, reqVars, active_reqs, loop_wq, wq_mutex,
                 async_sent, callVars, main>>

KeepSent(l) == UNCHANGED async_sent

\* async_sent is cleared before the callback empties the queue.
ClearSent(l) == async_sent' = [async_sent EXCEPT ![l] = FALSE]

uv_process_async_wakeup_req(l) ==
  /\ Between(l)
  /\ pending[l]
  /\ pending' = [pending EXCEPT ![l] = FALSE]
  /\ ClearSent(l)
  /\ LoopGoto(l, "done_lock")
  /\ UNCHANGED <<poolVars, initVars, reqVars, active_reqs, loop_wq, wq_mutex,
                 iocp, arg, draining, local, result, calls, main>>

WorkDoneLock(l) ==
  /\ LoopAt(l, "done_lock")
  /\ wq_mutex[l] = NoThread
  /\ wq_mutex' = [wq_mutex EXCEPT ![l] = l]
  /\ LoopGoto(l, "done_move")
  /\ UNCHANGED <<poolVars, initVars, reqVars, active_reqs, loop_wq, async_sent,
                 iocp, pending, arg, draining, local, result, calls, main>>

WorkDoneMove(l) ==
  /\ LoopAt(l, "done_move")
  /\ local' = [local EXCEPT ![l] = loop_wq[l]]
  /\ loop_wq' = [loop_wq EXCEPT ![l] = <<>>]
  /\ wq_mutex' = [wq_mutex EXCEPT ![l] = NoThread]
  /\ draining' = [draining EXCEPT ![l] = TRUE]
  /\ LoopGoto(l, "user")
  /\ UNCHANGED <<poolVars, initVars, reqVars, active_reqs, async_sent, iocp,
                 pending, arg, result, calls, main>>

StatusZero(r) == "0"

\* uv__work_done's err.
DoneStatus(r) == IF work[r] = "uv__cancelled" THEN "UV_ECANCELED" ELSE "0"

\* One turn of the while loop: uv__queue_done unregisters the request and
\* calls after_work_cb.  QUEUE_REMOVE without QUEUE_INIT leaves w->wq linked.
uv__queue_done(l) ==
  LET r == Head(local[l]) IN
  /\ LoopAt(l, "user")
  /\ draining[l]
  /\ local[l] # <<>>
  /\ local' = [local EXCEPT ![l] = Tail(@)]
  /\ active_reqs' = active_reqs \ {r}
  /\ result' = [result EXCEPT ![r] = DoneStatus(r)]
  /\ UNCHANGED <<poolVars, initVars, reqVars, loop_wq, wq_mutex, async_sent,
                 iocp, pending, lpc, arg, draining, calls, main>>

WorkDoneReturn(l) ==
  /\ LoopAt(l, "user")
  /\ draining[l]
  /\ local[l] = <<>>
  /\ draining' = [draining EXCEPT ![l] = FALSE]
  /\ UNCHANGED <<poolVars, initVars, reqVars, loopVars, lpc, arg, local,
                 result, calls, main>>

NothingFinished(l) == loop_wq[l] = <<>>

NoActiveReqs(l) == \A r \in active_reqs : LoopOf[r] # l

\* uv_loop_close fails with UV_EBUSY while a request is active.
uv_loop_close(l) ==
  /\ Between(l)
  /\ NoActiveReqs(l)
  /\ wq_mutex[l] = NoThread
  /\ LoopGoto(l, "closed")
  /\ UNCHANGED <<poolVars, initVars, reqVars, loopVars, arg, draining, local,
                 result, calls, main>>

-----------------------------------------------------------------------------
(* cleanup(), run by the process's main thread once no loop runs.          *)

CleanupStart ==
  /\ HasDestructor
  /\ main = "running"
  /\ \A l \in Loops : lpc[l] \in {"user", "closed"}
  /\ main' = IF initialized THEN "post_lock" ELSE "exited"
  /\ UNCHANGED <<poolVars, initVars, reqVars, loopVars, callVars>>

CleanupLock ==
  /\ main = "post_lock"
  /\ mutex = NoThread
  /\ mutex' = MainThread
  /\ main' = "post"
  /\ UNCHANGED <<wq, idle_threads, wpc, cur, spurious, initVars, reqVars,
                 loopVars, callVars>>

CleanupPost ==
  /\ main = "post"
  /\ PostBody(exit_message)
  /\ main' = "join"
  /\ UNCHANGED <<idle_threads, cur, spurious, initVars, reqVars, loopVars,
                 callVars>>

CleanupJoin ==
  /\ main = "join"
  /\ \A t \in 1..nthreads : wpc[t] = "exited"
  /\ main' = "exited"
  /\ nthreads' = 0
  /\ initialized' = FALSE
  /\ UNCHANGED <<poolVars, reqVars, loopVars, callVars>>

-----------------------------------------------------------------------------

Call(l) == \E r \in Reqs : uv_queue_work(l, r) \/ uv_cancel(l, r)

\* Steps a loop thread takes on its own once it is inside a call or has
\* something to deliver.
LoopStep(l) ==
  \/ PostLock(l) \/ post(l)
  \/ CancelLock(l) \/ CancelWqLock(l) \/ uv__work_cancel(l)
  \/ MarkCancelled(l) \/ InsertLock(l) \/ InsertCancelled(l)
  \/ LoopAsyncPost(l)
  \/ uv_poll(l) \/ uv_process_async_wakeup_req(l)
  \/ WorkDoneLock(l) \/ WorkDoneMove(l) \/ uv__queue_done(l)
  \/ WorkDoneReturn(l)

worker(t) ==
  \/ WorkerLock(t) \/ WorkerWait(t) \/ WorkerWake(t) \/ WorkerTake(t)
  \/ WorkerExit(t) \/ WorkerWork(t) \/ WorkerDoneLock(t) \/ WorkerDone(t)
  \/ WorkerAsyncPost(t)

cleanup == CleanupLock \/ CleanupPost \/ CleanupJoin

Next ==
  \/ \E l \in Loops : Call(l) \/ LoopStep(l) \/ uv_loop_close(l)
  \/ \E t \in Workers : worker(t) \/ SpuriousWake(t)
  \/ CleanupStart
  \/ cleanup

Spec == Init /\ [][Next]_vars

\* Threads that can run do run; callers owe nothing.
Fairness ==
  /\ \A l \in Loops : WF_vars(LoopStep(l))
  /\ \A t \in Workers : WF_vars(worker(t))
  /\ WF_vars(cleanup)

FairSpec == Spec /\ Fairness

-----------------------------------------------------------------------------
(* Properties.                                                             *)

\* Every variable keeps the type its C declaration gives it.
TypeOK ==
  /\ mutex \in Threads \cup {NoThread}
  /\ wq \in Seq(Items)
  /\ idle_threads \in Nat
  /\ nthreads \in 0..MAX_THREADPOOL_SIZE
  /\ initialized \in BOOLEAN
  /\ wpc \in [Workers -> WorkerPcs]
  /\ cur \in [Workers -> Reqs \cup {NoReq}]
  /\ spurious \in Nat
  /\ work \in [Reqs -> {"NULL", "uv__queue_work", "uv__cancelled"}]
  /\ linked \in [Reqs -> BOOLEAN]
  /\ active_reqs \subseteq Reqs
  /\ loop_wq \in [Loops -> Seq(Reqs)]
  /\ wq_mutex \in [Loops -> Threads \cup {NoThread}]
  /\ async_sent \in [Loops -> BOOLEAN]
  /\ iocp \in [Loops -> Nat]
  /\ pending \in [Loops -> BOOLEAN]
  /\ lpc \in [Loops -> LoopPcs]
  /\ arg \in [Loops -> Reqs \cup {NoReq}]
  /\ draining \in [Loops -> BOOLEAN]
  /\ local \in [Loops -> Seq(Reqs)]
  /\ result \in [Reqs -> {"none", "0", "UV_ECANCELED"}]
  /\ calls \in [Reqs -> Nat]
  /\ main \in MainPcs

\* A worker never calls w->work after uv_cancel replaced it: the abort() in
\* uv__cancelled (threadpool.c:56) is unreachable.
NeverRunsCancelled ==
  \A t \in Workers : wpc[t] = "work" => work[cur[t]] = "uv__queue_work"

\* Workers that will look at the queue before they sleep again.
Looking == {t \in Workers : wpc[t] \in {"lock", "head", "wake"}}

\* No worker sleeps on the condition variable while there is more queued
\* work than workers on their way to it: post() signals often enough although
\* idle_threads also counts workers already woken (threadpool.c:73-77, 110).
WorkConserving ==
  Waiting # {} => Len(wq) <= Cardinality(Looking)

\* Threads between the exchange and the PostQueuedCompletionStatus of
\* uv_async_send on l's wq_async.
Posting(l) ==
  {t \in Workers : wpc[t] = "async_post" /\ LoopOf[cur[t]] = l}
    \cup {x \in {l} : lpc[x] = "async_post"}

\* The one overlapped request of wq_async is outstanding at most once, and
\* exactly when async_sent says so: posting it twice would corrupt the list
\* of pending requests (async.c:79, 92; req-inl.h:97).
OnePacket ==
  \A l \in Loops :
    Cardinality(Posting(l)) + iocp[l] + (IF pending[l] THEN 1 ELSE 0)
      = IF async_sent[l] THEN 1 ELSE 0

\* Finished or cancelled work in loop->wq always has a wake-up on its way:
\* clearing async_sent before the queue is emptied loses no result
\* (async.c:92, threadpool.c:226-228).
ResultsAnnounced ==
  \A l \in Loops :
    loop_wq[l] # <<>> => async_sent[l] \/ lpc[l] \in {"done_lock", "done_move"}

\* Once uv_loop_close succeeded nothing in the pool refers to the loop: no
\* worker handles its work, none is queued, and loop->wq is empty, as
\* win/core.c:316 asserts.
ClosedLoopUnused ==
  \A l \in Loops : lpc[l] = "closed" =>
    /\ loop_wq[l] = <<>> /\ local[l] = <<>>
    /\ \A t \in Workers : cur[t] # NoReq => LoopOf[cur[t]] # l
    /\ \A i \in 1..Len(wq) : wq[i] # exit_message => LoopOf[wq[i]] # l

\* win/core.c:304 asserts that no wake-up is outstanding when a loop closes.
\* A wake-up sent after async_sent was cleared but before uv__work_done took
\* the lock outlives the results it announced, and the assertion fails.
CloseFindsNoWakeup ==
  \A l \in Loops : lpc[l] = "closed" => ~async_sent[l]

\* Every submitted or cancelled request has its after_work_cb called, as
\* docs/src/threadpool.rst promises of uv_queue_work and request.rst of
\* uv_cancel, unless the process exits first.
Delivered ==
  \A r \in Reqs : r \in active_reqs ~> r \notin active_reqs \/ main # "running"

\* The exit message reaches every worker although it is posted once and
\* signalled once: cleanup's joins return (threadpool.c:81-82, 123-127).
CleanupReturns == main = "join" ~> main = "exited"

-----------------------------------------------------------------------------
(* The pool implements WorkPool.  A request is queued once post() linked   *)
(* it, and cancelled once uv__work_cancel unlinked it.                     *)

HeldBy(r) == {t \in Workers : cur[t] = r /\ wpc[t] \in {"work", "done_lock", "done"}}

Phase(r) ==
  LET l == LoopOf[r]
      inCall(pcs) == lpc[l] \in pcs /\ arg[l] = r
  IN  IF r \notin active_reqs \/ inCall({"post_lock", "post"}) THEN "free"
      ELSE IF HeldBy(r) # {} THEN "running"
      ELSE IF work[r] = "NULL" THEN "finished"
      ELSE IF work[r] = "uv__cancelled" \/ inCall({"cancelled"}) THEN "cancelled"
      ELSE "queued"

Abstract == INSTANCE WorkPool WITH phase <- [r \in Reqs |-> Phase(r)]

\* Every behaviour of the pool is one WorkPool allows: a request runs or is
\* cancelled, never both, and gets one after_work_cb with the right status.
ImplementsWorkPool == Abstract!Spec
=============================================================================
