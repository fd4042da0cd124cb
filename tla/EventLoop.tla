----------------------------- MODULE EventLoop ------------------------------
(***************************************************************************)
(* One event loop: uv_run and uv_poll (win/core.c), the life of a handle   *)
(* (uv-common.h, win/handle-inl.h, win/handle.c), timers (win/timer.c),    *)
(* idle, prepare and check watchers (win/loop-watcher.c), async handles    *)
(* (win/async.c) and the queue of completed requests (win/req-inl.h).      *)
(*                                                                         *)
(* The loop's thread is in uv_run (pc), in a callback (cb), or in the      *)
(* user's code between two runs (pc = "out").  Callbacks may make any      *)
(* call.  Other threads only call uv_async_send.                           *)
(***************************************************************************)
EXTENDS Integers, Sequences, FiniteSets, SequencesExt

CONSTANTS
  Timers, Asyncs, Idles, Prepares, Checks,   \* the handles, by type
  NoHandle,      \* NULL
  Modes,         \* run modes the user asks for
  Timeouts,      \* timeout and repeat arguments the user passes
  TimeMax,       \* the largest uint64_t
  Int64Max,      \* the largest int64_t
  DwordMax,      \* UINT_MAX, which is also INFINITE
  MaxBatch,      \* packets one poll dequeues: 1 in uv_poll, 128 in uv_poll_ex
  Clock,         \* bound: the last instant the clock shows
  MaxOps,        \* bound: calls the user makes on initialized handles
  MaxResumes     \* bound: wake-ups sent to all loops on system resume

Watchers == Idles \cup Prepares \cup Checks
Handles == Timers \cup Asyncs \cup Watchers
Kinds == {"idle", "prepare", "check"}
KindOf(h) == IF h \in Idles THEN "idle"
             ELSE IF h \in Prepares THEN "prepare" ELSE "check"

ASSUME LoopAssumption ==
  /\ IsFiniteSet(Handles)
  /\ NoHandle \notin Handles
  /\ Timers \cap Asyncs = {} /\ Timers \cap Watchers = {}
  /\ Asyncs \cap Watchers = {}
  /\ Modes \subseteq {"DEFAULT", "ONCE", "NOWAIT"}
  /\ {TimeMax, Int64Max, DwordMax, MaxBatch, Clock, MaxOps, MaxResumes} \subseteq Nat
  /\ Timeouts \subseteq 0..TimeMax
  /\ Clock <= TimeMax
  /\ DwordMax > 0

VARIABLES
  ref, active, closing, closed,  \* the handles with the flag set
  handle_queue,                  \* handles initialized and not yet closed
  active_handles,
  endgame,                       \* loop->endgame_handles, last in first out
  timers,                        \* the tree of timers, in its order
  due, repeat, has_cb,           \* timer fields; has_cb: timer_cb # NULL
  list,                          \* list[k]: started watchers of kind k
  next,                          \* next[k]: loop->next_<k>_handle
  async_sent,
  posting,                       \* asyncs between exchange and post
  iocp,                          \* packets of asyncs in the completion port
  empty,                         \* packets there that only wake the loop
  pending,                       \* loop->pending_reqs_tail's queue
  batch,                         \* what uv_process_reqs still has to handle
  time, stop_flag,
  pc, mode, cb, ran_pending, timeout,
  ops, resumes,
  unseen,        \* history: asyncs sent to since their callback last began
  progress,      \* history: a callback ran since uv_run was called
  zeroStarted,   \* history: timers started with timeout 0 in this iteration
  todo           \* history: watchers the running invocation still owes a call

handleVars == <<ref, active, closing, closed, handle_queue, active_handles, endgame>>
timerVars  == <<timers, due, repeat, has_cb>>
watchVars  == <<list, next>>
asyncVars  == <<async_sent, posting, iocp, pending, batch, unseen>>
resumeVars == <<empty, resumes>>
runVars    == <<pc, mode, cb, ran_pending, timeout, progress, todo>>
clockVars  == <<time, stop_flag>>
vars == <<handleVars, timerVars, watchVars, asyncVars, runVars, clockVars,
          ops, resumeVars, zeroStarted>>

Pcs == {"out", "timers", "reqs", "idle", "prepare", "poll", "check",
        "endgames", "once_timers", "closed"}

Bit(b) == IF b THEN 1 ELSE 0

HeadOrNull(q) == IF q = <<>> THEN NoHandle ELSE Head(q)

Init ==
  /\ ref = {} /\ active = {} /\ closing = {} /\ closed = {}
  /\ handle_queue = {}
  /\ active_handles = 0
  /\ endgame = <<>>
  /\ timers = <<>>
  /\ due = [h \in Timers |-> 0]
  /\ repeat = [h \in Timers |-> 0]
  /\ has_cb = {}
  /\ list = [k \in Kinds |-> <<>>]
  /\ next = [k \in Kinds |-> NoHandle]
  /\ async_sent = {} /\ posting = {}
  /\ iocp = <<>> /\ pending = <<>> /\ batch = <<>>
  /\ time = 0 /\ stop_flag = FALSE
  /\ pc = "out" /\ mode = "DEFAULT" /\ cb = NoHandle
  /\ ran_pending = FALSE /\ timeout = 0
  /\ ops = 0 /\ resumes = 0 /\ empty = 0
  /\ unseen = {} /\ progress = FALSE /\ zeroStarted = {} /\ todo = {}

-----------------------------------------------------------------------------
(* Calls of the user, from a callback or between two runs.                 *)

InUser == cb # NoHandle \/ pc = "out"

User ==
  /\ InUser
  /\ ops < MaxOps
  /\ ops' = ops + 1

Open == handle_queue \ closing

\* uv__handle_start, uv__handle_stop, uv__handle_closing: the flags and the
\* count of handles that keep the loop alive.
uv__handle_start(h) ==
  /\ active' = active \cup {h}
  /\ active_handles' = active_handles + Bit(h \notin active /\ h \in ref)

uv__handle_stop(h) ==
  /\ active' = active \ {h}
  /\ active_handles' = active_handles - Bit(h \in active /\ h \in ref)

HandleClosingAlways(h) ==
  /\ active' = active \ {h}
  /\ closing' = closing \cup {h}
  /\ active_handles' = active_handles + 1

\* A stop before it makes no difference to the outcome.
uv__handle_closing(h) ==
  /\ active' = active \ {h}
  /\ closing' = closing \cup {h}
  /\ active_handles' = active_handles + Bit(~(h \in active /\ h \in ref))

\* uv_<type>_init on memory that holds no open handle.
uv_handle_init(h) ==
  /\ InUser
  /\ h \notin handle_queue
  /\ handle_queue' = handle_queue \cup {h}
  /\ ref' = ref \cup {h}
  /\ closing' = closing \ {h}
  /\ closed' = closed \ {h}
  /\ IF h \in Asyncs
     THEN /\ active' = active \cup {h}
          /\ active_handles' = active_handles + 1
     ELSE active' = active \ {h} /\ UNCHANGED active_handles
  /\ repeat' = [x \in Timers |-> IF x = h THEN 0 ELSE repeat[x]]
  /\ has_cb' = has_cb \ {h}
  /\ async_sent' = async_sent \ {h}
  /\ unseen' = unseen \ {h}
  /\ UNCHANGED <<endgame, timers, due, watchVars, posting, iocp, pending, batch,
                 runVars, clockVars, ops, resumeVars, zeroStarted>>

uv_ref(h) ==
  /\ User
  /\ h \in handle_queue
  /\ ref' = ref \cup {h}
  /\ active_handles' =
       active_handles + Bit(h \notin ref /\ h \notin closing /\ h \in active)
  /\ UNCHANGED <<active, closing, closed, handle_queue, endgame, timerVars,
                 watchVars, asyncVars, runVars, clockVars, resumeVars, zeroStarted>>

uv_unref(h) ==
  /\ User
  /\ h \in handle_queue
  /\ ref' = ref \ {h}
  /\ active_handles' =
       active_handles - Bit(h \in ref /\ h \notin closing /\ h \in active)
  /\ UNCHANGED <<active, closing, closed, handle_queue, endgame, timerVars,
                 watchVars, asyncVars, runVars, clockVars, resumeVars, zeroStarted>>

\* get_clamped_due_time: the sum saturates.
DueTime(timeoutArg) == IF time + timeoutArg > TimeMax THEN TimeMax ELSE time + timeoutArg

\* RB_REMOVE, and the unlinking of a watcher: the handle is there once, or not.
Position(q, h) == CHOOSE i \in 1..Len(q) : q[i] = h
Without(q, h) == IF h \in Range(q) THEN RemoveAt(q, Position(q, h)) ELSE q

RemoveLater(h) == IF timers # <<>> /\ Head(timers) = h THEN timers ELSE Without(timers, h)

\* uv_timer_stop's RB_REMOVE, for an active timer.
TreeWithout(h) == Without(timers, h)

\* RB_INSERT with the next start_id: after every timer due no later.
Insert(q, h, d) ==
  InsertAt(q, 1 + Cardinality({i \in 1..Len(q) : due[q[i]] <= d}), h)

uv_timer_start(h) ==
  \E t, rep \in Timeouts :
    /\ User
    /\ h \in Open
    /\ timers' = Insert(TreeWithout(h), h, DueTime(t))
    /\ due' = [due EXCEPT ![h] = DueTime(t)]
    /\ repeat' = [repeat EXCEPT ![h] = rep]
    /\ has_cb' = has_cb \cup {h}
    /\ uv__handle_start(h)
    /\ zeroStarted' = IF t = 0 /\ pc # "out" THEN zeroStarted \cup {h}
                      ELSE zeroStarted \ {h}
    /\ UNCHANGED <<ref, closing, closed, handle_queue, endgame, watchVars,
                   asyncVars, runVars, clockVars, resumeVars>>

uv_timer_stop(h) ==
  /\ User
  /\ h \in active
  /\ timers' = TreeWithout(h)
  /\ uv__handle_stop(h)
  /\ UNCHANGED <<ref, closing, closed, handle_queue, endgame, due, repeat, has_cb,
                 watchVars, asyncVars, runVars, clockVars, resumeVars, zeroStarted>>

\* uv_timer_again does something only for a repeating timer started before.
uv_timer_again(h) ==
  /\ User
  /\ h \in Open /\ h \in has_cb /\ repeat[h] # 0
  /\ timers' = Insert(TreeWithout(h), h, DueTime(repeat[h]))
  /\ due' = [due EXCEPT ![h] = DueTime(repeat[h])]
  /\ uv__handle_start(h)
  /\ zeroStarted' = zeroStarted \ {h}
  /\ UNCHANGED <<ref, closing, closed, handle_queue, endgame, repeat, has_cb,
                 watchVars, asyncVars, runVars, clockVars, resumeVars>>

uv_timer_set_repeat(h) ==
  \E rep \in Timeouts :
    /\ User
    /\ h \in handle_queue
    /\ repeat' = [repeat EXCEPT ![h] = rep]
    /\ UNCHANGED <<handleVars, timers, due, has_cb, watchVars, asyncVars, runVars,
                   clockVars, resumeVars, zeroStarted>>

\* uv_idle_start, uv_prepare_start, uv_check_start: at the head of the list.
uv_watcher_start(h) ==
  /\ User
  /\ h \in Open /\ h \notin active
  /\ list' = [list EXCEPT ![KindOf(h)] = <<h>> \o @]
  /\ uv__handle_start(h)
  /\ UNCHANGED <<ref, closing, closed, handle_queue, endgame, timerVars, next,
                 asyncVars, runVars, clockVars, resumeVars, zeroStarted>>

\* The handle after h in its list.
Successor(h) ==
  LET q == list[KindOf(h)]
      i == Position(q, h)
  IN  IF i = Len(q) THEN NoHandle ELSE q[i + 1]

\* uv_<watcher>_stop unlinks the handle and moves the iterator past it.
UnlinkOnly(h) ==
  /\ list' = [list EXCEPT ![KindOf(h)] = Without(@, h)]
  /\ UNCHANGED next
  /\ todo' = todo \ {h}

Unlink(h) ==
  /\ list' = [list EXCEPT ![KindOf(h)] = Without(@, h)]
  /\ next' = [next EXCEPT ![KindOf(h)] = IF @ = h THEN Successor(h) ELSE @]
  /\ todo' = todo \ {h}

uv_watcher_stop(h) ==
  /\ User
  /\ h \in active
  /\ Unlink(h)
  /\ uv__handle_stop(h)
  /\ UNCHANGED <<ref, closing, closed, handle_queue, endgame, timerVars,
                 asyncVars, pc, mode, cb, ran_pending, timeout, progress,
                 clockVars, resumeVars, zeroStarted>>

WantEndgameIfNone(h) == endgame' = IF endgame = <<>> THEN <<h>> ELSE endgame

\* uv_want_endgame: a handle is in the list once.
WantEndgame(h) == endgame' = IF h \in Range(endgame) THEN endgame ELSE <<h>> \o endgame

uv_close_timer(h) ==
  /\ User
  /\ h \in Open
  /\ timers' = TreeWithout(h)
  /\ uv__handle_closing(h)
  /\ WantEndgame(h)
  /\ UNCHANGED <<ref, closed, handle_queue, due, repeat, has_cb, watchVars,
                 asyncVars, runVars, clockVars, resumeVars, zeroStarted>>

uv_close_watcher(h) ==
  /\ User
  /\ h \in Open
  /\ IF h \in active THEN Unlink(h) ELSE UNCHANGED <<list, next, todo>>
  /\ uv__handle_closing(h)
  /\ WantEndgame(h)
  /\ UNCHANGED <<ref, closed, handle_queue, timerVars, asyncVars, pc, mode, cb,
                 ran_pending, timeout, progress, clockVars, resumeVars, zeroStarted>>

\* uv_async_close: the endgame waits for a wake-up that is on its way.
uv_async_close(h) ==
  /\ User
  /\ h \in Open
  /\ IF h \in async_sent THEN UNCHANGED endgame ELSE WantEndgame(h)
  /\ uv__handle_closing(h)
  /\ UNCHANGED <<ref, closed, handle_queue, timerVars, watchVars, asyncVars,
                 runVars, clockVars, resumeVars, zeroStarted>>

uv_stop ==
  /\ User
  /\ ~stop_flag
  /\ stop_flag' = TRUE
  /\ UNCHANGED <<handleVars, timerVars, watchVars, asyncVars, runVars, time,
                 resumeVars, zeroStarted>>

-----------------------------------------------------------------------------
(* Other threads.                                                          *)

\* uv_async_send exchanges async_sent and posts a packet if it was clear.
\* The user must not send to a closing handle.
uv_async_send(h) ==
  /\ ops < MaxOps
  /\ ops' = ops + 1
  /\ h \in Open
  /\ async_sent' = async_sent \cup {h}
  /\ posting' = IF h \in async_sent THEN posting ELSE posting \cup {h}
  /\ unseen' = unseen \cup {h}
  /\ UNCHANGED <<handleVars, timerVars, watchVars, iocp, pending, batch, runVars,
                 clockVars, resumeVars, zeroStarted>>

AsyncPost(h) ==
  /\ h \in posting
  /\ posting' = posting \ {h}
  /\ iocp' = Append(iocp, h)
  /\ UNCHANGED <<handleVars, timerVars, watchVars, async_sent, pending, batch,
                 unseen, runVars, clockVars, ops, resumeVars, zeroStarted>>

\* uv__wake_all_loops: an empty packet when the system resumes.
uv__wake_all_loops ==
  /\ pc # "closed"
  /\ resumes < MaxResumes
  /\ resumes' = resumes + 1
  /\ empty' = empty + 1
  /\ UNCHANGED <<handleVars, timerVars, watchVars, asyncVars, runVars, clockVars,
                 ops, zeroStarted>>

-----------------------------------------------------------------------------
(* uv_run.                                                                 *)

\* The loop's thread is in uv_run's own code, at phase p.
At(p) == cb = NoHandle /\ pc = p

uv__loop_alive == active_handles > 0 \/ endgame # <<>>

uv_update_time == time' \in time..Clock

\* The head of an iteration: the while condition and uv_update_time.
BeginIteration ==
  /\ uv_update_time
  /\ zeroStarted' = {}
  /\ pc' = "timers"

uv_run ==
  /\ pc = "out"
  /\ \E m \in Modes : mode' = m
  /\ progress' = FALSE
  /\ IF uv__loop_alive /\ ~stop_flag
     THEN BeginIteration /\ UNCHANGED stop_flag
     ELSE /\ IF uv__loop_alive THEN UNCHANGED time ELSE uv_update_time
          /\ stop_flag' = FALSE
          /\ UNCHANGED <<pc, zeroStarted>>
  /\ UNCHANGED <<handleVars, timerVars, watchVars, asyncVars, cb, ran_pending,
                 timeout, todo, ops, resumeVars>>

\* A callback returns to the loop.
CallbackReturns ==
  /\ cb # NoHandle
  /\ cb' = NoHandle
  /\ UNCHANGED <<handleVars, timerVars, watchVars, asyncVars, clockVars, pc, mode,
                 ran_pending, timeout, progress, todo, ops, resumeVars, zeroStarted>>

Callback(h) == cb' = h /\ progress' = TRUE

TimerDue == timers # <<>> /\ due[Head(timers)] <= time

\* uv_process_timers: stop the first timer, restart it if it repeats, and
\* call it.  A repeat of zero leaves it stopped.
FireTimer(p) ==
  LET h == Head(timers) IN
  /\ At(p)
  /\ TimerDue
  /\ IF repeat[h] = 0
     THEN /\ timers' = Tail(timers)
          /\ uv__handle_stop(h)
          /\ UNCHANGED due
     ELSE /\ timers' = Insert(Tail(timers), h, DueTime(repeat[h]))
          /\ due' = [due EXCEPT ![h] = DueTime(repeat[h])]
          /\ UNCHANGED <<active, active_handles>>
  /\ Callback(h)
  /\ UNCHANGED <<ref, closing, closed, handle_queue, endgame, repeat, has_cb,
                 watchVars, asyncVars, pc, mode, ran_pending, timeout, todo,
                 clockVars, ops, resumeVars, zeroStarted>>

\* uv_process_reqs takes the whole queue; requests completed meanwhile wait.
TimersDone ==
  /\ At("timers")
  /\ ~TimerDue
  /\ batch' = pending
  /\ pending' = <<>>
  /\ ran_pending' = (pending # <<>>)
  /\ pc' = "reqs"
  /\ UNCHANGED <<handleVars, timerVars, watchVars, async_sent, posting, iocp,
                 unseen, mode, cb, timeout, progress, todo, clockVars, ops, resumeVars,
                 zeroStarted>>

ClearSentIfClosing(h) == async_sent' = IF h \in closing THEN async_sent \ {h} ELSE async_sent

\* The flag is cleared before the callback, so a send in the callback counts.
ClearSent(h) == async_sent' = async_sent \ {h}

uv_process_async_wakeup_req ==
  LET h == Head(batch) IN
  /\ At("reqs")
  /\ batch # <<>>
  /\ batch' = Tail(batch)
  /\ ClearSent(h)
  /\ IF h \in closing
     THEN WantEndgame(h) /\ UNCHANGED <<cb, progress, unseen>>
     ELSE /\ Callback(h)
          /\ unseen' = unseen \ {h}
          /\ UNCHANGED endgame
  /\ UNCHANGED <<ref, active, closing, closed, handle_queue, active_handles,
                 timerVars, watchVars, posting, iocp, pending, pc, mode,
                 ran_pending, timeout, todo, clockVars, ops, resumeVars, zeroStarted>>

\* uv_<k>_invoke starts at the head of the list as it is now.
BeginInvoke(k) ==
  /\ next' = [next EXCEPT ![k] = HeadOrNull(list[k])]
  /\ todo' = Range(list[k])
  /\ pc' = k

Invoke(k) ==
  LET h == next[k] IN
  /\ At(k)
  /\ h # NoHandle
  /\ next' = [next EXCEPT ![k] = Successor(h)]
  /\ Callback(h)
  /\ todo' = todo \ {h}
  /\ UNCHANGED <<handleVars, timerVars, list, asyncVars, clockVars, pc, mode,
                 ran_pending, timeout, ops, resumeVars, zeroStarted>>

ReqsDone ==
  /\ At("reqs")
  /\ batch = <<>>
  /\ BeginInvoke("idle")
  /\ UNCHANGED <<handleVars, timerVars, list, asyncVars, clockVars, mode, cb,
                 ran_pending, timeout, progress, ops, resumeVars, zeroStarted>>

IdleDone ==
  /\ At("idle")
  /\ next["idle"] = NoHandle
  /\ BeginInvoke("prepare")
  /\ UNCHANGED <<handleVars, timerVars, list, asyncVars, clockVars, mode, cb,
                 ran_pending, timeout, progress, ops, resumeVars, zeroStarted>>

NextTimeoutUnclamped ==
  LET delta == due[Head(timers)] - time IN
  IF timers = <<>> THEN DwordMax ELSE IF delta < 0 THEN 0 ELSE delta

NextTimeoutMaxIsInfinite ==
  LET delta == due[Head(timers)] - time IN
  IF timers = <<>> \/ delta >= DwordMax THEN DwordMax ELSE IF delta < 0 THEN 0 ELSE delta

\* delta is an int64_t: a difference beyond its range is negative.
uv__next_timeout ==
  LET delta == due[Head(timers)] - time IN
  IF timers = <<>> THEN DwordMax
  ELSE IF delta < 0 \/ delta > Int64Max THEN 0
  ELSE IF delta >= DwordMax - 1 THEN DwordMax - 1
  ELSE delta

uv_backend_timeout ==
  IF stop_flag \/ ~uv__loop_alive \/ pending # <<>> \/ list["idle"] # <<>> THEN 0
  ELSE uv__next_timeout

PrepareDone ==
  /\ At("prepare")
  /\ next["prepare"] = NoHandle
  /\ timeout' = IF (mode = "ONCE" /\ ~ran_pending) \/ mode = "DEFAULT"
                THEN uv_backend_timeout ELSE 0
  /\ pc' = "poll"
  /\ UNCHANGED <<handleVars, timerVars, watchVars, asyncVars, clockVars, mode, cb,
                 ran_pending, progress, todo, ops, resumeVars, zeroStarted>>

\* uv_poll dequeues packets, dropping empty ones, or times out.  It may miss
\* the latest ones.  An early timeout is waited out, so a finite one ends at
\* its target time or later.  Only a system resume posts an empty packet, and
\* Windows tells of it from the version 8 on (win/detect-wakeup.c:27), which
\* has GetQueuedCompletionStatusEx: the poll of one packet, which takes an empty
\* one for an error (win/core.c:378), meets none.
Dequeue ==
  \E n \in 0..Len(iocp), m \in 0..empty :
    /\ n + m \in 1..MaxBatch
    /\ pending' = pending \o SubSeq(iocp, 1, n)
    /\ iocp' = SubSeq(iocp, n + 1, Len(iocp))
    /\ empty' = empty - m
    /\ uv_update_time

TimeOut ==
  /\ iocp = <<>> /\ empty = 0
  /\ timeout # DwordMax
  /\ IF timeout = 0 THEN UNCHANGED time
     ELSE time + timeout <= Clock /\ time' \in (time + timeout)..Clock
  /\ UNCHANGED <<iocp, pending, empty>>

uv_poll ==
  /\ At("poll")
  /\ Dequeue \/ TimeOut
  /\ BeginInvoke("check")
  /\ UNCHANGED <<handleVars, timerVars, list, async_sent, posting, batch, unseen,
                 stop_flag, mode, cb, ran_pending, timeout, progress, ops, resumes,
                 zeroStarted>>

CheckDone ==
  /\ At("check")
  /\ next["check"] = NoHandle
  /\ pc' = "endgames"
  /\ UNCHANGED <<handleVars, timerVars, watchVars, asyncVars, clockVars, mode, cb,
                 ran_pending, timeout, progress, todo, ops, resumeVars, zeroStarted>>

\* uv_process_endgames takes the first handle; uv__handle_close, and the
\* close callback.  An async's endgame does nothing while a wake-up is sent.
uv_process_endgames ==
  LET h == Head(endgame) IN
  /\ At("endgames")
  /\ endgame # <<>>
  /\ endgame' = Tail(endgame)
  /\ IF h \in closing /\ h \notin async_sent
     THEN /\ handle_queue' = handle_queue \ {h}
          /\ active_handles' = active_handles - 1
          /\ closed' = closed \cup {h}
          /\ Callback(h)
     ELSE UNCHANGED <<handle_queue, active_handles, closed, cb, progress>>
  /\ UNCHANGED <<ref, active, closing, timerVars, watchVars, asyncVars, clockVars,
                 pc, mode, ran_pending, timeout, todo, ops, resumeVars, zeroStarted>>

\* The end of an iteration: go on, or return and clear the stop flag.
EndIteration ==
  IF mode = "DEFAULT" /\ uv__loop_alive /\ ~stop_flag
  THEN BeginIteration /\ UNCHANGED stop_flag
  ELSE pc' = "out" /\ stop_flag' = FALSE /\ UNCHANGED <<time, zeroStarted>>

EndgamesDone ==
  /\ At("endgames")
  /\ endgame = <<>>
  /\ IF mode = "ONCE" THEN pc' = "once_timers" /\ UNCHANGED <<clockVars, zeroStarted>>
     ELSE EndIteration
  /\ UNCHANGED <<handleVars, timerVars, watchVars, asyncVars, mode, cb,
                 ran_pending, timeout, progress, todo, ops, resumeVars>>

OnceTimersDone ==
  /\ At("once_timers")
  /\ ~TimerDue
  /\ EndIteration
  /\ UNCHANGED <<handleVars, timerVars, watchVars, asyncVars, mode, cb,
                 ran_pending, timeout, progress, todo, ops, resumeVars>>

\* uv_loop_close: UV_EBUSY while a handle is not closed.
uv_loop_close ==
  /\ pc = "out"
  /\ handle_queue = {}
  /\ pc' = "closed"
  /\ UNCHANGED <<handleVars, timerVars, watchVars, asyncVars, clockVars, mode, cb,
                 ran_pending, timeout, progress, todo, ops, resumeVars, zeroStarted>>

-----------------------------------------------------------------------------

UserCall ==
  \/ \E h \in Handles : uv_handle_init(h) \/ uv_ref(h) \/ uv_unref(h)
  \/ \E h \in Timers : \/ uv_timer_start(h) \/ uv_timer_stop(h) \/ uv_timer_again(h)
                       \/ uv_timer_set_repeat(h) \/ uv_close_timer(h)
  \/ \E h \in Watchers : uv_watcher_start(h) \/ uv_watcher_stop(h) \/ uv_close_watcher(h)
  \/ \E h \in Asyncs : uv_async_close(h) \/ uv_async_send(h)
  \/ uv_stop

LoopStep ==
  \/ CallbackReturns
  \/ \E p \in {"timers", "once_timers"} : FireTimer(p)
  \/ \E k \in Kinds : Invoke(k)
  \/ TimersDone \/ uv_process_async_wakeup_req \/ ReqsDone \/ IdleDone
  \/ PrepareDone \/ uv_poll \/ CheckDone \/ uv_process_endgames
  \/ EndgamesDone \/ OnceTimersDone

Next ==
  \/ UserCall
  \/ \E h \in Asyncs : AsyncPost(h)
  \/ uv__wake_all_loops
  \/ uv_run \/ uv_loop_close
  \/ LoopStep

Spec == Init /\ [][Next]_vars

\* The loop's thread runs, callbacks return, a send is completed, and the
\* user runs a loop that still has something to do.
Fairness ==
  /\ WF_vars(LoopStep)
  /\ WF_vars(uv_run /\ uv__loop_alive)
  /\ \A h \in Asyncs : WF_vars(AsyncPost(h))

FairSpec == Spec /\ Fairness
-----------------------------------------------------------------------------
(* Properties.                                                             *)

\* Every variable keeps its type; the timeout given to the completion port fits
\* a DWORD (core.c:497-501).
TypeOK ==
  /\ \A S \in {ref, active, closing, closed, handle_queue} : S \subseteq Handles
  /\ active_handles \in Int
  /\ endgame \in Seq(Handles) /\ timers \in Seq(Timers)
  /\ due \in [Timers -> 0..TimeMax] /\ repeat \in [Timers -> 0..TimeMax]
  /\ has_cb \subseteq Timers
  /\ list \in [Kinds -> Seq(Watchers)] /\ next \in [Kinds -> Watchers \cup {NoHandle}]
  /\ async_sent \subseteq Asyncs /\ posting \subseteq Asyncs /\ unseen \subseteq Asyncs
  /\ iocp \in Seq(Asyncs) /\ empty \in Nat
  /\ pending \in Seq(Asyncs) /\ batch \in Seq(Asyncs)
  /\ time \in 0..Clock /\ stop_flag \in BOOLEAN
  /\ pc \in Pcs /\ mode \in {"DEFAULT", "ONCE", "NOWAIT"}
  /\ cb \in Handles \cup {NoHandle}
  /\ ran_pending \in BOOLEAN /\ timeout \in 0..DwordMax
  /\ ops \in Nat /\ resumes \in Nat
  /\ progress \in BOOLEAN /\ zeroStarted \subseteq Timers /\ todo \subseteq Watchers

\* loop->active_handles counts the handles that are active and referenced
\* and the ones being closed, whatever order uv_ref, uv_unref, start, stop and
\* uv_close came in; uv_run's idea of an alive loop rests on it
\* (uv-common.h:163-198, handle-inl.h:63-79, design.rst:63-65).
ActiveCount ==
  active_handles = Cardinality(closing \ closed)
                     + Cardinality((active \cap ref) \ closing)

\* The tree of timers and the lists of watchers hold exactly the started
\* handles, each once, timers by due time: the assertion in uv_timer_start
\* that RB_INSERT finds no equal element holds (timer.c:109-110).
Registered ==
  /\ Range(timers) = active \cap Timers
  /\ IsInjective(timers)
  /\ \A i, j \in DOMAIN timers : i < j => due[timers[i]] <= due[timers[j]]
  /\ \A k \in Kinds : /\ Range(list[k]) = {h \in active \cap Watchers : KindOf(h) = k}
                      /\ IsInjective(list[k])

\* Every packet of an async handle that is posted, queued or being handled.
Packets(h) ==
  LET count(q) == Cardinality({i \in DOMAIN q : q[i] = h})
  IN  Bit(h \in posting) + count(iocp) + count(pending) + count(batch)

\* async_sent is set exactly while the handle's one request is outstanding,
\* and no send is lost: until the callback starts, the flag stays set even
\* when sends race the loop (async.c:79-81, 92-97).
WakeupOnItsWay ==
  \A h \in Asyncs : /\ Packets(h) = Bit(h \in async_sent)
                    /\ h \in unseen \ closing => h \in async_sent

\* A watcher invocation calls each watcher that was started when it began and
\* is not stopped before its turn, once, and no other: stopping, closing or
\* starting watchers in callbacks never leads the iterator astray
\* (loop-watcher.c:89-92, 107-118).
InvokesEachOnce ==
  pc \in Kinds => /\ next[pc] \in todo \cup {NoHandle}
                  /\ next[pc] = NoHandle => todo = {}

\* Once its close callback runs nothing in the loop refers to a handle, so
\* the user may free it.
ClosedIsForgotten ==
  \A h \in closed :
    /\ h \notin active /\ h \notin handle_queue
    /\ h \notin Range(endgame) \cup Range(timers)
    /\ \A k \in Kinds : h \notin Range(list[k]) /\ next[k] # h
    /\ h \in Asyncs => Packets(h) = 0

\* While a timer runs the loop never sleeps past it, and never for ever, how
\* far away it may be (timer.c:166-172).
SleepsToFirstTimer ==
  pc = "poll" /\ timers # <<>> =>
    timeout = 0 \/ (timeout # DwordMax /\ time + timeout <= due[Head(timers)])

\* handle.rst:130: a handle that is closed gets its close callback if the loop
\* keeps being run, also when its last wake-up is still in flight.  Only a loop
\* that sleeps with the handle's endgame queued (NoSleepWhileClosing) may keep
\* it waiting.
ClosesEventually ==
  \A h \in Handles :
    h \in closing ~> h \in closed
                      \/ (pc = "poll" /\ timeout # 0 /\ h \in Range(endgame))

\* A send is followed by the handle's callback, unless the handle is closed
\* or unreferenced and the loop has nothing to do (async.rst:43).
SendsAreSeen ==
  \A h \in Asyncs : h \in unseen ~> h \notin unseen \/ h \in closing \/ ~uv__loop_alive

\* design.rst:87: "If there are any handles pending to be closed, the timeout
\* is 0."
NoSleepWhileClosing == pc = "poll" /\ endgame # <<>> => timeout = 0

\* timer.rst:41: "If `timeout` is zero, the callback fires on the next event
\* loop iteration."
ZeroTimerWaits ==
  [][\A h \in Timers : cb = NoHandle /\ cb' = h /\ pc \in {"timers", "once_timers"}
                         => h \notin zeroStarted]_vars

\* win/core.c:507-508: "UV_RUN_ONCE implies forward progress: at least one
\* callback must have been invoked when it returns."
RunOnceMakesProgress ==
  [][At("once_timers") /\ pc' = "out" => progress]_vars
=============================================================================
