------------------------------ MODULE UnixLoop ------------------------------
(***************************************************************************)
(* The event loop of the Unix backend: uv_run, uv_close and the pending    *)
(* queue (src/unix/core.c), timers (timer.c), idle, prepare and check      *)
(* watchers (loop-watcher.c), async handles (async.c), how a loop begins   *)
(* and ends (loop.c).  Other threads send to async handles and do the work *)
(* of the thread pool; the loop's thread is in uv_run, in a callback, or   *)
(* outside ("out").                                                        *)
(***************************************************************************)
EXTENDS Integers, Sequences, FiniteSets, SequencesExt

CONSTANTS
  LoopTimers,     \* the user's timers
  LoopOthers,     \* the user's other handles
  LoopTypes,      \* their types; each has one in a behaviour
  LoopModes,      \* run modes; a program keeps to one
  LoopTimeouts,   \* timeout arguments
  LoopRepeats,    \* repeat arguments
  UTimeMax,       \* the largest uint64_t
  UIntMax,        \* INT_MAX
  MaxNow,         \* bound: the last instant the clock shows
  MaxLoopCalls,   \* bound: calls, on any thread
  LoopFaults      \* "init_fails": a step of uv_loop_init may fail

VARIABLES
  h,        \* the loop with its handles (w), queues and counters
  kernel,   \* the clock, open descriptors, the eventfd, the other threads
  pending,  \* a watcher was fed; a request of the pool is done
  pc,       \* where uv_run is
  cb, calls,
  hist      \* what the properties remember
vars == <<h, kernel, pending, pc, cb, calls, hist>>

May(f) == f \in LoopFaults
None == "none"
LoopHandles == LoopTimers \cup LoopOthers
Handles == LoopHandles \cup {"wq"}   \* with loop->wq_async
Lists == {"idle", "prepare", "check", "async"}
SendingThreads == {"other", "worker"}
Bit(b) == IF b THEN 1 ELSE 0
Least(a, b) == IF a <= b THEN a ELSE b
Off == [at |-> "off", of |-> None]
At(p, mode) == [at |-> p, mode |-> mode, queue |-> <<>>, timeout |-> 0, ran |-> FALSE]

Init ==
  /\ \E type \in [LoopOthers -> LoopTypes] :
       h = [w |-> [x \in Handles |-> [kind |-> IF x = "wq" THEN "async" ELSE IF x \in LoopTimers THEN "timer" ELSE type[x],
                                      flags |-> {}, due |-> 0, repeat |-> 0, has_cb |-> FALSE, pending |-> FALSE]],
            queue |-> {}, active |-> 0, timers |-> <<>>, lists |-> [k \in Lists |-> <<>>],
            closing |-> <<>>, time |-> 0, stop |-> FALSE, reqs |-> 0]
  /\ kernel = [now |-> 0, fds |-> {}, efd |-> FALSE, s |-> [t \in SendingThreads |-> Off]]
  /\ pending = [fed |-> FALSE, done |-> FALSE]
  /\ pc \in {At("new", mode) : mode \in LoopModes} /\ cb = None /\ calls = 0
  /\ hist = [unseen |-> {}, called |-> {}, twice |-> FALSE, early |-> FALSE, progress |-> TRUE,
             asked |-> [x \in LoopHandles |-> 0]]

-----------------------------------------------------------------------------
(* Handles: the macros of src/uv-common.h on the loop l, where the flag    *)
(* UV__HANDLE_CLOSING of this backend is 0 and so never set.               *)

Has(l, x, f) == f \in l.w[x].flags
Open(x) == x \in h.queue /\ ~Has(h, x, "CLOSING")

uv__handle_start(l, x) ==
  [l EXCEPT !.w[x].flags = @ \cup {"ACTIVE"}, !.active = @ + Bit(~Has(l, x, "ACTIVE") /\ Has(l, x, "REF"))]

uv__handle_stop(l, x) ==
  [l EXCEPT !.w[x].flags = @ \ {"ACTIVE"}, !.active = @ - Bit(Has(l, x, "ACTIVE") /\ Has(l, x, "REF"))]

uv__handle_ref(l, x) ==
  [l EXCEPT !.w[x].flags = @ \cup {"REF"}, !.active = @ + Bit(~Has(l, x, "REF") /\ Has(l, x, "ACTIVE"))]

uv__handle_unref(l, x) ==
  [l EXCEPT !.w[x].flags = @ \ {"REF"}, !.active = @ - Bit(Has(l, x, "REF") /\ Has(l, x, "ACTIVE"))]

\* uv_timer_stop, uv_timer_start and uv_timer_again on an open timer.  Timers
\* stand in the order of timer_less_than; the sum saturates.
uv_timer_stop(l, x) ==
  IF ~Has(l, x, "ACTIVE") THEN l ELSE uv__handle_stop([l EXCEPT !.timers = Remove(@, x)], x)

Due(l, timeout) == Least(l.time + timeout, UTimeMax)

uv_timer_start(l, x, timeout, repeat) ==
  LET s == uv_timer_stop(l, x)
      due == Due(l, timeout)
      before == SelectSeq(s.timers, LAMBDA y : s.w[y].due <= due)
      after == SelectSeq(s.timers, LAMBDA y : s.w[y].due > due)
  IN  uv__handle_start([s EXCEPT !.w[x].due = due, !.w[x].repeat = repeat, !.w[x].has_cb = TRUE,
                                 !.timers = before \o <<x>> \o after], x)

uv_timer_again(l, x) ==
  IF l.w[x].repeat = 0 THEN l ELSE uv_timer_start(l, x, l.w[x].repeat, l.w[x].repeat)

\* QUEUE_REMOVE takes a handle from whichever list it is in, also from the
\* local one of a pass.
Unlisted(l, x) == [l EXCEPT !.lists[l.w[x].kind] = Remove(@, x)]
PassWithout(x) == [pc EXCEPT !.queue = IF pc.at = "closing" THEN @ ELSE Remove(@, x)]

uv__loop_alive(l) == l.active > 0 \/ l.reqs > 0 \/ l.closing # <<>>

\* How long to sleep; -1 is for ever.
uv__next_timeout(l) ==
  IF l.timers = <<>> THEN -1
  ELSE LET due == l.w[Head(l.timers)].due
       IN  IF due <= l.time THEN 0 ELSE Least(due - l.time, UIntMax)

ForgetsPending(l) ==
  IF l.stop \/ ~uv__loop_alive(l) \/ l.lists["idle"] # <<>> THEN 0 ELSE uv__next_timeout(l)

uv_backend_timeout(l) ==
  IF l.stop \/ ~uv__loop_alive(l) \/ l.lists["idle"] # <<>> \/ pending.fed THEN 0 ELSE uv__next_timeout(l)

-----------------------------------------------------------------------------
(* Calls of the user, from callbacks or outside of uv_run.                 *)

User == pc.at = "out" \/ cb # None
Call == User /\ calls < MaxLoopCalls /\ calls' = calls + 1

\* uv__handle_init; an async handle is active from the beginning.
Made(l, x) ==
  LET m == [l EXCEPT !.w[x].flags = {"REF"}, !.queue = @ \cup {x}]
  IN  IF m.w[x].kind = "async" THEN uv__handle_start([m EXCEPT !.lists["async"] = Append(@, x)], x) ELSE m

\* uv_loop_init; what was opened before the step that fails.
Left(failing) == IF failing = "platform" THEN {} ELSE {"backend"}

uv_loop_init ==
  /\ pc.at = "new"
  /\ \E failing \in {None} \cup (IF May("init_fails") THEN {"platform", "signal", "async"} ELSE {}) :
       IF failing = None
       THEN /\ kernel' = [kernel EXCEPT !.fds = {"backend", "signal", "async"}]
            /\ h' = uv__handle_unref(Made(h, "wq"), "wq")
            /\ pc' = At("out", pc.mode)
       ELSE kernel' = [kernel EXCEPT !.fds = Left(failing)] /\ pc' = At("failed", pc.mode) /\ UNCHANGED h
  /\ UNCHANGED <<pending, cb, calls, hist>>

\* The user's handles are made before the loop first runs, or by a callback.
uv_init(x) ==
  /\ User /\ x \notin h.queue /\ ~Has(h, x, "CLOSED")
  /\ IF cb = None THEN h.time = 0 /\ calls = 0 /\ UNCHANGED calls ELSE Call
  /\ h' = Made(h, x)
  /\ UNCHANGED <<kernel, pending, pc, cb, hist>>

StartTimer(x) ==
  /\ Call /\ Open(x) /\ h.w[x].kind = "timer"
  /\ \E t \in LoopTimeouts, r \in LoopRepeats :
       /\ h' = uv_timer_start(h, x, t, r)
       /\ hist' = [hist EXCEPT !.asked[x] = h.time + t]
  /\ UNCHANGED <<kernel, pending, pc, cb>>

StopTimer(x) ==
  /\ Call /\ Open(x) /\ h.w[x].kind = "timer" /\ Has(h, x, "ACTIVE")
  /\ h' = uv_timer_stop(h, x) /\ hist' = [hist EXCEPT !.asked[x] = 0]
  /\ UNCHANGED <<kernel, pending, pc, cb>>

AgainTimer(x) ==
  /\ Call /\ Open(x) /\ h.w[x].kind = "timer" /\ h.w[x].has_cb /\ h.w[x].repeat # 0
  /\ h' = uv_timer_again(h, x)
  /\ hist' = [hist EXCEPT !.asked[x] = h.time + h.w[x].repeat]
  /\ UNCHANGED <<kernel, pending, pc, cb>>

\* The start of the loop watchers puts them first.
StartWatcher(x) ==
  /\ Call /\ Open(x) /\ h.w[x].kind \in {"idle", "prepare", "check"} /\ ~Has(h, x, "ACTIVE")
  /\ h' = uv__handle_start([h EXCEPT !.lists[h.w[x].kind] = <<x>> \o @], x)
  /\ UNCHANGED <<kernel, pending, pc, cb, hist>>

StopWatcher(x) ==
  /\ Call /\ Open(x) /\ h.w[x].kind \in {"idle", "prepare", "check"} /\ Has(h, x, "ACTIVE")
  /\ h' = uv__handle_stop(Unlisted(h, x), x) /\ pc' = PassWithout(x)
  /\ UNCHANGED <<kernel, pending, cb, hist>>

\* uv_close: each type's own close, then the list of handles to finish.  The
\* owner of an async handle first sees to it that nobody is sending to it.
Stopped(l, x) == IF l.w[x].kind = "timer" THEN uv_timer_stop(l, x) ELSE uv__handle_stop(Unlisted(l, x), x)

uv_close(x) ==
  /\ Call /\ Open(x) /\ x # "wq" /\ \A t \in SendingThreads : kernel.s[t].of # x
  /\ LET l == [h EXCEPT !.w[x].flags = @ \cup {"CLOSING"}]
     IN  h' = [Stopped(l, x) EXCEPT !.closing = <<x>> \o @]
  /\ pc' = PassWithout(x)
  /\ hist' = [hist EXCEPT !.unseen = @ \ {x}, !.asked[x] = 0]
  /\ UNCHANGED <<kernel, pending, cb>>

\* Calls that change nothing are left out.
uv_ref(x) ==
  /\ Call /\ x \in h.queue /\ ~Has(h, x, "REF")
  /\ h' = uv__handle_ref(h, x)
  /\ UNCHANGED <<kernel, pending, pc, cb, hist>>

uv_unref(x) ==
  /\ Call /\ x \in h.queue /\ Has(h, x, "REF")
  /\ h' = uv__handle_unref(h, x)
  /\ UNCHANGED <<kernel, pending, pc, cb, hist>>

uv_stop ==
  /\ Call /\ ~h.stop
  /\ h' = [h EXCEPT !.stop = TRUE]
  /\ UNCHANGED <<kernel, pending, pc, cb, hist>>

\* A request of a stream that has ended: uv__io_feed.
uv__io_feed ==
  /\ Call /\ ~pending.fed
  /\ pending' = [pending EXCEPT !.fed = TRUE] /\ h' = [h EXCEPT !.reqs = @ + 1]
  /\ UNCHANGED <<kernel, pc, cb, hist>>

\* uv_queue_work, one at a time.
uv_queue_work ==
  /\ Call /\ kernel.s["worker"] = Off /\ ~pending.done
  /\ kernel' = [kernel EXCEPT !.s["worker"] = [at |-> "job", of |-> None]]
  /\ h' = [h EXCEPT !.reqs = @ + 1]
  /\ UNCHANGED <<pending, pc, cb, hist>>

\* uv_loop_close and uv__loop_close.
uv_loop_close ==
  /\ pc.at = "out" /\ h.reqs = 0 /\ h.queue = {"wq"}
  /\ pc' = At("closed", pc.mode) /\ kernel' = [kernel EXCEPT !.fds = {}]
  /\ UNCHANGED <<h, pending, cb, calls, hist>>

-----------------------------------------------------------------------------
(* uv_async_send on other threads, and the worker that calls it with the   *)
(* lock of the loop's queue of results.                                    *)

uv_async_send(x) ==
  /\ kernel.s["other"] = Off /\ calls < MaxLoopCalls /\ calls' = calls + 1
  /\ x # "wq" /\ Open(x) /\ h.w[x].kind = "async" /\ pc.at # "closed"
  /\ kernel' = [kernel EXCEPT !.s["other"] = IF h.w[x].pending THEN Off ELSE [at |-> "swap", of |-> x]]
  /\ hist' = [hist EXCEPT !.unseen = @ \cup {x}]
  /\ UNCHANGED <<h, pending, pc, cb>>

WorkerDone ==
  /\ kernel.s["worker"].at = "job"
  /\ pending' = [pending EXCEPT !.done = TRUE]
  /\ kernel' = [kernel EXCEPT !.s["worker"] = IF h.w["wq"].pending THEN Off ELSE [at |-> "swap", of |-> "wq"]]
  /\ UNCHANGED <<h, pc, cb, calls, hist>>

Exchanges(t) ==
  LET x == kernel.s[t].of
  IN  /\ kernel.s[t].at = "swap"
      /\ h' = [h EXCEPT !.w[x].pending = TRUE]
      /\ kernel' = [kernel EXCEPT !.s[t] = IF h.w[x].pending THEN Off ELSE [at |-> "write", of |-> x]]
      /\ UNCHANGED <<pending, pc, cb, calls, hist>>

\* uv__async_send
Writes(t) ==
  /\ kernel.s[t].at = "write"
  /\ kernel' = [kernel EXCEPT !.efd = TRUE, !.s[t] = Off]
  /\ UNCHANGED <<h, pending, pc, cb, calls, hist>>

\* The clock matters where it is read next: it stands still elsewhere.
Tick ==
  /\ kernel.now < MaxNow
  /\ pc.at \in {"out", "poll", "return"} \/ (cb # None /\ pc.at \in {"async", "check", "closing"})
  /\ kernel' = [kernel EXCEPT !.now = @ + 1]
  /\ UNCHANGED <<h, pending, pc, cb, calls, hist>>

-----------------------------------------------------------------------------
(* uv_run.                                                                 *)

uv__update_time(l) == [l EXCEPT !.time = kernel.now]
Inside(p) == pc.at = p /\ cb = None
Tell(x) == cb' = x /\ hist' = [hist EXCEPT !.progress = TRUE, !.unseen = @ \ {x}]

\* The phases in their order; those with nothing to do are passed over.
Phases == <<"timers", "pending", "idle", "prepare", "poll", "async", "check", "closing", "once_timers", "return">>

Busy(p) ==
  CASE p \in {"idle", "prepare", "check"} -> h.lists[p] # <<>>
    [] p = "pending" -> pending.fed
    [] p = "closing" -> h.closing # <<>>
    [] p = "once_timers" -> pc.mode = "ONCE"
    [] OTHER -> p # "async"

Following(p) ==
  LET i == CHOOSE n \in 1..Len(Phases) : Phases[n] = p
      later == SelectSeq(SubSeq(Phases, i + 1, Len(Phases)), Busy)
  IN  Head(later)

\* A pass over a list first moves it to a local one, whose handles go back to
\* the end of the loop's one by one before they are called.
KeepsList(l, p) == IF p = "closing" THEN [l EXCEPT !.closing = <<>>] ELSE l
Moved(l, p) == IF p = "closing" THEN [l EXCEPT !.closing = <<>>] ELSE [l EXCEPT !.lists[p] = <<>>]

Enter(l, p) ==
  /\ pc' = [pc EXCEPT !.at = p,
                      !.queue = IF p = "closing" THEN l.closing ELSE IF p \in Lists THEN l.lists[p] ELSE <<>>,
                      !.ran = @ /\ p # "poll",
                      !.timeout = IF p = "poll" /\ (pc.mode = "DEFAULT" \/ (pc.mode = "ONCE" /\ ~pc.ran))
                                  THEN uv_backend_timeout(l) ELSE 0]
  /\ h' = IF p \in Lists \cup {"closing"} THEN Moved(l, p)
          ELSE IF p = "once_timers" THEN uv__update_time(l) ELSE l

\* A loop that is not alive, or was stopped, is left at once.
uv_run ==
  /\ pc.at = "out" /\ cb = None
  /\ IF uv__loop_alive(h) /\ ~h.stop
     THEN /\ h' = uv__update_time(h) /\ pc' = At("timers", pc.mode)
          /\ hist' = [hist EXCEPT !.progress = pc.mode # "ONCE"]
     ELSE /\ h' = [(IF uv__loop_alive(h) THEN h ELSE uv__update_time(h)) EXCEPT !.stop = FALSE]
          /\ UNCHANGED <<pc, hist>>
  /\ UNCHANGED <<kernel, pending, cb, calls>>

\* uv__run_timers: stop, again, callback, as long as one is due.
uv__run_timers ==
  /\ pc.at \in {"timers", "once_timers"} /\ cb = None
  /\ IF h.timers = <<>> \/ h.w[Head(h.timers)].due > h.time
     THEN Enter(h, Following(pc.at)) /\ UNCHANGED <<cb, hist>>
     ELSE LET x == Head(h.timers)
          IN  /\ h' = uv_timer_again(uv_timer_stop(h, x), x)
              /\ cb' = x
              /\ hist' = [hist EXCEPT !.progress = TRUE,
                                      !.early = @ \/ h.time < Least(hist.asked[x], UTimeMax),
                                      !.asked[x] = IF h.w[x].repeat = 0 THEN 0 ELSE h.time + h.w[x].repeat]
              /\ UNCHANGED pc
  /\ UNCHANGED <<kernel, pending, calls>>

\* uv__run_pending
uv__run_pending ==
  /\ Inside("pending") /\ ~pc.ran
  /\ pending' = [pending EXCEPT !.fed = FALSE] /\ h' = [h EXCEPT !.reqs = @ - 1]
  /\ pc' = [pc EXCEPT !.ran = TRUE] /\ Tell("fed")
  /\ UNCHANGED <<kernel, calls>>

Requeued == [h EXCEPT !.lists[pc.at] = Append(@, Head(pc.queue))]

\* uv__run_idle, uv__run_prepare, uv__run_check.
Passes ==
  /\ pc.at \in Lists \ {"async"} /\ cb = None /\ pc.queue # <<>>
  /\ LET x == Head(pc.queue)
     IN  /\ h' = Requeued
         /\ cb' = x
         /\ hist' = [hist EXCEPT !.progress = TRUE, !.called = @ \cup {x}, !.twice = @ \/ x \in hist.called]
  /\ pc' = [pc EXCEPT !.queue = Tail(@)]
  /\ UNCHANGED <<kernel, pending, calls>>

PhaseEnds ==
  /\ pc.at \in Lists \cup {"closing", "pending"} /\ cb = None /\ pc.queue = <<>>
  /\ pc.at = "pending" => pc.ran
  /\ Enter(h, Following(pc.at))
  /\ hist' = [hist EXCEPT !.called = {}]
  /\ UNCHANGED <<kernel, pending, cb, calls>>

\* uv__io_poll: the eventfd, or the end of the sleep, which is told by the
\* loop's clock and so never comes early.
uv__async_io ==
  /\ Inside("poll") /\ kernel.efd
  /\ kernel' = [kernel EXCEPT !.efd = FALSE] /\ Enter(uv__update_time(h), "async")
  /\ UNCHANGED <<pending, cb, calls, hist>>

SleepEnds ==
  /\ Inside("poll") /\ ~kernel.efd /\ pc.timeout # -1 /\ kernel.now >= h.time + pc.timeout
  /\ Enter(uv__update_time(h), Following("poll"))
  /\ UNCHANGED <<kernel, pending, cb, calls, hist>>

\* uv__async_event
uv__async_event ==
  /\ Inside("async") /\ pc.queue # <<>>
  /\ LET x == Head(pc.queue)
     IN  /\ h' = [Requeued EXCEPT !.w[x].pending = FALSE]
         /\ pc' = [pc EXCEPT !.queue = Tail(@), !.at = IF x = "wq" /\ h.w[x].pending THEN "work_done" ELSE @]
         /\ IF h.w[x].pending /\ x # "wq" THEN Tell(x) ELSE UNCHANGED <<cb, hist>>
  /\ UNCHANGED <<kernel, pending, calls>>

\* uv__work_done waits for the lock that a worker holds while it sends.
uv__work_done ==
  /\ Inside("work_done") /\ kernel.s["worker"].at \in {"off", "job"}
  /\ pc' = [pc EXCEPT !.at = "async"]
  /\ IF pending.done
     THEN /\ pending' = [pending EXCEPT !.done = FALSE] /\ h' = [h EXCEPT !.reqs = @ - 1] /\ Tell("wq")
     ELSE UNCHANGED <<h, pending, cb, hist>>
  /\ UNCHANGED <<kernel, calls>>

uv__finish_close ==
  /\ Inside("closing") /\ pc.queue # <<>>
  /\ LET x == Head(pc.queue)
         l == [h EXCEPT !.w[x].flags = @ \cup {"CLOSED"}]
     IN  h' = [uv__handle_unref(l, x) EXCEPT !.queue = @ \ {x}] /\ Tell(x)
  /\ pc' = [pc EXCEPT !.queue = Tail(@)]
  /\ UNCHANGED <<kernel, pending, calls>>

\* The end of an iteration.
Iterates ==
  /\ Inside("return")
  /\ IF pc.mode = "DEFAULT" /\ uv__loop_alive(h) /\ ~h.stop
     THEN h' = uv__update_time(h) /\ pc' = At("timers", pc.mode)
     ELSE h' = [h EXCEPT !.stop = FALSE] /\ pc' = At("out", pc.mode)
  /\ UNCHANGED <<kernel, pending, cb, calls, hist>>

CallbackReturns == cb # None /\ cb' = None /\ UNCHANGED <<h, kernel, pending, pc, calls, hist>>

UserCall ==
  \/ uv_stop \/ uv__io_feed \/ uv_queue_work \/ uv_loop_close
  \/ \E x \in LoopHandles :
       \/ uv_init(x) \/ StartTimer(x) \/ StopTimer(x) \/ AgainTimer(x)
       \/ StartWatcher(x) \/ StopWatcher(x) \/ uv_close(x) \/ uv_ref(x) \/ uv_unref(x)
  \/ \E x \in LoopHandles : uv_async_send(x)
HandlerStep ==
  \/ uv_loop_init \/ (uv__loop_alive(h) /\ uv_run) \/ uv__run_timers \/ Passes \/ PhaseEnds
  \/ uv__async_event \/ uv__work_done \/ Iterates \/ CallbackReturns
RunPending == uv__run_pending
PollStep == uv__async_io \/ SleepEnds
CloseStep == uv__finish_close
SystemStep == WorkerDone \/ \E t \in SendingThreads : Exchanges(t) \/ Writes(t)
Next ==
  \/ UserCall \/ HandlerStep \/ RunPending \/ PollStep \/ CloseStep \/ SystemStep \/ Tick
  \/ (~uv__loop_alive(h) /\ uv_run)

-----------------------------------------------------------------------------
(* Properties.                                                             *)

Count(x, s) == Len(SelectSeq(s, LAMBDA y : y = x))
Passing == IF pc.at \in Lists \cup {"work_done"} THEN pc.queue ELSE <<>>
Finishing == h.closing \o (IF pc.at = "closing" THEN pc.queue ELSE <<>>)

\* A handle that is being closed is waited for once, a request counted once.
PendingExact ==
  /\ \A x \in Handles : Count(x, Finishing) = Bit(Has(h, x, "CLOSING") /\ ~Has(h, x, "CLOSED"))
  /\ h.reqs = Bit(pending.fed) + Bit(pending.done \/ kernel.s["worker"].at = "job")

\* The loop counts the handles that keep it alive; each active handle is in
\* its list or in the pass over it, once.
ActiveExact ==
  /\ h.active = Cardinality({x \in Handles : {"ACTIVE", "REF"} \subseteq h.w[x].flags})
  /\ \A x \in Handles :
       Count(x, IF h.w[x].kind = "timer" THEN h.timers ELSE h.lists[h.w[x].kind] \o Passing)
         = Bit(Has(h, x, "ACTIVE"))

\* A handle that was sent to is about to be looked at; a loop that sleeps has
\* nothing to do and wakes for its first timer.
Armed ==
  /\ \A x \in Handles : h.w[x].pending /\ ~Has(h, x, "CLOSING") =>
       \/ kernel.efd \/ \E t \in SendingThreads : kernel.s[t] = [at |-> "write", of |-> x]
       \/ pc.at \in {"async", "work_done"} /\ Count(x, pc.queue) = 1
  /\ pc.at = "poll" /\ pc.timeout # 0 =>
       /\ ~pending.fed /\ h.lists["idle"] = <<>> /\ ~h.stop
       /\ h.timers # <<>> => pc.timeout # -1 /\ h.time + pc.timeout <= h.w[Head(h.timers)].due

\* No timer early, no watcher twice in a pass; a loop that was closed has left
\* no descriptor open, and nobody sends to it.
Sane ==
  /\ ~hist.twice /\ ~hist.early
  /\ pc.at = "closed" => \A t \in SendingThreads : kernel.s[t] = Off
  /\ pc.at \in {"failed", "closed"} => kernel.fds = {}

\* Only active handles are called, and a handle that is being closed only by
\* its close callback, once.
Silent ==
  \A x \in LoopHandles : cb = None /\ cb' = x =>
    IF pc.at = "closing" THEN ~Has(h, x, "CLOSED") ELSE Has(h, x, "ACTIVE") /\ ~Has(h, x, "CLOSING")

\* Close callbacks, unless the loop sleeps; sends; requests that are done;
\* timers that are due.  A loop that is not alive is not run.
Owes ==
  /\ pc.at \notin {"new", "failed", "closed"} /\ uv__loop_alive(h)
  /\ \/ Finishing # <<>> /\ ~(pc.at = "poll" /\ pc.timeout # 0)
     \/ hist.unseen # {} \/ pending.fed \/ pending.done
     \/ h.timers # <<>> /\ h.w[Head(h.timers)].due <= kernel.now

\* design.rst:87: with handles to close the loop does not sleep.
NoSleepWhileClosing == pc.at = "poll" /\ h.closing # <<>> => pc.timeout = 0

\* The comment at src/unix/core.c:354: UV_RUN_ONCE calls at least one callback.
RunOnceMakesProgress == pc.at = "return" /\ pc.mode = "ONCE" /\ ~h.stop => hist.progress
=============================================================================
