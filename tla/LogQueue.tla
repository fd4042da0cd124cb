------------------------------ MODULE LogQueue ------------------------------
(***************************************************************************)
(* LogerManager of log4z (log4z.cpp), without the naming of its files: the *)
(* threads that log, the queue, the thread that writes, start and stop,    *)
(* and the settings that change through the queue.  One logger; its file   *)
(* is open or not.  The output is asynchronous, as log4z.h configures it.  *)
(***************************************************************************)
EXTENDS Integers, Sequences, FiniteSets

CONSTANTS
  LogThreads,     \* the threads that log
  MaxLogs,        \* bound: messages of each thread
  MaxSets,        \* bound: settings
  QueueLimit,     \* LOG4Z_LOG_QUEUE_LIMIT_SIZE
  FreeLimit,      \* the length of _freeLogDatas above which data is deleted
  LogFaults       \* "logs_at_stop", "sets_behind", "updates_at_stop", "slow_start",
                  \* "restarts"

VARIABLES
  h,        \* the manager: running, the logger, the counters
  kernel,   \* the semaphore of start, and of how many threads run() is
  pending,  \* _logs
  pc,       \* where each thread is
  cb,       \* the LogData in each thread's hands
  calls,    \* messages per thread, settings
  hist      \* what was accepted, written and dropped; what was asked for
vars == <<h, kernel, pending, pc, cb, calls, hist>>

May(f) == f \in LogFaults
Levels == {1, 2}
NoData == [kind |-> "none"]
Lets(s, level) == s.enable /\ level >= s.level

Init ==
  /\ h = [running |-> FALSE, enable |-> TRUE, level |-> 1, open |-> FALSE, flush |-> FALSE,
          free |-> 0, pushed |-> 0, popped |-> 0]
  /\ kernel = [sem |-> 0, threads |-> 0] /\ pending = <<>>
  /\ pc = [t \in LogThreads \cup {"main", "log"} |-> IF t = "log" THEN "none" ELSE "idle"]
  /\ cb = [t \in LogThreads \cup {"log"} |-> NoData]
  /\ calls = [t \in LogThreads \cup {"main"} |-> 0]
  /\ hist = [order |-> <<>>, written |-> <<>>, dropped |-> {}, asked |-> [enable |-> TRUE, level |-> 1],
             wrong |-> {}]

-----------------------------------------------------------------------------
(* Logging.                                                                *)

\* makeLogData takes one of the free ones, freeLogData keeps it.
makeLogData(s) == [s EXCEPT !.free = IF @ > 0 THEN @ - 1 ELSE 0]
freeLogData(s) == [s EXCEPT !.free = IF @ < FreeLimit THEN @ + 1 ELSE @]

\* The macro LOG_STREAM up to pushLog; a message that is refused leaves
\* nothing behind.
prePushLog(t) ==
  /\ pc[t] = "idle" /\ calls[t] < MaxLogs
  /\ \E level \in Levels :
       /\ h.running /\ Lets(h, level) /\ Len(pending) <= QueueLimit
       /\ cb' = [cb EXCEPT ![t] = [kind |-> "log", from |-> t, n |-> calls[t] + 1, level |-> level,
                                   wanted |-> FALSE]]
  /\ h' = makeLogData(h)
  /\ calls' = [calls EXCEPT ![t] = @ + 1] /\ pc' = [pc EXCEPT ![t] = "made"]
  /\ UNCHANGED <<kernel, pending, hist>>

\* The first half of pushLog, which looks at the settings again, without the
\* lock; the second half, with it.
pushLog(t) ==
  /\ pc[t] = "made"
  /\ IF h.running /\ Lets(h, cb[t].level)
     THEN pc' = [pc EXCEPT ![t] = "pushes"] /\ UNCHANGED <<h, cb>>
     ELSE /\ h' = freeLogData(h)
          /\ cb' = [cb EXCEPT ![t] = NoData] /\ pc' = [pc EXCEPT ![t] = "idle"]
  /\ UNCHANGED <<kernel, pending, calls, hist>>

Pushes(t) ==
  /\ pc[t] = "pushes"
  /\ pending' = Append(pending, [cb[t] EXCEPT !.wanted = Lets(hist.asked, cb[t].level)])
  /\ hist' = [hist EXCEPT !.order = Append(@, <<t, cb[t].n>>)]
  /\ h' = [h EXCEPT !.pushed = @ + 1]
  /\ cb' = [cb EXCEPT ![t] = NoData] /\ pc' = [pc EXCEPT ![t] = "idle"]
  /\ UNCHANGED <<kernel, calls>>

-----------------------------------------------------------------------------
(* Settings.                                                               *)

onHotChange(s, field, val) == [s EXCEPT ![field] = val]

\* Without the queue unless the thread runs.
hotChange(field, val) ==
  IF h.running
  THEN /\ pending' = Append(pending, [kind |-> "set", to |-> <<field, val>>])
       /\ h' = makeLogData(h)
  ELSE h' = onHotChange(h, field, val) /\ UNCHANGED pending

AtOnce(field, val) ==
  h' = onHotChange(h, field, val) /\ UNCHANGED pending


\* More is let through at once, less through the queue.
setLoggerLevel(level) == IF level <= h.level THEN AtOnce("level", level) ELSE hotChange("level", level)
enableLogger(enable) == IF enable THEN AtOnce("enable", TRUE) ELSE hotChange("enable", FALSE)

Settled == cb["log"].kind # "set" /\ \A i \in DOMAIN pending : pending[i].kind # "set"

\* Unless "sets_behind", the next setting is made when the last has got
\* through.
Set(field, val) ==
  /\ calls["main"] < MaxSets /\ (Settled \/ May("sets_behind"))
  /\ IF field = "level" THEN setLoggerLevel(val) ELSE enableLogger(val)
  /\ calls' = [calls EXCEPT !["main"] = @ + 1]
  /\ hist' = [hist EXCEPT !.asked[field] = val]

UserSets ==
  /\ pc["main"] = "idle" /\ pc["log"] # "ended"
  /\ (\E level \in Levels : Set("level", level)) \/ (\E on \in BOOLEAN : Set("enable", on))
  /\ UNCHANGED <<kernel, pc, cb>>

-----------------------------------------------------------------------------
(* start and stop.                                                         *)

\* _semaphore.create, ThreadHelper::start; after a stop only if it "restarts".
start ==
  /\ pc["main"] = "idle" \/ (pc["main"] = "stopped" /\ May("restarts"))
  /\ ~h.running
  /\ kernel.threads = 0 \/ May("slow_start")
  /\ kernel' = [sem |-> 0, threads |-> kernel.threads + 1]
  /\ hist' = IF kernel.threads = 0 THEN hist ELSE [hist EXCEPT !.wrong = @ \cup {"two_threads"}]
  /\ pc' = [pc EXCEPT !["main"] = "starts", !["log"] = "starts"]
  /\ UNCHANGED <<h, pending, cb, calls>>

\* SemHelper::wait: posted, or three seconds are over.
StartReturns ==
  /\ pc["main"] = "starts" /\ (kernel.sem > 0 \/ May("slow_start"))
  /\ kernel' = [kernel EXCEPT !.sem = IF @ > 0 THEN @ - 1 ELSE 0]
  /\ pc' = [pc EXCEPT !["main"] = "idle"]
  /\ UNCHANGED <<h, pending, cb, calls, hist>>

\* Unless "logs_at_stop", when no thread is about to push.
stop ==
  /\ pc["main"] = "idle" /\ h.running
  /\ (\A t \in LogThreads : pc[t] = "idle") \/ May("logs_at_stop")
  /\ h' = [h EXCEPT !.running = FALSE] /\ pc' = [pc EXCEPT !["main"] = "stops"]
  /\ UNCHANGED <<kernel, pending, cb, calls, hist>>

StopReturns ==
  /\ pc["main"] = "stops" /\ pc["log"] = "ended"
  /\ pc' = [pc EXCEPT !["main"] = "stopped"]
  /\ UNCHANGED <<h, kernel, pending, cb, calls, hist>>

-----------------------------------------------------------------------------
(* run.                                                                    *)

Log(from, to) == pc["log"] = from /\ pc' = [pc EXCEPT !["log"] = to]

\* The lines that announce the thread are one message of it.
Banner == [kind |-> "log", from |-> "log", n |-> 1, level |-> 2, wanted |-> TRUE]
RunBegins ==
  /\ Log("starts", "pops")
  /\ kernel' = [kernel EXCEPT !.sem = @ + 1]
  /\ IF Lets(h, 2)
     THEN /\ pending' = Append(pending, Banner)
          /\ h' = [h EXCEPT !.running = TRUE, !.pushed = @ + 1]
          /\ hist' = [hist EXCEPT !.order = Append(@, <<"log", 1>>)]
     ELSE h' = [h EXCEPT !.running = TRUE] /\ UNCHANGED <<pending, hist>>
  /\ UNCHANGED <<cb, calls>>

popLog ==
  /\ pending # <<>> /\ Log("pops", "handles")
  /\ cb' = [cb EXCEPT !["log"] = Head(pending)] /\ pending' = Tail(pending)
  /\ UNCHANGED <<h, kernel, calls, hist>>

\* A setting closes the file; a message is dropped or written.
Handle ==
  LET d == cb["log"]
  IN  /\ Log("handles", "pops")
      /\ CASE d.kind = "set" ->
                /\ h' = freeLogData([onHotChange(h, d.to[1], d.to[2]) EXCEPT !.open = FALSE])
                /\ UNCHANGED hist
           [] d.kind = "log" /\ ~Lets(h, d.level) ->
                /\ h' = freeLogData([h EXCEPT !.popped = @ + 1])
                /\ hist' = [hist EXCEPT !.dropped = @ \cup {<<d.from, d.n>>},
                              !.wrong = IF d.wanted THEN @ \cup {"dropped"} ELSE @]
           [] d.kind = "log" /\ Lets(h, d.level) ->
                /\ h' = freeLogData([h EXCEPT !.popped = @ + 1, !.open = TRUE, !.flush = TRUE])
                /\ hist' = [hist EXCEPT !.written = Append(@, <<d.from, d.n>>)]
      /\ cb' = [cb EXCEPT !["log"] = NoData]
      /\ UNCHANGED <<kernel, pending, calls>>

Flush ==
  /\ pending = <<>> /\ Log("pops", "sleeps")
  /\ h' = [h EXCEPT !.flush = IF h.enable THEN FALSE ELSE @, !.open = @ /\ h.enable]
  /\ UNCHANGED <<kernel, pending, cb, calls, hist>>

QuitsAtOnce == ~h.running

\* Stopped, and everything is written.
Quits == ~h.running /\ pending = <<>>

GoesOn ==
  /\ ~Quits /\ Log("sleeps", "pops")
  /\ UNCHANGED <<h, kernel, pending, cb, calls, hist>>

\* The file of settings has changed: made from this thread; unless
\* "updates_at_stop", before stop is called.
updateConfig ==
  /\ ~Quits /\ (h.running \/ May("updates_at_stop"))
  /\ Log("sleeps", "pops") /\ \E level \in Levels : Set("level", level)
  /\ UNCHANGED <<kernel, cb>>

RunEnds ==
  /\ Quits /\ Log("sleeps", "ended")
  /\ h' = [h EXCEPT !.enable = FALSE, !.open = @ /\ ~h.enable]
  /\ kernel' = [kernel EXCEPT !.threads = @ - 1]
  /\ UNCHANGED <<pending, cb, calls, hist>>

UserCall == start \/ stop \/ UserSets \/ \E t \in LogThreads : prePushLog(t)
HandlerStep == RunBegins \/ popLog \/ Handle \/ Flush \/ GoesOn \/ RunEnds
SystemStep == StartReturns \/ StopReturns
SenderStep == \E t \in LogThreads : pushLog(t) \/ Pushes(t)

Next == UserCall \/ HandlerStep \/ SystemStep \/ SenderStep \/ updateConfig

-----------------------------------------------------------------------------
(* Properties.                                                             *)

Logs(q) == SelectSeq(q, LAMBDA d : d.kind = "log")
Waiting == Logs(IF cb["log"].kind = "none" THEN pending ELSE <<cb["log"]>> \o pending)

\* The counters differ by what waits; what was accepted and not dropped is
\* written in the order in which it was accepted.
PendingExact ==
  /\ h.pushed = h.popped + Len(Waiting)
  /\ SelectSeq(hist.order, LAMBDA m : m \notin hist.dropped)
       = hist.written \o [i \in DOMAIN Waiting |-> <<Waiting[i].from, Waiting[i].n>>]

\* While the manager runs its thread is there; when that has ended nothing
\* waits and the file is closed.
Armed ==
  /\ h.running => pc["log"] \in {"pops", "handles", "sleeps"}
  /\ pc["log"] = "ended" => pending = <<>> /\ ~h.open
  /\ Len(Logs(pending)) <= QueueLimit + 1 + Cardinality(LogThreads)

\* What the settings let through when it was logged is written; the settings
\* end as they were asked for; one thread writes.
Sane ==
  /\ hist.wrong = {}
  /\ Settled /\ pc["log"] # "ended" => h.enable = hist.asked.enable /\ h.level = hist.asked.level

\* What waits is handled; start and stop return.
Owes ==
  pending # <<>> \/ pc["main"] \in {"starts", "stops"} \/ \E t \in LogThreads : pc[t] # "idle"
=============================================================================
