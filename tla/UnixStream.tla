----------------------------- MODULE UnixStream -----------------------------
(***************************************************************************)
(* A connected stream of the Unix backend (src/unix/stream.c, with the     *)
(* connects of src/unix/tcp.c and src/unix/pipe.c): one handle, its write  *)
(* queue and its queue of completed writes, its read side, shutdown and    *)
(* close.  The user calls from the loop and from every callback.  Data is  *)
(* counted in units; the kernel is a buffer in each direction.             *)
(***************************************************************************)
EXTENDS Integers, Sequences, FiniteSets, SequencesExt

CONSTANTS
  MaxStreamWrites,  \* bound: write requests, numbered in the order of the calls
  MaxStreamCalls,   \* bound: calls of the user
  MaxArriving,      \* bound: units the peer sends
  ReadCount,        \* reads in one event (32 in the code)
  StreamFaults      \* "shutdown_connecting", "sends_handles"

VARIABLES
  h,        \* the handle
  kernel,   \* the socket and the peer
  pending,  \* whether the watcher is in the loop's pending_queue
  pc,       \* where uv__stream_io or uv__stream_destroy is
  cb,       \* the callback that is running
  calls,    \* calls of the user so far
  hist      \* which request was last on the wire, and results of uv_try_write
vars == <<h, kernel, pending, pc, cb, calls, hist>>

May(f) == f \in StreamFaults
Least(a, b) == IF a <= b THEN a ELSE b
Room == 1
ConnectReq == 0
ShutdownReq == -1
BufLens == {1, 2}
At(p) == [at |-> p, ev |-> {}, n |-> 0, drain |-> FALSE]
Loop == At("loop")

-----------------------------------------------------------------------------
(* Watcher and flags: what the functions of src/unix/core.c make of them.  *)

Has(f) == f \in h.flags
Closed(s) == s.fd = -1
uv__io_start(s, ev) == [s EXCEPT !.pevents = @ \cup ev]
uv__io_stop(s, ev) == IF Closed(s) THEN s ELSE [s EXCEPT !.pevents = @ \ ev]
uv__handle_start(s) == [s EXCEPT !.flags = @ \cup {"ACTIVE"}]
uv__handle_stop(s) == [s EXCEPT !.flags = @ \ {"ACTIVE"}]
StopUnless(s, ev) == IF ev \in s.pevents THEN s ELSE uv__handle_stop(s)

Sum(s, ids) == FoldLeft(LAMBDA n, w : n + s.left[w], 0, ids)

uv__stream_init(kind) ==
  [kind |-> kind, fd |-> -1, flags |-> {}, pevents |-> {}, connect_req |-> FALSE,
   delayed_error |-> FALSE, shutdown_req |-> FALSE, wq |-> <<>>, completed |-> <<>>,
   size |-> 0, left |-> [w \in 1..MaxStreamWrites |-> 0], failed |-> {}, used |-> 0, reg |-> {},
   handles |-> {}]

Socket(state) ==
  [state |-> state, room |-> Room, inbox |-> 0, arrived |-> 0, eof |-> FALSE, hup |-> FALSE,
   broken |-> FALSE]

Init ==
  /\ \E kind \in {"tcp", "pipe"} : h = uv__stream_init(kind)
  /\ kernel = Socket("none")
  /\ pending = FALSE /\ pc = Loop /\ cb = "none" /\ calls = 0
  /\ hist = [last |-> 0, unordered |-> FALSE, fds |-> {}, twice |-> FALSE, mistold |-> FALSE]

-----------------------------------------------------------------------------
(* Writing.                                                                *)

\* uv__write_req_finish: the request of the head has its result; the watcher
\* is fed.
uv__write_req_finish(s, failed) ==
  [s EXCEPT !.wq = Tail(@), !.completed = Append(@, Head(s.wq)),
            !.failed = IF failed THEN @ \cup {Head(s.wq)} ELSE @]

\* uv__write: the first request only; r is the state, fed, what went out and
\* the room that is left.
uv__write(s, k) ==
  IF s.wq = <<>> THEN [s |-> s, fed |-> FALSE, out |-> 0, k |-> k]
  ELSE LET w == Head(s.wq)
           n == Least(s.left[w], k.room)
           t == [s EXCEPT !.left[w] = @ - n, !.size = @ - n]
       IN  IF k.broken
           THEN [s |-> StopUnless(uv__io_stop(uv__write_req_finish(s, TRUE), {"OUT"}), "IN"),
                 fed |-> TRUE, out |-> 0, k |-> k]
           ELSE IF n = s.left[w]
           THEN [s |-> uv__write_req_finish(t, FALSE), fed |-> TRUE,
                 out |-> n, k |-> [k EXCEPT !.room = @ - n]]
           ELSE [s |-> uv__io_start(t, {"OUT"}), fed |-> FALSE,
                 out |-> n, k |-> [k EXCEPT !.room = @ - n]]

\* What the wire has after a write; a handle goes with every attempt that
\* puts data out.
Wired(r, s) ==
  LET w == Head(s.wq)
      goes == r.out # 0 /\ w \in s.handles
  IN  [hist EXCEPT !.last = IF r.out = 0 THEN @ ELSE w,
                   !.unordered = @ \/ (r.out # 0 /\ w < hist.last),
                   !.twice = @ \/ (goes /\ w \in hist.fds),
                   !.fds = IF goes THEN @ \cup {w} ELSE @]

WiredIfAny(r, s) == IF s.wq = <<>> THEN hist ELSE Wired(r, s)

\* The callbacks' part of uv__write_callbacks: the size of a failed request
\* is taken back here.
PopCompleted(s) ==
  LET w == Head(s.completed)
  IN  [s EXCEPT !.completed = Tail(@), !.reg = @ \ {w},
                !.size = IF w \in s.failed THEN @ - s.left[w] ELSE @,
                !.left[w] = IF w \in s.failed THEN 0 ELSE @]

FlushDropsSize(s) == [s EXCEPT !.completed = @ \o s.wq, !.wq = <<>>]

uv__stream_flush_write_queue(s) ==
  [s EXCEPT !.completed = @ \o s.wq, !.failed = @ \cup ToSet(s.wq), !.wq = <<>>]

-----------------------------------------------------------------------------
(* Calls of the user.                                                      *)

User == (pc.at = "loop" \/ cb # "none") /\ pc.at # "aborted"
Call == User /\ calls < MaxStreamCalls /\ calls' = calls + 1

\* uv__tcp_connect: refused at once is told on the next tick.
uv__tcp_connect ==
  /\ User /\ h.kind = "tcp" /\ ~Has("CLOSING") /\ ~h.connect_req /\ kernel.state = "none"
  /\ \E refused \in BOOLEAN :
       /\ h' = uv__io_start([h EXCEPT !.fd = 3, !.flags = @ \cup {"READABLE", "WRITABLE"},
                                      !.delayed_error = refused, !.connect_req = TRUE,
                                      !.reg = @ \cup {ConnectReq}], {"OUT"})
       /\ kernel' = [kernel EXCEPT !.state = IF refused THEN "failed" ELSE "connecting",
                                  !.broken = refused]
       /\ pending' = (pending \/ refused)
  /\ UNCHANGED <<pc, cb, calls, hist>>

\* uv_pipe_connect: never fails itself; without a socket, or a listener, it
\* tells on the next tick.
uv_pipe_connect ==
  /\ User /\ h.kind = "pipe" /\ ~Has("CLOSING") /\ ~h.connect_req /\ kernel.state = "none"
  /\ \E how \in {"no_socket", "refused", "ok"} :
       /\ h' = LET s == [h EXCEPT !.connect_req = TRUE, !.reg = @ \cup {ConnectReq},
                                  !.delayed_error = (how # "ok"),
                                  !.fd = IF how = "no_socket" THEN -1 ELSE 3]
               IN  IF how # "ok" THEN s
                   ELSE uv__io_start([s EXCEPT !.flags = @ \cup {"READABLE", "WRITABLE"}], {"IN", "OUT"})
       /\ kernel' = [kernel EXCEPT !.state = IF how = "ok" THEN "connected" ELSE "failed",
                                  !.broken = (how # "ok")]
       /\ pending' = (pending \/ how # "ok")
  /\ UNCHANGED <<pc, cb, calls, hist>>

\* uv_write2: written at once when nothing was in the way.
uv_write2(w, n, send) ==
  /\ Call /\ ~Closed(h) /\ w = h.used + 1 /\ (send => h.kind = "pipe")
  /\ LET s == [h EXCEPT !.used = w, !.reg = @ \cup {w}, !.left[w] = n,
                        !.wq = Append(@, w), !.size = @ + n,
                        !.handles = IF send THEN @ \cup {w} ELSE @]
     IN  IF h.connect_req THEN h' = s /\ UNCHANGED <<kernel, pending, hist>>
         ELSE IF h.size = 0
         THEN LET r == uv__write(s, kernel)
              IN  /\ h' = r.s /\ kernel' = r.k /\ pending' = (pending \/ r.fed)
                  /\ hist' = Wired(r, s)
         ELSE h' = uv__io_start(s, {"OUT"}) /\ UNCHANGED <<kernel, pending, hist>>
  /\ UNCHANGED <<pc, cb>>

\* uv_try_write: a write that is taken out of the queues again, with what it
\* could not write.  The result: units written, or "EAGAIN".
uv_try_write(w, n) ==
  /\ Call /\ ~Closed(h) /\ w = h.used + 1 /\ n > 0
  /\ ~h.connect_req /\ h.size = 0
  /\ LET had == "OUT" \in h.pevents
         s == [h EXCEPT !.used = w, !.left[w] = n, !.wq = Append(@, w), !.size = n]
         r == uv__write(s, kernel)
         left == r.s.left[w]
         t == [r.s EXCEPT !.wq = SelectSeq(@, LAMBDA x : x # w),
                          !.completed = SelectSeq(@, LAMBDA x : x # w),
                          !.failed = @ \ {w}, !.size = @ - left, !.left[w] = 0]
     IN  /\ h' = IF had THEN t ELSE uv__io_stop(t, {"OUT"})
         /\ kernel' = r.k /\ pending' = (pending \/ r.fed)
         /\ hist' = [WiredIfAny(r, s) EXCEPT
                       !.mistold = @ \/ (kernel.broken /\ left = n)]
  /\ UNCHANGED <<pc, cb>>

uv_shutdown ==
  /\ Call /\ Has("WRITABLE") /\ h.flags \cap {"SHUT", "SHUTTING", "CLOSED", "CLOSING"} = {}
  /\ May("shutdown_connecting") \/ (kernel.state = "connected" /\ ~h.connect_req)
  /\ h' = uv__io_start([h EXCEPT !.shutdown_req = TRUE, !.flags = @ \cup {"SHUTTING"},
                                 !.reg = @ \cup {ShutdownReq}], {"OUT"})
  /\ UNCHANGED <<kernel, pending, pc, cb, hist>>

uv_read_start ==
  /\ Call /\ ~Has("CLOSING") /\ ~Closed(h)
  /\ h' = uv__handle_start(uv__io_start([h EXCEPT !.flags = @ \cup {"READING"}], {"IN"}))
  /\ UNCHANGED <<kernel, pending, pc, cb, hist>>

ReadStopped(s) ==
  IF "READING" \notin s.flags THEN s
  ELSE StopUnless(uv__io_stop([s EXCEPT !.flags = @ \ {"READING"}], {"IN"}), "OUT")

uv_read_stop ==
  /\ Call /\ Has("READING")
  /\ h' = ReadStopped(h)
  /\ UNCHANGED <<kernel, pending, pc, cb, hist>>

\* uv_close with uv__stream_close: the watcher first, then the descriptor.
uv__stream_close ==
  /\ User /\ ~Has("CLOSING")
  /\ h' = [uv__handle_stop(ReadStopped(uv__io_stop(h, {"IN", "OUT"}))) EXCEPT
             !.fd = -1, !.flags = @ \cup {"CLOSING"}]
  /\ pending' = FALSE /\ kernel' = Socket("closed")
  /\ UNCHANGED <<pc, cb, calls, hist>>

UserCall ==
  \/ uv__tcp_connect \/ uv_pipe_connect \/ uv_shutdown \/ uv_read_start \/ uv_read_stop
  \/ uv__stream_close
  \/ \E w \in 1..MaxStreamWrites, n \in {0, 2} :
       \/ \E send \in IF May("sends_handles") THEN BOOLEAN ELSE {FALSE} : uv_write2(w, n, send)
       \/ uv_try_write(w, n)

CallbackReturns ==
  /\ cb # "none" /\ cb' = "none"
  /\ UNCHANGED <<h, kernel, pending, pc, calls, hist>>

-----------------------------------------------------------------------------
(* The handler.  A step runs while no callback does.                       *)

Runs(at) == pc.at = at /\ cb = "none"

Ready ==
  {e \in {"IN", "OUT", "ERR", "HUP"} :
     \/ e = "IN" /\ e \in h.pevents /\ (kernel.inbox > 0 \/ kernel.eof \/ kernel.broken)
     \/ e = "OUT" /\ e \in h.pevents /\ (kernel.room > 0 \/ kernel.broken)
     \/ e = "ERR" /\ kernel.broken
     \/ e = "HUP" /\ kernel.hup}

\* What uv__io_poll makes of it.
Events == IF Ready \in {{"ERR"}, {"HUP"}} THEN Ready \cup h.pevents ELSE Ready

uv__stream_io(ev) ==
  /\ pc' = IF h.connect_req THEN At("connect")
           ELSE IF ev \cap {"IN", "ERR", "HUP"} # {}
           THEN [at |-> "read", ev |-> ev, n |-> ReadCount, drain |-> FALSE]
           ELSE [at |-> "write", ev |-> ev, n |-> 0, drain |-> FALSE]
  /\ h' = IF pc'.at = "read" THEN [h EXCEPT !.flags = @ \ {"READ_PARTIAL"}] ELSE h

Poll ==
  /\ Runs("loop") /\ h.pevents # {} /\ Events # {}
  /\ kernel.state # "connecting"
  /\ uv__stream_io(Events)
  /\ UNCHANGED <<kernel, pending, cb, calls, hist>>

uv__run_pending ==
  /\ Runs("loop") /\ pending /\ pending' = FALSE
  /\ uv__stream_io({"OUT"})
  /\ UNCHANGED <<kernel, cb, calls, hist>>

uv__stream_connect ==
  /\ Runs("connect")
  /\ LET error == h.delayed_error \/ kernel.state = "failed"
         s == [h EXCEPT !.connect_req = FALSE, !.delayed_error = FALSE, !.reg = @ \ {ConnectReq}]
     IN  /\ h' = IF error \/ h.wq = <<>> THEN uv__io_stop(s, {"OUT"}) ELSE s
         /\ pc' = At(IF error THEN "connect_failed" ELSE "loop")
         /\ cb' = "connect_cb"
  /\ UNCHANGED <<kernel, pending, calls, hist>>

ConnectFailed ==
  /\ Runs("connect_failed")
  /\ IF Closed(h) THEN pc' = Loop /\ UNCHANGED h
     ELSE pc' = At("write_cbs") /\ h' = uv__stream_flush_write_queue(h)
  /\ UNCHANGED <<kernel, pending, cb, calls, hist>>

\* uv__stream_eof up to its callback, and after it.
uv__stream_eof ==
  /\ h' = StopUnless(uv__io_stop([h EXCEPT !.flags = @ \cup {"READ_EOF"}], {"IN"}), "OUT")
  /\ cb' = "read_cb" /\ pc' = [pc EXCEPT !.at = "eof"]

EofReturns ==
  /\ Runs("eof")
  /\ h' = [h EXCEPT !.flags = @ \ {"READING"}]
  /\ pc' = [pc EXCEPT !.at = IF Closed(h) THEN "loop" ELSE "write"]
  /\ UNCHANGED <<kernel, pending, cb, calls, hist>>

ReadsOn(s) == pc.n > 0

\* The callbacks may have stopped reading, or closed.
GoesOn(s) == "READING" \in s.flags /\ pc.n > 0

\* One turn of uv__read's loop: no buffer, an error, the end, nothing, data.
uv__read ==
  /\ Runs("read")
  /\ IF ~GoesOn(h)
     THEN pc' = [pc EXCEPT !.at = "hup"] /\ UNCHANGED <<h, kernel, cb>>
     ELSE \/ /\ cb' = "read_cb" /\ pc' = [pc EXCEPT !.at = "hup"]
             /\ UNCHANGED <<h, kernel>>
          \/ /\ kernel.broken
             /\ cb' = "read_cb" /\ pc' = [pc EXCEPT !.at = "read_err"]
             /\ UNCHANGED <<h, kernel>>
          \/ /\ ~kernel.broken /\ kernel.inbox > 0
             /\ \E buf \in BufLens : LET n == Least(kernel.inbox, buf)
                IN  /\ kernel' = [kernel EXCEPT !.inbox = @ - n]
                    /\ pc' = IF n < buf THEN [pc EXCEPT !.at = "partial"] ELSE [pc EXCEPT !.n = @ - 1]
             /\ cb' = "read_cb" /\ UNCHANGED h
          \/ /\ ~kernel.broken /\ kernel.inbox = 0 /\ kernel.eof
             /\ uv__stream_eof /\ UNCHANGED kernel
          \/ /\ ~kernel.broken /\ kernel.inbox = 0 /\ ~kernel.eof
             /\ h' = uv__io_start(h, {"IN"})
             /\ cb' = "read_cb" /\ pc' = [pc EXCEPT !.at = "hup"] /\ UNCHANGED kernel
  /\ UNCHANGED <<pending, calls, hist>>

ReadPartial ==
  /\ Runs("partial")
  /\ h' = [h EXCEPT !.flags = @ \cup {"READ_PARTIAL"}] /\ pc' = [pc EXCEPT !.at = "hup"]
  /\ UNCHANGED <<kernel, pending, cb, calls, hist>>

ReadError ==
  /\ Runs("read_err")
  /\ h' = ReadStopped(h) /\ pc' = [pc EXCEPT !.at = "hup"]
  /\ UNCHANGED <<kernel, pending, cb, calls, hist>>

HangUp ==
  /\ Runs("hup")
  /\ IF Closed(h) THEN pc' = Loop /\ UNCHANGED <<h, cb>>
     ELSE IF "HUP" \in pc.ev /\ {"READING", "READ_PARTIAL"} \subseteq h.flags /\ ~Has("READ_EOF")
     THEN uv__stream_eof
     ELSE pc' = [pc EXCEPT !.at = "write"] /\ UNCHANGED <<h, cb>>
  /\ UNCHANGED <<kernel, pending, calls, hist>>

WriteStage ==
  /\ Runs("write")
  /\ IF pc.ev \cap {"OUT", "ERR", "HUP"} = {}
     THEN pc' = Loop /\ UNCHANGED <<h, kernel, pending, hist>>
     ELSE LET r == uv__write(h, kernel)
          IN  /\ h' = r.s /\ kernel' = r.k /\ pending' = (pending \/ r.fed)
              /\ hist' = WiredIfAny(r, h)
              /\ pc' = [At("write_cbs") EXCEPT !.drain = TRUE]
  /\ UNCHANGED <<cb, calls>>

uv__write_callbacks ==
  /\ Runs("write_cbs")
  /\ IF h.completed # <<>>
     THEN h' = PopCompleted(h) /\ cb' = "write_cb" /\ UNCHANGED pc
     ELSE /\ pc' = IF pc.drain /\ h.wq = <<>> THEN At("drain") ELSE Loop
          /\ UNCHANGED <<h, cb>>
  /\ UNCHANGED <<kernel, pending, calls, hist>>

\* uv__drain: shutdown(2) may fail.
uv__drain ==
  /\ Runs("drain") /\ pc' = Loop
  /\ LET s == uv__io_stop(h, {"OUT"})
     IN  IF Has("SHUTTING") /\ h.flags \cap {"CLOSING", "SHUT"} = {}
         THEN /\ h' = [s EXCEPT !.shutdown_req = FALSE, !.reg = @ \ {ShutdownReq},
                                !.flags = (@ \ {"SHUTTING"}) \cup (IF kernel.broken THEN {} ELSE {"SHUT"})]
              /\ cb' = "shutdown_cb"
         ELSE h' = s /\ UNCHANGED cb
  /\ UNCHANGED <<kernel, pending, calls, hist>>

-----------------------------------------------------------------------------
(* uv__finish_close with uv__stream_destroy.                               *)

uv__stream_destroy ==
  /\ Runs("loop") /\ Has("CLOSING") /\ ~Has("CLOSED")
  /\ h' = [h EXCEPT !.flags = @ \cup {"CLOSED"}, !.connect_req = FALSE, !.reg = @ \ {ConnectReq}]
  /\ cb' = IF h.connect_req THEN "connect_cb" ELSE cb
  /\ pc' = At("destroy_writes")
  /\ UNCHANGED <<kernel, pending, calls, hist>>

DestroyWrites ==
  /\ Runs("destroy_writes")
  /\ LET s == uv__stream_flush_write_queue(h)
     IN  IF s.completed # <<>>
         THEN h' = PopCompleted(s) /\ cb' = "write_cb" /\ UNCHANGED pc
         ELSE h' = s /\ pc' = At("destroy_shutdown") /\ UNCHANGED cb
  /\ UNCHANGED <<kernel, pending, calls, hist>>

DestroyShutdown ==
  /\ Runs("destroy_shutdown")
  /\ h' = [h EXCEPT !.shutdown_req = FALSE, !.reg = @ \ {ShutdownReq}]
  /\ cb' = IF h.shutdown_req THEN "shutdown_cb" ELSE cb
  /\ pc' = At("destroyed")
  /\ UNCHANGED <<kernel, pending, calls, hist>>

\* The last assertion, and close_cb.
Destroyed ==
  /\ Runs("destroyed")
  /\ pc' = At(IF h.size = 0 THEN "closed" ELSE "aborted")
  /\ cb' = IF h.size = 0 THEN "close_cb" ELSE cb
  /\ UNCHANGED <<h, kernel, pending, calls, hist>>

-----------------------------------------------------------------------------
(* The network: the peer sends, reads, shuts its side, closes; connects    *)
(* end; connections break.                                                 *)

ConnectEnds ==
  /\ kernel.state = "connecting"
  /\ \E s \in {"connected", "failed"} :
       kernel' = [kernel EXCEPT !.state = s, !.broken = (s = "failed")]
PeerReads ==
  /\ kernel.room < Room /\ kernel' = [kernel EXCEPT !.room = Room]
Peer ==
  /\ kernel.state = "connected" /\ ~kernel.broken
  /\ \/ /\ kernel.arrived < MaxArriving /\ ~kernel.eof
        /\ kernel' = [kernel EXCEPT !.inbox = @ + 1, !.arrived = @ + 1]
     \/ /\ ~kernel.hup
        /\ \E hup \in BOOLEAN : (hup \/ ~kernel.eof) /\ kernel' = [kernel EXCEPT !.eof = TRUE, !.hup = hup]
     \/ kernel' = [kernel EXCEPT !.broken = TRUE]

Network == (ConnectEnds \/ PeerReads \/ Peer) /\ UNCHANGED <<h, pending, pc, cb, calls, hist>>

HandlerStep ==
  \/ CallbackReturns \/ uv__stream_connect \/ ConnectFailed \/ EofReturns \/ uv__read
  \/ ReadPartial \/ ReadError \/ HangUp \/ WriteStage \/ uv__write_callbacks \/ uv__drain
  \/ DestroyWrites \/ DestroyShutdown \/ Destroyed
RunPending == uv__run_pending
PollStep == Poll
CloseStep == uv__stream_destroy
SystemStep == (ConnectEnds \/ PeerReads) /\ UNCHANGED <<h, pending, pc, cb, calls, hist>>

Next == UserCall \/ HandlerStep \/ RunPending \/ PollStep \/ CloseStep \/ Network

-----------------------------------------------------------------------------
(* Properties.                                                             *)

\* The loop counts exactly the requests whose callbacks are to come, each in
\* one place: connecting, queued, completed, or the shutdown; and
\* write_queue_size is what they have left to write, or failed to write
\* (stream.c:718-755, 868-930, 935-960).
PendingExact ==
  /\ pc.at # "aborted"
  /\ h.reg = {r \in {ConnectReq} : h.connect_req} \cup {r \in {ShutdownReq} : h.shutdown_req}
              \cup ToSet(h.wq) \cup ToSet(h.completed)
  /\ Cardinality(ToSet(h.wq \o h.completed)) = Len(h.wq) + Len(h.completed)
  /\ h.size = Sum(h, h.wq) + Sum(h, SelectSeq(h.completed, LAMBDA w : w \in h.failed))

\* A stream that reads is active and watched; only at the end of the data the
\* callback runs first (stream.c:998-1007, 1549-1569).
ActiveExact ==
  /\ Has("READING") => ("ACTIVE" \in h.flags /\ "IN" \in h.pevents) \/ pc.at = "eof"
  /\ Closed(h) => h.pevents = {}
  /\ Has("CLOSING") => ~pending

\* What has to be written is watched for, fed to the loop, or in the handler's
\* hands (stream.c:885-905, 1440-1463).
Armed ==
  h.wq # <<>> /\ ~Closed(h) =>
    \/ "OUT" \in h.pevents \/ pending
    \/ pc.at \in {"connect", "connect_failed", "write", "write_cbs", "hup", "eof", "read", "partial", "read_err"}

\* The units of the requests leave in the order of the calls, and no handle
\* twice (stream.c:789-830).
Sane ==
  ~hist.unordered /\ ~hist.twice

\* After uv_close no data is told, and nothing is written (stream.c:1590-1630).
Silent ==
  Has("CLOSING") => cb' # "read_cb" \/ cb = "read_cb"

\* Every request gets its callback and every close its close_cb, if the peer
\* goes on reading and connects end.
Owes == h.reg # {} \/ (Has("CLOSING") /\ pc.at # "closed")

\* A stream is active only while it reads or has a request.
ActiveOnlyIfBusy == "ACTIVE" \in h.flags => Has("READING") \/ h.reg # {} \/ pc.at # "loop"

\* Only a stream that reads is watched for input.
WatchedOnlyIfReading == "IN" \in h.pevents /\ pc.at = "loop" /\ ~h.connect_req => Has("READING")

\* A try that fails for a reason other than a full socket says so.
TryTells == ~hist.mistold
=============================================================================
