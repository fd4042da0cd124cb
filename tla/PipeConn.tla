------------------------------ MODULE PipeConn ------------------------------
(***************************************************************************)
(* A pipe handle that connects, or was opened or accepted: reading,        *)
(* writing, shutting down, closing (win/pipe.c, win/stream.c), with the    *)
(* timer that ends a pipe whose peer does not answer a shutdown and with   *)
(* the frames that carry sockets between processes.                        *)
(*                                                                         *)
(* Requests are <<kind, name>>.  The kernel, or a system thread that       *)
(* blocks for the handle, has requests in flight; pending holds those that *)
(* came back, in order.  The peer's bytes are units; alloc_cb makes no     *)
(* calls.  UV_HANDLE_EMULATE_IOCP (a pipe inherited together with another  *)
(* port) is left out; the threads that read are the subject of PipeRead.   *)
(***************************************************************************)
EXTENDS UvHandle, TLC

CONSTANTS
  PipeWrites,       \* the user's uv_write_t requests
  PipeIo,           \* kinds of pipe: "overlapped" and "sync"
  MaxPipeCalls,     \* bound: calls the user makes
  MaxPipeFails,     \* bound: operations the system refuses
  MaxSent,          \* bound: frames the peer sends
  UsesConnecting,   \* TRUE if the user uses or closes the handle before its connect
                    \* callback
  BareSockets       \* TRUE if the peer sends sockets without data (uv_write2, 0 buffers)

VARIABLES h, kernel, pending, pc, cb, calls, hist
vars == <<h, kernel, pending, pc, cb, calls, hist>>

Read == <<"read", "">>
Shutdown == <<"shutdown", "">>
Connect == <<"connect", "">>
Write(w) == <<"write", w>>
StaticHdr == <<"hdr", "static">>
Hdr(w) == <<"hdr", w>>

\* What the peer may send: on an IPC pipe frames, otherwise data.
Frames(ipc) ==
  IF ~ipc THEN [socket : {FALSE}, raw : {1}]
  ELSE {f \in [socket : BOOLEAN, raw : {0, 2}] : f.raw > 0 \/ (f.socket /\ BareSockets)}

\* uv_pipe_init, followed by uv_pipe_connection_init unless it is to connect.
uv_pipe_init(io, ipc, conn) ==
  uv__handle_init @@
    [ipc |-> ipc, io |-> io, handle |-> conn, eof_timer |-> "null", shutdown_req |-> FALSE,
     write_reqs_pending |-> 0, tail |-> <<>>, write_queue_size |-> 0, hdr_busy |-> FALSE,
     remaining |-> 0, sockets |-> 0]

uv_pipe_connection_init(p) ==
  [Set(p, {"CONNECTION"}) EXCEPT !.write_reqs_pending = 0, !.eof_timer = "null",
                                 !.shutdown_req = FALSE]

Duplex == {{"READABLE"}, {"WRITABLE"}, {"READABLE", "WRITABLE"}}

Init ==
  /\ \E io \in PipeIo, ipc \in BOOLEAN, conn \in BOOLEAN, dup \in Duplex, blocking \in BOOLEAN :
       /\ ipc => io = "overlapped" /\ dup = {"READABLE", "WRITABLE"}
       /\ ~conn => io = "overlapped" /\ ~ipc
       /\ LET p == uv_pipe_init(io, ipc, conn)
          IN  h = IF conn
                  THEN Set(uv_pipe_connection_init(p),
                           dup \cup IF blocking THEN {"BLOCKING_WRITES"} ELSE {})
                  ELSE p
  /\ kernel = [flight |-> {}, inbound |-> <<>>, sent |-> 0, gone |-> FALSE]
  /\ pending = <<>> /\ pc = [at |-> "loop"] /\ cb = "none" /\ calls = 0
  /\ hist = [fails |-> 0, queued |-> {}]

At(p) == cb = "none" /\ pc.at = p

User ==
  /\ cb # "none" \/ At("loop")
  /\ ~Is(h, "CLOSING")
  /\ UsesConnecting \/ Connect \notin h.active_reqs
  /\ calls < MaxPipeCalls /\ calls' = calls + 1
  /\ UNCHANGED <<pc, cb>>

\* The system refuses an operation, MaxPipeFails times at most.
Fail == hist.fails < MaxPipeFails /\ hist' = [hist EXCEPT !.fails = @ + 1]
Ok == UNCHANGED hist

Back(r, ok) == Append(pending, [r |-> r, ok |-> ok])
Flies(r) == kernel' = [kernel EXCEPT !.flight = @ \cup {r}]

-----------------------------------------------------------------------------
(* The eof timer.                                                          *)

eof_timer_init(p) == [p EXCEPT !.eof_timer = "idle"]
eof_timer_start(p) == [p EXCEPT !.eof_timer = IF @ = "null" THEN @ ELSE "armed"]
eof_timer_stop(p) == [p EXCEPT !.eof_timer = IF @ = "null" THEN @ ELSE "idle"]
eof_timer_destroy(p) == [p EXCEPT !.eof_timer = "null"]

close_pipe(p) == [p EXCEPT !.handle = FALSE]

-----------------------------------------------------------------------------
(* Reading.                                                                *)

uv_read_stop(p) ==
  IF Is(p, "READING") THEN DECREASE_ACTIVE_COUNT(Clear(p, {"READING"})) ELSE p

ForgetsReadable(p) == uv_read_stop(eof_timer_destroy(p))
uv_pipe_read_eof(p) == uv_read_stop(Clear(eof_timer_destroy(p), {"READABLE"}))
uv_pipe_read_error(p) == uv_read_stop(eof_timer_destroy(p))

\* ERROR_BROKEN_PIPE, when the other end is closed, is the end of the file.
uv_pipe_read_error_or_eof(p) ==
  IF kernel.gone THEN uv_pipe_read_eof(p) ELSE uv_pipe_read_error(p)

\* uv_pipe_queue_read for the handle p: a read of no bytes.
uv_pipe_queue_read(p) ==
  LET q == Set(INCREASE_PENDING(p), {"READ_PENDING"})
  IN  \/ h' = eof_timer_start(q) /\ Flies(Read) /\ Ok /\ UNCHANGED pending
      \/ h' = q /\ pending' = Back(Read, FALSE) /\ Fail /\ UNCHANGED kernel

uv_pipe_read_start ==
  /\ User
  /\ ~Is(h, "READING") /\ Is(h, "READABLE")
  /\ LET p == INCREASE_ACTIVE_COUNT(Set(h, {"READING"}))
     IN  IF Is(h, "READ_PENDING") THEN h' = p /\ UNCHANGED <<kernel, pending, hist>>
         ELSE uv_pipe_queue_read(p)

UserReadStop ==
  /\ User
  /\ Is(h, "READING")
  /\ h' = uv_read_stop(h)
  /\ UNCHANGED <<kernel, pending, hist>>

\* uv_process_pipe_read_req, up to its loop.
uv_process_pipe_read_req ==
  /\ At("loop") /\ pending # <<>> /\ Head(pending).r = Read
  /\ pending' = Tail(pending)
  /\ LET p == eof_timer_stop(Clear(h, {"READ_PENDING"}))
     IN  IF Head(pending).ok
         THEN h' = p /\ pc' = [at |-> "read_loop"] /\ UNCHANGED cb
         ELSE /\ h' = IF Is(p, "READING") THEN uv_pipe_read_error_or_eof(p) ELSE p
              /\ cb' = IF Is(p, "READING") THEN "read" ELSE "none"
              /\ pc' = [at |-> "req_end"]
  /\ UNCHANGED <<kernel, calls, hist>>

\* PeekNamedPipe fails once everything has been read from a closed pipe.
PeekFails == kernel.inbound = <<>> /\ kernel.gone

Interrupted == ~Is(h, "READING") \/ (kernel.inbound = <<>> /\ ~PeekFails)

\* The loop ends: a callback stopped reading, or there is nothing to read.
ReadLoopEnds ==
  /\ At("read_loop")
  /\ Interrupted
  /\ pc' = [at |-> "requeue"]
  /\ UNCHANGED <<h, kernel, pending, cb, calls, hist>>

ReadLoopFails ==
  /\ At("read_loop") /\ Is(h, "READING") /\ PeekFails
  /\ h' = uv_pipe_read_error_or_eof(h) /\ cb' = "read"
  /\ pc' = [at |-> "requeue"]
  /\ UNCHANGED <<kernel, pending, calls, hist>>

\* A new frame: the header and the socket; raw data follow, and are read next.
\* After a frame without data the code reads on as if there were some.
ReadFrame ==
  /\ At("read_loop") /\ Is(h, "READING") /\ kernel.inbound # <<>>
  /\ h.ipc /\ h.remaining = 0
  /\ LET f == Head(kernel.inbound)
     IN  /\ h' = [h EXCEPT !.sockets = @ + Bit(f.socket), !.remaining = f.raw]
         /\ IF f.raw > 0
            THEN /\ kernel' = [kernel EXCEPT !.inbound[1].socket = FALSE]
                 /\ UNCHANGED pc
            ELSE /\ kernel' = [kernel EXCEPT !.inbound = Tail(@)]
                 /\ pc' = [at |-> IF Len(kernel.inbound) > 1 THEN "aborted" ELSE "blocked"]
  /\ UNCHANGED <<pending, cb, calls, hist>>

\* alloc_cb and ReadFile; a buffer may hold all, part or nothing.
ReadData ==
  /\ At("read_loop") /\ Is(h, "READING") /\ kernel.inbound # <<>>
  /\ h.ipc => h.remaining > 0
  /\ \/ \E n \in 1..Head(kernel.inbound).raw :
          /\ kernel' = [kernel EXCEPT !.inbound =
                          IF n = Head(@).raw THEN Tail(@) ELSE [@ EXCEPT ![1].raw = @ - n]]
          /\ h' = IF h.ipc THEN [h EXCEPT !.remaining = @ - n] ELSE h
          /\ Ok
     \/ Fail /\ UNCHANGED <<kernel, h>>
  /\ cb' = "read" /\ pc' = [at |-> "requeue"]
  /\ UNCHANGED <<pending, calls>>

\* The rest of the handler; a callback may have read_start'ed already.
Requeue ==
  /\ At("requeue")
  /\ LET p == DECREASE_PENDING_REQ_COUNT(h)
     IN  IF Is(h, "READING") /\ ~Is(h, "READ_PENDING")
         THEN uv_pipe_queue_read(p)
         ELSE h' = p /\ UNCHANGED <<kernel, pending, hist>>
  /\ pc' = [at |-> "loop"]
  /\ UNCHANGED <<cb, calls>>

ReqEnd ==
  /\ At("req_end")
  /\ h' = DECREASE_PENDING_REQ_COUNT(h) /\ pc' = [at |-> "loop"]
  /\ UNCHANGED <<kernel, pending, cb, calls, hist>>

-----------------------------------------------------------------------------
(* Writing.                                                                *)

CountWrite(p, r) == [REGISTER_HANDLE_REQ(INCREASE_PENDING(p), r) EXCEPT !.write_reqs_pending = @ + 1]

\* uv_insert_non_overlapped_write_req, and uv_queue_non_overlapped_write if no
\* write runs: a system thread does one write of the queue at a time.
QueueSync(p, r) ==
  IF p.write_reqs_pending = 0 THEN p ELSE [p EXCEPT !.tail = Append(@, r)]

\* uv_pipe_write_impl after the header, which is in the queue before: how the
\* data go out.  The counter of queued bytes takes a write that does not end
\* at once, also one that is waited for.
WriteData(p, w, before) ==
  LET r == Write(w)
      q == CountWrite(p, r)
      queued == [q EXCEPT !.write_queue_size = @ + 1]
      back == Append(before, [r |-> r, ok |-> TRUE])
      counted == hist' = [hist EXCEPT !.queued = @ \cup {r}]
  IN  IF p.io = "sync" /\ ~Is(p, "BLOCKING_WRITES")
      THEN /\ h' = [queued EXCEPT !.tail = QueueSync(p, r).tail]
           /\ counted
           /\ IF p.write_reqs_pending = 0 THEN Flies(r) ELSE UNCHANGED kernel
           /\ UNCHANGED pending
      ELSE \/ h' = q /\ pending' = back /\ Ok /\ UNCHANGED kernel
           \/ /\ p.io = "overlapped" /\ h' = queued /\ counted
              /\ IF Is(p, "BLOCKING_WRITES") THEN pending' = back /\ UNCHANGED kernel
                 ELSE pending' = before /\ Flies(r)
           \/ p.ipc /\ h' = p /\ pending' = before /\ Fail /\ UNCHANGED kernel

\* The header goes out first, on a request of its own, and at once.
HeaderReq(w) == IF h.hdr_busy THEN Hdr(w) ELSE StaticHdr

Unwritten == {w \in PipeWrites : {Write(w), Hdr(w)} \cap h.active_reqs = {}}

uv_pipe_write_impl(w) ==
  /\ User
  /\ Is(h, "WRITABLE") /\ w \in Unwritten
  /\ IF h.ipc
     THEN WriteData([CountWrite(h, HeaderReq(w)) EXCEPT !.hdr_busy = TRUE], w,
                    Back(HeaderReq(w), TRUE))
     ELSE WriteData(h, w, pending)

\* uv_write2 of a socket alone: the header request is the user's.
uv_pipe_write2(w) ==
  /\ User
  /\ Is(h, "WRITABLE") /\ w \in Unwritten /\ h.ipc
  /\ h' = CountWrite(h, Write(w)) /\ pending' = Back(Write(w), TRUE)
  /\ UNCHANGED <<kernel, hist>>

\* uv_process_pipe_write_req, up to the callback.
uv_process_pipe_write_req ==
  /\ At("loop") /\ pending # <<>> /\ Head(pending).r[1] \in {"write", "hdr"}
  /\ LET r == Head(pending).r
         p == UNREGISTER_HANDLE_REQ(h, r)
     IN  /\ h' = [p EXCEPT !.write_queue_size = @ - Bit(r \in hist.queued),
                           !.hdr_busy = IF r = StaticHdr THEN FALSE ELSE @]
         /\ hist' = [hist EXCEPT !.queued = @ \ {r}]
         /\ cb' = IF r[1] = "write" THEN "write" ELSE "none"
  /\ pc' = [at |-> "write_end"]
  /\ pending' = Tail(pending)
  /\ UNCHANGED <<kernel, calls>>

\* The next write of the queue is handed to a thread, a waiting shutdown goes on.
WantsShutdown(p) == p.shutdown_req /\ p.write_reqs_pending = 0

WriteEnd ==
  /\ At("write_end")
  /\ LET p == [h EXCEPT !.write_reqs_pending = @ - 1,
                        !.tail = IF @ = <<>> THEN @ ELSE Tail(@)]
         q == IF WantsShutdown(p) THEN uv_want_endgame(p) ELSE p
     IN  h' = DECREASE_PENDING_REQ_COUNT(q)
  /\ IF h.tail # <<>> THEN Flies(Head(h.tail)) ELSE UNCHANGED kernel
  /\ pc' = [at |-> "loop"]
  /\ UNCHANGED <<pending, cb, calls, hist>>

-----------------------------------------------------------------------------
(* Shutting down and closing.                                              *)

uv_shutdown ==
  /\ User
  /\ Is(h, "WRITABLE")
  /\ h' = uv_want_endgame(REGISTER_HANDLE_REQ(INCREASE_PENDING(
            [Clear(h, {"WRITABLE"}) EXCEPT !.shutdown_req = TRUE]), Shutdown))
  /\ UNCHANGED <<kernel, pending, hist>>

ShutdownTooEarly(p) == Is(p, "CONNECTION") /\ p.shutdown_req

ShutdownDue(p) == Is(p, "CONNECTION") /\ p.shutdown_req /\ p.write_reqs_pending = 0

\* uv_pipe_endgame with a shutdown to do: it is cancelled, or fails, or the pipe
\* is empty, or a thread flushes it.
EndgameShutdown ==
  /\ At("loop") /\ Is(h, "ENDGAME_QUEUED") /\ ShutdownDue(h)
  /\ LET p == [Clear(h, {"ENDGAME_QUEUED"}) EXCEPT !.shutdown_req = FALSE]
         q == UNREGISTER_HANDLE_REQ(p, Shutdown)
     IN  \/ /\ Is(p, "CLOSING")
            /\ h' = q /\ cb' = "shutdown" /\ pc' = [at |-> "req_end"]
            /\ Ok /\ UNCHANGED <<kernel, pending>>
         \/ /\ ~Is(p, "CLOSING") /\ Fail
            /\ h' = Set(q, {"WRITABLE"}) /\ cb' = "shutdown" /\ pc' = [at |-> "req_end"]
            /\ UNCHANGED <<kernel, pending>>
         \/ /\ ~Is(p, "CLOSING") /\ h' = p
            /\ pending' = Back(Shutdown, TRUE) /\ Ok /\ UNCHANGED <<kernel, pc, cb>>
         \/ /\ ~Is(p, "CLOSING") /\ h' = p
            /\ Flies(Shutdown) /\ Ok /\ UNCHANGED <<pending, pc, cb>>
  /\ UNCHANGED calls

\* The other half: the handle is closed if no request refers to it; sockets
\* that were not accepted are closed with it.
EndgameClose ==
  /\ At("loop") /\ Is(h, "ENDGAME_QUEUED") /\ ~ShutdownDue(h)
  /\ LET p == Clear(h, {"ENDGAME_QUEUED"})
         closed == Is(p, "CLOSING") /\ p.reqs_pending = 0
     IN  /\ h' = IF closed THEN uv__handle_close([p EXCEPT !.sockets = 0]) ELSE p
         /\ cb' = IF closed THEN "close" ELSE "none"
  /\ UNCHANGED <<kernel, pending, pc, calls, hist>>

uv_pipe_endgame == EndgameShutdown \/ EndgameClose

\* uv_process_pipe_shutdown_req: a readable pipe waits for the peer's end, and
\* not for ever; another one is closed.
uv_process_pipe_shutdown_req ==
  /\ At("loop") /\ pending # <<>> /\ Head(pending).r = Shutdown
  /\ LET p == UNREGISTER_HANDLE_REQ(h, Shutdown)
         t == eof_timer_init(p)
     IN  h' = IF Is(p, "READABLE")
              THEN IF Is(p, "READ_PENDING") THEN eof_timer_start(t) ELSE t
              ELSE close_pipe(p)
  /\ pending' = Tail(pending)
  /\ cb' = "shutdown" /\ pc' = [at |-> "req_end"]
  /\ UNCHANGED <<kernel, calls, hist>>

\* eof_timer_cb: unless the read has come back already, the pipe is closed and
\* its end reported.  A read that a thread does always looks complete: its
\* OVERLAPPED is never used.
ReadCameBack == h.io = "sync" \/ \E i \in DOMAIN pending : pending[i].r = Read

eof_timer_cb ==
  /\ At("loop") /\ h.eof_timer = "armed"
  /\ IF ~Is(h, "READ_PENDING")
     THEN pc' = [at |-> "aborted"] /\ UNCHANGED <<h, cb>>
     ELSE IF ReadCameBack
          THEN h' = eof_timer_stop(h) /\ UNCHANGED <<pc, cb>>
          ELSE /\ h' = uv_pipe_read_eof(uv_read_stop(close_pipe(h)))
               /\ cb' = "read" /\ UNCHANGED pc
  /\ UNCHANGED <<kernel, pending, calls, hist>>

\* uv_pipe_close and uv_pipe_cleanup.
uv_pipe_close ==
  /\ User
  /\ LET p == Clear(uv_read_stop(h), {"READABLE", "WRITABLE"})
         q == IF Is(h, "CONNECTION") THEN close_pipe(eof_timer_destroy(p)) ELSE p
     IN  h' = uv__handle_closing(EndgameIfIdle(q))
  /\ UNCHANGED <<kernel, pending, hist>>

-----------------------------------------------------------------------------
(* Connecting, and sockets received.                                       *)

\* uv_pipe_connect: at once, or by a thread that waits for an instance.
uv_pipe_connect ==
  /\ User
  /\ ~Is(h, "CONNECTION") /\ ~h.handle /\ h.active_reqs = {}
  /\ LET p == REGISTER_HANDLE_REQ(INCREASE_PENDING(h), Connect)
     IN  \/ /\ \E d \in Duplex : h' = Set([p EXCEPT !.handle = TRUE], d)
            /\ pending' = Back(Connect, TRUE) /\ Ok /\ UNCHANGED kernel
         \/ h' = p /\ pending' = Back(Connect, FALSE) /\ Fail /\ UNCHANGED kernel
         \/ h' = p /\ Flies(Connect) /\ Ok /\ UNCHANGED pending

\* pipe_connect_thread_proc: it sets the handle's flags by itself.
pipe_connect_thread_proc ==
  /\ Connect \in kernel.flight
  /\ kernel' = [kernel EXCEPT !.flight = @ \ {Connect}]
  /\ \/ /\ \E d \in Duplex : h' = Set([h EXCEPT !.handle = TRUE], d)
        /\ pending' = Back(Connect, TRUE) /\ Ok
     \/ pending' = Back(Connect, FALSE) /\ Fail /\ UNCHANGED h
  /\ UNCHANGED <<pc, cb, calls>>

uv_process_pipe_connect_req ==
  /\ At("loop") /\ pending # <<>> /\ Head(pending).r = Connect
  /\ LET p == UNREGISTER_HANDLE_REQ(h, Connect)
     IN  h' = IF Head(pending).ok THEN uv_pipe_connection_init(p) ELSE p
  /\ pending' = Tail(pending)
  /\ cb' = "connect" /\ pc' = [at |-> "req_end"]
  /\ UNCHANGED <<kernel, calls, hist>>

\* uv_pipe_accept of a socket that came with a frame; uv_tcp_import may fail,
\* and then the socket is lost.
uv_pipe_accept_ipc ==
  /\ User
  /\ h.sockets > 0
  /\ h' = [h EXCEPT !.sockets = @ - 1]
  /\ UNCHANGED <<kernel, pending, hist>>

-----------------------------------------------------------------------------
(* The system and the peer.                                                *)

CallbackReturns ==
  /\ cb # "none"
  /\ cb' = "none"
  /\ UNCHANGED <<h, kernel, pending, pc, calls, hist>>

PeerSends ==
  /\ kernel.sent < MaxSent /\ ~kernel.gone
  /\ \E f \in Frames(h.ipc) :
       kernel' = [kernel EXCEPT !.inbound = Append(@, f), !.sent = @ + 1]
  /\ UNCHANGED <<h, pending, pc, cb, calls, hist>>

PeerCloses ==
  /\ ~kernel.gone
  /\ kernel' = [kernel EXCEPT !.gone = TRUE]
  /\ UNCHANGED <<h, pending, pc, cb, calls, hist>>

\* A read comes back when there is something to read; everything comes back
\* with an error once the pipe is closed, at either end.
Completes(r) ==
  /\ r \in kernel.flight /\ r # Connect
  /\ r = Read /\ h.handle => kernel.inbound # <<>> \/ kernel.gone
  /\ kernel' = [kernel EXCEPT !.flight = @ \ {r}]
  /\ pending' = Back(r, h.handle /\ (r = Read => kernel.inbound # <<>>))
  /\ UNCHANGED <<h, pc, cb, calls, hist>>

KernelCompletes == \E r \in kernel.flight : Completes(r)

UserCall ==
  \/ uv_pipe_read_start \/ UserReadStop \/ uv_shutdown \/ uv_pipe_close \/ uv_pipe_connect
  \/ uv_pipe_accept_ipc \/ \E w \in PipeWrites : uv_pipe_write_impl(w) \/ uv_pipe_write2(w)

HandlerStep ==
  \/ ReadLoopEnds \/ ReadLoopFails \/ ReadFrame \/ ReadData \/ Requeue \/ ReqEnd
  \/ WriteEnd \/ CallbackReturns

ProcessReq ==
  \/ uv_process_pipe_read_req \/ uv_process_pipe_write_req
  \/ uv_process_pipe_shutdown_req \/ uv_process_pipe_connect_req

Endgame == uv_pipe_endgame
\* What the system owes: writes, flushes and connects end, a closed pipe's read too.
SystemStep ==
  \/ pipe_connect_thread_proc
  \/ \E r \in kernel.flight : (r # Read \/ ~h.handle) /\ Completes(r)

Next ==
  \/ UserCall \/ HandlerStep \/ ProcessReq \/ uv_pipe_endgame \/ eof_timer_cb
  \/ pipe_connect_thread_proc \/ KernelCompletes \/ PeerSends \/ PeerCloses

-----------------------------------------------------------------------------
(* Properties.                                                             *)

Out(r) == r \in kernel.flight \/ (\E i \in DOMAIN pending : pending[i].r = r)
          \/ (\E i \in DOMAIN h.tail : h.tail[i] = r) \/ (r = Shutdown /\ h.shutdown_req)

InHandler == Bit(pc.at \notin {"loop", "aborted"})

\* Every request that refers to the handle is counted once in reqs_pending, in
\* one place; READ_PENDING and the queue size say which.
PendingExact ==
  LET out == {r \in h.active_reqs \cup {Read} : Out(r)}
  IN  /\ h.reqs_pending = Cardinality(out) + InHandler
      /\ Is(h, "READ_PENDING") <=> Out(Read)
      /\ h.active_reqs \subseteq out
      /\ Cardinality(kernel.flight) + Len(pending) + Len(h.tail) + Bit(h.shutdown_req)
           = Cardinality(out)
      /\ h.write_queue_size = Cardinality(hist.queued)
      /\ Is(h, "CLOSED") => out = {} /\ ~h.handle

\* The handle is active exactly while it reads or a request is to be reported.
ActiveExact ==
  /\ LoopKnows(h)
  /\ h.activecnt = Cardinality(h.active_reqs) + Bit(Is(h, "READING"))
  /\ ~Is(h, "CLOSING") => (Is(h, "ACTIVE") <=> h.activecnt > 0)

\* Outside its handler a handle that reads has its read out, and the pipe it
\* reads from, or writes to, is open; the eof timer runs only over a read, and
\* no assertion fails (pipe.c:1091-1095, 1850-1891).
Armed ==
  /\ Is(h, "READING") /\ pc.at = "loop" => Is(h, "READ_PENDING")
  /\ ~Is(h, "CLOSING") /\ h.flags \cap {"READABLE", "WRITABLE"} # {} => h.handle
  /\ h.eof_timer = "armed" => Is(h, "READ_PENDING")
  /\ pc.at \notin {"aborted", "blocked"}

\* A callback of a stopped read comes only from the eof timer
\* (pipe.c:1887-1889), and none at all after uv_close; the callback of a shutdown
\* comes only after all writes (stream.rst:109, pipe.c:354-356).
Silent ==
  /\ cb = "none" /\ cb' = "read" => /\ ~Is(h, "CLOSING")
                                    /\ Is(h, "READING") \/ h.eof_timer = "armed"
  /\ cb = "none" /\ cb' = "shutdown" => h.write_reqs_pending = 0

\* What is promised and outstanding: the close callback, and the callbacks of
\* writes, shutdown and connect.
Owes ==
  (Is(h, "CLOSING") /\ ~Is(h, "CLOSED")) \/ h.active_reqs \ {Read} # {}
=============================================================================
