------------------------------ MODULE TcpStream -----------------------------
(***************************************************************************)
(* One TCP connection handle: connecting, reading, writing, shutting down  *)
(* and closing (win/tcp.c, win/stream.c, win/stream-inl.h), with the       *)
(* counters of win/handle-inl.h and win/req-inl.h.                         *)
(*                                                                         *)
(* The kernel holds the overlapped requests in flight.  The completion     *)
(* port and the loop's queue of pending requests are one queue, pending.   *)
(* The loop handles one request, or the endgame, at a time; pc says where  *)
(* in the handler it is and cb which callback runs, in which the user may  *)
(* make any call.  Buffers and byte counts are left out.                   *)
(***************************************************************************)
EXTENDS Integers, Sequences, FiniteSets, SequencesExt

CONSTANTS
  Writes,        \* the user's uv_write_t requests
  SyncResults,   \* outcomes of starting an overlapped operation
  AllocCalls,    \* TRUE if the user calls into libuv from alloc_cb
  RestartsRefused,  \* TRUE if a read may be queued again while WSARecv's refusal
                    \* of it waits to be reported
  MaxCalls       \* bound: calls the user makes

Reqs == Writes \cup {"connect", "read", "shutdown"}

\* Done at once and not through the port, left to the kernel, refused, or, on
\* an emulated port, RegisterWaitForSingleObject refused.
StreamAssumption ==
  /\ Writes \cap {"connect", "read", "shutdown"} = {}
  /\ IsFiniteSet(Writes)
  /\ SyncResults \subseteq {"now", "kernel", "refused", "wait_refused"}
  /\ AllocCalls \in BOOLEAN /\ RestartsRefused \in BOOLEAN
  /\ MaxCalls \in Nat

VARIABLES
  flags,               \* handle->flags
  socket,              \* TRUE unless handle->socket = INVALID_SOCKET
  delayed_error,
  activecnt,           \* the handle is active while it is positive
  reqs_pending,
  write_reqs_pending,
  shutdown_req,        \* TRUE unless NULL
  active_reqs,         \* requests of this handle in loop->active_reqs
  kernel,              \* overlapped requests the kernel has
  pending,             \* completed requests the loop has to handle
  status,              \* status[r]: how the operation ended
  pc, cb, req,         \* the handler, its running callback, its request
  result,              \* result[r]: what the callback of r was told
  calls,
  stopped              \* history: the user stopped reading or closed

countVars == <<activecnt, reqs_pending, write_reqs_pending, active_reqs>>
ioVars    == <<kernel, pending, status>>
vars == <<flags, socket, delayed_error, countVars, shutdown_req, ioVars, pc, cb,
          req, result, calls, stopped>>

Flags == {"BOUND", "CONNECTION", "READABLE", "WRITABLE", "READING", "READ_PENDING",
          "SHARED", "CLOSING", "CLOSED", "ENDGAME_QUEUED", "SOCKET_CLOSED"}
Pcs == {"loop", "read_loop", "recv", "read_done", "read_end", "write_end",
        "connect_end", "shutdown_end"}
Cbs == {"none", "alloc", "read", "write", "connect", "shutdown", "close"}

Bit(b) == IF b THEN 1 ELSE 0

\* uv_tcp_init, or a connection from uv_tcp_accept or uv_tcp_import.
Connected == {"BOUND", "CONNECTION", "READABLE", "WRITABLE"}

Init ==
  /\ \/ flags = {} /\ socket = FALSE
     \/ flags \in {Connected, Connected \cup {"SHARED"}} /\ socket = TRUE
  /\ delayed_error = FALSE
  /\ activecnt = 0 /\ reqs_pending = 0 /\ write_reqs_pending = 0
  /\ shutdown_req = FALSE /\ active_reqs = {}
  /\ kernel = {} /\ pending = <<>> /\ status = [r \in Reqs |-> "ok"]
  /\ pc = "loop" /\ cb = "none" /\ req = "read"
  /\ result = [r \in Reqs |-> "none"]
  /\ calls = 0 /\ stopped = FALSE

-----------------------------------------------------------------------------
(* Counters and queues.                                                    *)

\* uv_want_endgame: at most once, the flag guards the list.
uv_want_endgame(f) == f \cup {"ENDGAME_QUEUED"}

\* DECREASE_PENDING_REQ_COUNT, with the handle's flags being f.
DecreasePending(f) ==
  /\ reqs_pending' = reqs_pending - 1
  /\ flags' = IF "CLOSING" \in f /\ reqs_pending = 1 THEN uv_want_endgame(f) ELSE f

\* REGISTER_HANDLE_REQ and UNREGISTER_HANDLE_REQ.
Register(r) == activecnt' = activecnt + 1 /\ active_reqs' = active_reqs \cup {r}
Unregister(r) == activecnt' = activecnt - 1 /\ active_reqs' = active_reqs \ {r}

StoppedTwice == 1

\* Reading counts as activity once, and only while it lasts.
StoppedReading == Bit("READING" \in flags)

\* An overlapped operation is started.
Start(r, how) ==
  IF how = "kernel"
  THEN kernel' = kernel \cup {r} /\ UNCHANGED <<pending, status>>
  ELSE /\ pending' = Append(pending, r)
       /\ status' = [status EXCEPT ![r] = IF how = "now" THEN "ok" ELSE "error"]
       /\ UNCHANGED kernel

\* READ_PENDING is set only if WSARecv did not fail at once.
ReadPending(f, how) == IF how = "refused" THEN f ELSE f \cup {"READ_PENDING"}

\* uv_tcp_queue_read: a zero-length read.
uv_tcp_queue_read(f, how) ==
  /\ flags' = ReadPending(f, how)
  /\ Start("read", how)

-----------------------------------------------------------------------------
(* Calls of the user.                                                      *)

User ==
  /\ \/ cb \notin {"none", "alloc"}
     \/ cb = "alloc" /\ AllocCalls
     \/ cb = "none" /\ pc = "loop"
  /\ "CLOSING" \notin flags
  /\ calls < MaxCalls
  /\ calls' = calls + 1

\* uv_tcp_try_bind, as it is called before a connect.  An address in use is
\* reported by the connect.
uv_tcp_try_bind(bound) ==
  /\ socket' \in IF bound = "error" THEN {socket, TRUE} ELSE {TRUE}
  /\ delayed_error' = (bound = "in use")
  /\ flags' = IF bound = "error" THEN flags ELSE flags \cup {"BOUND"}

uv_tcp_connect ==
  /\ User
  /\ flags \cap {"CONNECTION", "READING"} = {}
  /\ "connect" \notin active_reqs
  /\ ~delayed_error
  /\ \E bound \in {"ok", "in use", "error"}, how \in SyncResults :
       /\ IF "BOUND" \in flags
          THEN bound = "ok" /\ UNCHANGED <<socket, delayed_error, flags>>
          ELSE uv_tcp_try_bind(bound)
       /\ IF bound = "ok" /\ how \in {"now", "kernel"}
          THEN /\ reqs_pending' = reqs_pending + 1
               /\ Register("connect")
               /\ Start("connect", how)
          ELSE UNCHANGED <<reqs_pending, activecnt, active_reqs, ioVars>>
  /\ UNCHANGED <<write_reqs_pending, shutdown_req, pc, cb, req, result, stopped>>

uv_read_start ==
  /\ User
  /\ "READING" \notin flags /\ "READABLE" \in flags
  /\ RestartsRefused \/ "READ_PENDING" \in flags \/ "read" \notin Range(pending)
  /\ activecnt' = activecnt + 1
  /\ IF "READ_PENDING" \in flags
     THEN flags' = flags \cup {"READING"} /\ UNCHANGED <<reqs_pending, ioVars>>
     ELSE /\ reqs_pending' = reqs_pending + 1
          /\ \E how \in SyncResults :
               /\ RestartsRefused \/ how # "refused" \/ pc \notin {"read_loop", "read_done"}
               /\ uv_tcp_queue_read(flags \cup {"READING"}, how)
  /\ stopped' = FALSE
  /\ UNCHANGED <<socket, delayed_error, write_reqs_pending, active_reqs,
                 shutdown_req, pc, cb, req, result>>

uv_read_stop ==
  /\ User
  /\ "READING" \in flags
  /\ flags' = flags \ {"READING"}
  /\ activecnt' = activecnt - 1
  /\ stopped' = TRUE
  /\ UNCHANGED <<socket, delayed_error, reqs_pending, write_reqs_pending,
                 active_reqs, shutdown_req, ioVars, pc, cb, req, result>>

\* uv_write: whatever WSASend says, the request is pending and reported later.
uv_tcp_write(w) ==
  /\ User
  /\ "WRITABLE" \in flags
  /\ w \notin active_reqs
  /\ reqs_pending' = reqs_pending + 1
  /\ write_reqs_pending' = write_reqs_pending + 1
  /\ Register(w)
  /\ \E how \in SyncResults : Start(w, how)
  /\ UNCHANGED <<flags, socket, delayed_error, shutdown_req, pc, cb, req, result,
                 stopped>>

uv_shutdown ==
  /\ User
  /\ "WRITABLE" \in flags
  /\ flags' = uv_want_endgame(flags \ {"WRITABLE"})
  /\ shutdown_req' = TRUE
  /\ reqs_pending' = reqs_pending + 1
  /\ Register("shutdown")
  /\ UNCHANGED <<socket, delayed_error, write_reqs_pending, ioVars, pc, cb, req,
                 result, stopped>>

CloseLater(f) == f

\* The endgame waits for the requests in flight.
CloseWhenIdle(f) == IF reqs_pending = 0 THEN uv_want_endgame(f) ELSE f

\* A shared socket with a read in flight is closed in the endgame if CancelIo
\* works; otherwise closesocket makes the kernel give up its requests.
uv_tcp_close ==
  /\ User
  /\ \E cancelled \in BOOLEAN :
       LET keep == {"READ_PENDING", "SHARED"} \subseteq flags /\ cancelled
       IN  /\ socket' = (socket /\ keep)
           /\ flags' = CloseWhenIdle((flags \ {"READING", "READABLE", "WRITABLE"})
                         \cup {"CLOSING"} \cup IF keep THEN {} ELSE {"SOCKET_CLOSED"})
  /\ activecnt' = activecnt - StoppedReading
  /\ stopped' = TRUE
  /\ UNCHANGED <<delayed_error, reqs_pending, write_reqs_pending, active_reqs,
                 shutdown_req, ioVars, pc, cb, req, result>>

-----------------------------------------------------------------------------
(* The kernel.                                                             *)

\* An operation ends; on a closed handle it may have been aborted.
KernelCompletes(r) ==
  /\ r \in kernel
  /\ kernel' = kernel \ {r}
  /\ pending' = Append(pending, r)
  /\ \E s \in {"ok", "error"} \cup IF "CLOSING" \in flags THEN {"aborted"} ELSE {} :
       status' = [status EXCEPT ![r] = s]
  /\ UNCHANGED <<flags, socket, delayed_error, countVars, shutdown_req, pc, cb,
                 req, result, calls, stopped>>

-----------------------------------------------------------------------------
(* The loop.                                                               *)

CallbackReturns ==
  /\ cb # "none"
  /\ cb' = "none"
  /\ UNCHANGED <<flags, socket, delayed_error, countVars, shutdown_req, ioVars,
                 pc, req, result, calls, stopped>>

At(p) == cb = "none" /\ pc = p

Take(r) ==
  /\ At("loop")
  /\ pending # <<>>
  /\ Head(pending) = r
  /\ pending' = Tail(pending)
  /\ req' = r
  /\ UNCHANGED <<kernel, status>>

StillPending(f) == f

\* The read that completed is no longer pending.
ReadCompleted(f) == f \ {"READ_PENDING"}

\* uv_process_tcp_read_req: a failed read ends reading, a good one means that
\* there is something to receive.
uv_process_tcp_read_req ==
  /\ Take("read")
  /\ IF status["read"] = "ok"
     THEN /\ flags' = ReadCompleted(flags)
          /\ pc' = "read_loop"
          /\ UNCHANGED <<activecnt, cb>>
     ELSE /\ flags' = ReadCompleted(flags) \ {"READING"}
          /\ pc' = "read_end"
          /\ activecnt' = activecnt - StoppedReading
          /\ cb' = IF "READING" \in flags THEN "read" ELSE cb
  /\ UNCHANGED <<socket, delayed_error, reqs_pending, write_reqs_pending,
                 active_reqs, shutdown_req, result, calls, stopped>>

ReadsOn == TRUE

\* The while loop's condition: the callbacks may have stopped reading.
StillReading == "READING" \in flags

\* The while loop asks for a buffer while the handle is reading.
ReadLoop ==
  /\ At("read_loop")
  /\ IF StillReading THEN pc' = "recv" /\ cb' = "alloc"
     ELSE pc' = "read_done" /\ UNCHANGED cb
  /\ UNCHANGED <<flags, socket, delayed_error, countVars, shutdown_req, ioVars,
                 req, result, calls, stopped>>

\* WSARecv without an overlapped structure.  A full buffer means go on.
Recv ==
  /\ At("recv")
  /\ cb' = "read"
  /\ \E got \in {"full", "some", "nothing", "no buffer", "eof", "error"} :
       /\ socket \/ got \in {"no buffer", "error"}
       /\ pc' = IF got = "full" THEN "read_loop" ELSE "read_done"
       /\ flags' = CASE got = "eof" -> flags \ {"READING", "READABLE"}
                     [] got = "error" -> flags \ {"READING"}
                     [] OTHER -> flags
       /\ activecnt' = activecnt - Bit(got \in {"eof", "error"})
  /\ UNCHANGED <<socket, delayed_error, reqs_pending, write_reqs_pending,
                 active_reqs, shutdown_req, ioVars, req, result, calls, stopped>>

ReadAgainAlways == "READING" \in flags

\* The callbacks may have started another read.
ReadAgain == "READING" \in flags /\ "READ_PENDING" \notin flags

\* done: another read is queued before this one is counted off.
ReadDone ==
  /\ At("read_done")
  /\ pc' = "read_end"
  /\ IF ReadAgain
     THEN /\ reqs_pending' = reqs_pending + 1
          /\ \E how \in SyncResults : uv_tcp_queue_read(flags, how)
     ELSE UNCHANGED <<reqs_pending, flags, ioVars>>
  /\ UNCHANGED <<socket, delayed_error, activecnt, write_reqs_pending, active_reqs,
                 shutdown_req, cb, req, result, calls, stopped>>

\* The end of the read and connect handlers.
HandlerEnd ==
  /\ At("read_end") \/ At("connect_end")
  /\ pc' = "loop"
  /\ DecreasePending(flags)
  /\ UNCHANGED <<socket, delayed_error, activecnt, write_reqs_pending, active_reqs,
                 shutdown_req, ioVars, cb, req, result, calls, stopped>>

Told(r) == CASE status[r] = "ok" -> "0"
             [] status[r] = "error" -> "error"
             [] OTHER -> "UV_ECANCELED"

uv_process_tcp_write_req(w) ==
  /\ Take(w)
  /\ Unregister(w)
  /\ result' = [result EXCEPT ![w] = Told(w)]
  /\ cb' = "write" /\ pc' = "write_end"
  /\ UNCHANGED <<flags, socket, delayed_error, reqs_pending, write_reqs_pending,
                 shutdown_req, calls, stopped>>

ForgetShutdown(f) == f

\* The last write lets a waiting shutdown go on.
WakeShutdown(f) ==
  IF shutdown_req /\ write_reqs_pending = 1 THEN uv_want_endgame(f) ELSE f

WriteEnd ==
  /\ At("write_end")
  /\ pc' = "loop"
  /\ write_reqs_pending' = write_reqs_pending - 1
  /\ DecreasePending(WakeShutdown(flags))
  /\ UNCHANGED <<socket, delayed_error, activecnt, active_reqs, shutdown_req,
                 ioVars, cb, req, result, calls, stopped>>

\* SO_UPDATE_CONNECT_CONTEXT fails on a socket closed meanwhile.
uv_process_tcp_connect_req ==
  /\ Take("connect")
  /\ Unregister("connect")
  /\ cb' = "connect" /\ pc' = "connect_end"
  /\ \/ /\ status["connect"] = "ok" /\ socket
        /\ flags' = flags \cup {"CONNECTION", "READABLE", "WRITABLE"}
        /\ write_reqs_pending' = 0
        /\ shutdown_req' = FALSE
        /\ result' = [result EXCEPT !["connect"] = "0"]
     \/ /\ result' = [result EXCEPT !["connect"] =
                        IF status["connect"] # "ok" THEN Told("connect")
                        ELSE IF socket THEN "error" ELSE "UV_ENOTSOCK"]
        /\ UNCHANGED <<flags, write_reqs_pending, shutdown_req>>
  /\ UNCHANGED <<socket, delayed_error, reqs_pending, calls, stopped>>

\* uv_tcp_endgame, first part: shutdown once no write is left.
ReadyToShutdown == "CONNECTION" \in flags /\ shutdown_req /\ write_reqs_pending = 0

EndgameShutdown ==
  /\ At("loop")
  /\ "ENDGAME_QUEUED" \in flags
  /\ ReadyToShutdown
  /\ flags' = flags \ {"ENDGAME_QUEUED"}
  /\ Unregister("shutdown")
  /\ \E s \in IF "CLOSING" \in flags THEN {"UV_ECANCELED"} ELSE {"0", "error"} :
       result' = [result EXCEPT !["shutdown"] = s]
  /\ cb' = "shutdown" /\ pc' = "shutdown_end"
  /\ UNCHANGED <<socket, delayed_error, reqs_pending, write_reqs_pending,
                 shutdown_req, ioVars, req, calls, stopped>>

ShutdownEnd ==
  /\ At("shutdown_end")
  /\ pc' = "loop"
  /\ shutdown_req' = FALSE
  /\ DecreasePending(flags)
  /\ UNCHANGED <<socket, delayed_error, activecnt, write_reqs_pending, active_reqs,
                 ioVars, cb, req, result, calls, stopped>>

\* Nothing the kernel or the loop has refers to the closing handle any more.
MayClose == "CLOSING" \in flags /\ reqs_pending = 0

\* uv_tcp_endgame, second part: the close callback once nothing is pending.
EndgameClose ==
  /\ At("loop")
  /\ "ENDGAME_QUEUED" \in flags
  /\ ~ReadyToShutdown
  /\ IF MayClose
     THEN /\ flags' = (flags \ {"ENDGAME_QUEUED"}) \cup {"SOCKET_CLOSED", "CLOSED"}
          /\ socket' = FALSE
          /\ cb' = "close"
     ELSE flags' = flags \ {"ENDGAME_QUEUED"} /\ UNCHANGED <<socket, cb>>
  /\ UNCHANGED <<delayed_error, countVars, shutdown_req, ioVars, pc, req, result,
                 calls, stopped>>

-----------------------------------------------------------------------------

UserCall ==
  \/ uv_tcp_connect \/ uv_read_start \/ uv_read_stop
  \/ \E w \in Writes : uv_tcp_write(w)
  \/ uv_shutdown \/ uv_tcp_close

HandlerStep ==
  \/ CallbackReturns \/ ReadLoop \/ Recv \/ ReadDone \/ HandlerEnd \/ WriteEnd
  \/ ShutdownEnd

ProcessReq ==
  \/ uv_process_tcp_read_req \/ uv_process_tcp_connect_req
  \/ \E w \in Writes : uv_process_tcp_write_req(w)

uv_tcp_endgame == EndgameShutdown \/ EndgameClose

\* Writes end, and the kernel gives back every request of a closed handle.
SystemStep == \E r \in Reqs : (r \in Writes \/ "CLOSING" \in flags) /\ KernelCompletes(r)

Next == UserCall \/ HandlerStep \/ ProcessReq \/ uv_tcp_endgame \/ \E r \in Reqs : KernelCompletes(r)

Spec == Init /\ [][Next]_vars

-----------------------------------------------------------------------------
(* Properties.                                                             *)

\* Every variable keeps its type, and the handle's active count never goes
\* below zero, as handle-inl.h:38 asserts.
TypeOK ==
  /\ flags \subseteq Flags
  /\ {socket, delayed_error, shutdown_req, stopped} \subseteq BOOLEAN
  /\ activecnt \in Nat /\ reqs_pending \in Nat /\ write_reqs_pending \in Nat
  /\ active_reqs \subseteq Reqs /\ kernel \subseteq Reqs
  /\ pending \in Seq(Reqs)
  /\ status \in [Reqs -> {"ok", "error", "aborted"}]
  /\ pc \in Pcs /\ cb \in Cbs /\ req \in Reqs /\ calls \in Nat
  /\ result \in [Reqs -> {"none", "0", "error", "UV_ECANCELED", "UV_ENOTSOCK"}]

\* The request the handler is in the middle of still counts as pending.
InHandler == Bit(pc # "loop" /\ pc # "shutdown_end")

\* reqs_pending counts the requests the kernel or the loop still holds, each
\* once, and the shutdown: uv_close may rely on it to tell when the handle's
\* memory is free (handle-inl.h:51-60, tcp.c:1444).
PendingCount ==
  /\ reqs_pending = Cardinality(kernel) + Len(pending) + InHandler + Bit(shutdown_req)
  /\ write_reqs_pending = Cardinality(active_reqs \cap Writes) + Bit(pc = "write_end")

\* handle.rst:109-111: the handle is active exactly while it reads or has a
\* connect, write or shutdown to report (handle-inl.h:32-48, req-inl.h:53-63).
ActiveWhileBusy ==
  activecnt = Bit("READING" \in flags) + Cardinality(active_reqs)

\* While the user is reading, outside the read handler, a read is on its way:
\* stopping and starting again in any callback never leaves the handle deaf
\* (tcp.c:729-731, 1065-1069).
ReadArmed ==
  "READING" \in flags /\ pc \notin {"read_loop", "recv", "read_done"}
    => "read" \in kernel \cup Range(pending)

\* The comment at req-inl.h:97: "Ensure the request is not already in the
\* queue, or the queue will get corrupted."
QueuedOnce ==
  \A i, j \in DOMAIN pending : i # j => pending[i] # pending[j]

\* stream.rst:144-145: "Stop reading data from the stream. The uv_read_cb
\* callback will no longer be called."
SilentAfterStop == cb = "none" /\ cb' = "read" => ~stopped

\* What is promised and outstanding: the close callback, whatever the handle was
\* doing (handle.rst:130), and that of a shutdown, which waits for the writes
\* before it (stream.rst:109).
Owes == ("CLOSING" \in flags /\ "CLOSED" \notin flags) \/ "shutdown" \in active_reqs

\* handle.rst:137-138: "In-progress requests, like uv_connect_t or
\* uv_write_t, are cancelled and have their callbacks called asynchronously
\* with status=UV_ECANCELED."  (One that failed by itself may say so.)
CancelledByClose ==
  cb = "none" /\ cb' = "connect" /\ "CLOSING" \in flags /\ status["connect"] # "error"
    => result'["connect"] = "UV_ECANCELED"
=============================================================================
