----------------------------- MODULE UnixServer -----------------------------
(***************************************************************************)
(* Servers of the Unix backend and pipes that receive descriptors          *)
(* (src/unix/stream.c, with the listens of src/unix/tcp.c and              *)
(* src/unix/pipe.c): accepted_fd, the queue of further descriptors, the    *)
(* spare descriptor for a full table, uv_accept in the callback or later.  *)
(* Descriptors are numbered in the order in which they come.               *)
(***************************************************************************)
EXTENDS Integers, Sequences, FiniteSets, SequencesExt

CONSTANTS
  MaxConns,          \* bound: connections, or descriptors sent
  FdLimit,           \* descriptors the process may open, with the spare one
  QueueGrow,         \* descriptors the queue grows by (8 in the code)
  MaxUServerCalls,   \* bound: calls of the user
  ServerFaults       \* "accepts_busy", "spare_lost"

VARIABLES
  h,        \* the handle
  kernel,   \* the connections and the table of descriptors
  pending,  \* unused by servers: nothing is fed
  pc, cb, calls,
  hist      \* descriptors announced so far
vars == <<h, kernel, pending, pc, cb, calls, hist>>

May(f) == f \in ServerFaults
Loop == [at |-> "loop"]
None == -1
Spare == 0

uv__stream_init(mode) ==
  [mode |-> mode, fd |-> None, flags |-> {}, pevents |-> {}, accepted_fd |-> None,
   queue |-> <<>>, qsize |-> 0, emfile_fd |-> Spare]

Init ==
  /\ \E mode \in {"tcp", "pipe", "ipc"} : h = uv__stream_init(mode)
  /\ kernel = [backlog |-> 0, came |-> 0, open |-> {Spare}, clients |-> {}, other |-> 0, name |-> FALSE]
  /\ pending = FALSE /\ pc = Loop /\ cb = "none" /\ calls = 0
  /\ hist = 0

Free(k) == FdLimit - Cardinality(k.open) - k.other
User == (pc.at = "loop" \/ cb # "none") /\ pc.at # "aborted"
Call == User /\ calls < MaxUServerCalls /\ calls' = calls + 1
Closing(s) == "CLOSING" \in s.flags

-----------------------------------------------------------------------------
(* Calls of the user.                                                      *)

\* uv_tcp_bind and uv_pipe_bind; the pipe's name is in the file system.
uv_bind ==
  /\ User /\ h.mode \in {"tcp", "pipe"} /\ h.fd = None /\ ~Closing(h)
  /\ h' = [h EXCEPT !.fd = 100, !.flags = @ \cup {"BOUND"}]
  /\ kernel' = [kernel EXCEPT !.name = (h.mode = "pipe")]
  /\ UNCHANGED <<pending, pc, cb, calls, hist>>

uv_listen ==
  /\ User /\ h.mode \in {"tcp", "pipe"} /\ h.fd # None /\ "LISTENING" \notin h.flags /\ ~Closing(h)
  /\ h' = [h EXCEPT !.pevents = {"IN"}, !.flags = @ \cup {"ACTIVE", "LISTENING"}]
  /\ UNCHANGED <<kernel, pending, pc, cb, calls, hist>>

\* uv_pipe_open of an ipc pipe and uv_read_start on it.
uv_pipe_open ==
  /\ User /\ h.mode = "ipc" /\ h.fd = None /\ ~Closing(h)
  /\ h' = [h EXCEPT !.fd = 100, !.pevents = {"IN"}, !.flags = @ \cup {"ACTIVE", "LISTENING"}]
  /\ UNCHANGED <<kernel, pending, pc, cb, calls, hist>>

NextDropped(s, ok) ==
  [s EXCEPT !.accepted_fd = None, !.pevents = IF ok THEN @ \cup {"IN"} ELSE @]

\* The end of uv_accept: the next descriptor of the queue, or wait for one.
NextAccepted(s, ok) ==
  IF s.queue = <<>>
  THEN [s EXCEPT !.accepted_fd = None, !.pevents = IF ok THEN @ \cup {"IN"} ELSE @]
  ELSE [s EXCEPT !.accepted_fd = Head(s.queue), !.queue = Tail(@),
                 !.qsize = IF Tail(s.queue) = <<>> THEN 0 ELSE @]

\* uv_accept: into a fresh handle, or one that has a descriptor already.
uv_accept(busy) ==
  /\ Call /\ h.accepted_fd # None /\ (busy => May("accepts_busy"))
  /\ kernel' = IF busy THEN [kernel EXCEPT !.open = @ \ {h.accepted_fd}]
               ELSE [kernel EXCEPT !.clients = @ \cup {h.accepted_fd}]
  /\ h' = NextAccepted(h, ~busy)
  /\ UNCHANGED <<pending, pc, cb, hist>>

\* A client of the user is closed.
ClientCloses(c) ==
  /\ User /\ c \in kernel.clients
  /\ kernel' = [kernel EXCEPT !.clients = @ \ {c}, !.open = @ \ {c}]
  /\ UNCHANGED <<h, pending, pc, cb, calls, hist>>

\* uv_close: the name first, then the watcher, the descriptors.
uv__pipe_close ==
  /\ User /\ ~Closing(h)
  /\ kernel' = [kernel EXCEPT !.open = @ \ (ToSet(h.queue) \cup {h.accepted_fd}), !.backlog = 0,
                              !.name = FALSE]
  /\ h' = [h EXCEPT !.fd = None, !.pevents = {}, !.accepted_fd = None, !.queue = <<>>, !.qsize = 0,
                    !.flags = (@ \ {"ACTIVE"}) \cup {"CLOSING"}]
  /\ UNCHANGED <<pending, pc, cb, calls, hist>>

uv__finish_close ==
  /\ pc.at = "loop" /\ cb = "none" /\ Closing(h) /\ "CLOSED" \notin h.flags
  /\ h' = [h EXCEPT !.flags = @ \cup {"CLOSED"}] /\ cb' = "close_cb"
  /\ UNCHANGED <<kernel, pending, pc, calls, hist>>

UserCall ==
  \/ uv_bind \/ uv_listen \/ uv_pipe_open \/ uv__pipe_close
  \/ \E busy \in BOOLEAN : uv_accept(busy)
  \/ \E c \in kernel.clients : ClientCloses(c)

CallbackReturns ==
  /\ cb # "none" /\ cb' = "none"
  /\ UNCHANGED <<h, kernel, pending, pc, calls, hist>>

-----------------------------------------------------------------------------
(* uv__server_io.                                                          *)

Poll ==
  /\ pc.at = "loop" /\ cb = "none" /\ "IN" \in h.pevents /\ kernel.backlog > 0
  /\ pc' = IF h.mode = "ipc" THEN [at |-> "recv"]
           ELSE [at |-> IF h.accepted_fd = None THEN "accept" ELSE "aborted"]
  /\ UNCHANGED <<h, kernel, pending, cb, calls, hist>>

\* uv__emfile_trick: the spare descriptor is closed, everybody who waits is
\* accepted and closed, and it is opened again if nobody else took it.
uv__emfile_trick(lost) ==
  /\ kernel' = [kernel EXCEPT !.backlog = 0, !.open = IF lost THEN @ \ {Spare} ELSE @]
  /\ h' = [h EXCEPT !.emfile_fd = IF lost THEN None ELSE @]

\* One turn of the loop.
uv__server_io ==
  /\ pc.at = "accept" /\ cb = "none"
  /\ \/ /\ h.fd = None \/ (h.accepted_fd = None /\ kernel.backlog = 0)
        /\ pc' = Loop /\ UNCHANGED <<h, kernel, cb, hist>>
     \/ /\ h.fd # None /\ h.accepted_fd # None
        /\ h' = [h EXCEPT !.pevents = @ \ {"IN"}] /\ pc' = Loop
        /\ UNCHANGED <<kernel, cb, hist>>
     \/ \* the connection is gone again: ECONNABORTED
        /\ h.fd # None /\ h.accepted_fd = None /\ kernel.backlog > 0
        /\ kernel' = [kernel EXCEPT !.backlog = @ - 1]
        /\ UNCHANGED <<h, pc, cb, hist>>
     \/ /\ h.fd # None /\ h.accepted_fd = None /\ kernel.backlog > 0 /\ Free(kernel) > 0
        /\ hist' = hist + 1
        /\ kernel' = [kernel EXCEPT !.backlog = @ - 1, !.open = @ \cup {hist'}]
        /\ h' = [h EXCEPT !.accepted_fd = hist']
        /\ cb' = "connection_cb" /\ UNCHANGED pc
     \/ /\ h.fd # None /\ h.accepted_fd = None /\ kernel.backlog > 0 /\ Free(kernel) <= 0
        /\ IF h.emfile_fd = None
           THEN cb' = "connection_cb" /\ UNCHANGED <<h, kernel, pc>>
           ELSE /\ \E lost \in IF May("spare_lost") THEN BOOLEAN ELSE {FALSE} : uv__emfile_trick(lost)
                /\ pc' = Loop /\ UNCHANGED cb
        /\ UNCHANGED hist
  /\ UNCHANGED <<pending, calls>>

-----------------------------------------------------------------------------
(* Descriptors in a message.                                               *)

\* uv__stream_queue_fd: FALSE when the queue cannot grow.
QueueFd(s, fd, grows) ==
  IF s.qsize > Len(s.queue) \/ grows
  THEN [ok |-> TRUE, s |-> [s EXCEPT !.queue = Append(@, fd),
                                     !.qsize = IF @ > Len(s.queue) THEN @ ELSE @ + QueueGrow]]
  ELSE [ok |-> FALSE, s |-> s]

\* uv__stream_recv_cmsg: the rest is closed when one cannot be queued.
uv__stream_recv_cmsg(s, fds, grows) ==
  FoldLeft(LAMBDA acc, fd :
      IF ~acc.ok THEN [acc EXCEPT !.closed = @ \cup {fd}]
      ELSE IF acc.s.accepted_fd = None THEN [acc EXCEPT !.s.accepted_fd = fd]
      ELSE LET q == QueueFd(acc.s, fd, grows)
           IN  [ok |-> q.ok, s |-> q.s, closed |-> IF q.ok THEN acc.closed ELSE acc.closed \cup {fd}],
    [ok |-> TRUE, s |-> s, closed |-> {}], fds)

Receive ==
  /\ pc.at = "recv" /\ cb = "none" /\ h.fd # None
  /\ \E n \in 1..kernel.backlog : \E grows \in BOOLEAN :
       LET fds == [i \in 1..n |-> hist + i]
           r == uv__stream_recv_cmsg(h, fds, grows)
       IN  /\ h' = r.s
           /\ kernel' = [kernel EXCEPT !.backlog = @ - n, !.open = @ \cup (ToSet(fds) \ r.closed)]
           /\ hist' = hist + n
  /\ cb' = "read_cb" /\ pc' = Loop
  /\ UNCHANGED <<pending, calls>>

-----------------------------------------------------------------------------
Connects ==
  /\ h.fd # None /\ "LISTENING" \in h.flags /\ kernel.came < MaxConns
  /\ kernel' = [kernel EXCEPT !.came = @ + 1, !.backlog = @ + 1]
\* Another thread opens or closes a descriptor.
OtherThread ==
  /\ kernel' = [kernel EXCEPT !.other = 1 - @] /\ (kernel.other = 1 \/ Free(kernel) > 0)
World == (Connects \/ OtherThread) /\ UNCHANGED <<h, pending, pc, cb, calls, hist>>

HandlerStep == CallbackReturns \/ uv__server_io \/ Receive
PollStep == Poll
CloseStep == uv__finish_close

Next == UserCall \/ HandlerStep \/ PollStep \/ CloseStep \/ World

-----------------------------------------------------------------------------
(* Properties.                                                             *)

\* Every open descriptor has one owner: the spare one, the one announced, the
\* queue, or a client; closing leaves none behind, nor the pipe's name
\* (stream.c:486-509, 600-641, 1014-1096, 1604-1630, pipe.c:131-146).
PendingExact ==
  /\ pc.at # "aborted"
  /\ kernel.open = ({h.emfile_fd, h.accepted_fd} \ {None}) \cup ToSet(h.queue) \cup kernel.clients
  /\ Len(h.queue) = Cardinality(ToSet(h.queue)) /\ Len(h.queue) <= h.qsize
  /\ h.accepted_fd \notin ToSet(h.queue) \cup kernel.clients
  /\ Closing(h) => ~kernel.name

\* A server is active from listen to close.
ActiveExact == "ACTIVE" \in h.flags <=> ("LISTENING" \in h.flags /\ ~Closing(h))

\* A server that has nothing for uv_accept waits for connections
\* (stream.c:553-567, 622-638).
Armed ==
  "ACTIVE" \in h.flags /\ h.accepted_fd = None => "IN" \in h.pevents

\* Descriptors are handed out in the order in which they came
\* (stream.c:613-633).
Sane ==
  /\ \A i, j \in DOMAIN h.queue : i < j => h.queue[i] < h.queue[j]
  /\ h.queue # <<>> => h.accepted_fd # None /\ h.accepted_fd < Head(h.queue)

\* Those who wait are accepted or refused, unless one is announced and not yet
\* accepted; a close ends.
Owes ==
  \/ Closing(h) /\ "CLOSED" \notin h.flags
  \/ "ACTIVE" \in h.flags /\ h.accepted_fd = None /\ kernel.backlog > 0
=============================================================================
