-------------------------------- MODULE Udp ---------------------------------
(***************************************************************************)
(* A UDP handle (win/udp.c): binding, receiving, sending, membership and   *)
(* closing.  As uv_active_udp_streams_threshold is 0, every receive is a   *)
(* zero-length one (UV_HANDLE_ZERO_READ), followed by a receive that does  *)
(* not block.  kernel is the set of overlapped requests Winsock has,       *)
(* pending the queue of completed ones, with their status; pc is the place *)
(* in the receive handler, cb the callback that runs.                      *)
(***************************************************************************)
EXTENDS UvHandle

CONSTANTS
  Sends,          \* the user's uv_udp_send_t requests
  MaxUdpCalls,    \* bound: calls the user makes
  RestartsReceive \* the user starts receiving again while the refusal of a
                  \* receive is queued, or the start in its handler is refused

VARIABLES h, kernel, pending, pc, cb, calls, hist
vars == <<h, kernel, pending, pc, cb, calls, hist>>

Families == {"ip4", "ip6"}
Outcomes == {"now", "kernel", "refused"}   \* of an overlapped call

\* uv_udp_init_ex: without a domain the socket comes later.
Init ==
  /\ \E domain \in Families \cup {"unspec"} :
       h = [flags |-> IF domain = "ip6" THEN {"IPV6"} ELSE {}, activecnt |-> 0,
            reqs_pending |-> 0, active_reqs |-> {}, active_handles |-> 0,
            socket |-> domain # "unspec", send_queue_count |-> 0, active_udp_streams |-> 0]
  /\ kernel = {} /\ pending = <<>> /\ pc = "loop" /\ cb = "none" /\ calls = 0
  /\ hist = [stopped |-> TRUE]

-----------------------------------------------------------------------------

\* uv_udp_maybe_bind after how far it gets: the socket may be refused, an
\* option, or the address; IPV6 is set before the bind.
uv_udp_maybe_bind(u, family, how) ==
  CASE Is(u, "BOUND") \/ how = "no socket" -> u
    [] how = "no option" -> [u EXCEPT !.socket = TRUE]
    [] OTHER ->
         Set([u EXCEPT !.socket = TRUE],
             (IF family = "ip6" THEN {"IPV6"} ELSE {}) \cup
             (IF how = "bound" THEN {"BOUND"} ELSE {}))

BindResults(u) ==
  IF Is(u, "BOUND") THEN {"bound"}
  ELSE {"no option", "in use", "bound"} \cup IF u.socket THEN {} ELSE {"no socket"}

QueueTwice(u) == TRUE

\* A receive is posted only if none is on its way.
NoReceive(u) == ~Is(u, "READ_PENDING")

\* uv_udp_queue_recv: whatever WSARecv says the request is counted; READ_PENDING
\* is set unless it was refused.
uv_udp_queue_recv(u, how) ==
  /\ h' = Set(INCREASE_PENDING(u), IF how = "refused" THEN {} ELSE {"READ_PENDING"})
  /\ kernel' = IF how = "kernel" THEN kernel \cup {"recv"} ELSE kernel
  /\ pending' = IF how = "kernel" THEN pending
                ELSE Append(pending, [req |-> "recv",
                                      status |-> IF how = "now" THEN "ok" ELSE "error"])

At(p) == cb = "none" /\ pc = p

User ==
  /\ cb \notin {"none", "alloc"} \/ At("loop")
  /\ ~Is(h, "CLOSING")
  /\ calls < MaxUdpCalls /\ calls' = calls + 1
  /\ UNCHANGED <<pc, cb>>

RecvQueued == \E i \in DOMAIN pending : pending[i].req = "recv"

\* A refused receive is queued without READ_PENDING: another one that follows
\* before the first is handled queues the same request again.
uv__udp_recv_start ==
  /\ User
  /\ ~Is(h, "READING")
  /\ RestartsReceive \/ Is(h, "READ_PENDING") \/ ~RecvQueued
  /\ \E bind \in BindResults(h) :
       LET bound == uv_udp_maybe_bind(h, "ip4", bind)
           reading == [INCREASE_ACTIVE_COUNT(Set(bound, {"READING"}))
                         EXCEPT !.active_udp_streams = @ + 1]
       IN  IF bind # "bound"
           THEN h' = bound /\ UNCHANGED <<kernel, pending, hist>>
           ELSE /\ hist' = [hist EXCEPT !.stopped = FALSE]
                /\ IF NoReceive(h)
                   THEN \E how \in Outcomes :
                          /\ RestartsReceive \/ how # "refused" \/ pc # "done"
                          /\ uv_udp_queue_recv(reading, how)
                   ELSE h' = reading /\ UNCHANGED <<kernel, pending>>

\* uv__udp_recv_stop.
StopReceiving(u) ==
  IF Is(u, "READING")
  THEN DECREASE_ACTIVE_COUNT([Clear(u, {"READING"}) EXCEPT !.active_udp_streams = @ - 1])
  ELSE u

uv__udp_recv_stop ==
  /\ User
  /\ Is(h, "READING")
  /\ h' = StopReceiving(h)
  /\ hist' = [hist EXCEPT !.stopped = TRUE]
  /\ UNCHANGED <<kernel, pending>>

\* uv__udp_bind.
uv__udp_bind ==
  /\ User
  /\ \E family \in Families, bind \in BindResults(h) :
       h' = uv_udp_maybe_bind(h, family, bind)
  /\ UNCHANGED <<kernel, pending, hist>>

\* uv_udp_set_membership: IPv4 not on an IPv6 handle, IPv6 not on a handle
\* bound to IPv4; both bind it if need be.
uv_udp_set_membership ==
  /\ User
  /\ ~Is(h, "BOUND")
  /\ \E family \in Families, bind \in BindResults(h) :
       /\ ~(family = "ip4" /\ Is(h, "IPV6"))
       /\ h' = uv_udp_maybe_bind(h, family, bind)
  /\ UNCHANGED <<kernel, pending, hist>>

\* uv_udp_open: only a handle that has no socket takes one.
uv_udp_open ==
  /\ User
  /\ ~h.socket
  /\ \E family \in Families :
       h' = Set([h EXCEPT !.socket = TRUE], IF family = "ip6" THEN {"IPV6"} ELSE {})
  /\ UNCHANGED <<kernel, pending, hist>>

\* uv__udp_send and uv__send: binds, then counts the request if it was taken.
uv__udp_send(s) ==
  /\ User
  /\ s \notin h.active_reqs
  /\ \E family \in Families, bind \in BindResults(h), how \in Outcomes :
       LET bound == uv_udp_maybe_bind(h, family, bind)
           sent == [REGISTER_HANDLE_REQ(INCREASE_PENDING(bound), s)
                      EXCEPT !.send_queue_count = @ + 1]
       IN  IF bind # "bound" \/ how = "refused"
           THEN h' = bound /\ UNCHANGED <<kernel, pending>>
           ELSE /\ h' = sent
                /\ kernel' = kernel \cup IF how = "kernel" THEN {s} ELSE {}
                /\ pending' = IF how = "kernel" THEN pending
                              ELSE Append(pending, [req |-> s, status |-> "ok"])
  /\ UNCHANGED hist

uv_udp_close ==
  /\ User
  /\ h' = EndgameIfIdle(uv__handle_closing([StopReceiving(h) EXCEPT !.socket = FALSE]))
  /\ hist' = [hist EXCEPT !.stopped = TRUE]
  /\ UNCHANGED <<kernel, pending>>

-----------------------------------------------------------------------------

\* Winsock ends a request.  An ICMP answer to an earlier send resets a
\* receive; a datagram larger than the buffer is reported as an error.
KernelCompletes(r) ==
  /\ r \in kernel
  /\ kernel' = kernel \ {r}
  /\ \E s \in IF r = "recv" THEN {"ok", "msgsize", "reset", "error"} ELSE {"ok", "error"} :
       pending' = Append(pending, [req |-> r, status |-> s])
  /\ UNCHANGED <<h, pc, cb, calls, hist>>

CallbackReturns ==
  /\ cb # "none"
  /\ cb' = "none"
  /\ UNCHANGED <<h, kernel, pending, pc, calls, hist>>

Take(r) ==
  /\ At("loop")
  /\ pending # <<>> /\ Head(pending).req = r
  /\ pending' = Tail(pending)
  /\ UNCHANGED <<kernel, calls, hist>>

\* uv_process_udp_recv_req up to the first callback.  Only a real error stops
\* the receiving.
uv_process_udp_recv_req ==
  /\ Take("recv")
  /\ LET u == Clear(h, {"READ_PENDING"})
         failed == Head(pending).status = "error"
     IN  /\ h' = IF failed THEN StopReceiving(u) ELSE u
         /\ pc' = IF failed \/ ~Is(h, "READING") THEN "done" ELSE "recvfrom"
         /\ cb' = IF ~Is(h, "READING") THEN "none"
                  ELSE IF failed THEN "recv" ELSE "alloc"

\* The receive that does not block, and recv_cb whatever it returns.
RecvFrom ==
  /\ At("recvfrom")
  /\ pc' = "done" /\ cb' = "recv"
  /\ \E got \in {"no buffer", "datagram", "truncated", "empty", "reset", "error"} :
       h' = IF got = "error" THEN StopReceiving(h) ELSE h
  /\ UNCHANGED <<kernel, pending, calls, hist>>

\* done: post another receive before this one is counted off.
RecvDone ==
  /\ At("done")
  /\ pc' = "counted"
  /\ IF Is(h, "READING") /\ NoReceive(h)
     THEN \E how \in Outcomes : uv_udp_queue_recv(h, how)
     ELSE UNCHANGED <<h, kernel, pending>>
  /\ UNCHANGED <<cb, calls, hist>>

HandlerEnd ==
  /\ At("counted")
  /\ pc' = "loop"
  /\ h' = DECREASE_PENDING_REQ_COUNT(h)
  /\ UNCHANGED <<kernel, pending, cb, calls, hist>>

SendCounted(u) == u
SendDone(u) == [u EXCEPT !.send_queue_count = @ - 1]

uv_process_udp_send_req(s) ==
  /\ Take(s)
  /\ h' = UNREGISTER_HANDLE_REQ(SendDone(h), s)
  /\ pc' = "counted" /\ cb' = "send"

uv_udp_endgame ==
  /\ At("loop")
  /\ Is(h, "ENDGAME_QUEUED")
  /\ LET u == Clear(h, {"ENDGAME_QUEUED"})
     IN  IF Is(h, "CLOSING") /\ h.reqs_pending = 0
         THEN h' = uv__handle_close(u) /\ cb' = "close"
         ELSE h' = u /\ UNCHANGED cb
  /\ UNCHANGED <<kernel, pending, pc, calls, hist>>

UserCall ==
  \/ uv__udp_recv_start \/ uv__udp_recv_stop \/ uv__udp_bind \/ uv_udp_set_membership
  \/ uv_udp_open \/ (\E s \in Sends : uv__udp_send(s)) \/ uv_udp_close

HandlerStep == CallbackReturns \/ RecvFrom \/ RecvDone \/ HandlerEnd

ProcessReq == uv_process_udp_recv_req \/ \E s \in Sends : uv_process_udp_send_req(s)

Endgame == uv_udp_endgame
\* What a closed socket owes: every request comes back.
SystemStep == Is(h, "CLOSING") /\ \E r \in Sends \cup {"recv"} : KernelCompletes(r)

Next ==
  \/ UserCall \/ HandlerStep \/ ProcessReq \/ uv_udp_endgame
  \/ \E r \in Sends \cup {"recv"} : KernelCompletes(r)

-----------------------------------------------------------------------------
(* Properties.                                                             *)

\* reqs_pending counts the requests Winsock or the loop has and the one being
\* handled (udp.c:268-380, 440-600), and no request is queued twice
\* (req-inl.h:97).
PendingExact ==
  /\ h.reqs_pending = Cardinality(kernel) + Len(pending) + Bit(pc # "loop")
  /\ \A i, j \in DOMAIN pending : i # j => pending[i].req # pending[j].req

\* The handle is active for each send to report and while it receives
\* (udp.c:383-428), and the send queue's count is that of the sends.
ActiveExact ==
  /\ h.activecnt = Cardinality(h.active_reqs) + Bit(Is(h, "READING"))
  /\ h.send_queue_count = Cardinality(h.active_reqs)
  /\ h.active_udp_streams = Bit(Is(h, "READING"))
  /\ LoopKnows(h)

\* While it receives, outside the handler, a receive is on its way
\* (udp.c:408-411, 583-590).
Armed == Is(h, "READING") /\ pc \in {"loop", "counted"} => "recv" \in kernel \/ RecvQueued

\* uv_udp_recv_stop keeps recv_cb away (udp.rst), also when a receive was under
\* way or its refusal queued (udp.c:419-428, 497-503).
Silent == cb' = "recv" /\ cb = "none" => ~hist.stopped

\* What is promised and outstanding: the close callback of a closed handle.
Owes ==
  Is(h, "CLOSING") /\ ~Is(h, "CLOSED")
=============================================================================
