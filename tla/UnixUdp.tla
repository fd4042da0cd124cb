------------------------------ MODULE UnixUdp ------------------------------
(***************************************************************************)
(* A UDP handle on Unix (src/unix/udp.c): sends that are tried at once,    *)
(* queued for POLLOUT or handed to the pending queue, the receive loop     *)
(* that any callback may stop or close, the socket that is made, shared    *)
(* with the calls that need one and closed when a bind fails.              *)
(***************************************************************************)
EXTENDS Integers, Sequences, FiniteSets

CONSTANTS
  USends,         \* the user's uv_udp_send_t requests
  RecvCount,      \* 32 in uv__udp_recvmsg
  MaxUUdpCalls,   \* bound: calls of the user
  MaxDatagrams,   \* bound: datagrams that arrive
  MaxBlocks,      \* bound: times the socket's buffer fills up
  UUdpFaults      \* "blocks_at_once", "closes_in_recv", "binds_again", "unbound_options"

VARIABLES
  h,        \* the handle and its watcher
  kernel,   \* the socket: its family, datagrams, whether a send would block
  pending,  \* write_queue, write_completed_queue, counts, the loop's pending_queue
  pc, cb, calls,
  hist      \* what was told of each request; the level of the last option
vars == <<h, kernel, pending, pc, cb, calls, hist>>

May(f) == f \in UUdpFaults
Families == {"ip4", "ip6"}
Loop == [at |-> "loop", out |-> FALSE, count |-> 0, more |-> FALSE]

\* uv_udp_init_ex: with a domain there is a socket, and no flag that says so.
Init ==
  /\ \E domain \in Families \cup {"unspec"} :
       /\ h = [fd |-> domain # "unspec", flags |-> {}, pevents |-> {}, recv |-> FALSE,
               active |-> FALSE, state |-> "open"]
       /\ kernel = [family |-> domain, inbox |-> 0, arrived |-> 0, blocked |-> FALSE, blocks |-> 0]
  /\ pending = [wq |-> <<>>, done |-> <<>>, count |-> 0, reqs |-> 0, fed |-> FALSE]
  /\ pc = Loop /\ cb = "none" /\ calls = 0
  /\ hist = [told |-> [r \in USends |-> "none"], option |-> TRUE]

User == (pc.at = "loop" \/ cb # "none") /\ pc.at # "aborted" /\ h.state # "closed"
Call == User /\ h.state = "open" /\ calls < MaxUUdpCalls /\ calls' = calls + 1

\* uv__io_stop does nothing without a descriptor.
Stopped(s, ev) == IF s.fd THEN [s EXCEPT !.pevents = @ \ ev] ELSE s

-----------------------------------------------------------------------------
(* The socket.                                                             *)

\* uv__udp_bind: whatever fails after the socket is there closes it.
uv__udp_bind(s, k, family, how) ==
  CASE how = "no socket" -> [s |-> s, k |-> k]
    [] how = "fails" -> [s |-> [s EXCEPT !.fd = FALSE], k |-> [k EXCEPT !.family = "unspec"]]
    [] how = "bound" ->
         [s |-> [s EXCEPT !.fd = TRUE,
                          !.flags = @ \cup {"BOUND"} \cup (IF family = "ip6" THEN {"IPV6"} ELSE {})],
          k |-> [k EXCEPT !.family = IF s.fd THEN @ ELSE family]]

\* A socket takes an address of its own family, once.
BindResults(s, k, family) ==
  {"fails"} \cup (IF s.fd THEN {} ELSE {"no socket"})
            \cup (IF ~s.fd \/ (k.family = family /\ "BOUND" \notin s.flags) THEN {"bound"} ELSE {})

\* uv__udp_maybe_deferred_bind: a handle with a socket is left as it is.
Deferred(s, k, family) ==
  IF s.fd THEN {[s |-> s, k |-> k, err |-> FALSE]}
  ELSE {[s |-> uv__udp_bind(s, k, family, how).s, k |-> uv__udp_bind(s, k, family, how).k, err |-> how # "bound"] :
          how \in BindResults(s, k, family)}

\* Without "binds_again" a handle that is watched is not bound again.
uv_udp_bind ==
  /\ Call
  /\ h.pevents = {} \/ May("binds_again")
  /\ \E family \in Families :
       \E how \in BindResults(h, kernel, family) :
         /\ h' = uv__udp_bind(h, kernel, family, how).s
         /\ kernel' = uv__udp_bind(h, kernel, family, how).k
  /\ UNCHANGED <<pending, pc, cb, hist>>

uv_udp_open ==
  /\ Call /\ ~h.fd
  /\ \E family \in Families : kernel' = [kernel EXCEPT !.family = family]
  /\ h' = [h EXCEPT !.fd = TRUE]
  /\ UNCHANGED <<pending, pc, cb, hist>>

uv_udp_set_membership ==
  /\ Call
  /\ \E family \in Families : \E d \in Deferred(h, kernel, family) : h' = d.s /\ kernel' = d.k
  /\ UNCHANGED <<pending, pc, cb, hist>>

\* uv__setsockopt: the level follows the flag, which only a bind sets.
Level(s) == IF "IPV6" \in s.flags THEN "ip6" ELSE "ip4"
uv_udp_set_ttl(val) == IF val \in 1..255 THEN Level(h) ELSE "EINVAL"
uv_udp_set_multicast_ttl(val) == IF val \in 0..255 THEN Level(h) ELSE "EINVAL"
\* With an address the level is the one of the address.
uv_udp_set_multicast_interface(addr) == IF addr = "none" THEN Level(h) ELSE addr
SetsOption ==
  /\ Call
  /\ h.fd
  /\ "BOUND" \in h.flags \/ May("unbound_options")
  /\ \E level \in {uv_udp_set_ttl(0), uv_udp_set_ttl(1), uv_udp_set_multicast_ttl(0),
                    uv_udp_set_multicast_interface("none"), uv_udp_set_multicast_interface(kernel.family)} :
       hist' = [hist EXCEPT !.option = level \in {"EINVAL", kernel.family}]
  /\ UNCHANGED <<h, kernel, pending, pc, cb>>

-----------------------------------------------------------------------------
(* Sending.                                                                *)

\* uv__udp_sendmsg: n requests leave the queue, with these results, and the
\* watcher is fed.
Sent(p, results) ==
  [p EXCEPT !.wq = SubSeq(@, Len(results) + 1, Len(@)),
            !.done = @ \o [i \in DOMAIN results |-> [req |-> p.wq[i], status |-> results[i]]],
            !.fed = @ \/ results # <<>>]

\* How a run over the queue may end: all are sent or refused, or one would
\* block; without a socket each is refused.
Runs(s, p, least) ==
  IF ~s.fd THEN {[i \in DOMAIN p.wq |-> "error"]}
  ELSE UNION {[1..n -> {"ok", "error"}] : n \in least..Len(p.wq)}

SendAfter(d, r) ==
  LET p == [pending EXCEPT !.wq = Append(@, r), !.count = @ + 1, !.reqs = @ + 1]
      now == pending.count = 0 /\ pc.at # "completed"
  IN  /\ kernel' = d.k
      /\ IF now
         THEN /\ h' = [d.s EXCEPT !.active = TRUE]
              /\ \E results \in Runs(d.s, p, IF May("blocks_at_once") THEN 0 ELSE 1) : pending' = Sent(p, results)
         ELSE /\ h' = [d.s EXCEPT !.active = TRUE, !.pevents = @ \cup {"OUT"}]
              /\ pending' = p

uv__udp_send(r) ==
  /\ Call /\ hist.told[r] = "none"
  /\ \E family \in Families : \E d \in Deferred(h, kernel, family) :
       IF d.err THEN h' = d.s /\ kernel' = d.k /\ UNCHANGED <<pending, hist>>
       ELSE SendAfter(d, r) /\ hist' = [hist EXCEPT !.told[r] = "queued"]
  /\ UNCHANGED <<pc, cb>>

\* With nothing queued, and no request of its own.
uv__udp_try_send ==
  /\ Call /\ pending.count = 0
  /\ \E family \in Families : \E d \in Deferred(h, kernel, family) : h' = d.s /\ kernel' = d.k
  /\ UNCHANGED <<pending, pc, cb, hist>>

-----------------------------------------------------------------------------
(* Receiving and closing.                                                  *)

uv__udp_recv_start ==
  /\ Call /\ "IN" \notin h.pevents
  /\ \E d \in Deferred(h, kernel, "ip4") :
       /\ h' = IF d.err THEN d.s ELSE [d.s EXCEPT !.recv = TRUE, !.pevents = @ \cup {"IN"}, !.active = TRUE]
       /\ kernel' = d.k
  /\ UNCHANGED <<pending, pc, cb, hist>>

\* POLLOUT keeps the handle active.
uv__udp_recv_stop ==
  /\ Call
  /\ LET s == Stopped(h, {"IN"})
     IN  h' = [s EXCEPT !.active = @ /\ "OUT" \in s.pevents, !.recv = FALSE]
  /\ UNCHANGED <<kernel, pending, pc, cb, hist>>

\* uv_close.  Without "closes_in_recv" a receive callback does not close while
\* sends wait that the same event would make.
uv__udp_close ==
  /\ User /\ h.state = "open"
  /\ ~(cb = "recv" /\ pc.out /\ pending.wq # <<>>) \/ May("closes_in_recv")
  /\ h' = [Stopped(h, {"IN", "OUT"}) EXCEPT !.fd = FALSE, !.active = FALSE, !.state = "closing"]
  /\ kernel' = [kernel EXCEPT !.family = "unspec", !.inbox = 0]
  /\ pending' = [pending EXCEPT !.fed = FALSE]
  /\ UNCHANGED <<pc, cb, calls, hist>>

Idle == pc.at = "loop" /\ cb = "none"
Turn(out) == [Loop EXCEPT !.at = "completed", !.out = out]

\* uv__udp_io from the poller; POLLOUT comes with at least one send.
IoPolled ==
  /\ Idle /\ h.fd /\ h.state = "open"
  /\ LET ready == h.pevents \cap ((IF kernel.inbox > 0 THEN {"IN"} ELSE {}) \cup
                                  (IF kernel.blocked THEN {} ELSE {"OUT"}))
     IN  /\ ready # {}
         /\ pc' = IF "IN" \in ready
                  THEN [at |-> "recv", out |-> "OUT" \in ready, count |-> RecvCount, more |-> TRUE]
                  ELSE [Loop EXCEPT !.at = "out", !.out = TRUE]
  /\ UNCHANGED <<h, kernel, pending, cb, calls, hist>>

\* uv__run_pending calls uv__udp_io with POLLOUT.
IoFed ==
  /\ Idle /\ pending.fed /\ h.state # "closed"
  /\ pending' = [pending EXCEPT !.fed = FALSE] /\ pc' = [Loop EXCEPT !.at = "out"]
  /\ UNCHANGED <<h, kernel, cb, calls, hist>>

\* A datagram, EAGAIN, an error, or a buffer the user did not give; the
\* last three end the loop.
uv__udp_recvmsg ==
  /\ pc.at = "recv" /\ cb = "none"
  /\ IF ~h.recv THEN pc' = [pc EXCEPT !.at = "aborted"] /\ UNCHANGED <<kernel, cb>>
     ELSE \E gets \in {FALSE} \cup (IF kernel.inbox > 0 THEN {TRUE} ELSE {}) :
            /\ kernel' = IF gets THEN [kernel EXCEPT !.inbox = @ - 1] ELSE kernel
            /\ pc' = [pc EXCEPT !.more = gets /\ pc.count > 0, !.count = @ - 1] /\ cb' = "recv"
  /\ UNCHANGED <<h, pending, calls, hist>>

\* The callback may have stopped or closed.
RecvReturns ==
  /\ cb = "recv" /\ cb' = "none"
  /\ pc' = IF pc.more /\ h.fd /\ h.recv THEN pc
           ELSE IF pc.out THEN [pc EXCEPT !.at = "out"] ELSE Loop
  /\ UNCHANGED <<h, kernel, pending, calls, hist>>

uv__udp_sendmsg ==
  /\ pc.at = "out"
  /\ \E results \in Runs(h, pending, IF pc.out /\ pending.wq # <<>> THEN 1 ELSE 0) : pending' = Sent(pending, results)
  /\ pc' = Turn(pc.out)
  /\ UNCHANGED <<h, kernel, cb, calls, hist>>

\* The end of uv__udp_run_completed.
Drained(s, p) ==
  IF p.wq # <<>> THEN s
  ELSE LET t == Stopped(s, {"OUT"}) IN [t EXCEPT !.active = @ /\ "IN" \in t.pevents]

\* The size was taken off before the callback, which may be NULL.
uv__udp_run_completed ==
  /\ pc.at = "completed" /\ cb = "none"
  /\ IF pending.done # <<>>
     THEN /\ pending' = [pending EXCEPT !.done = Tail(@), !.count = @ - 1, !.reqs = @ - 1]
          /\ \E has \in BOOLEAN : cb' = IF has THEN "send" ELSE "none"
          /\ hist' = [hist EXCEPT !.told[Head(pending.done).req] =
                                    IF @ = "queued" THEN Head(pending.done).status ELSE "twice"]
          /\ UNCHANGED <<h, pc>>
     ELSE /\ h' = Drained(h, pending)
          /\ pc' = IF pc.more THEN [Loop EXCEPT !.at = "closed"] ELSE Loop
          /\ UNCHANGED <<pending, cb, hist>>
  /\ UNCHANGED <<kernel, calls>>

CallbackReturns == cb \in {"send", "close"} /\ cb' = "none" /\ UNCHANGED <<h, kernel, pending, pc, calls, hist>>

\* Both assertions, then what is queued is cancelled and told.
uv__udp_finish_close ==
  /\ Idle /\ h.state = "closing"
  /\ IF h.pevents # {} \/ h.fd THEN pc' = [Loop EXCEPT !.at = "aborted"] /\ UNCHANGED pending
     ELSE /\ pending' = [Sent(pending, [i \in DOMAIN pending.wq |-> "canceled"]) EXCEPT !.fed = pending.fed]
          /\ pc' = [Turn(FALSE) EXCEPT !.more = TRUE]
  /\ UNCHANGED <<h, kernel, cb, calls, hist>>

\* send_queue_count must be 0; uv__finish_close calls the close callback.
Closed ==
  /\ pc.at = "closed"
  /\ IF pending.count # 0 THEN pc' = [pc EXCEPT !.at = "aborted"] /\ UNCHANGED <<h, cb>>
     ELSE pc' = Loop /\ cb' = "close" /\ h' = [h EXCEPT !.recv = FALSE, !.state = "closed"]
  /\ UNCHANGED <<kernel, pending, calls, hist>>

\* The network.
Arrives ==
  /\ Idle /\ h.fd /\ kernel.arrived < MaxDatagrams
  /\ kernel' = [kernel EXCEPT !.inbox = @ + 1, !.arrived = @ + 1]
  /\ UNCHANGED <<h, pending, pc, cb, calls, hist>>
Blocks ==
  /\ Idle /\ ~kernel.blocked /\ kernel.blocks < MaxBlocks
  /\ kernel' = [kernel EXCEPT !.blocked = TRUE, !.blocks = @ + 1]
  /\ UNCHANGED <<h, pending, pc, cb, calls, hist>>
Unblocks == kernel.blocked /\ kernel' = [kernel EXCEPT !.blocked = FALSE] /\ UNCHANGED <<h, pending, pc, cb, calls, hist>>

UserCall ==
  \/ uv_udp_bind \/ uv_udp_open \/ uv_udp_set_membership \/ SetsOption
  \/ (\E r \in USends : uv__udp_send(r)) \/ uv__udp_try_send
  \/ uv__udp_recv_start \/ uv__udp_recv_stop \/ uv__udp_close
HandlerStep ==
  \/ uv__udp_recvmsg \/ RecvReturns \/ uv__udp_sendmsg \/ uv__udp_run_completed \/ CallbackReturns \/ Closed
RunPending == IoFed
PollStep == IoPolled
CloseStep == uv__udp_finish_close
SystemStep == Unblocks
Next == UserCall \/ HandlerStep \/ RunPending \/ PollStep \/ CloseStep \/ SystemStep \/ Arrives \/ Blocks

-----------------------------------------------------------------------------
(* Properties.                                                             *)

\* A request is counted from its call until its callback, and told once.
PendingExact ==
  /\ pending.count = Len(pending.wq) + Len(pending.done) /\ pending.reqs = pending.count
  /\ pending.reqs = Cardinality({r \in USends : hist.told[r] = "queued"})
  /\ \A r \in USends : hist.told[r] # "twice"

\* Active while something is watched for or sent.
ActiveExact ==
  h.state = "open" /\ pc.at # "completed" =>
    /\ h.pevents # {} => h.active
    /\ h.active => h.pevents # {} \/ pending.count > 0

\* Who waits for a datagram or for room is watched; what is done is fed.
Armed ==
  h.state = "open" =>
    /\ h.recv => "IN" \in h.pevents
    /\ pending.wq # <<>> => "OUT" \in h.pevents
    /\ pending.done # <<>> => pending.fed \/ pc.at \in {"out", "completed"}

Sane ==
  /\ pc.at # "aborted" /\ hist.option
  /\ h.pevents # {} => h.fd
  /\ h.state = "closed" => ~pending.fed /\ pending.count = 0

\* After the close callback nothing is called, after uv_udp_recv_stop no
\* receive callback.
Silent ==
  /\ h.state = "closed" => cb' \in {cb, "none"}
  /\ cb = "none" /\ cb' = "recv" => h.recv /\ h.state = "open"

Owes == pending.count > 0 \/ h.state = "closing"
=============================================================================
