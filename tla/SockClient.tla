----------------------------- MODULE SockClient -----------------------------
(***************************************************************************)
(* CTCPClient of libuv_socket (libuv_socket_client/src/UVSocket.cpp): one  *)
(* client object, the thread that connects and then runs its loop, and the *)
(* user's threads that call connect, send and close.  The write mutex is   *)
(* uv_mutex_t of the Windows build, a critical section: its owner enters   *)
(* again, and any thread leaves it.                                        *)
(***************************************************************************)
EXTENDS Integers, FiniteSets

CONSTANTS
  Senders,        \* the threads that send
  MaxClientData,  \* bound: data that arrives
  ClientFaults    \* "sends_again", "sends_in_callback", "bad_address", "reconnects",
                  \* "closes_after_eof", "closes_busy", "closes_sending"

VARIABLES
  h,        \* the object
  kernel,   \* the connection
  pending,  \* writes in flight: the threads that asked for them
  pc,       \* where each thread is
  cb,       \* the callback of the loop that runs
  calls,    \* sends of each thread
  hist      \* what went wrong
vars == <<h, kernel, pending, pc, cb, calls, hist>>

May(f) == f \in ClientFaults
Free == "nobody"

\* The constructor.
Init ==
  /\ h = [isinit |-> FALSE, status |-> "DIS", handle |-> "none", reading |-> FALSE,
          mutex |-> "none", owner |-> Free, depth |-> 0, ret |-> "none"]
  /\ kernel = [state |-> "none", data |-> 0, eof |-> FALSE]
  /\ pending = {} /\ cb = "none"
  /\ pc = [t \in Senders \cup {"main", "loop"} |-> IF t = "loop" THEN "none" ELSE "idle"]
  /\ calls = [t \in Senders \cup {"loop"} |-> 0] /\ hist = {}

-----------------------------------------------------------------------------
(* uv_mutex_t on Windows.                                                  *)

MayEnter(t) == h.owner \in {Free, t}
Entered(s, t) == [s EXCEPT !.owner = t, !.depth = @ + 1]
uv_mutex_unlock(s) ==
  [s EXCEPT !.depth = @ - 1, !.owner = IF s.depth = 1 THEN Free ELSE @]

-----------------------------------------------------------------------------
(* connect and its thread.                                                 *)

\* init: what is there already is used as it is.
init(s) ==
  IF s.isinit THEN s
  ELSE [s EXCEPT !.isinit = TRUE, !.handle = "open", !.mutex = "alive", !.owner = Free, !.depth = 0,
                 !.reading = FALSE]

closed(s) ==
  IF ~s.isinit THEN s
  ELSE [s EXCEPT !.isinit = FALSE, !.mutex = "none", !.handle = "closing", !.reading = FALSE]

Sending == \E t \in Senders \cup {"loop"} : pc[t] \in {"locked", "blocked"}

\* What close does wrong: it closes a handle that closes already, or it
\* destroys the mutex that a thread in send has or waits for, or a write in
\* flight will unlock.
CloseFaults ==
  {f \in {"closed_twice", "mutex_gone"} :
     /\ h.isinit
     /\ f = "closed_twice" => h.handle # "open"
     /\ f = "mutex_gone" => pending # {} \/ Sending}

connect ==
  /\ pc["main"] = "idle" /\ (h.ret = "none" \/ May("reconnects"))
  /\ pc["loop"] \in {"none", "ended"}
  /\ h' = init(closed(h))
  /\ hist' = hist \cup CloseFaults \cup (IF closed(h).handle = "closing" THEN {"init_while_closing"} ELSE {})
  /\ pc' = [pc EXCEPT !["main"] = "waits", !["loop"] = "starts"]
  /\ kernel' = [kernel EXCEPT !.state = "none", !.eof = FALSE]
  /\ UNCHANGED <<pending, cb, calls>>

\* ConnectThread and ConnectThread6: an address that is none, or a connect
\* that fails at once, ends the thread and nothing else.
ConnectThread ==
  /\ pc["loop"] = "starts"
  /\ \E ok \in IF May("bad_address") THEN BOOLEAN ELSE {TRUE} :
       /\ pc' = [pc EXCEPT !["loop"] = IF ok THEN "runs" ELSE "ended"]
       /\ kernel' = [kernel EXCEPT !.state = IF ok THEN "connecting" ELSE @]
  /\ UNCHANGED <<h, pending, cb, calls, hist>>

ConnectReturns ==
  /\ pc["main"] = "waits" /\ h.status # "DIS"
  /\ h' = [h EXCEPT !.ret = IF h.status = "FINISH" THEN "true" ELSE "false"]
  /\ pc' = [pc EXCEPT !["main"] = "idle"]
  /\ UNCHANGED <<kernel, pending, cb, calls, hist>>

close ==
  /\ pc["main"] = "idle" /\ h.isinit
  /\ h.handle = "open" \/ May("closes_after_eof")
  /\ pending = {} \/ May("closes_busy")
  /\ ~Sending \/ May("closes_sending")
  /\ h' = closed(h) /\ hist' = hist \cup CloseFaults
  /\ kernel' = [kernel EXCEPT !.state = "closed"]
  /\ UNCHANGED <<pending, pc, cb, calls>>

-----------------------------------------------------------------------------
(* send: the mutex is left by the callback of the write.                   *)

EntersAlways(t) ==
  /\ pc[t] = "idle" /\ h.ret = "true" /\ h.isinit
  /\ calls[t] = 0 \/ (May("sends_again") /\ calls[t] < 2)
  /\ calls' = [calls EXCEPT ![t] = @ + 1]
  /\ pc' = [pc EXCEPT ![t] = "locked"] /\ UNCHANGED h

SendLocks(t) ==
  /\ pc[t] = "idle" /\ h.ret = "true" /\ h.isinit
  /\ calls[t] = 0 \/ (May("sends_again") /\ calls[t] < 2)
  /\ calls' = [calls EXCEPT ![t] = @ + 1]
  /\ IF MayEnter(t) THEN h' = Entered(h, t) /\ pc' = [pc EXCEPT ![t] = "locked"]
     ELSE pc' = [pc EXCEPT ![t] = "blocked"] /\ UNCHANGED h

send(t) == SendLocks(t) /\ UNCHANGED <<kernel, pending, cb, hist>>

LockTaken(t) ==
  /\ pc[t] = "blocked" /\ MayEnter(t)
  /\ h' = Entered(h, t) /\ pc' = [pc EXCEPT ![t] = "locked"]
  /\ UNCHANGED <<kernel, pending, cb, calls, hist>>

\* uv_write with the one request and the one buffer.
uv_write(t) ==
  /\ pc[t] = "locked"
  /\ IF h.handle = "open" /\ kernel.state = "connected"
     THEN /\ pending' = pending \cup {<<t, calls[t]>>} /\ UNCHANGED h
          /\ hist' = IF pending = {} THEN hist ELSE hist \cup {"request_reused"}
     ELSE h' = uv_mutex_unlock(h) /\ UNCHANGED <<pending, hist>>
  /\ pc' = [pc EXCEPT ![t] = IF t = "loop" THEN "runs" ELSE "idle"]
  /\ UNCHANGED <<kernel, cb, calls>>

-----------------------------------------------------------------------------
(* The loop's thread.                                                      *)

Runs == pc["loop"] = "runs" /\ cb = "none"

AfterConnect ==
  /\ Runs /\ kernel.state = "connecting"
  /\ \E ok, reads \in BOOLEAN :
       /\ h' = [h EXCEPT !.status = IF ok /\ reads THEN "FINISH" ELSE "ERROR", !.reading = ok /\ reads]
       /\ kernel' = [kernel EXCEPT !.state = IF ok THEN "connected" ELSE "failed"]
  /\ UNCHANGED <<pending, pc, cb, calls, hist>>

\* Data goes to the user's callback; the end or an error closes the handle.
AfterClientRecv ==
  /\ Runs /\ h.reading /\ h.handle = "open"
  /\ \/ /\ kernel.data < MaxClientData
        /\ kernel' = [kernel EXCEPT !.data = @ + 1] /\ cb' = "recvcb" /\ UNCHANGED h
     \/ /\ kernel' = [kernel EXCEPT !.eof = TRUE]
        /\ h' = [h EXCEPT !.handle = "closing", !.reading = FALSE] /\ UNCHANGED cb
  /\ UNCHANGED <<pending, pc, calls, hist>>

\* The user's recvcb sends an answer; unless "sends_in_callback", only while
\* no other thread's send is under way.
RecvcbSends ==
  /\ cb = "recvcb" /\ pc["loop"] = "runs" /\ calls["loop"] = 0 /\ h.isinit
  /\ May("sends_in_callback") \/ h.owner = Free
  /\ calls' = [calls EXCEPT !["loop"] = 1]
  /\ IF MayEnter("loop") THEN h' = Entered(h, "loop") /\ pc' = [pc EXCEPT !["loop"] = "locked"]
     ELSE pc' = [pc EXCEPT !["loop"] = "blocked"] /\ UNCHANGED h
  /\ UNCHANGED <<kernel, pending, cb, hist>>

RecvcbReturns ==
  /\ cb = "recvcb" /\ pc["loop"] = "runs" /\ cb' = "none"
  /\ UNCHANGED <<h, kernel, pending, pc, calls, hist>>

AfterSend ==
  /\ Runs /\ \E w \in pending : pending' = pending \ {w}
  /\ h' = IF h.mutex = "alive" THEN uv_mutex_unlock(h) ELSE h
  /\ hist' = IF h.mutex = "alive" THEN hist ELSE hist \cup {"unlocked_destroyed"}
  /\ UNCHANGED <<kernel, pc, cb, calls>>

\* The close callback comes after those of the writes; then uv_run ends.
AfterClose ==
  /\ Runs /\ h.handle = "closing" /\ pending = {}
  /\ h' = [h EXCEPT !.handle = "closed"] /\ pc' = [pc EXCEPT !["loop"] = "ended"]
  /\ UNCHANGED <<kernel, pending, cb, calls, hist>>

\* uv_run ends when nothing is active either: the connect failed.
RunEnds ==
  /\ Runs /\ kernel.state \in {"connected", "failed"} /\ h.handle = "open" /\ ~h.reading /\ pending = {}
  /\ pc' = [pc EXCEPT !["loop"] = "ended"]
  /\ UNCHANGED <<h, kernel, pending, cb, calls, hist>>

UserCall == connect \/ close \/ \E t \in Senders : send(t)
HandlerStep ==
  \/ ConnectThread \/ AfterConnect \/ RecvcbReturns \/ AfterSend \/ AfterClose \/ RunEnds
  \/ LockTaken("loop") \/ uv_write("loop")
SystemStep == ConnectReturns
SenderStep == \E t \in Senders : LockTaken(t) \/ uv_write(t)

Next ==
  UserCall \/ HandlerStep \/ SystemStep \/ SenderStep \/ AfterClientRecv \/ RecvcbSends

-----------------------------------------------------------------------------
(* Properties.                                                             *)

\* The one write request is in flight once at most, and the write mutex is
\* held from the send that started it to its callback, whoever leaves it.
PendingExact ==
  /\ "request_reused" \notin hist
  /\ h.mutex = "alive" /\ h.depth > 0 <=> pending # {} \/ \E t \in DOMAIN pc : pc[t] = "locked"
  /\ Cardinality(pending) + Cardinality({t \in DOMAIN pc : pc[t] = "locked"}) <= 1

\* connect said yes: the client reads until the handle is closed.
Armed == h.ret = "true" /\ h.handle = "open" => h.reading

\* The handle is closed once and not made anew while it closes; the mutex is
\* not destroyed under a write.
Sane == hist \subseteq {"request_reused"}

\* connect returns; a sender that waits gets the mutex; a write ends; a close
\* ends.
Owes ==
  \/ pc["main"] = "waits" \/ pending # {} \/ \E t \in DOMAIN pc : pc[t] \in {"blocked", "locked"}
  \/ h.handle = "closing" /\ pc["loop"] \notin {"none", "ended"}
=============================================================================
