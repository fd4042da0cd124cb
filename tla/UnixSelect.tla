----------------------------- MODULE UnixSelect -----------------------------
(***************************************************************************)
(* Streams on descriptors that kqueue cannot watch (src/unix/stream.c): a  *)
(* thread calls select(2) and hands what it finds to the loop through an   *)
(* async handle, a word of events and two semaphores; the loop interrupts  *)
(* it through a socket pair when the set of watched events changes, and    *)
(* ends it when the stream is closed.                                      *)
(***************************************************************************)
EXTENDS Integers, FiniteSets

CONSTANTS
  MaxSelectCalls,   \* bound: changes of the watched events
  MaxReady          \* bound: times the descriptor becomes ready

VARIABLES
  h,        \* the stream: closing, pevents
  kernel,   \* what the descriptor is ready for, the byte in the socket pair
  pending,  \* the async handle's signal
  pc,       \* where the loop and the thread are
  cb,       \* what the loop's handler has still to look at
  calls,
  hist      \* the shared record: events, semaphores, the set being watched
vars == <<h, kernel, pending, pc, cb, calls, hist>>

Events == {"IN", "OUT"}

\* uv__stream_try_select: everything is made, or nothing is left.
Made == {"fds", "select", "async", "close_sem", "async_sem", "thread"}
Order == <<"fds", "select", "async", "close_sem", "async_sem", "thread">>
TrySelect(fails) ==
  IF fails = 0 THEN Made
  ELSE LET made == {Order[i] : i \in 1..fails - 1}
       IN  \* the labels at the end; an async handle is closed and frees select
           made \ ({"fds", "close_sem", "async_sem"} \cup
                   (IF fails > 3 THEN {"async", "select"} ELSE {"select"}))

Init ==
  /\ \E fails \in 0..6 :
       /\ h = [closing |-> FALSE, pevents |-> {}, made |-> TrySelect(fails)]
       /\ pc = [loop |-> IF fails = 0 THEN "idle" ELSE "failed", thr |-> IF fails = 0 THEN "top" ELSE "none"]
  /\ kernel = [ready |-> {}, byte |-> FALSE, times |-> 0]
  /\ pending = FALSE /\ cb = {} /\ calls = 0
  /\ hist = [events |-> {}, close_sem |-> 0, async_sem |-> 0, watched |-> {}, found |-> {}]

-----------------------------------------------------------------------------
(* The thread: uv__stream_osx_select.                                      *)

Top ==
  /\ pc.thr = "top"
  /\ IF hist.close_sem > 0
     THEN hist' = [hist EXCEPT !.close_sem = @ - 1] /\ pc' = [pc EXCEPT !.thr = "exit"]
     ELSE hist' = [hist EXCEPT !.watched = h.pevents] /\ pc' = [pc EXCEPT !.thr = "select"]
  /\ UNCHANGED <<h, kernel, pending, cb, calls>>

\* select returns; the bytes of interruptions are read away.
Select ==
  /\ pc.thr = "select"
  /\ hist.watched \cap kernel.ready # {} \/ kernel.byte
  /\ kernel' = [kernel EXCEPT !.byte = FALSE]
  /\ hist' = [hist EXCEPT !.found = hist.watched \cap kernel.ready]
  /\ pc' = [pc EXCEPT !.thr = IF hist'.found = {} THEN "top" ELSE "send"]
  /\ UNCHANGED <<h, pending, cb, calls>>

Send ==
  /\ pc.thr = "send"
  /\ hist' = [hist EXCEPT !.events = hist.found]
  /\ pending' = TRUE
  /\ pc' = [pc EXCEPT !.thr = "wait"]
  /\ UNCHANGED <<h, kernel, cb, calls>>

\* uv_sem_wait(&s->async_sem), and the assertion after it.
Wait ==
  /\ pc.thr = "wait" /\ hist.async_sem > 0
  /\ hist' = [hist EXCEPT !.async_sem = @ - 1]
  /\ pc' = [pc EXCEPT !.thr = IF hist.events = {} \/ h.closing THEN "top" ELSE "aborted"]
  /\ UNCHANGED <<h, kernel, pending, cb, calls>>

uv__stream_osx_select == Top \/ Select \/ Send \/ Wait

-----------------------------------------------------------------------------
(* The loop.                                                               *)

NoInterrupt(k) == k

uv__stream_osx_interrupt_select(k) == [k EXCEPT !.byte = TRUE]

User == pc.loop = "idle" \/ pc.loop = "callback"

\* Any of the calls that start or stop watching, with its interruption.
Watch ==
  /\ User /\ ~h.closing /\ calls < MaxSelectCalls /\ calls' = calls + 1
  /\ \E ev \in SUBSET Events : ev # h.pevents /\ h' = [h EXCEPT !.pevents = ev]
  /\ kernel' = uv__stream_osx_interrupt_select(kernel)
  /\ UNCHANGED <<pending, pc, cb, hist>>

\* uv__stream_osx_select_cb: takes the events; the stream's handler runs for
\* those that are still wanted.
uv__stream_osx_select_cb ==
  /\ pc.loop = "idle" /\ pending /\ ~h.closing
  /\ pending' = FALSE
  /\ IF hist.events = {}
     THEN pc' = [pc EXCEPT !.loop = "aborted"] /\ UNCHANGED <<hist, cb>>
     ELSE /\ hist' = [hist EXCEPT !.events = {}] /\ cb' = hist.events
          /\ pc' = [pc EXCEPT !.loop = "events"]
  /\ UNCHANGED <<h, kernel, calls>>

\* uv__stream_io for one event, up to its callback: what was there is read or
\* written.
StreamIo(e) ==
  /\ pc.loop = "events" /\ e \in cb /\ (e = "OUT" => "IN" \notin cb)
  /\ cb' = cb \ {e}
  /\ IF e \in h.pevents
     THEN kernel' = [kernel EXCEPT !.ready = @ \ {e}] /\ pc' = [pc EXCEPT !.loop = "callback"]
     ELSE UNCHANGED <<kernel, pc>>
  /\ UNCHANGED <<h, pending, calls, hist>>

CallbackReturns ==
  /\ pc.loop = "callback" /\ pc' = [pc EXCEPT !.loop = "events"]
  /\ UNCHANGED <<h, kernel, pending, cb, calls, hist>>

EventsDone ==
  /\ pc.loop = "events" /\ cb = {}
  /\ hist' = IF h.closing THEN hist ELSE [hist EXCEPT !.async_sem = @ + 1]
  /\ pc' = [pc EXCEPT !.loop = IF h.closing THEN "ended" ELSE "idle"]
  /\ UNCHANGED <<h, kernel, pending, cb, calls>>

\* uv__stream_close: both semaphores, the interruption, then the join.
uv__stream_close ==
  /\ User /\ ~h.closing
  /\ h' = [h EXCEPT !.closing = TRUE]
  /\ hist' = [hist EXCEPT !.close_sem = @ + 1, !.async_sem = @ + 1]
  /\ kernel' = uv__stream_osx_interrupt_select(kernel)
  /\ pc' = [pc EXCEPT !.loop = IF @ = "idle" THEN "join" ELSE "join_in_callback"]
  /\ UNCHANGED <<pending, cb, calls>>

Join ==
  /\ pc.loop \in {"join", "join_in_callback"} /\ pc.thr = "exit"
  /\ h' = [h EXCEPT !.pevents = {}, !.made = {}]
  /\ pending' = FALSE
  /\ pc' = [pc EXCEPT !.loop = IF @ = "join" THEN "ended" ELSE "callback"]
  /\ UNCHANGED <<kernel, cb, calls, hist>>

Becomes ==
  /\ kernel.times < MaxReady
  /\ \E e \in Events \ kernel.ready :
       kernel' = [kernel EXCEPT !.ready = @ \cup {e}, !.times = @ + 1]
  /\ UNCHANGED <<h, pending, pc, cb, calls, hist>>

UserCall == Watch \/ uv__stream_close
HandlerStep == CallbackReturns \/ EventsDone \/ (\E e \in Events : StreamIo(e)) \/ Join
RunPending == uv__stream_osx_select_cb
SystemStep == uv__stream_osx_select

Next == UserCall \/ HandlerStep \/ RunPending \/ SystemStep \/ Becomes

-----------------------------------------------------------------------------
(* Properties.                                                             *)

\* Either the stream has everything it needs for its thread or nothing; after
\* the close nothing is left, and the semaphores are not destroyed while the
\* thread uses them; no assertion fails (stream.c:203-207, 222-223, 283-395,
\* 1593-1611).
PendingExact ==
  /\ h.made \in {{}, Made}
  /\ pc.loop # "aborted" /\ pc.thr # "aborted"
  /\ h.made = {} => pc.thr \in {"none", "exit"}

\* The loop's semaphore is posted at most once per handover, so that the
\* thread never runs ahead of the read (stream.c:235-242).
Armed ==
  /\ ~h.closing => hist.async_sem <= 1
  /\ ~h.closing /\ pc.loop \in {"events", "callback"} => pc.thr = "wait" /\ hist.async_sem = 0
  /\ pc.thr = "wait" /\ ~h.closing => pending \/ pc.loop \in {"events", "callback"} \/ hist.async_sem = 1

\* What is wanted and ready is handed over, and a close ends.
Owes ==
  \/ h.pevents \cap kernel.ready # {} /\ ~h.closing
  \/ pc.loop \in {"join", "join_in_callback"}
=============================================================================
