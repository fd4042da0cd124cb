----------------------------- MODULE PollHandle -----------------------------
(***************************************************************************)
(* A poll handle (win/poll.c).  It has two requests, so that a change of   *)
(* the events can be submitted while the other request is still with the   *)
(* system; a mask keeps the older one from reporting what the newer one    *)
(* asks for.  In fast mode requests go to AFD, where a new exclusive poll  *)
(* makes an older one return; in slow mode a thread of the system's pool   *)
(* calls select.                                                           *)
(***************************************************************************)
EXTENDS UvHandle

CONSTANTS
  PollEvents,     \* the events there are: "READABLE", "WRITABLE", "DISCONNECT"
  MaxPollCalls,   \* bound: calls the user makes
  MaxPollErrors   \* bound: failures of a poll

VARIABLES h, kernel, pending, pc, cb, calls, hist
vars == <<h, kernel, pending, pc, cb, calls, hist>>

Two == {1, 2}

\* The status of a request and the events it returned.
Good(events) == [status |-> "ok", events |-> events]
Fail(p, i) == [p EXCEPT !.result[i].status = "error"]

\* uv_poll_init_socket: slow unless the socket's provider is AFD.
Init ==
  /\ \E slow \in BOOLEAN :
       h = [flags |-> IF slow THEN {"POLL_SLOW"} ELSE {}, activecnt |-> 0, reqs_pending |-> 0,
            active_reqs |-> {}, active_handles |-> 0, events |-> {},
            submitted |-> [i \in Two |-> {}], mask |-> [i \in Two |-> {}],
            result |-> [i \in Two |-> Good({})]]
  /\ kernel = {} /\ pending = <<>> /\ pc = "loop" /\ cb = "none" /\ calls = 0
  /\ hist = [ready |-> {}, errors |-> 0]

Slow == Is(h, "POLL_SLOW")

Polled(p) == p.submitted[1] \cup p.submitted[2]

\* The request that is free, the first one first; 0 if there is none.
FreeReq(p) == CASE p.submitted[1] = {} -> 1 [] p.submitted[2] = {} -> 2 [] OTHER -> 0

MasksNewer(p, i) == [j \in Two |-> IF j = i THEN p.events ELSE {}]
Masks(p, i) == [j \in Two |-> IF j = i THEN {} ELSE p.events]

\* uv__fast_poll_submit_poll_req and uv__slow_poll_submit_poll_req.  AFD gives
\* back the other request (cut); a thread of the slow mode looks at the events
\* when it runs (asked).  The system may refuse the request.
SubmitPoll(p) ==
  LET i == FreeReq(p)
      q == [p EXCEPT !.submitted[i] = p.events, !.mask = Masks(p, i)]
      others == IF Slow THEN kernel ELSE {[k EXCEPT !.cut = TRUE] : k \in kernel}
  IN  IF i = 0 THEN h' = p /\ UNCHANGED <<kernel, pending, hist>>
      ELSE /\ \/ /\ h' = q
                 /\ kernel' = others \cup
                      {[req |-> i, cut |-> FALSE, started |-> ~Slow, asked |-> p.events]}
                 /\ UNCHANGED <<pending, hist>>
              \/ /\ hist.errors < MaxPollErrors
                 /\ hist' = [hist EXCEPT !.errors = @ + 1]
                 /\ h' = Fail(q, i)
                 /\ pending' = Append(pending, i)
                 /\ UNCHANGED kernel

SubmitAlways(p) == p.events # {}
NeedsSubmit(p) == p.events \ Polled(p) # {}

\* uv__fast_poll_set and uv__slow_poll_set.
PollSet(events) ==
  LET e == [h EXCEPT !.events = events]
      p == IF events # {} THEN uv__handle_start(e) ELSE uv__handle_stop(e)
  IN  IF NeedsSubmit(p) THEN SubmitPoll(p)
      ELSE h' = p /\ UNCHANGED <<kernel, pending, hist>>

At(p) == cb = "none" /\ pc = p

User ==
  /\ cb # "none" \/ At("loop")
  /\ ~Is(h, "CLOSING")
  /\ calls < MaxPollCalls /\ calls' = calls + 1
  /\ UNCHANGED <<pc, cb>>

\* Slow mode asserts that DISCONNECT is not asked for.
uv_poll_start ==
  /\ User
  /\ \E events \in (SUBSET (IF Slow THEN PollEvents \ {"DISCONNECT"} ELSE PollEvents)) \ {{}} :
       PollSet(events)

uv_poll_stop == User /\ PollSet({})

\* uv_poll_close: fast mode makes outstanding requests return with a poll of
\* its own; slow mode waits for the threads.
uv_poll_close ==
  /\ User
  /\ LET p == uv__handle_closing([h EXCEPT !.events = {}])
     IN  h' = IF Polled(p) = {} THEN uv_want_endgame(p) ELSE p
  /\ kernel' = IF Slow THEN kernel ELSE {[k EXCEPT !.cut = TRUE] : k \in kernel}
  /\ UNCHANGED <<pending, hist>>

-----------------------------------------------------------------------------
(* The system.                                                             *)

\* The peer: conditions hold from some moment on.
PeerActs ==
  /\ \E e \in PollEvents \ hist.ready : hist' = [hist EXCEPT !.ready = @ \cup {e}]
  /\ UNCHANGED <<h, kernel, pending, pc, cb, calls>>

\* uv__slow_poll_thread_proc begins and builds its sets from the events the
\* handle has now; the loop's thread may have changed them.
SlowPollStarts(k) ==
  /\ k \in kernel /\ ~k.started
  /\ kernel' = (kernel \ {k}) \cup {[k EXCEPT !.started = TRUE, !.asked = h.events]}
  /\ UNCHANGED <<h, pending, pc, cb, calls, hist>>

\* What AFD reports as readable includes a disconnect.
Reported(k) ==
  LET r == hist.ready \cap k.asked
  IN  IF "DISCONNECT" \in hist.ready /\ "READABLE" \in k.asked
      THEN r \cup {"READABLE", "DISCONNECT"}
      ELSE IF "DISCONNECT" \in r THEN r \cup {"READABLE"} ELSE r

\* A poll or a select returns: with events, cut short, or after the timeout of
\* select, without any.
PollReturns(k) ==
  /\ k \in kernel /\ k.started
  /\ \/ Reported(k) # {}
     \/ k.cut
     \/ Slow /\ k.asked # {}
  /\ h' = [h EXCEPT !.result[k.req] = Good(Reported(k))]
  /\ kernel' = kernel \ {k}
  /\ pending' = Append(pending, k.req)
  /\ UNCHANGED <<pc, cb, calls, hist>>

\* A select fails if it has nothing to wait for, and any poll may fail.  The
\* thread puts the error into the first request, whichever it serves, and posts
\* its own.
PollFails(k) ==
  /\ k \in kernel /\ k.started
  /\ IF Slow /\ k.asked = {} THEN UNCHANGED hist
     ELSE hist.errors < MaxPollErrors /\ hist' = [hist EXCEPT !.errors = @ + 1]
  /\ h' = Fail(h, IF Slow THEN 1 ELSE k.req)
  /\ kernel' = kernel \ {k}
  /\ pending' = Append(pending, k.req)
  /\ UNCHANGED <<pc, cb, calls>>

-----------------------------------------------------------------------------
(* The loop.                                                               *)

CallbackReturns ==
  /\ cb # "none"
  /\ cb' = "none"
  /\ UNCHANGED <<h, kernel, pending, pc, calls, hist>>

\* uv__fast_poll_process_poll_req, uv__slow_poll_process_poll_req up to the
\* callback.  An error empties the events, and the handle stays active.
uv_process_poll_req ==
  /\ At("loop")
  /\ pending # <<>>
  /\ LET i == Head(pending)
         p == [h EXCEPT !.submitted[i] = {}]
         events == (h.result[i].events \cap h.events) \ h.mask[i]
     IN  IF h.result[i].status = "error"
         THEN h' = [p EXCEPT !.events = {}] /\ cb' = IF h.events # {} THEN "error" ELSE cb
         ELSE h' = p /\ cb' = IF events # {} THEN "poll" ELSE cb
  /\ pending' = Tail(pending)
  /\ pc' = "resubmit"
  /\ UNCHANGED <<kernel, calls, hist>>

\* The end of the handlers: what is still wanted is submitted again.
Resubmit ==
  /\ At("resubmit")
  /\ pc' = "loop"
  /\ IF NeedsSubmit(h) THEN SubmitPoll(h)
     ELSE /\ h' = IF Is(h, "CLOSING") /\ Polled(h) = {} THEN uv_want_endgame(h) ELSE h
          /\ UNCHANGED <<kernel, pending, hist>>
  /\ UNCHANGED <<cb, calls>>

uv_poll_endgame ==
  /\ At("loop")
  /\ Is(h, "ENDGAME_QUEUED")
  /\ h' = uv__handle_close(Clear(h, {"ENDGAME_QUEUED"}))
  /\ cb' = "close"
  /\ UNCHANGED <<kernel, pending, pc, calls, hist>>

UserCall == uv_poll_start \/ uv_poll_stop \/ uv_poll_close
HandlerStep == CallbackReturns \/ Resubmit

ProcessReq == uv_process_poll_req
Endgame == uv_poll_endgame
Served(i) == \E k \in kernel : k.req = i /\ (SlowPollStarts(k) \/ PollReturns(k) \/ PollFails(k))
SystemStep == Served(1)
OtherStep == Served(2)

Next ==
  \/ UserCall \/ HandlerStep \/ uv_process_poll_req \/ uv_poll_endgame
  \/ PeerActs \/ \E k \in kernel : SlowPollStarts(k) \/ PollReturns(k) \/ PollFails(k)

-----------------------------------------------------------------------------
(* Properties.                                                             *)

Outstanding(i) ==
  Cardinality({k \in kernel : k.req = i}) + Cardinality({j \in DOMAIN pending : pending[j] = i})

\* submitted says which requests the system or the loop has, each once: the
\* endgame relies on it (poll.c:95-110, 272-280, 331-345).
PendingExact == \A i \in Two : Outstanding(i) = Bit(h.submitted[i] # {})

\* Outside a handler every wanted event is being polled for, unless both
\* requests are out and one has been told to return (poll.c:90-111); slow mode
\* never gets there, its assert(0) cannot fail (poll.c:430).
Armed ==
  At("loop") => \/ h.events \subseteq Polled(h)
                \/ ~Slow /\ \/ \E k \in kernel : k.cut
                            \/ pending # <<>>

\* The handle is closed once no request is out (poll.c:272-280, 636-646).
ActiveExact ==
  /\ LoopKnows(h)
  /\ h.events # {} => Is(h, "ACTIVE")
  /\ Is(h, "CLOSED") => kernel = {} /\ pending = <<>>

\* What is promised and outstanding: the close callback, and the report of an
\* event that holds and is asked for.
Owes ==
  \/ Is(h, "CLOSING") /\ ~Is(h, "CLOSED")
  \/ cb = "none" /\ h.events \cap hist.ready # {}
=============================================================================
