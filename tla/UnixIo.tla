------------------------------- MODULE UnixIo -------------------------------
(***************************************************************************)
(* Watchers of the Unix backend and the Linux poller (src/unix/core.c,     *)
(* src/unix/linux-core.c, with the poll handles of src/unix/poll.c): what  *)
(* is wanted of a descriptor, what epoll was told, the batch of events     *)
(* that is being handed out, the queue of fed watchers.  Descriptors are   *)
(* small numbers that are used again as soon as they are closed.           *)
(***************************************************************************)
EXTENDS Integers, Sequences, FiniteSets, SequencesExt

CONSTANTS
  Watchers,      \* the watchers
  PollWatchers,  \* those of poll handles; the others are streams'
  Fds,           \* the descriptors
  MaxOpens,      \* bound: descriptors opened
  MaxIoCalls,    \* bound: calls of the user
  MaxIoReady,    \* bound: changes of readiness
  PollCount,     \* polls in a row when the batch was full (48 in the code)
  IoFaults       \* "stops_in_batch": poll handles may be closed in any callback

VARIABLES
  h,        \* watchers, and the loop's table of them
  kernel,   \* descriptors, their readiness, the epoll set
  pending,  \* watchers in the pending_queue, and those being run from it
  pc, cb, calls,
  hist      \* whether an event went to a watcher it was not for
vars == <<h, kernel, pending, pc, cb, calls, hist>>

None == "none"
Masks == {{"IN"}, {"IN", "OUT"}}
At(p) == [at |-> p, batch |-> <<>>, n |-> 0, nfds |-> 0, count |-> 0]
EventsSize == 2

uv__io_init(kind, fd) ==
  [kind |-> kind, fd |-> fd, pevents |-> {}, events |-> {}, queued |-> FALSE]

Init ==
  /\ h = [w |-> [w \in Watchers |-> uv__io_init("stream", -1)],
          watchers |-> [fd \in Fds |-> None], nfds |-> 0]
  /\ kernel = [open |-> [fd \in Fds |-> 0], ready |-> [fd \in Fds |-> {}],
               epoll |-> [fd \in Fds |-> {}], opens |-> 0, changes |-> 0]
  /\ pending = [fed |-> {}, pq |-> {}]
  /\ pc = At("loop") /\ cb = None /\ calls = 0 /\ hist = FALSE

User == (pc.at = "loop" \/ cb # None) /\ pc.at # "aborted"
Call == User /\ calls < MaxIoCalls /\ calls' = calls + 1

-----------------------------------------------------------------------------
(* src/unix/core.c.                                                        *)

\* A watcher whose mask is as epoll has it need not be told again.
Started(s, w, ev) ==
  LET p == s.w[w].pevents \cup ev
      same == s.w[w].events = p
      new == ~same /\ s.watchers[s.w[w].fd] = None
  IN  [s EXCEPT !.w[w].pevents = p,
                !.w[w].queued = IF same THEN @ ELSE TRUE,
                !.watchers[s.w[w].fd] = IF new THEN w ELSE @,
                !.nfds = IF new THEN @ + 1 ELSE @]

KeepsQueued(s, w, ev) ==
  LET p == s.w[w].pevents \ ev
      gone == p = {} /\ s.watchers[s.w[w].fd] # None
  IN  [s EXCEPT !.w[w].pevents = p,
                !.w[w].queued = @ \/ p # {},
                !.w[w].events = IF gone THEN {} ELSE @,
                !.watchers[s.w[w].fd] = IF p = {} THEN None ELSE @,
                !.nfds = IF gone THEN @ - 1 ELSE @]

Stopped(s, w, ev) ==
  LET p == s.w[w].pevents \ ev
      gone == p = {} /\ s.watchers[s.w[w].fd] # None
  IN  [s EXCEPT !.w[w].pevents = p,
                !.w[w].queued = (p # {}),
                !.w[w].events = IF gone THEN {} ELSE @,
                !.watchers[s.w[w].fd] = IF p = {} THEN None ELSE @,
                !.nfds = IF gone THEN @ - 1 ELSE @]

uv__io_start(w, ev) ==
  /\ Call /\ h.w[w].fd # -1
  /\ h' = Started(h, w, ev)
  /\ UNCHANGED <<kernel, pending, pc, cb, hist>>

uv__io_stop(w, ev) ==
  /\ Call /\ h.w[w].fd # -1
  /\ h' = Stopped(h, w, ev)
  /\ UNCHANGED <<kernel, pending, pc, cb, hist>>

uv__io_feed(w) ==
  /\ Call /\ h.w[w].fd # -1 /\ h.w[w].kind = "stream"
  /\ pending' = [pending EXCEPT !.fed = IF w \in pending.pq THEN @ ELSE @ \cup {w}]
  /\ UNCHANGED <<h, kernel, pc, cb, hist>>

\* uv__platform_invalidate_fd: no event of the batch for it, nor later.
Invalidated(batch, fd) == [i \in DOMAIN batch |-> IF batch[i].fd = fd THEN [batch[i] EXCEPT !.fd = -1] ELSE batch[i]]

\* uv__io_close, then the descriptor is closed.
uv__io_close(w) ==
  /\ User /\ h.w[w].fd # -1 /\ h.w[w].kind = "stream"
  /\ LET fd == h.w[w].fd
     IN  /\ h' = [Stopped(h, w, {"IN", "OUT"}) EXCEPT !.w[w].fd = -1]
         /\ pc' = [pc EXCEPT !.batch = Invalidated(@, fd)]
         /\ kernel' = [kernel EXCEPT !.epoll[fd] = {}, !.open[fd] = 0, !.ready[fd] = {}]
  /\ pending' = [fed |-> pending.fed \ {w}, pq |-> pending.pq \ {w}]
  /\ UNCHANGED <<cb, calls, hist>>

\* uv_poll_stop or uv_close of a poll handle; the user closes the descriptor.
\* Unless "stops_in_batch", not while events are being handed out.
uv__poll_stop(w) ==
  /\ User /\ h.w[w].fd # -1 /\ h.w[w].kind = "poll"
  /\ pc.batch = <<>> \/ "stops_in_batch" \in IoFaults
  /\ LET fd == h.w[w].fd
     IN  /\ h' = [Stopped(h, w, {"IN", "OUT"}) EXCEPT !.w[w].fd = -1]
         /\ kernel' = [kernel EXCEPT !.epoll[fd] = {}, !.open[fd] = 0, !.ready[fd] = {}]
  /\ UNCHANGED <<pending, pc, cb, calls, hist>>

\* A new descriptor, the lowest free number, gets a watcher; uv_poll_init tries it on epoll first, which
\* leaves nothing.
Open(w, fd) ==
  /\ User /\ h.w[w].fd = -1 /\ kernel.opens < MaxOpens
  /\ kernel.open[fd] = 0 /\ \A f \in Fds : f < fd => kernel.open[f] # 0
  /\ kernel' = [kernel EXCEPT !.opens = @ + 1, !.open[fd] = kernel.opens + 1, !.ready[fd] = {},
                              !.epoll[fd] = {}]
  /\ h' = [h EXCEPT !.w[w] = uv__io_init(IF w \in PollWatchers THEN "poll" ELSE "stream", fd)]
  /\ UNCHANGED <<pending, pc, cb, calls, hist>>

-----------------------------------------------------------------------------
(* The loop.                                                               *)

Idle == pc.at = "loop" /\ cb = None

\* uv__run_pending: those fed from now on wait for the next turn.
RunsPending ==
  /\ Idle /\ pending.fed # {}
  /\ pending' = [fed |-> {}, pq |-> pending.fed] /\ pc' = At("pending")
  /\ UNCHANGED <<h, kernel, cb, calls, hist>>

uv__run_pending ==
  /\ pc.at = "pending" /\ cb = None
  /\ \/ /\ pending.pq = {} /\ pc' = At("loop") /\ UNCHANGED <<pending, cb>>
     \/ \E w \in pending.pq :
          pending' = [pending EXCEPT !.pq = @ \ {w}] /\ cb' = w /\ UNCHANGED pc
  /\ UNCHANGED <<h, kernel, calls, hist>>

\* The first part of uv__io_poll: epoll is told.  A modification of what epoll
\* does not have aborts.
Tell ==
  /\ Idle /\ pending.fed = {}
  /\ LET q == {w \in Watchers : h.w[w].queued}
         bad == \/ \E w \in q : h.w[w].pevents = {} \/ h.w[w].fd = -1
                \/ \E w \in q : h.w[w].events # {} /\ kernel.epoll[h.w[w].fd] = {}
                \/ h.nfds = 0 /\ q # {}
     IN  IF bad THEN pc' = At("aborted") /\ UNCHANGED <<h, kernel>>
         ELSE /\ h.nfds > 0
              /\ h' = [h EXCEPT !.w = [w \in Watchers |->
                         IF w \in q THEN [@[w] EXCEPT !.events = h.w[w].pevents, !.queued = FALSE]
                         ELSE @[w]]]
              /\ kernel' = [kernel EXCEPT !.epoll = [fd \in Fds |->
                              IF \E w \in q : h.w[w].fd = fd
                              THEN h.w[CHOOSE w \in q : h.w[w].fd = fd].pevents ELSE @[fd]]]
              /\ pc' = [At("wait") EXCEPT !.count = PollCount]
  /\ UNCHANGED <<pending, cb, calls, hist>>

Reported(fd) ==
  IF kernel.epoll[fd] = {} THEN {}
  ELSE (kernel.ready[fd] \cap kernel.epoll[fd]) \cup (kernel.ready[fd] \cap {"HUP"})

\* epoll_wait returns everything that is ready, in some order.
uv__epoll_wait ==
  /\ pc.at = "wait"
  /\ LET ready == {fd \in Fds : Reported(fd) # {}}
     IN  IF ready = {} THEN pc' = At("loop")
         ELSE \E order \in SetToSeqs(ready) :
                pc' = [pc EXCEPT !.at = "events", !.n = 0, !.nfds = Len(order),
                                 !.batch = [i \in DOMAIN order |->
                                    [fd |-> order[i], ev |-> Reported(order[i]),
                                     gen |-> kernel.open[order[i]]]]]
  /\ UNCHANGED <<h, kernel, pending, cb, calls, hist>>

AllEvents(w, ev) == ev

\* Only what is wanted, and with a hang-up alone everything that is.
Wanted(w, ev) ==
  LET e == ev \cap (h.w[w].pevents \cup {"HUP"})
  IN  IF e = {"HUP"} THEN e \cup h.w[w].pevents ELSE e

\* One event of the batch.
Dispatch ==
  /\ pc.at = "events" /\ cb = None /\ pc.batch # <<>>
  /\ LET e == Head(pc.batch)
         w == IF e.fd = -1 THEN None ELSE h.watchers[e.fd]
         ev == IF w = None THEN {} ELSE Wanted(w, e.ev)
     IN  /\ pc' = [pc EXCEPT !.batch = Tail(@), !.n = IF ev = {} THEN @ ELSE @ + 1]
         /\ cb' = IF ev = {} THEN None ELSE w
         /\ hist' = (hist \/ (ev # {} /\ (kernel.open[e.fd] # e.gen \/ ~(ev \subseteq h.w[w].pevents \cup {"HUP"}))))
         /\ kernel' = IF e.fd # -1 /\ w = None THEN [kernel EXCEPT !.epoll[e.fd] = {}]
                      ELSE IF ev # {} THEN [kernel EXCEPT !.ready[e.fd] = @ \ ev] ELSE kernel
  /\ UNCHANGED <<h, pending, calls>>

\* After the batch: again at once, without sleeping, if it was full and not all
\* turns are used up; if nothing was for anybody, again unless the time is over
\* or this was a turn without sleeping; else on with the loop.
BatchEnds(size) ==
  /\ pc.at = "events" /\ cb = None /\ pc.batch = <<>>
  /\ \/ /\ pc.n # 0 /\ pc.nfds >= size /\ pc.count > 1
        /\ pc' = [At("wait") EXCEPT !.count = pc.count - 1]
     \/ /\ pc.n = 0 /\ pc.count = PollCount
        /\ pc' = [At("wait") EXCEPT !.count = PollCount]
     \/ /\ pc.n = 0 \/ pc.nfds < size \/ pc.count <= 1
        /\ pc' = At("loop")
  /\ UNCHANGED <<h, kernel, pending, cb, calls, hist>>

CallbackReturns ==
  /\ cb # None /\ cb' = None
  /\ UNCHANGED <<h, kernel, pending, pc, calls, hist>>

Becomes ==
  /\ kernel.changes < MaxIoReady
  /\ \E fd \in Fds : \E e \in {"IN", "OUT", "HUP"} \ kernel.ready[fd] :
       /\ kernel.open[fd] # 0
       /\ kernel' = [kernel EXCEPT !.changes = @ + 1, !.ready[fd] = @ \cup {e}]
  /\ UNCHANGED <<h, pending, pc, cb, calls, hist>>

UserCall ==
  \E w \in Watchers :
    \/ \E ev \in Masks : uv__io_start(w, ev) \/ uv__io_stop(w, ev)
    \/ uv__io_feed(w) \/ uv__io_close(w) \/ uv__poll_stop(w)
    \/ \E fd \in Fds : Open(w, fd)

HandlerStep == CallbackReturns \/ uv__run_pending \/ Dispatch \/ BatchEnds(EventsSize) \/ uv__epoll_wait
RunPending == RunsPending
PollStep == Tell

Next == UserCall \/ HandlerStep \/ RunPending \/ PollStep \/ Becomes

-----------------------------------------------------------------------------
(* Properties.                                                             *)

\* The table and its count are those of the watchers that want something;
\* what epoll was told is remembered right, so that no modification fails,
\* and every change is queued to be told (core.c:822-885, linux-core.c:203-240).
PendingExact ==
  /\ pc.at # "aborted"
  /\ h.nfds = Cardinality({fd \in Fds : h.watchers[fd] # None})
  /\ \A w \in Watchers :
       LET x == h.w[w]
       IN  /\ x.pevents # {} <=> \E fd \in Fds : h.watchers[fd] = w
           /\ x.pevents # {} => h.watchers[x.fd] = w
           /\ x.events # x.pevents => x.queued
           /\ x.queued => x.pevents # {}
           /\ x.events # {} => kernel.epoll[x.fd] = x.events

\* While the loop waits, epoll watches exactly what was wanted when it began,
\* and fed watchers are not forgotten behind it.
Armed ==
  /\ pc.at = "wait" /\ pc.count = PollCount =>
       \A w \in Watchers : h.w[w].fd # -1 /\ h.w[w].pevents # {} => kernel.epoll[h.w[w].fd] = h.w[w].pevents
  /\ \A w \in pending.fed \cup pending.pq : h.w[w].fd # -1

\* An event only goes to a watcher that wants it, and never to one that got
\* the descriptor's number after the event (linux-core.c:118-146, 325-365).
Sane == ~hist

\* What is ready and wanted is told; what was fed is run.
Owes ==
  \/ \E w \in Watchers : h.w[w].fd # -1 /\ h.w[w].pevents \cap kernel.ready[h.w[w].fd] # {}
  \/ pending.fed # {} \/ pending.pq # {}
=============================================================================
