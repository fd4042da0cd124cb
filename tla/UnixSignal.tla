---------------------------- MODULE UnixSignal -----------------------------
(***************************************************************************)
(* Signal handles on Unix (src/unix/signal.c): a tree shared by all loops  *)
(* under a lock that is a byte in a pipe, the handler that may interrupt   *)
(* the loop's thread or run on another one and writes a message for each   *)
(* handle of its signal, the messages that the loop reads in batches, and  *)
(* a close that waits for the messages of its handle.                      *)
(***************************************************************************)
EXTENDS Integers, Sequences, FiniteSets, SequencesExt

CONSTANTS
  UxSignals,      \* the user's uv_signal_t handles
  Signums,        \* signals
  PipeRoom,       \* messages the loop's pipe holds
  MaxUxCalls,     \* bound: uv_signal_start and uv_signal_stop
  MaxUxRaised     \* bound: signals raised

VARIABLES
  h,        \* the handles
  kernel,   \* handlers that are registered, the lock byte, the mask of the loop's thread
  pending,  \* the pipe, and the batch that was read from it
  pc,       \* the place of the loop's thread, and of the handlers on each thread
  cb, calls,
  hist      \* how often each handle was called, and what it may be called
vars == <<h, kernel, pending, pc, cb, calls, hist>>

Threads == {"loop", "other"}
None == "none"
Off == "off"
At(p) == [at |-> p, of |-> None, signum |-> Off, then |-> None]
NoHandler == [at |-> "off", signum |-> Off, left |-> <<>>]

Init ==
  /\ h = [x \in UxSignals |-> [signum |-> Off, caught |-> 0, dispatched |-> 0, state |-> "open", active |-> FALSE]]
  /\ kernel = [registered |-> {}, lock |-> TRUE, masked |-> FALSE, raised |-> 0]
  /\ pending = [pipe |-> <<>>, batch |-> <<>>]
  /\ pc = [loop |-> At("loop"), handler |-> [t \in Threads |-> NoHandler]]
  /\ cb = None /\ calls = 0
  /\ hist = [x \in UxSignals |-> 0]

\* The loop's thread does nothing while a handler runs on it.
Runs == pc.handler["loop"].at = "off"
Go(p) == pc' = [pc EXCEPT !.loop = p]
User == Runs /\ (pc.loop.at = "loop" \/ (pc.loop.at = "event" /\ cb # None))
Back == IF pc.loop.then = "event" THEN At("event") ELSE At("loop")

\* uv__signal_first_handle: RB tree order, as handles are compared.
InTree(signum) == SetToSeq({x \in UxSignals : h[x].signum = signum})

-----------------------------------------------------------------------------
(* The calls: the mask is set, the lock taken, the tree changed.           *)

\* pthread_sigmask blocks every signal while the lock is held.
NeverBlocks == FALSE
Blocks == TRUE

\* uv_signal_start; a handle that watches the signal only gets the callback.
uv_signal_start(x, signum) ==
  /\ User /\ h[x].state = "open" /\ calls < MaxUxCalls
  /\ calls' = calls + 1
  /\ IF h[x].signum = signum THEN UNCHANGED <<pc, kernel>>
     ELSE /\ Go([at |-> IF h[x].signum = Off THEN "insert" ELSE "remove", of |-> x, signum |-> signum,
                 then |-> IF cb # None THEN "event" ELSE "loop"])
          /\ kernel' = [kernel EXCEPT !.masked = Blocks]
  /\ UNCHANGED <<h, pending, cb, hist>>

uv_signal_stop(x) ==
  /\ User /\ h[x].state = "open" /\ calls < MaxUxCalls
  /\ calls' = calls + 1
  /\ IF h[x].signum = Off THEN UNCHANGED <<pc, kernel>>
     ELSE /\ Go([at |-> "remove", of |-> x, signum |-> Off, then |-> IF cb # None THEN "event" ELSE "loop"])
          /\ kernel' = [kernel EXCEPT !.masked = Blocks]
  /\ UNCHANGED <<h, pending, cb, hist>>

\* uv__signal_lock of the loop's thread, all signals blocked.
uv__signal_block_and_lock ==
  /\ Runs /\ pc.loop.at \in {"remove", "insert"} /\ kernel.lock
  /\ kernel' = [kernel EXCEPT !.lock = FALSE]
  /\ Go([pc.loop EXCEPT !.at = IF @ = "remove" THEN "removing" ELSE "inserting"])
  /\ UNCHANGED <<h, pending, cb, calls, hist>>

\* uv__signal_stop; the last handle of a signal takes the handler away.
uv__signal_stop ==
  /\ Runs /\ pc.loop.at = "removing"
  /\ LET x == pc.loop.of
         s == h[x].signum
         alone == \A y \in UxSignals \ {x} : h[y].signum # s
     IN  /\ h' = [h EXCEPT ![x].signum = Off, ![x].active = FALSE]
         /\ kernel' = [kernel EXCEPT !.lock = TRUE, !.masked = FALSE,
                                     !.registered = IF alone THEN @ \ {s} ELSE @]
  /\ Go(IF h[pc.loop.of].state = "closing" THEN [pc.loop EXCEPT !.at = "check"]
        ELSE IF pc.loop.signum = Off THEN Back ELSE [pc.loop EXCEPT !.at = "again"])
  /\ UNCHANGED <<pending, cb, calls, hist>>

\* The rest of a start that had to stop first.
Again ==
  /\ Runs /\ pc.loop.at = "again"
  /\ kernel' = [kernel EXCEPT !.masked = Blocks] /\ Go([pc.loop EXCEPT !.at = "insert"])
  /\ UNCHANGED <<h, pending, cb, calls, hist>>

\* uv__signal_register_handler refuses some signals.
Inserts ==
  /\ Runs /\ pc.loop.at = "inserting"
  /\ LET s == pc.loop.signum
     IN  \E ok \in {TRUE} \cup (IF s \in kernel.registered THEN {} ELSE {FALSE}) :
           /\ h' = IF ok THEN [h EXCEPT ![pc.loop.of].signum = s, ![pc.loop.of].active = TRUE] ELSE h
           /\ kernel' = [kernel EXCEPT !.lock = TRUE, !.masked = FALSE,
                                       !.registered = IF ok THEN @ \cup {s} ELSE @]
  /\ Go(Back)
  /\ UNCHANGED <<pending, cb, calls, hist>>

\* uv__signal_close: stop, then the counts are compared.
uv__signal_close(x) ==
  /\ User /\ h[x].state = "open"
  /\ h' = [h EXCEPT ![x].state = "closing"]
  /\ LET then == IF cb # None THEN "event" ELSE "loop"
     IN  IF h[x].signum = Off
         THEN Go([at |-> "check", of |-> x, signum |-> Off, then |-> then]) /\ UNCHANGED kernel
         ELSE /\ Go([at |-> "remove", of |-> x, signum |-> Off, then |-> then])
              /\ kernel' = [kernel EXCEPT !.masked = Blocks]
  /\ UNCHANGED <<pending, cb, calls, hist>>

ClosesAtOnce(s) == s.state = "closing"
AllRead(s) == s.state = "closing" /\ s.caught = s.dispatched

Checks ==
  /\ Runs /\ pc.loop.at = "check"
  /\ h' = [h EXCEPT ![pc.loop.of].state = IF AllRead(h[pc.loop.of]) THEN "pending" ELSE @]
  /\ Go(Back)
  /\ UNCHANGED <<kernel, pending, cb, calls, hist>>

-----------------------------------------------------------------------------
(* uv__signal_handler.                                                     *)

\* A signal is delivered to a thread that does not block it.
Raised(t) ==
  /\ kernel.raised < MaxUxRaised /\ pc.handler[t].at = "off"
  /\ t = "loop" => ~kernel.masked
  /\ \E s \in kernel.registered : pc' = [pc EXCEPT !.handler[t] = [NoHandler EXCEPT !.at = "lock", !.signum = s]]
  /\ kernel' = [kernel EXCEPT !.raised = @ + 1]
  /\ UNCHANGED <<h, pending, cb, calls, hist>>

HandlerLocks(t) ==
  /\ pc.handler[t].at = "lock" /\ kernel.lock
  /\ kernel' = [kernel EXCEPT !.lock = FALSE]
  /\ pc' = [pc EXCEPT !.handler[t].at = "write", !.handler[t].left = InTree(pc.handler[t].signum)]
  /\ UNCHANGED <<h, pending, cb, calls, hist>>

\* The message is in the pipe before it is counted; a full pipe drops it.
HandlerWrites(t) ==
  LET m == pc.handler[t]
      full == Len(pending.pipe) = PipeRoom
  IN  /\ m.at = "write" /\ m.left # <<>>
      /\ pending' = IF full THEN pending
                    ELSE [pending EXCEPT !.pipe = Append(@, [to |-> m.left[1], signum |-> m.signum])]
      /\ pc' = IF full THEN [pc EXCEPT !.handler[t].left = Tail(@)] ELSE [pc EXCEPT !.handler[t].at = "count"]
      /\ UNCHANGED <<h, kernel, cb, calls, hist>>

HandlerCounts(t) ==
  LET m == pc.handler[t]
  IN  /\ m.at = "count"
      /\ h' = [h EXCEPT ![m.left[1]].caught = @ + 1]
      /\ pc' = [pc EXCEPT !.handler[t].left = Tail(@), !.handler[t].at = "write"]
      /\ UNCHANGED <<kernel, pending, cb, calls, hist>>

HandlerEnds(t) ==
  /\ pc.handler[t].at = "write" /\ pc.handler[t].left = <<>>
  /\ kernel' = [kernel EXCEPT !.lock = TRUE]
  /\ pc' = [pc EXCEPT !.handler[t] = NoHandler]
  /\ UNCHANGED <<h, pending, cb, calls, hist>>

-----------------------------------------------------------------------------
(* The loop.                                                               *)

\* uv__signal_event reads what there is.
Reads ==
  /\ Runs /\ pc.loop.at = "loop" /\ cb = None /\ pending.pipe # <<>>
  /\ pending' = [pipe |-> <<>>, batch |-> pending.pipe] /\ Go(At("event"))
  /\ UNCHANGED <<h, kernel, cb, calls, hist>>

\* A message for a handle that watches its signal calls it; closing ones
\* watch none.
uv__signal_event ==
  /\ Runs /\ pc.loop.at = "event" /\ cb = None
  /\ IF pending.batch = <<>> THEN Go(At("loop")) /\ UNCHANGED <<cb, hist>>
     ELSE LET m == pending.batch[1]
          IN  IF m.signum = h[m.to].signum
              THEN /\ Go(IF h[m.to].state # "open" THEN At("aborted") ELSE pc.loop)
                   /\ cb' = m.to /\ hist' = [hist EXCEPT ![m.to] = @ + 1]
              ELSE cb' = "counted" /\ UNCHANGED <<pc, hist>>
  /\ UNCHANGED <<h, kernel, pending, calls>>

\* After the callback the message is counted, and a close that waited for it
\* goes on.
Dispatched ==
  /\ Runs /\ pc.loop.at = "event" /\ cb # None
  /\ LET x == pending.batch[1].to
         s == [h[x] EXCEPT !.dispatched = @ + 1]
     IN  h' = [h EXCEPT ![x] = [s EXCEPT !.state = IF AllRead(s) THEN "pending" ELSE @]]
  /\ pending' = [pending EXCEPT !.batch = Tail(@)] /\ cb' = None
  /\ UNCHANGED <<kernel, pc, calls, hist>>

\* uv__finish_close; the memory is the user's again.
uv__finish_close(x) ==
  /\ Runs /\ pc.loop.at = "loop" /\ h[x].state = "pending"
  /\ h' = [h EXCEPT ![x].state = "closed"]
  /\ UNCHANGED <<kernel, pending, pc, cb, calls, hist>>

UserCall ==
  \E x \in UxSignals : uv_signal_stop(x) \/ uv__signal_close(x) \/ \E s \in Signums : uv_signal_start(x, s)
HandlerStep ==
  uv__signal_block_and_lock \/ uv__signal_stop \/ Again \/ Inserts \/ Checks \/ uv__signal_event \/ Dispatched
PollStep == Reads
CloseStep == \E x \in UxSignals : uv__finish_close(x)
SystemStep == \E t \in Threads : HandlerLocks(t) \/ HandlerWrites(t) \/ HandlerCounts(t) \/ HandlerEnds(t)
Next == UserCall \/ HandlerStep \/ PollStep \/ CloseStep \/ SystemStep \/ \E t \in Threads : Raised(t)

-----------------------------------------------------------------------------
(* Properties.                                                             *)

MessagesTo(x) == Len(SelectSeq(pending.pipe \o pending.batch, LAMBDA m : m.to = x))
Counting(x) == Cardinality({t \in Threads : pc.handler[t].at = "count" /\ pc.handler[t].left[1] = x})

\* What was caught and not dispatched is in the pipe, but for the message that
\* is being counted.
PendingExact == \A x \in UxSignals : h[x].caught + Counting(x) = h[x].dispatched + MessagesTo(x)

ActiveExact == \A x \in UxSignals : h[x].active <=> h[x].signum # Off

\* A handler is there exactly for the signals that are watched.
Armed ==
  /\ kernel.lock => kernel.registered = {h[x].signum : x \in UxSignals} \ {Off}
  /\ kernel.lock <=> /\ pc.loop.at \notin {"removing", "inserting"}
                     /\ \A t \in Threads : pc.handler[t].at \in {"off", "lock"}

\* No message is left for a handle whose close callback may run; no assertion
\* fails; no callback without a signal.
Sane ==
  /\ \A x \in UxSignals : h[x].state \in {"pending", "closed"} => MessagesTo(x) + Counting(x) = 0 /\ h[x].signum = Off
  /\ pc.loop.at # "aborted"
  /\ \A x \in UxSignals : hist[x] <= kernel.raised

\* Nothing is called once it is closed.
Silent == \A x \in UxSignals : cb # x /\ cb' = x => h[x].state = "open"

\* A handler or a call that has begun, messages, closes.
Owes ==
  \/ \E t \in Threads : pc.handler[t].at # "off"
  \/ pc.loop.at # "loop" \/ pending.pipe # <<>>
  \/ \E x \in UxSignals : h[x].state \in {"closing", "pending"}
=============================================================================
