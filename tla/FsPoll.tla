------------------------------- MODULE FsPoll -------------------------------
(***************************************************************************)
(* A handle that polls a file (src/fs-poll.c).  Each start allocates a     *)
(* context with a timer and a stat request; the context outlives the stop, *)
(* because the request or the closing of the timer still refers to it.     *)
(***************************************************************************)
EXTENDS UvHandle

CONSTANTS
  MaxStarts,    \* bound: contexts
  MaxFsPollCalls,
  MaxChanges    \* bound: changes of the file

VARIABLES
  h,        \* the handle, with poll_ctx
  ctx,      \* the contexts, by number
  file,     \* what a stat returns now, and how often that has changed
  cb,       \* the callback that runs, and the context that called it
  pc,
  calls,
  told      \* history: the last result the user was told, per context
vars == <<h, ctx, file, cb, pc, calls, told>>

\* Results of a stat: a state of the file (positive), or an error.
Errors == {-1, -2}
Results == Errors \cup {1, 2}

\* stat: no request, one in the thread pool, or one with its result.
Pool == 100
None == 0

\* timer is inactive, active or closing; busy_polling is 0 before the first
\* result, the last error, or 1.
NewCtx == [parent |-> TRUE, busy_polling |-> 0, statbuf |-> 0, timer |-> "inactive",
           stat |-> None, freed |-> FALSE]

Init ==
  /\ h = [flags |-> {}, activecnt |-> 0, reqs_pending |-> 0, active_reqs |-> {},
          active_handles |-> 0, poll_ctx |-> None]
  /\ ctx = <<>> /\ file \in [result : {1, -1}, changes : {0}]
  /\ cb = None /\ pc = [at |-> "loop"] /\ calls = 0 /\ told = <<>>

At(p) == cb = None /\ pc.at = p

User ==
  /\ cb # None \/ At("loop")
  /\ ~Is(h, "CLOSING")
  /\ calls < MaxFsPollCalls /\ calls' = calls + 1
  /\ UNCHANGED <<file, cb, pc>>

\* uv_fs_poll_start: the timer is made, the first stat sent.
uv_fs_poll_start ==
  /\ User
  /\ ~Is(h, "ACTIVE") /\ Len(ctx) < MaxStarts
  /\ ctx' = Append(ctx, [NewCtx EXCEPT !.stat = Pool])
  /\ h' = uv__handle_start([h EXCEPT !.poll_ctx = Len(ctx) + 1])
  /\ told' = Append(told, 0)

CloseTimerAlways(c) == [c EXCEPT !.parent = FALSE, !.timer = "closing"]

\* The context is cut off.  Its timer is closed if it runs; otherwise a stat
\* is in progress and poll_cb will do it.
CutOff(c) == [c EXCEPT !.parent = FALSE, !.timer = IF @ = "active" THEN "closing" ELSE @]

\* uv_fs_poll_stop.
uv_fs_poll_stop ==
  /\ User
  /\ Is(h, "ACTIVE")
  /\ ctx' = [ctx EXCEPT ![h.poll_ctx] = CutOff(@)]
  /\ h' = uv__handle_stop([h EXCEPT !.poll_ctx = None])
  /\ UNCHANGED told

\* uv_close of the handle: it stops, and the close callback is due at once.
uv__fs_poll_close ==
  /\ User
  /\ ctx' = IF Is(h, "ACTIVE") THEN [ctx EXCEPT ![h.poll_ctx] = CutOff(@)] ELSE ctx
  /\ h' = uv_want_endgame(uv__handle_closing(
            IF Is(h, "ACTIVE") THEN uv__handle_stop([h EXCEPT !.poll_ctx = None]) ELSE h))
  /\ UNCHANGED told

\* The file changes, disappears or comes back.
FileChanges ==
  /\ file.changes < MaxChanges
  /\ \E r \in Results \ {file.result} : file' = [result |-> r, changes |-> file.changes + 1]
  /\ UNCHANGED <<h, ctx, cb, pc, calls, told>>

\* The thread pool does the stat; its result waits for the loop.
StatRuns(c) ==
  /\ ctx[c].stat = Pool
  /\ ctx' = [ctx EXCEPT ![c].stat = file.result]
  /\ UNCHANGED <<h, file, cb, pc, calls, told>>

ReportedOnce(c, r) ==
  IF r \in Errors THEN c.busy_polling = 0
  ELSE c.busy_polling > 0 /\ c.statbuf # r

\* poll_cb up to the callback: a new error, or a change since the last result,
\* is reported; the first result of all is not, unless it is an error.
Reported(c, r) ==
  IF r \in Errors THEN c.busy_polling # r
  ELSE c.busy_polling # 0 /\ (c.busy_polling < 0 \/ c.statbuf # r)

poll_cb(c) ==
  /\ At("loop")
  /\ ctx[c].stat \in Results
  /\ LET r == ctx[c].stat
     IN  IF ~ctx[c].parent
         THEN /\ ctx' = [ctx EXCEPT ![c].stat = None, ![c].timer = "closing"]
              /\ UNCHANGED <<cb, pc, told>>
         ELSE /\ pc' = [at |-> "poll_end", c |-> c]
              /\ cb' = IF Reported(ctx[c], r) THEN c ELSE None
              /\ told' = IF Reported(ctx[c], r) \/ told[c] = 0
                         THEN [told EXCEPT ![c] = r] ELSE told
              /\ UNCHANGED ctx
  /\ UNCHANGED <<h, file, calls>>

\* The rest of poll_cb: the result is kept, and the timer started again unless
\* the callback stopped the handle.
PollEnd ==
  /\ At("poll_end")
  /\ LET r == ctx[pc.c].stat
         kept == IF r \in Errors THEN [ctx[pc.c] EXCEPT !.busy_polling = r, !.stat = None]
                 ELSE [ctx[pc.c] EXCEPT !.busy_polling = 1, !.statbuf = r, !.stat = None]
     IN  ctx' = [ctx EXCEPT ![pc.c] =
                   [kept EXCEPT !.timer = IF kept.parent THEN "active" ELSE "closing"]]
  /\ pc' = [at |-> "loop"]
  /\ UNCHANGED <<h, file, cb, calls, told>>

timer_cb(c) ==
  /\ At("loop")
  /\ ctx[c].timer = "active"
  /\ ctx' = [ctx EXCEPT ![c].timer = "inactive", ![c].stat = Pool]
  /\ UNCHANGED <<h, file, cb, pc, calls, told>>

timer_close_cb(c) ==
  /\ At("loop")
  /\ ctx[c].timer = "closing"
  /\ ctx' = [ctx EXCEPT ![c].timer = "closed", ![c].freed = TRUE]
  /\ UNCHANGED <<h, file, cb, pc, calls, told>>

uv__fs_poll_endgame ==
  /\ At("loop")
  /\ Is(h, "ENDGAME_QUEUED")
  /\ h' = uv__handle_close(Clear(h, {"ENDGAME_QUEUED"}))
  /\ UNCHANGED <<ctx, file, cb, pc, calls, told>>

CallbackReturns ==
  /\ cb # None
  /\ cb' = None
  /\ UNCHANGED <<h, ctx, file, pc, calls, told>>

UserCall == uv_fs_poll_start \/ uv_fs_poll_stop \/ uv__fs_poll_close
CtxStep(c) == StatRuns(c) \/ poll_cb(c) \/ timer_cb(c) \/ timer_close_cb(c)

HandlerStep == PollEnd \/ CallbackReturns
Endgame == uv__fs_poll_endgame
\* What is left to do for the contexts that were cut off, and the polling.
ProcessReq == \E c \in DOMAIN ctx : ~ctx[c].parent /\ CtxStep(c)
SystemStep == \E c \in DOMAIN ctx : ctx[c].parent /\ CtxStep(c)

Next == UserCall \/ HandlerStep \/ Endgame \/ FileChanges \/ \E c \in DOMAIN ctx : CtxStep(c)

-----------------------------------------------------------------------------
(* Properties.                                                             *)

\* Exactly one thing refers to a context that is not freed: its stat, its
\* timer, or the callback it is in; nothing refers to a freed one, and only
\* the handle's own context calls back (fs-poll.c:117-142, 175-232).
PendingExact ==
  \A c \in DOMAIN ctx :
    /\ Bit(ctx[c].stat # None) + Bit(ctx[c].timer \in {"active", "closing"})
         = Bit(~ctx[c].freed)
    /\ ctx[c].parent <=> h.poll_ctx = c

ActiveExact ==
  /\ LoopKnows(h)
  /\ Is(h, "ACTIVE") <=> h.poll_ctx # None

\* The user of a polling handle knows what the last stat returned: whatever
\* changed, also from one error to another or from an error to the state
\* before it, was reported (fs-poll.c:188-209).
Armed ==
  \A c \in DOMAIN ctx :
    ctx[c].parent /\ At("loop") /\ ctx[c].timer = "active"
      => told[c] = IF ctx[c].busy_polling < 0 THEN ctx[c].busy_polling ELSE ctx[c].statbuf

\* What is promised and outstanding: the close callback, and the memory of a
\* context that was cut off.
Owes ==
  \/ Is(h, "CLOSING") /\ ~Is(h, "CLOSED")
  \/ \E c \in DOMAIN ctx : ~ctx[c].parent /\ ~ctx[c].freed
=============================================================================
