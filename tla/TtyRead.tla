------------------------------ MODULE TtyRead -------------------------------
(***************************************************************************)
(* A console to read from: uv_tty_t of win/tty.c.  A line is read by a     *)
(* thread that sits in ReadConsole; to cancel it the loop takes the lock   *)
(* of the output, sets a trap in uv__read_console_status and types an      *)
(* Enter: the reading thread gives the lock back.  Keys are read raw, when *)
(* a wait on the console fires.  uv_tty_set_mode changes between the two.  *)
(*                                                                         *)
(* The console's input is a sequence of records: an "enter", a "key" (of   *)
(* two bytes), a "resize", or the "null" that stops a raw wait.            *)
(***************************************************************************)
EXTENDS UvHandle, TLC

CONSTANTS
  MaxTtyCalls, MaxTyped,
  TtyFaults   \* what the run lets go wrong (README, section 5)

\* kernel: the console and the reading thread; pending: requests that came
\* back; pc: where the loop is, and for what; hist: whether the last queue_read
\* got no buffer, and whether an Enter of a cancellation was taken for a line.
VARIABLES h, kernel, pending, pc, cb, calls, hist
vars == <<h, kernel, pending, pc, cb, calls, hist>>

Init ==
  /\ h = Set(uv__handle_init, {"TTY_READABLE", "READABLE"})
           @@ [handle |-> TRUE, line |-> FALSE, last_key_len |-> 0]
  /\ kernel = [thread |-> "none", status |-> "NOT_STARTED", lock |-> 1,
               wait |-> FALSE, input |-> <<>>, typed |-> 0]
  /\ pending = <<>> /\ pc = [at |-> "loop"] /\ cb = "none" /\ calls = 0
  /\ hist = [enobufs |-> FALSE]

At(p) == cb = "none" /\ pc.at = p
May(fault) == fault \in TtyFaults

\* The loop's thread is in user code: between two handlers or in a callback.
User ==
  /\ At("loop") \/ (cb # "none" /\ pc.at \in {"loop", "raw", "out"})
  /\ ~Is(h, "CLOSING")
  /\ calls < MaxTtyCalls /\ calls' = calls + 1

-----------------------------------------------------------------------------
(* The thread that reads a line.                                           *)

\* uv_tty_line_read_thread: the trap is set before ReadConsole, or not.
ThreadStarts ==
  /\ kernel.thread = "queued"
  /\ LET trapped == kernel.status = "TRAP_REQUESTED"
     IN  /\ kernel' = [kernel EXCEPT !.status = "IN_PROGRESS",
                                     !.thread = IF trapped THEN "none" ELSE "ReadConsole"]
         /\ pending' = IF trapped THEN Append(pending, "ok") ELSE pending
  /\ UNCHANGED <<h, pc, cb, calls, hist>>

EnterAt == {i \in DOMAIN kernel.input : kernel.input[i] = "enter"}
AfterEnter == SubSeq(kernel.input, 1 + CHOOSE i \in EnterAt : \A j \in EnterAt : i <= j,
                     Len(kernel.input))

ReadConsoleReturns ==
  /\ kernel.thread = "ReadConsole"
  /\ \/ /\ EnterAt # {}
        /\ kernel' = [kernel EXCEPT !.thread = "ok", !.input = AfterEnter]
     \/ /\ May("read_fails")
        /\ kernel' = [kernel EXCEPT !.thread = "error"]
  /\ UNCHANGED <<h, pending, pc, cb, calls, hist>>

ReleasesAlways(status) == 1
\* The lock is given back by the thread whose read was cancelled.
Releases(status) == Bit(status = "TRAP_REQUESTED")

ThreadCompletes ==
  /\ kernel.thread \in {"ok", "error"}
  /\ kernel' = [kernel EXCEPT !.status = "COMPLETED", !.thread = "none",
                              !.lock = @ + Releases(kernel.status)]
  /\ pending' = Append(pending, kernel.thread)
  /\ UNCHANGED <<h, pc, cb, calls, hist>>

\* uv_tty_post_raw_read: the console has something to read.
uv_tty_post_raw_read ==
  /\ kernel.wait /\ kernel.input # <<>>
  /\ kernel' = [kernel EXCEPT !.wait = FALSE]
  /\ pending' = Append(pending, "ok")
  /\ UNCHANGED <<h, pc, cb, calls, hist>>

UserTypes ==
  /\ kernel.typed < MaxTyped /\ Len(kernel.input) < 2
  /\ \E r \in {"enter", "key", "resize"} :
       kernel' = [kernel EXCEPT !.input = Append(@, r), !.typed = @ + 1]
  /\ UNCHANGED <<h, pending, pc, cb, calls, hist>>

-----------------------------------------------------------------------------
(* Starting and stopping.                                                  *)

\* uv_tty_queue_read of handle t: a line needs a buffer first.  why is where
\* the loop goes on.
uv_tty_queue_read(t, back) ==
  LET p == Set(INCREASE_PENDING(t), {"READ_PENDING"})
      got == hist' = [hist EXCEPT !.enobufs = FALSE]
  IN  IF Is(t, "TTY_RAW")
      THEN /\ h' = [p EXCEPT !.line = FALSE] /\ cb' = back /\ got
           /\ \/ kernel' = [kernel EXCEPT !.wait = TRUE] /\ UNCHANGED pending
              \/ /\ May("raw_wait")
                 /\ pending' = Append(pending, "error") /\ UNCHANGED kernel
      ELSE \/ /\ h' = [p EXCEPT !.line = TRUE] /\ cb' = back /\ got
              /\ kernel' = [kernel EXCEPT !.status = "NOT_STARTED", !.thread = "queued"]
              /\ UNCHANGED pending
           \/ /\ h' = [t EXCEPT !.line = FALSE] /\ cb' = "read"
              /\ hist' = [hist EXCEPT !.enobufs = TRUE]
              /\ UNCHANGED <<kernel, pending>>

\* uv_tty_read_start on handle t.  Bytes of a key that are left are reported
\* with a request that nobody counts (tty.c:1003-1007).
ReadStart(t) ==
  LET p == INCREASE_ACTIVE_COUNT(Set(t, {"READING"}))
  IN  IF Is(t, "READ_PENDING")
      THEN h' = p /\ UNCHANGED <<kernel, pending, cb, hist>>
      ELSE IF t.last_key_len > 0
      THEN /\ h' = p /\ pending' = Append(pending, "ok")
           /\ UNCHANGED <<kernel, cb, hist>>
      ELSE uv_tty_queue_read(p, cb)

uv_tty_read_start ==
  /\ User
  /\ ~Is(h, "READING") /\ Is(h, "READABLE")
  /\ ReadStart(h)
  /\ UNCHANGED pc

Stopped(t) == DECREASE_ACTIVE_COUNT(Clear(t, {"READING"}))

\* A read that is out was begun in the mode the console is in now.
SameMode == h.line = ~Is(h, "TTY_RAW")

\* uv_tty_read_stop on handle t up to the cancellation of a line; then is what
\* the caller goes on with.
ReadStop(t, then) ==
  LET p == Stopped(t)
  IN  /\ h' = p
      /\ IF Is(p, "READ_PENDING") /\ Is(p, "TTY_RAW")
         THEN kernel' = [kernel EXCEPT !.input = IF p.handle THEN Append(@, "null") ELSE @]
         ELSE UNCHANGED kernel
      /\ pc' = [at |-> IF Is(p, "READ_PENDING") /\ ~Is(p, "TTY_RAW")
                          /\ ~Is(p, "CANCELLATION_PENDING") THEN "cancel" ELSE then,
                then |-> then, back |-> pc, reading |-> Is(t, "READING")]

uv_tty_read_stop ==
  /\ User
  /\ Is(h, "READING")
  /\ May("mid_key") \/ h.last_key_len = 0
  /\ May("mode_race") \/ ~Is(h, "READ_PENDING") \/ SameMode
  /\ ReadStop(h, "return")
  /\ UNCHANGED <<pending, cb, hist>>

\* uv__cancel_read_console: the lock, the trap, and an Enter for a thread that
\* is in ReadConsole; an Enter cannot be typed into a handle that is closed.
uv__cancel_read_console ==
  /\ pc.at = "cancel" /\ kernel.lock = 1
  /\ LET reading == kernel.status = "IN_PROGRESS"
     IN  \E typed \in {h.handle} \cup IF May("cancel_fails") THEN {FALSE} ELSE {} :
           /\ kernel' = [kernel EXCEPT !.status = "TRAP_REQUESTED",
                                       !.lock = IF reading THEN 0 ELSE 1,
                                       !.input = IF reading /\ typed THEN Append(@, "enter") ELSE @]
           /\ IF reading /\ ~typed
              THEN h' = h /\ pc' = [pc EXCEPT !.at = IF pc.then = "mode" THEN "return" ELSE pc.then]
              ELSE h' = Set(h, {"CANCELLATION_PENDING"}) /\ pc' = [pc EXCEPT !.at = pc.then]
  /\ UNCHANGED <<pending, cb, calls, hist>>

\* A call returns to where the user was.
CallReturns ==
  /\ pc.at = "return"
  /\ pc' = pc.back
  /\ UNCHANGED <<h, kernel, pending, cb, calls, hist>>

\* uv_tty_set_mode: reading stops, and starts again in the other mode.
uv_tty_set_mode ==
  /\ User
  /\ May("mid_key") \/ h.last_key_len = 0
  /\ May("mode_race") \/ ~Is(h, "READ_PENDING") \/ SameMode
  /\ IF Is(h, "READING") THEN ReadStop(h, "mode")
     ELSE /\ pc' = [at |-> "mode", then |-> "mode", back |-> pc, reading |-> FALSE]
          /\ UNCHANGED <<h, kernel>>
  /\ UNCHANGED <<pending, cb, hist>>

SetConsoleMode ==
  /\ pc.at = "mode" /\ kernel.lock = 1
  /\ LET t == IF Is(h, "TTY_RAW") THEN Clear(h, {"TTY_RAW"}) ELSE Set(h, {"TTY_RAW"})
     IN  IF pc.reading THEN ReadStart(t)
         ELSE h' = t /\ UNCHANGED <<kernel, pending, cb, hist>>
  /\ pc' = pc.back
  /\ UNCHANGED calls

\* uv_tty_write to the screen, or another use of it: the lock is needed.
uv_tty_write ==
  /\ User
  /\ pc' = [at |-> "screen", back |-> pc]
  /\ UNCHANGED <<h, kernel, pending, cb, hist>>

WriteToScreen ==
  /\ pc.at = "screen" /\ kernel.lock = 1
  /\ pc' = pc.back
  /\ UNCHANGED <<h, kernel, pending, cb, calls, hist>>

\* uv_tty_close: the console is closed before reading is stopped.
uv_tty_close ==
  /\ User
  /\ May("close_reading") \/ ~Is(h, "READING")
  /\ LET t == [h EXCEPT !.handle = FALSE]
     IN  IF Is(t, "READING") THEN ReadStop(t, "close")
         ELSE /\ h' = t /\ pc' = [at |-> "close", back |-> pc]
              /\ UNCHANGED kernel
  /\ UNCHANGED <<pending, cb, hist>>

CloseEnds ==
  /\ pc.at = "close"
  /\ h' = EndgameIfIdle(uv__handle_closing(Clear(h, {"READABLE", "WRITABLE"})))
  /\ pc' = pc.back
  /\ UNCHANGED <<kernel, pending, cb, calls, hist>>

-----------------------------------------------------------------------------
(* The handlers.                                                           *)

\* uv_process_tty_read_line_req.
uv_process_tty_read_line_req ==
  /\ At("loop") /\ pending # <<>> /\ h.line
  /\ LET t == [Clear(h, {"READ_PENDING"}) EXCEPT !.line = FALSE]
     IN  IF Head(pending) = "error"
         THEN h' = IF Is(t, "READING") THEN Stopped(t) ELSE t
         ELSE h' = Clear(t, {"CANCELLATION_PENDING"})
  /\ pending' = Tail(pending)
  /\ cb' = "read" /\ pc' = [at |-> "out"]
  /\ UNCHANGED <<kernel, calls, hist>>

\* uv_process_tty_read_raw_req up to its loop.  A wait that failed clears the
\* flag and forgets the count of what is active (tty.c:664-669).
uv_process_tty_read_raw_req ==
  /\ At("loop") /\ pending # <<>> /\ ~h.line
  /\ LET t == Clear(h, {"READ_PENDING"})
     IN  IF ~Is(t, "READING") \/ ~Is(t, "TTY_RAW")
         THEN h' = t /\ pc' = [at |-> "out"] /\ UNCHANGED cb
         ELSE IF Head(pending) = "error"
         THEN h' = Clear(t, {"READING"}) /\ pc' = [at |-> "out"] /\ cb' = "read"
         ELSE /\ h' = t /\ UNCHANGED cb
              /\ pc' = [at |-> "raw", left |-> Len(kernel.input), used |-> 0]
  /\ pending' = Tail(pending)
  /\ UNCHANGED <<kernel, calls, hist>>

InLoop == At("raw") /\ Is(h, "READING") /\ (pc.left > 0 \/ h.last_key_len > 0)

\* The next record of the input.
NextRecord ==
  /\ InLoop /\ h.last_key_len = 0
  /\ \/ /\ kernel.input # <<>>
        /\ kernel' = [kernel EXCEPT !.input = Tail(@)]
        /\ h' = [h EXCEPT !.last_key_len = IF Head(kernel.input) \in {"key", "enter"} THEN 2 ELSE 0]
        /\ pc' = IF Head(kernel.input) = "resize"
                 THEN [at |-> "resize", back |-> [pc EXCEPT !.left = @ - 1]]
                 ELSE [pc EXCEPT !.left = @ - 1]
        /\ UNCHANGED cb
     \/ /\ May("read_fails")
        /\ h' = Stopped(h) /\ cb' = "read" /\ pc' = [at |-> "out"]
        /\ UNCHANGED kernel
  /\ UNCHANGED <<pending, calls, hist>>

\* A resize: the virtual window, under the lock.
Resize ==
  /\ pc.at = "resize" /\ kernel.lock = 1
  /\ pc' = pc.back
  /\ UNCHANGED <<h, kernel, pending, cb, calls, hist>>

\* A byte of the key goes to the buffer; a full buffer to the user.
NextByte ==
  /\ InLoop /\ h.last_key_len > 0
  /\ \/ \E full \in BOOLEAN :
          /\ h' = [h EXCEPT !.last_key_len = @ - 1]
          /\ pc' = [pc EXCEPT !.used = IF full THEN 0 ELSE @ + 1]
          /\ cb' = IF full THEN "read" ELSE "none"
     \/ pc.used = 0 /\ cb' = "read" /\ pc' = [at |-> "out"] /\ UNCHANGED h
  /\ UNCHANGED <<kernel, pending, calls, hist>>

RawEnds ==
  /\ At("raw") /\ ~InLoop
  /\ cb' = IF pc.used > 0 THEN "read" ELSE "none"
  /\ pc' = [at |-> "out"]
  /\ UNCHANGED <<h, kernel, pending, calls, hist>>

\* The end of both handlers.
Out ==
  /\ At("out")
  /\ LET t == DECREASE_PENDING_REQ_COUNT(h)
     IN  IF Is(h, "READING") /\ ~Is(h, "READ_PENDING") THEN uv_tty_queue_read(t, "none")
         ELSE h' = t /\ UNCHANGED <<kernel, pending, cb, hist>>
  /\ pc' = [at |-> "loop"]
  /\ UNCHANGED calls

uv_tty_endgame ==
  /\ At("loop") /\ Is(h, "ENDGAME_QUEUED")
  /\ LET t == Clear(h, {"ENDGAME_QUEUED"})
         closed == Is(t, "CLOSING") /\ t.reqs_pending = 0
     IN  IF closed /\ kernel.wait THEN pc' = [at |-> "aborted"] /\ UNCHANGED <<h, cb>>
         ELSE /\ h' = IF closed THEN uv__handle_close(t) ELSE t
              /\ cb' = IF closed THEN "close" ELSE "none"
              /\ UNCHANGED pc
  /\ UNCHANGED <<kernel, pending, calls, hist>>

CallbackReturns ==
  /\ cb # "none" /\ pc.at \in {"loop", "raw", "out"}
  /\ cb' = "none"
  /\ UNCHANGED <<h, kernel, pending, pc, calls, hist>>

UserCall ==
  \/ uv_tty_read_start \/ uv_tty_read_stop \/ uv_tty_set_mode \/ uv_tty_write \/ uv_tty_close

HandlerStep ==
  \/ uv__cancel_read_console \/ CallReturns \/ SetConsoleMode \/ WriteToScreen \/ CloseEnds
  \/ NextRecord \/ Resize \/ NextByte \/ RawEnds \/ Out \/ CallbackReturns
ProcessReq == uv_process_tty_read_line_req \/ uv_process_tty_read_raw_req
Endgame == uv_tty_endgame
SystemStep ==
  \/ ThreadStarts \/ (EnterAt # {} /\ ReadConsoleReturns) \/ ThreadCompletes \/ uv_tty_post_raw_read

Next ==
  \/ UserCall \/ HandlerStep \/ ProcessReq \/ uv_tty_endgame \/ ThreadStarts
  \/ ReadConsoleReturns \/ ThreadCompletes \/ uv_tty_post_raw_read \/ UserTypes

-----------------------------------------------------------------------------
(* Properties.                                                             *)

InFlight == Bit(kernel.thread # "none") + Bit(kernel.wait) + Len(pending)
InHandler == Bit(pc.at \in {"raw", "out", "resize"} \/
                 (pc.at \notin {"loop", "aborted"} /\ pc.back.at \in {"raw", "out"}))

\* The one read request is out at most once, and counted while it is.
PendingExact ==
  /\ h.reqs_pending = InFlight + InHandler
  /\ InFlight = Bit(Is(h, "READ_PENDING"))

ActiveExact == LoopKnows(h) /\ h.activecnt = Bit(Is(h, "READING"))

\* While the user reads a read is out, unless he got ENOBUFS; and whenever the
\* lock of the screen is taken the reading thread is on its way to release it.
Armed ==
  /\ Is(h, "READING") /\ pc.at = "loop" /\ ~hist.enobufs => Is(h, "READ_PENDING")
  /\ kernel.lock = Bit(~(kernel.thread \in {"ReadConsole", "ok", "error"}
                         /\ kernel.status = "TRAP_REQUESTED"))

\* A closed handle's callback, and the loop's way out of the lock.
Owes ==
  \/ Is(h, "CLOSING") /\ ~Is(h, "CLOSED")
  \/ pc.at \in {"cancel", "mode", "screen", "resize"}
=============================================================================
