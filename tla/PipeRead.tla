------------------------------ MODULE PipeRead ------------------------------
(***************************************************************************)
(* Reading a pipe that has no overlapped mode (win/pipe.c).  A thread      *)
(* blocks in ReadFile for the loop.  Whoever touches the pipe meanwhile    *)
(* must get the thread out of ReadFile first: uv__pipe_pause_read cancels  *)
(* its call until it has left, and holds the mutex that the thread needs   *)
(* to come back.                                                           *)
(***************************************************************************)
EXTENDS UvHandle

CONSTANTS
  MaxReadCalls,     \* bound: calls the user makes
  MaxArrivals,      \* bound: times data arrive
  ShutsDownReading, \* TRUE if the user shuts a pipe down that it reads from, or reads
                    \* from one it has shut down
  ClosesReading,    \* TRUE if it closes the pipe while the thread may read
  DupFails          \* TRUE if DuplicateHandle may fail

\* h: the handle and its mutex; kernel: the thread that reads; pending: the
\* request that came back; hist: data to read, and a use of the dead mutex.
VARIABLES h, kernel, pending, pc, cb, calls, hist
vars == <<h, kernel, pending, pc, cb, calls, hist>>

Init ==
  /\ h = [flags |-> {"CONNECTION", "READABLE", "PIPE_READ_CANCELABLE"},
          activecnt |-> 0, reqs_pending |-> 0, active_reqs |-> {}, active_handles |-> 0,
          handle |-> TRUE, readfile_thread |-> FALSE, mutex |-> "free"]
  /\ kernel = [at |-> "none", hThread |-> FALSE]
  /\ pending = <<>> /\ pc = [at |-> "loop"] /\ cb = "none" /\ calls = 0
  /\ hist = [data |-> 0, arrived |-> 0, dead |-> FALSE]

-----------------------------------------------------------------------------
(* uv_pipe_zero_readfile_thread_proc.                                      *)

Thread(from, to) == kernel.at = from /\ kernel' = [kernel EXCEPT !.at = to]
Only == UNCHANGED <<pc, cb, calls>>

\* A critical section of the thread; a mutex that was destroyed is used.
Locked(set) ==
  /\ h.mutex # "held"
  /\ h' = [h EXCEPT !.readfile_thread = set]
  /\ hist' = [hist EXCEPT !.dead = @ \/ h.mutex = "destroyed"]

ThreadStarts ==
  /\ kernel.at = "queued"
  /\ IF Is(h, "PIPE_READ_CANCELABLE")
     THEN \E dup \in {TRUE} \cup IF DupFails THEN {FALSE} ELSE {} :
            /\ Locked(dup)
            /\ kernel' = [at |-> "restart_readfile", hThread |-> dup]
     ELSE kernel' = [at |-> "restart_readfile", hThread |-> FALSE] /\ UNCHANGED <<h, hist>>
  /\ Only /\ UNCHANGED pending

EntersReadFile ==
  /\ Thread("restart_readfile", IF h.handle THEN "ReadFile" ELSE "failed")
  /\ Only /\ UNCHANGED <<h, pending, hist>>

ReadFileReturns ==
  /\ hist.data > 0
  /\ Thread("ReadFile", "done")
  /\ Only /\ UNCHANGED <<h, pending, hist>>

\* Cancelled: a break, or the end if nobody reads any more.
BreakOff(p) == Is(p, "PIPE_READ_CANCELABLE") /\ Is(p, "READING")

ThreadAborted ==
  /\ kernel.at = "aborted"
  /\ IF BreakOff(h)
     THEN /\ h' = [h EXCEPT !.readfile_thread = FALSE]
          /\ kernel' = [kernel EXCEPT !.at = "relock"]
     ELSE /\ kernel' = [kernel EXCEPT !.at = "done"]
          /\ UNCHANGED h
  /\ Only /\ UNCHANGED <<pending, hist>>

ThreadResumes ==
  /\ Thread("relock", "restart_readfile")
  /\ Locked(kernel.hThread)
  /\ Only /\ UNCHANGED pending

ThreadClears ==
  /\ kernel.at \in {"done", "failed"}
  /\ IF kernel.hThread
     THEN /\ h' = [h EXCEPT !.readfile_thread = FALSE]
          /\ kernel' = [kernel EXCEPT !.at = "close_thread"]
     ELSE kernel' = [kernel EXCEPT !.at = "post"] /\ UNCHANGED h
  /\ Only /\ UNCHANGED <<pending, hist>>

ThreadClosesHandle ==
  /\ Thread("close_thread", "post")
  /\ Locked(h.readfile_thread)
  /\ Only /\ UNCHANGED pending

ThreadPosts ==
  /\ Thread("post", "none")
  /\ pending' = Append(pending, "read")
  /\ Only /\ UNCHANGED <<h, hist>>

ThreadStep ==
  \/ ThreadStarts \/ EntersReadFile \/ ThreadAborted \/ ThreadResumes
  \/ ThreadClears \/ ThreadClosesHandle \/ ThreadPosts

-----------------------------------------------------------------------------
(* The loop's thread.                                                      *)

At(p) == cb = "none" /\ pc.at = p

User ==
  /\ At("loop") \/ (cb # "none" /\ pc.at \in {"loop", "req_end"})
  /\ ~Is(h, "CLOSING")
  /\ calls < MaxReadCalls /\ calls' = calls + 1
  /\ UNCHANGED cb

\* uv_pipe_queue_read.
QueueRead(p) ==
  /\ h' = Set(INCREASE_PENDING(p), {"READ_PENDING"})
  /\ kernel' = [at |-> "queued", hThread |-> FALSE]

uv_pipe_read_start ==
  /\ User
  /\ ~Is(h, "READING") /\ Is(h, "READABLE")
  /\ ShutsDownReading \/ (Is(h, "PIPE_READ_CANCELABLE") /\ ~Is(h, "ENDGAME_QUEUED"))
  /\ LET p == INCREASE_ACTIVE_COUNT(Set(h, {"READING"}))
     IN  IF Is(h, "READ_PENDING") THEN h' = p /\ UNCHANGED kernel ELSE QueueRead(p)
  /\ UNCHANGED <<pending, pc, hist>>

\* uv__pipe_pause_read: the mutex first; why says what comes after, back where
\* the loop was.
Pause(p, why) ==
  IF Is(p, "PIPE_READ_CANCELABLE")
  THEN /\ h' = [p EXCEPT !.mutex = "held"]
       /\ pc' = [at |-> "pause", why |-> why, back |-> pc.at]
  ELSE h' = p /\ pc' = [at |-> "paused", why |-> why, back |-> pc.at]

MutexFree == Is(h, "PIPE_READ_CANCELABLE") => h.mutex = "free"

StopReading == DECREASE_ACTIVE_COUNT(Clear(h, {"READING"}))

uv_read_stop ==
  /\ User /\ MutexFree
  /\ Is(h, "READING")
  /\ Pause(StopReading, "stop")
  /\ UNCHANGED <<kernel, pending, hist>>

\* uv__pipe_getname.
uv__pipe_getname ==
  /\ User /\ MutexFree
  /\ Pause(h, "getname")
  /\ UNCHANGED <<kernel, pending, hist>>

\* The spin: CancelSynchronousIo reaches a thread that is in ReadFile.
CancelOnce ==
  /\ pc.at = "pause" /\ h.readfile_thread
  /\ kernel' = [kernel EXCEPT !.at = IF @ = "ReadFile" THEN "aborted" ELSE @]
  /\ UNCHANGED <<h, pending, pc, cb, calls, hist>>

PauseDone ==
  /\ pc.at = "pause" /\ ~h.readfile_thread
  /\ pc' = [pc EXCEPT !.at = "paused"]
  /\ UNCHANGED <<h, kernel, pending, cb, calls, hist>>

\* uv__pipe_unpause_read, after what the pause was for.
Unpause ==
  /\ pc.at = "paused"
  /\ h' = IF Is(h, "PIPE_READ_CANCELABLE") THEN [h EXCEPT !.mutex = "free"] ELSE h
  /\ pc' = [at |-> IF pc.why = "close" THEN "close_pipe" ELSE pc.back]
  /\ UNCHANGED <<kernel, pending, cb, calls, hist>>

\* uv_pipe_close: uv__pipe_stop_read, then the pipe is closed.
uv_pipe_close ==
  /\ User /\ MutexFree
  /\ ClosesReading \/ ~Is(h, "READ_PENDING")
  /\ LET p == IF Is(h, "READING") THEN StopReading ELSE h
     IN  Pause(uv__handle_closing(EndgameIfIdle(Clear(p, {"READABLE", "WRITABLE"}))), "close")
  /\ UNCHANGED <<kernel, pending, hist>>

ClosePipe ==
  /\ pc.at = "close_pipe"
  /\ h' = [h EXCEPT !.handle = FALSE]
  /\ pc' = [at |-> IF cb = "none" THEN "loop" ELSE "req_end"]
  /\ UNCHANGED <<kernel, pending, cb, calls, hist>>

\* uv_shutdown of the pipe: only its endgame matters here.
uv_shutdown ==
  /\ User
  /\ ShutsDownReading \/ h.flags \cap {"READING", "READ_PENDING"} = {}
  /\ h' = uv_want_endgame(h)
  /\ UNCHANGED <<kernel, pending, pc, hist>>

\* uv_pipe_endgame: the mutex goes first, whatever the endgame is for.
uv_pipe_endgame ==
  /\ At("loop") /\ Is(h, "ENDGAME_QUEUED")
  /\ LET p == [Clear(h, {"ENDGAME_QUEUED", "PIPE_READ_CANCELABLE"}) EXCEPT !.mutex = "destroyed"]
         closed == Is(p, "CLOSING") /\ p.reqs_pending = 0
     IN  /\ h' = IF closed THEN uv__handle_close(p) ELSE p
         /\ cb' = IF closed THEN "close" ELSE "none"
  /\ UNCHANGED <<kernel, pending, pc, calls, hist>>

\* uv_process_pipe_read_req: what is there is read and reported.
uv_process_pipe_read_req ==
  /\ At("loop") /\ pending # <<>>
  /\ pending' = Tail(pending)
  /\ h' = Clear(h, {"READ_PENDING"})
  /\ LET told == Is(h, "READING") /\ hist.data > 0
     IN  /\ cb' = IF told THEN "read" ELSE "none"
         /\ hist' = [hist EXCEPT !.data = IF told THEN 0 ELSE @]
  /\ pc' = [at |-> "req_end"]
  /\ UNCHANGED <<kernel, calls>>

ReqEnd ==
  /\ At("req_end")
  /\ LET p == DECREASE_PENDING_REQ_COUNT(h)
     IN  IF Is(h, "READING") /\ ~Is(h, "READ_PENDING") THEN QueueRead(p)
         ELSE h' = p /\ UNCHANGED kernel
  /\ pc' = [at |-> "loop"]
  /\ UNCHANGED <<pending, cb, calls, hist>>

CallbackReturns ==
  /\ cb # "none" /\ pc.at \in {"loop", "req_end"}
  /\ cb' = "none"
  /\ UNCHANGED <<h, kernel, pending, pc, calls, hist>>

DataArrive ==
  /\ hist.arrived < MaxArrivals
  /\ hist' = [hist EXCEPT !.arrived = @ + 1, !.data = 1]
  /\ UNCHANGED <<h, kernel, pending, pc, cb, calls>>

UserCall ==
  uv_pipe_read_start \/ uv_read_stop \/ uv__pipe_getname \/ uv_pipe_close \/ uv_shutdown
LoopStep == CancelOnce \/ PauseDone \/ Unpause \/ ClosePipe \/ ReqEnd \/ CallbackReturns

HandlerStep == LoopStep
ProcessReq == uv_process_pipe_read_req
Endgame == uv_pipe_endgame
SystemStep == ThreadStep \/ ReadFileReturns

Next ==
  \/ ThreadStep \/ ReadFileReturns \/ UserCall \/ LoopStep
  \/ uv_pipe_endgame \/ uv_process_pipe_read_req \/ DataArrive

-----------------------------------------------------------------------------
(* Properties.                                                             *)

PendingExact ==
  /\ h.reqs_pending = Bit(kernel.at # "none") + Len(pending)
                      + Bit(pc.at = "req_end" \/ ("back" \in DOMAIN pc /\ pc.back = "req_end")
                            \/ (pc.at = "close_pipe" /\ cb = "read"))
  /\ Is(h, "READ_PENDING") <=> kernel.at # "none" \/ pending # <<>>

ActiveExact == LoopKnows(h) /\ h.activecnt = Bit(Is(h, "READING"))

\* While the pipe is touched nobody is in ReadFile on it, and nobody can get
\* there (pipe.c:704-722: "any access to a NamedPipe to deadlock if any process
\* has called ReadFile"); the thread does not use a mutex that is gone.
Armed ==
  /\ pc.at = "paused" => kernel.at \notin {"ReadFile", "restart_readfile"} \/ ~h.handle
  /\ ~hist.dead
  /\ kernel.hThread /\ kernel.at \in {"done", "failed"} => h.readfile_thread

\* No pending read outlives the pipe: "there would be no reliable way to cancel
\* pending read operations upon close" otherwise (pipe.c:1905-1910).
CloseFindsNoRead == pc.at = "close_pipe" => kernel.at # "ReadFile"

\* What is promised and outstanding: the end of a pause, the close callback.
Owes ==
  pc.at = "pause" \/ (Is(h, "CLOSING") /\ ~Is(h, "CLOSED"))
=============================================================================
