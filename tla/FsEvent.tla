------------------------------ MODULE FsEvent -------------------------------
(***************************************************************************)
(* A handle that watches a directory, or a file by way of its directory    *)
(* (win/fs-event.c): one ReadDirectoryChangesW request, sent again after   *)
(* every batch of changes.  Names are left out; whose memory they are is   *)
(* not.  path, filew (with short_filew), dirw and buffer are null,         *)
(* allocated, or dangling once what they point to has been freed.          *)
(***************************************************************************)
EXTENDS UvHandle

CONSTANTS
  MaxBatch,        \* bound: changes one request returns
  MaxFsEventCalls, \* bound: calls the user makes
  MaxFails,        \* bound: failures of the system
  StopsInCallback, \* TRUE if the user stops the handle in its callback
  RestartsBusy,    \* TRUE if it is started while the stopped request is on its way
  DirFails         \* TRUE if a start on a directory may fail after dirw was set

VARIABLES h, kernel, pending, pc, cb, calls, hist
vars == <<h, kernel, pending, pc, cb, calls, hist>>

Names == {"path", "filew", "dirw", "buffer"}

Init ==
  /\ h = [flags |-> {}, activecnt |-> 0, reqs_pending |-> 0, active_reqs |-> {},
          active_handles |-> 0, dir_handle |-> FALSE, req_pending |-> FALSE,
          mem |-> [n \in Names |-> "null"]]
  /\ kernel = 0 /\ pending = <<>> /\ pc = [at |-> "loop"] /\ cb = "none" /\ calls = 0
  /\ hist = [fails |-> 0, badFree |-> FALSE, silent |-> TRUE]

Free(m, names) == [n \in Names |-> IF n \in names THEN "null" ELSE m[n]]
Dangles(m, names) == \E n \in names : m[n] = "dangling"

At(p) == cb = "none" /\ pc.at = p
InCallback == cb \notin {"none", "close"}

User ==
  /\ cb # "none" \/ At("loop")
  /\ ~Is(h, "CLOSING")
  /\ calls < MaxFsEventCalls /\ calls' = calls + 1
  /\ UNCHANGED <<pc, cb>>

\* How far uv_fs_event_start gets: it fails to convert the path (and returns
\* without its error path), to look at it, or to open or watch the directory.
Starts(isDir) == {"ok", "convert", "look"} \cup IF isDir /\ ~DirFails THEN {} ELSE {"open", "watch"}

\* The error path frees pathw, which dirw points to.
AfterError(isDir) == IF isDir THEN "dangling" ELSE "null"

\* The handle is active from the beginning, whatever comes after.
uv_fs_event_start ==
  /\ User
  /\ ~Is(h, "ACTIVE")
  /\ RestartsBusy \/ (~h.req_pending /\ ~InCallback)
  /\ \E isDir \in BOOLEAN : \E how \in Starts(isDir) :
       LET s == uv__handle_start(h)
           named == [h.mem EXCEPT !.path = "alloc",
                                  !.filew = IF isDir THEN @ ELSE "alloc",
                                  !.dirw = IF isDir THEN "alloc" ELSE @]
       IN  /\ how = "ok" \/ hist.fails < MaxFails
           /\ hist' = [hist EXCEPT !.fails = @ + Bit(how # "ok"), !.silent = (how # "ok")]
           /\ CASE how = "ok" ->
                     /\ h' = [s EXCEPT !.mem = [named EXCEPT !.buffer = "alloc"],
                                       !.dir_handle = TRUE, !.req_pending = TRUE]
                     /\ kernel' = kernel + 1
                [] how = "convert" ->
                     h' = [s EXCEPT !.mem.path = "alloc"] /\ UNCHANGED kernel
                [] how = "look" ->
                     /\ h' = [s EXCEPT !.mem = Free(h.mem, {"path", "filew", "buffer"})]
                     /\ UNCHANGED kernel
                [] OTHER ->
                     /\ h' = [s EXCEPT !.mem = [Free(named, {"path", "filew", "buffer"})
                                                  EXCEPT !.dirw = AfterError(isDir)]]
                     /\ UNCHANGED kernel
  /\ UNCHANGED pending

\* uv_fs_event_stop: closing the directory makes the request return.
StopWatching(e) ==
  IF Is(e, "ACTIVE")
  THEN uv__handle_stop([e EXCEPT !.dir_handle = FALSE,
                                 !.mem = Free(@, {"path", "filew", "dirw"})])
  ELSE e

FreesDangling(e) == Is(e, "ACTIVE") /\ Dangles(e.mem, {"path", "filew", "dirw"})

uv_fs_event_stop ==
  /\ User
  /\ Is(h, "ACTIVE")
  /\ StopsInCallback \/ ~InCallback
  /\ h' = StopWatching(h)
  /\ hist' = [hist EXCEPT !.badFree = @ \/ FreesDangling(h), !.silent = TRUE]
  /\ UNCHANGED <<kernel, pending>>

EndgameUnlessBusy(e) == IF e.req_pending THEN e ELSE uv_want_endgame(e)

uv_fs_event_close ==
  /\ User
  /\ h' = EndgameUnlessBusy(uv__handle_closing(StopWatching(h)))
  /\ hist' = [hist EXCEPT !.badFree = @ \/ FreesDangling(h), !.silent = TRUE]
  /\ UNCHANGED <<kernel, pending>>

\* The system returns a request: with changes, with none (they did not fit the
\* buffer), or failing, as it must once the directory is closed.
KernelCompletes ==
  /\ kernel > 0
  /\ kernel' = kernel - 1
  /\ \E n \in IF h.dir_handle THEN -1..MaxBatch ELSE {-1} :
       /\ n >= 0 \/ ~h.dir_handle \/ hist.fails < MaxFails
       /\ pending' = Append(pending, n)
       /\ hist' = [hist EXCEPT !.fails = @ + Bit(n = -1 /\ h.dir_handle)]
  /\ UNCHANGED <<h, pc, cb, calls>>

Ignored(e) == ~Is(e, "ACTIVE")

\* uv_process_fs_event_req: a handle that was stopped ignores the changes.
uv_process_fs_event_req ==
  /\ At("loop")
  /\ pending # <<>>
  /\ pending' = Tail(pending)
  /\ LET e == [h EXCEPT !.req_pending = FALSE]
     IN  IF Ignored(h)
         THEN /\ h' = IF Is(h, "CLOSING") THEN uv_want_endgame(e) ELSE e
              /\ UNCHANGED <<pc, cb>>
         ELSE /\ h' = e
              /\ pc' = [at |-> "entries", left |-> Head(pending)]
              /\ cb' = IF Head(pending) < 1 THEN "fs_event" ELSE cb
  /\ UNCHANGED <<kernel, calls, hist>>

\* The do-while over the changes; a change of another file is skipped.  A file
\* name that has been freed would be compared with.
NextEntry ==
  /\ At("entries") /\ pc.left > 0 /\ ~Is(h, "CLOSING")
  /\ \E match \in IF h.mem.dirw = "alloc" THEN {TRUE} ELSE BOOLEAN :
       cb' = IF match THEN "fs_event" ELSE cb
  /\ pc' = [pc EXCEPT !.left = @ - 1]
  /\ UNCHANGED <<h, kernel, pending, calls, hist>>

EntriesDone == At("entries") /\ (pc.left < 1 \/ Is(h, "CLOSING"))

\* uv_fs_event_queue_readdirchanges, or the endgame of a handle closed by its
\* callback.
Requeue ==
  /\ EntriesDone
  /\ pc' = [at |-> "loop"]
  /\ IF Is(h, "CLOSING")
     THEN h' = uv_want_endgame(h) /\ UNCHANGED <<kernel, pending, hist>>
     ELSE /\ h.dir_handle /\ ~h.req_pending
          /\ h' = [h EXCEPT !.req_pending = TRUE]
          /\ \/ kernel' = kernel + 1 /\ UNCHANGED <<pending, hist>>
             \/ /\ hist.fails < MaxFails
                /\ hist' = [hist EXCEPT !.fails = @ + 1]
                /\ pending' = Append(pending, -1) /\ UNCHANGED kernel
  /\ UNCHANGED <<cb, calls>>

CallbackReturns ==
  /\ cb # "none"
  /\ cb' = "none"
  /\ UNCHANGED <<h, kernel, pending, pc, calls, hist>>

uv_fs_event_endgame ==
  /\ At("loop")
  /\ Is(h, "ENDGAME_QUEUED")
  /\ LET e == Clear(h, {"ENDGAME_QUEUED"})
     IN  IF Is(h, "CLOSING") /\ ~h.req_pending
         THEN h' = uv__handle_close([e EXCEPT !.mem.buffer = "null"]) /\ cb' = "close"
         ELSE h' = e /\ UNCHANGED cb
  /\ UNCHANGED <<kernel, pending, pc, calls, hist>>

UserCall == uv_fs_event_start \/ uv_fs_event_stop \/ uv_fs_event_close
HandlerStep == NextEntry \/ Requeue \/ CallbackReturns

ProcessReq == uv_process_fs_event_req
Endgame == uv_fs_event_endgame
SystemStep == ~h.dir_handle /\ KernelCompletes

Next ==
  UserCall \/ HandlerStep \/ KernelCompletes \/ uv_process_fs_event_req \/ uv_fs_event_endgame

-----------------------------------------------------------------------------
(* Properties.                                                             *)

\* req_pending says whether the request is with the system or in the loop's
\* queue, where it is once (fs-event.c:46-75, 343-361, 520-545).
PendingExact == kernel + Len(pending) = Bit(h.req_pending)

ActiveExact == LoopKnows(h) /\ (h.dir_handle => Is(h, "ACTIVE"))

\* Outside the handler a watched directory has its request out.
Armed == h.dir_handle /\ pc.at = "loop" => h.req_pending

\* Nothing is freed twice, and a closed handle holds no memory but what a
\* start left it with that failed to convert its path.
NoBadFree ==
  /\ ~hist.badFree
  /\ Is(h, "CLOSED") => \A n \in Names : h.mem[n] = "null"

\* The assertions of uv_fs_event_queue_readdirchanges hold.
MayRequeue == EntriesDone /\ ~Is(h, "CLOSING") => h.dir_handle /\ ~h.req_pending

\* uv_fs_event_stop: "Stop the handle, the callback will no longer be called."
Silent == cb = "none" /\ cb' = "fs_event" => ~hist.silent

\* What is promised and outstanding: the close callback of a closed handle.
Owes ==
  Is(h, "CLOSING") /\ ~Is(h, "CLOSED")
=============================================================================
