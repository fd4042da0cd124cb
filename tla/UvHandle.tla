------------------------------ MODULE UvHandle ------------------------------
(***************************************************************************)
(* What all handles of the Windows backend share: the flags and counters   *)
(* of uv-common.h, win/handle-inl.h and win/req-inl.h, as functions of a   *)
(* handle.  A handle is a record with at least                             *)
(*   flags           a set of flags,                                       *)
(*   activecnt       what keeps it active: reading, requests to report,    *)
(*   reqs_pending    requests that refer to it,                            *)
(*   active_reqs     its requests in loop->active_reqs,                    *)
(*   active_handles  its share of loop->active_handles.                    *)
(* A reference is never dropped (uv_unref is a matter of EventLoop).       *)
(***************************************************************************)
EXTENDS Integers, Sequences, FiniteSets

Bit(b) == IF b THEN 1 ELSE 0

Is(h, f) == f \in h.flags
Set(h, fs) == [h EXCEPT !.flags = @ \cup fs]
Clear(h, fs) == [h EXCEPT !.flags = @ \ fs]

uv__handle_init == [flags |-> {}, activecnt |-> 0, reqs_pending |-> 0,
                    active_reqs |-> {}, active_handles |-> 0]

uv__handle_start(h) ==
  IF Is(h, "ACTIVE") THEN h
  ELSE [Set(h, {"ACTIVE"}) EXCEPT !.active_handles = @ + 1]

uv__handle_stop(h) ==
  IF Is(h, "ACTIVE") THEN [Clear(h, {"ACTIVE"}) EXCEPT !.active_handles = @ - 1]
  ELSE h

HandleClosingAlways(h) ==
  [Set(Clear(h, {"ACTIVE"}), {"CLOSING"}) EXCEPT !.active_handles = @ + 1]

uv__handle_closing(h) ==
  [Set(Clear(h, {"ACTIVE"}), {"CLOSING"})
     EXCEPT !.active_handles = @ + Bit(~Is(h, "ACTIVE"))]

uv__handle_close(h) == [Set(h, {"CLOSED"}) EXCEPT !.active_handles = @ - 1]

uv_want_endgame(h) == Set(h, {"ENDGAME_QUEUED"})

INCREASE_ACTIVE_COUNT(h) ==
  LET g == [h EXCEPT !.activecnt = @ + 1]
  IN  IF h.activecnt = 0 THEN uv__handle_start(g) ELSE g

DECREASE_ACTIVE_COUNT(h) ==
  LET g == [h EXCEPT !.activecnt = @ - 1]
  IN  IF g.activecnt = 0 /\ ~Is(h, "CLOSING") THEN uv__handle_stop(g) ELSE g

INCREASE_PENDING(h) == [h EXCEPT !.reqs_pending = @ + 1]

DECREASE_PENDING_REQ_COUNT(h) ==
  LET g == [h EXCEPT !.reqs_pending = @ - 1]
  IN  IF Is(h, "CLOSING") /\ g.reqs_pending = 0 THEN uv_want_endgame(g) ELSE g

REGISTER_HANDLE_REQ(h, r) ==
  [INCREASE_ACTIVE_COUNT(h) EXCEPT !.active_reqs = @ \cup {r}]

UNREGISTER_HANDLE_REQ(h, r) ==
  [DECREASE_ACTIVE_COUNT(h) EXCEPT !.active_reqs = @ \ {r}]

EndgameIfIdle(h) == IF h.reqs_pending = 0 THEN uv_want_endgame(h) ELSE h

-----------------------------------------------------------------------------
(* What the counters must say, for a handle h.                             *)

\* The handle keeps its loop alive exactly while it is active or closing
\* (uv-common.h:163-179, handle-inl.h:63-86), and no counter is negative.
LoopKnows(h) ==
  /\ h.active_handles = Bit(h.flags \cap {"ACTIVE", "CLOSING"} # {} /\ ~Is(h, "CLOSED"))
  /\ h.activecnt >= 0 /\ h.reqs_pending >= 0
=============================================================================
