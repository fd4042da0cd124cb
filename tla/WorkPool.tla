------------------------------ MODULE WorkPool ------------------------------
(***************************************************************************)
(* What the thread pool promises to a caller of uv_queue_work and          *)
(* uv_cancel (src/threadpool.c, docs/src/threadpool.rst, request.rst),     *)
(* with threads, queues, locks and wake-ups left out.                      *)
(*                                                                         *)
(* A request is "free" until it is submitted.  A queued request is either  *)
(* started by a worker or cancelled, never both; it then owes its caller   *)
(* exactly one after_work_cb, whose status tells which of the two it was.  *)
(***************************************************************************)
CONSTANT Reqs

VARIABLES phase,    \* phase[r]: where the request is in its life
          result    \* result[r]: status given to the last after_work_cb

Phases == {"free", "queued", "running", "finished", "cancelled"}
Results == {"none", "0", "UV_ECANCELED"}

Init ==
  /\ phase = [r \in Reqs |-> "free"]
  /\ result = [r \in Reqs |-> "none"]

Become(r, from, to) ==
  /\ phase[r] = from
  /\ phase' = [phase EXCEPT ![r] = to]

Submit(r) == Become(r, "free", "queued") /\ UNCHANGED result

Start(r) == Become(r, "queued", "running") /\ UNCHANGED result

Finish(r) == Become(r, "running", "finished") /\ UNCHANGED result

Cancel(r) == Become(r, "queued", "cancelled") /\ UNCHANGED result

\* after_work_cb(req, 0) for work that ran, (req, UV_ECANCELED) for the rest.
Done(r) ==
  \/ /\ Become(r, "finished", "free")
     /\ result' = [result EXCEPT ![r] = "0"]
  \/ /\ Become(r, "cancelled", "free")
     /\ result' = [result EXCEPT ![r] = "UV_ECANCELED"]

Next == \E r \in Reqs : Submit(r) \/ Start(r) \/ Finish(r) \/ Cancel(r) \/ Done(r)

vars == <<phase, result>>

Spec == Init /\ [][Next]_vars
=============================================================================
