------------------------------- MODULE MCTcp --------------------------------
(***************************************************************************)
(* TCP handles for TLC: a connection (TcpStream) or a listening handle     *)
(* (TcpServer), one per behaviour; side says which.  Both are a uv_tcp_t   *)
(* and share its fields; what only the other one has keeps one value.      *)
(***************************************************************************)
EXTENDS Integers, Sequences, FiniteSets

CONSTANTS
  Writes, SyncResults, AllocCalls, RestartsRefused, MaxCalls,
  SimultaneousAccepts, AcceptResults, ListensAgainWhen, MaxServerCalls

VARIABLES
  side,
  flags, socket, delayed_error, activecnt, reqs_pending, kernel, pending, pc, cb, req,
  calls,
  write_reqs_pending, shutdown_req, active_reqs, status, result, stopped,
  accept_reqs, accept_socket, success, pending_accepts, processed_accepts

streamVars == <<write_reqs_pending, shutdown_req, active_reqs, status, result, stopped>>
serverVars == <<accept_reqs, accept_socket, success, pending_accepts, processed_accepts>>
vars == <<side, flags, socket, delayed_error, activecnt, reqs_pending, kernel, pending,
          pc, cb, req, calls, streamVars, serverVars>>

Stream == INSTANCE TcpStream
Server == INSTANCE TcpServer

ASSUME TcpAssumption == Stream!StreamAssumption /\ Server!ServerAssumption

Nothing(v) == v = "none"

Init ==
  \/ /\ side = "stream" /\ Stream!Init
     /\ Nothing(accept_reqs) /\ Nothing(accept_socket) /\ Nothing(success)
     /\ Nothing(pending_accepts) /\ Nothing(processed_accepts)
  \/ /\ side = "server" /\ Server!Init
     /\ Nothing(write_reqs_pending) /\ Nothing(shutdown_req) /\ Nothing(active_reqs)
     /\ Nothing(status) /\ Nothing(result) /\ Nothing(stopped)

OnStream == side = "stream" /\ UNCHANGED <<side, serverVars>>
OnServer == side = "server" /\ UNCHANGED <<side, streamVars>>

Next == (OnStream /\ Stream!Next) \/ (OnServer /\ Server!Next)

HandlerStep == (OnStream /\ Stream!HandlerStep) \/ (OnServer /\ Server!HandlerStep)
SystemStep == (OnStream /\ Stream!SystemStep) \/ (OnServer /\ Server!SystemStep)
ReadEnds == OnStream /\ Stream!Recv /\ pc' = "read_done"
ProcessReq ==
  (OnStream /\ Stream!ProcessReq) \/ (OnServer /\ Server!uv_process_tcp_accept_req)
Endgame == (OnStream /\ Stream!uv_tcp_endgame) \/ (OnServer /\ Server!uv_tcp_endgame)

Spec == Init /\ [][Next]_vars

\* Callbacks return and handlers end; the system answers; an iteration handles
\* the requests it finds, then the endgames; and the peer does not fill every
\* buffer for ever.
FairSpec ==
  /\ Spec
  /\ WF_vars(HandlerStep) /\ WF_vars(SystemStep)
  /\ SF_vars(ReadEnds) /\ WF_vars(ProcessReq) /\ SF_vars(Endgame)

-----------------------------------------------------------------------------

\* reqs_pending counts exactly the requests in flight, so that the handle may be
\* freed when it is zero; the handle is active exactly while it reads, listens
\* or has a request to report (handle-inl.h:32-60, req-inl.h:53-63).
CountersExact ==
  /\ side = "stream" => Stream!PendingCount /\ Stream!ActiveWhileBusy
  /\ side = "server" => Server!PendingCount /\ Server!ActiveWhileListening

\* A handle that reads has a read on its way, and one that listens an accept
\* request, whatever the callbacks do (tcp.c:729-731, 1065-1069, 687-711).
Armed ==
  /\ side = "stream" => Stream!ReadArmed
  /\ side = "server" => Server!StillAccepting

\* An accept request is in one place, with a socket to give when it is
\* announced, and the change to a single one leaves a single one
\* (tcp.c:404, 700-711).
OneAtATime ==
  side = "server" => Server!OnePlace /\ Server!SwitchesToSingle

\* No data after uv_read_stop, no connection after uv_close (tcp.c:1008, 1138).
Silent ==
  [][/\ side = "stream" => Stream!SilentAfterStop
     /\ side = "server" => Server!SilentAfterClose]_vars

Owes == (side = "stream" /\ Stream!Owes) \/ (side = "server" /\ Server!Owes)

\* Closes and shutdowns end with their callbacks, whatever the handle was doing
\* (tcp.c:211-283, 1108, 1444).
Pays == Owes ~> ~Owes
=============================================================================
