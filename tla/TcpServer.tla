------------------------------ MODULE TcpServer -----------------------------
(***************************************************************************)
(* One listening TCP handle (win/tcp.c, win/stream.c): its accept requests *)
(* travel from the kernel through the loop to the user, who accepts the    *)
(* connection and so sends the request to the kernel again.                *)
(*                                                                         *)
(* As in TcpStream, pending stands for the completion port and the loop's  *)
(* queue of pending requests, and the user may make any call in a callback *)
(* or between two steps of the loop.  Addresses and the client handle that *)
(* takes the accepted socket are left out.  A failing assertion ends the   *)
(* program, so it is a guard here; AcceptSucceeds asks whether it can fail.*)
(***************************************************************************)
EXTENDS Integers, Sequences, FiniteSets, SequencesExt

CONSTANTS
  SimultaneousAccepts,  \* uv_simultaneous_server_accepts
  AcceptResults,        \* outcomes of uv_tcp_queue_accept
  ListensAgainWhen,     \* when the user calls uv_listen a second time
  MaxServerCalls             \* bound: calls the user makes

\* AcceptEx accepted at once and not through the port, waits in the kernel,
\* failed, or, on an emulated port, RegisterWaitForSingleObject failed.
ServerAssumption ==
  /\ SimultaneousAccepts \in Nat \ {0}
  /\ AcceptResults \subseteq {"now", "kernel", "refused", "wait_refused"}
  /\ ListensAgainWhen \subseteq {"while listening", "after an error"}
  /\ MaxServerCalls \in Nat

AcceptReqs == 1..SimultaneousAccepts

VARIABLES
  flags,              \* handle->flags
  socket,             \* TRUE unless handle->socket = INVALID_SOCKET
  delayed_error,
  activecnt,          \* the handle is active while it is positive
  reqs_pending,
  accept_reqs,        \* TRUE unless NULL
  accept_socket,      \* accept_socket[r]: TRUE unless INVALID_SOCKET
  success,            \* success[r]: how the request completed
  kernel,             \* requests the kernel has
  pending,            \* completed requests the loop has to handle
  pending_accepts,    \* connections the user has not accepted, newest first
  processed_accepts,
  pc, cb, req,        \* the handler, its running callback, its request
  calls

queueVars == <<reqs_pending, accept_socket, success, kernel, pending>>
vars == <<flags, socket, delayed_error, activecnt, accept_reqs, queueVars,
          pending_accepts, processed_accepts, pc, cb, req, calls>>

Flags == {"BOUND", "LISTENING", "SINGLE_ACCEPT", "ACCEPT_STATE_CHANGING",
          "SHARED", "CLOSING", "CLOSED", "ENDGAME_QUEUED", "SOCKET_CLOSED"}

\* uv_tcp_init, with or without a uv_tcp_bind after it.
Init ==
  /\ \/ flags = {} /\ socket = FALSE /\ delayed_error = FALSE
     \/ flags = {"BOUND"} /\ socket = TRUE /\ delayed_error \in BOOLEAN
  /\ activecnt = 0 /\ reqs_pending = 0 /\ accept_reqs = FALSE
  /\ accept_socket = [r \in AcceptReqs |-> FALSE]
  /\ success = [r \in AcceptReqs |-> TRUE]
  /\ kernel = {} /\ pending = <<>> /\ pending_accepts = <<>>
  /\ processed_accepts = 0
  /\ pc = "loop" /\ cb = "none" /\ req = 1 /\ calls = 0

Bit(b) == IF b THEN 1 ELSE 0

-----------------------------------------------------------------------------
(* Queueing accept requests.                                               *)

uv_want_endgame(f) == f \cup {"ENDGAME_QUEUED"}

\* Only what reached the kernel.
CountOnlyQueued(S, how) == Cardinality({r \in S : how[r] # "refused"})

\* Every outcome is reported later and counts; a failed
\* RegisterWaitForSingleObject counts twice.
QueuedCount(S, how) ==
  Cardinality(S) + Cardinality({r \in S : how[r] = "wait_refused"})

\* The numbers of T in increasing order.
InOrder(T) ==
  {q \in [1..Cardinality(T) -> T] : \A i, j \in 1..Cardinality(T) : i < j => q[i] < q[j]}

\* uv_tcp_queue_accept for the requests S, in order, after the queue p.
uv_tcp_queue_accept(S, how, p, sockets) ==
  /\ accept_socket' =
       [r \in AcceptReqs |-> IF r \in S THEN how[r] # "refused" ELSE sockets[r]]
  /\ success' = [r \in AcceptReqs |-> IF r \in S THEN how[r] = "now" ELSE success[r]]
  /\ kernel' = kernel \cup {r \in S : how[r] = "kernel"}
  /\ \E q \in InOrder({r \in S : how[r] # "kernel"}) : pending' = p \o q
  /\ reqs_pending' = reqs_pending + QueuedCount(S, how)

-----------------------------------------------------------------------------
(* Calls of the user.                                                      *)

User ==
  /\ cb # "none" \/ pc = "loop"
  /\ calls < MaxServerCalls
  /\ calls' = calls + 1

Open == "CLOSING" \notin flags

\* The second call is the user's choice; the first is always allowed.
MayListen ==
  \/ ~accept_reqs
  \/ "while listening" \in ListensAgainWhen /\ "LISTENING" \in flags
  \/ "after an error" \in ListensAgainWhen /\ "LISTENING" \notin flags

\* The number of requests that are queued at first.
QueuedAtFirst == IF "SINGLE_ACCEPT" \in flags THEN {1} ELSE AcceptReqs

\* uv_listen.  The calls it makes may fail; only the first success queues
\* accept requests, but each one makes the handle active once more.
uv_tcp_listen ==
  /\ User /\ Open /\ MayListen
  /\ ~delayed_error
  /\ \E bound \in {"ok", "in use", "error"}, listens \in BOOLEAN :
       /\ bound = "ok" \/ "BOUND" \notin flags
       /\ listens \/ "SHARED" \notin flags \/ ~accept_reqs
       /\ delayed_error' = (bound = "in use")
       /\ socket' \in IF bound = "error" THEN {socket, TRUE} ELSE {TRUE}
       /\ IF bound = "ok" /\ listens
          THEN /\ flags' = flags \cup {"BOUND", "LISTENING"}
               /\ activecnt' = activecnt + 1
               /\ accept_reqs' = TRUE
               /\ IF accept_reqs THEN UNCHANGED queueVars
                  ELSE \E how \in [QueuedAtFirst -> AcceptResults] :
                         uv_tcp_queue_accept(QueuedAtFirst, how, pending, accept_socket)
          ELSE /\ flags' = IF bound = "error" THEN flags ELSE flags \cup {"BOUND"}
               /\ UNCHANGED <<activecnt, accept_reqs, queueVars>>
  /\ UNCHANGED <<pending_accepts, processed_accepts, pc, cb, req>>

AllProcessedEarly(n) == n >= SimultaneousAccepts - 1

AllProcessedLate(n) == n > SimultaneousAccepts

\* Every request queued before the change has been accepted.
AllProcessed(n) == n >= SimultaneousAccepts

\* uv_accept: the newest connection goes to the client handle and its request
\* back to the kernel, unless the server is changing to a single request.
uv_tcp_accept ==
  /\ User
  /\ "CLOSED" \notin flags
  /\ pending_accepts # <<>>
  /\ pending_accepts' = Tail(pending_accepts)
  /\ LET r == Head(pending_accepts)
         sockets == [accept_socket EXCEPT ![r] = FALSE]
         changing == "ACCEPT_STATE_CHANGING" \in flags
         switch == changing /\ AllProcessed(processed_accepts + 1)
         again == IF switch THEN 1 ELSE r
     IN  /\ processed_accepts' = IF ~Open \/ ~changing THEN processed_accepts
                                 ELSE IF switch THEN 0 ELSE processed_accepts + 1
         /\ IF Open /\ (switch \/ ~changing)
            THEN /\ "LISTENING" \in flags
                 /\ \E how \in [{again} -> AcceptResults] :
                      uv_tcp_queue_accept({again}, how, pending, sockets)
                 /\ flags' = flags \ {"ACCEPT_STATE_CHANGING"}
            ELSE /\ accept_socket' = sockets
                 /\ UNCHANGED <<flags, reqs_pending, success, kernel, pending>>
  /\ UNCHANGED <<socket, delayed_error, activecnt, accept_reqs, pc, cb, req>>

SingleAtOnce(f) == f \cup {"SINGLE_ACCEPT"}

\* Requests that are queued already have to be used up first.
SingleAccept(f) ==
  f \cup {"SINGLE_ACCEPT"} \cup
    IF "LISTENING" \in f THEN {"ACCEPT_STATE_CHANGING"} ELSE {}

\* uv_tcp_simultaneous_accepts(handle, 0); enabling never changes anything.
uv_tcp_simultaneous_accepts ==
  /\ User /\ Open
  /\ "SINGLE_ACCEPT" \notin flags
  /\ flags' = SingleAccept(flags)
  /\ UNCHANGED <<socket, delayed_error, activecnt, accept_reqs, queueVars,
                 pending_accepts, processed_accepts, pc, cb, req>>

\* uv_tcp_duplicate_socket: the socket is shared with another process.
uv_tcp_duplicate_socket ==
  /\ User /\ Open
  /\ "BOUND" \in flags
  /\ \E listens \in BOOLEAN, duplicated \in BOOLEAN :
       /\ delayed_error' = (delayed_error \/ ("LISTENING" \notin flags /\ ~listens))
       /\ flags' = IF duplicated THEN flags \cup {"SHARED"} ELSE flags
  /\ UNCHANGED <<socket, activecnt, accept_reqs, queueVars, pending_accepts,
                 processed_accepts, pc, cb, req>>

StoppedAgain == 1

\* Listening counts as activity only while it lasts.
StoppedListening == Bit("LISTENING" \in flags)

CloseLater(f) == f

\* The endgame waits for the requests in flight.
CloseWhenIdle(f) == IF reqs_pending = 0 THEN uv_want_endgame(f) ELSE f

\* uv_close.  On a shared socket whose requests cannot be cancelled the
\* sockets they accept into are closed.
uv_tcp_close ==
  /\ User /\ Open
  /\ \E cancelled \in BOOLEAN :
       accept_socket' = IF "SHARED" \in flags /\ ~cancelled
                        THEN [r \in AcceptReqs |-> accept_socket[r] /\ r \notin kernel]
                        ELSE accept_socket
  /\ activecnt' = activecnt - StoppedListening
  /\ socket' = FALSE
  /\ flags' = CloseWhenIdle((flags \ {"LISTENING"}) \cup {"CLOSING", "SOCKET_CLOSED"})
  /\ UNCHANGED <<delayed_error, accept_reqs, reqs_pending, success, kernel, pending,
                 pending_accepts, processed_accepts, pc, cb, req>>

-----------------------------------------------------------------------------
(* The kernel and the loop.                                                *)

\* A connection came, or failed, or the close took the request back.
KernelCompletes(r) ==
  /\ r \in kernel
  /\ kernel' = kernel \ {r}
  /\ pending' = Append(pending, r)
  /\ \E s \in BOOLEAN : success' = [success EXCEPT ![r] = s]
  /\ UNCHANGED <<flags, socket, delayed_error, activecnt, accept_reqs, reqs_pending,
                 accept_socket, pending_accepts, processed_accepts, pc, cb, req, calls>>

CallbackReturns ==
  /\ cb # "none"
  /\ cb' = "none"
  /\ UNCHANGED <<flags, socket, delayed_error, activecnt, accept_reqs, queueVars,
                 pending_accepts, processed_accepts, pc, req, calls>>

Take ==
  /\ cb = "none" /\ pc = "loop"
  /\ pending # <<>>
  /\ req' = Head(pending)
  /\ pc' = "accept_end"

\* The request never had a socket: it could not be queued.  That ends the
\* listening and the user is told.
AcceptFailed ==
  /\ Take
  /\ ~accept_socket[Head(pending)]
  /\ pending' = Tail(pending)
  /\ flags' = flags \ {"LISTENING"}
  /\ activecnt' = activecnt - StoppedListening
  /\ cb' = IF "LISTENING" \in flags THEN "connection" ELSE cb
  /\ UNCHANGED <<socket, delayed_error, accept_reqs, reqs_pending, accept_socket,
                 success, kernel, pending_accepts, processed_accepts, calls>>

ContextNotNeeded == TRUE

\* SO_UPDATE_ACCEPT_CONTEXT needs the listening socket.
MayUpdateContext == socket

\* A connection waits for the user to accept it.
Accepted ==
  /\ Take
  /\ LET r == Head(pending)
     IN  /\ accept_socket[r] /\ success[r] /\ MayUpdateContext
         /\ pending_accepts' = <<r>> \o pending_accepts
  /\ pending' = Tail(pending)
  /\ cb' = "connection"
  /\ UNCHANGED <<flags, socket, delayed_error, activecnt, accept_reqs, reqs_pending,
                 accept_socket, success, kernel, processed_accepts, calls>>

\* The accepted socket is bad: it is closed and the request queued again.
AcceptIgnored ==
  /\ Take
  /\ accept_socket[Head(pending)]
  /\ LET r == Head(pending)
         sockets == [accept_socket EXCEPT ![r] = FALSE]
     IN  IF "LISTENING" \in flags
         THEN \E how \in [{r} -> AcceptResults] :
                uv_tcp_queue_accept({r}, how, Tail(pending), sockets)
         ELSE /\ accept_socket' = sockets
              /\ pending' = Tail(pending)
              /\ UNCHANGED <<reqs_pending, success, kernel>>
  /\ UNCHANGED <<flags, socket, delayed_error, activecnt, accept_reqs,
                 pending_accepts, processed_accepts, cb, calls>>

\* DECREASE_PENDING_REQ_COUNT at the end of the handler.
AcceptEnd ==
  /\ cb = "none" /\ pc = "accept_end"
  /\ pc' = "loop"
  /\ reqs_pending' = reqs_pending - 1
  /\ flags' = IF ~Open /\ reqs_pending = 1 THEN uv_want_endgame(flags) ELSE flags
  /\ UNCHANGED <<socket, delayed_error, activecnt, accept_reqs, accept_socket, success,
                 kernel, pending, pending_accepts, processed_accepts, cb, req, calls>>

\* uv_tcp_endgame frees the requests and calls the close callback.
uv_tcp_endgame ==
  /\ cb = "none" /\ pc = "loop"
  /\ "ENDGAME_QUEUED" \in flags
  /\ IF ~Open /\ reqs_pending = 0
     THEN /\ flags' = (flags \ {"ENDGAME_QUEUED"}) \cup {"CLOSED"}
          /\ accept_reqs' = FALSE
          /\ cb' = "close"
     ELSE flags' = flags \ {"ENDGAME_QUEUED"} /\ UNCHANGED <<accept_reqs, cb>>
  /\ UNCHANGED <<socket, delayed_error, activecnt, queueVars, pending_accepts,
                 processed_accepts, pc, req, calls>>

-----------------------------------------------------------------------------

UserCall ==
  \/ uv_tcp_listen \/ uv_tcp_accept \/ uv_tcp_simultaneous_accepts
  \/ uv_tcp_duplicate_socket \/ uv_tcp_close

uv_process_tcp_accept_req == AcceptFailed \/ Accepted \/ AcceptIgnored

HandlerStep == CallbackReturns \/ AcceptEnd

\* The kernel gives back a closed handle's requests.
SystemStep == ~Open /\ \E r \in AcceptReqs : KernelCompletes(r)

Next ==
  \/ UserCall \/ uv_process_tcp_accept_req \/ HandlerStep \/ uv_tcp_endgame
  \/ \E r \in AcceptReqs : KernelCompletes(r)

Spec == Init /\ [][Next]_vars

-----------------------------------------------------------------------------
(* Properties.                                                             *)

\* Every variable keeps its type, and the active count never goes below zero,
\* as handle-inl.h:38 asserts.
TypeOK ==
  /\ flags \subseteq Flags
  /\ {socket, delayed_error, accept_reqs} \subseteq BOOLEAN
  /\ activecnt \in Nat /\ reqs_pending \in Nat /\ calls \in Nat
  /\ accept_socket \in [AcceptReqs -> BOOLEAN] /\ success \in [AcceptReqs -> BOOLEAN]
  /\ kernel \subseteq AcceptReqs
  /\ pending \in Seq(AcceptReqs) /\ pending_accepts \in Seq(AcceptReqs)
  /\ processed_accepts \in 0..(SimultaneousAccepts - 1)
  /\ pc \in {"loop", "accept_end"} /\ cb \in {"none", "connection", "close"}
  /\ req \in AcceptReqs

\* reqs_pending counts the requests the kernel or the loop holds: the endgame
\* frees the array they live in when it reaches zero (tcp.c:239-266).
PendingCount ==
  reqs_pending = Cardinality(kernel) + Len(pending) + Bit(pc = "accept_end")

\* handle.rst:109-111: a handle is active "when it is doing something that
\* involves i/o, like [...] accepting new connections": here, exactly while it
\* listens, so that a failed or closed server does not keep the loop alive.
ActiveWhileListening == activecnt = Bit("LISTENING" \in flags)

\* An accept request is in one place at a time: with the kernel, in the
\* loop's queue or waiting for uv_accept, and whoever waits for uv_accept has
\* a socket to give (tcp.c:404, the assertion on accept_socket; tcp.c:700-710).
OnePlace ==
  /\ \A r \in AcceptReqs :
       Bit(r \in kernel) + Cardinality({i \in DOMAIN pending : pending[i] = r})
         + Cardinality({i \in DOMAIN pending_accepts : pending_accepts[i] = r}) <= 1
  /\ \A i \in DOMAIN pending_accepts : accept_socket[pending_accepts[i]]

\* A listening server is never deaf: outside the handler, some request is with
\* the kernel, in the loop's queue or waiting for uv_accept, also in the middle
\* of a change to a single accept (tcp.c:687-711).
StillAccepting ==
  "LISTENING" \in flags /\ pc = "loop"
    => kernel # {} \/ pending # <<>> \/ pending_accepts # <<>>

\* The comment at tcp.c:703-706: once all queued requests are processed, "We
\* now switch to queueing just a single accept".
SwitchesToSingle ==
  {"LISTENING", "SINGLE_ACCEPT"} \subseteq flags /\ "ACCEPT_STATE_CHANGING" \notin flags
    => Cardinality(kernel \cup Range(pending) \cup Range(pending_accepts)) <= 1

\* After uv_close the user hears of no more connections, even of one that was
\* accepted just before (tcp.c:1138-1160).
SilentAfterClose == cb = "none" /\ cb' = "connection" => "CLOSING" \notin flags

\* What is promised and outstanding: the close callback (handle.rst:130).
Owes == ~Open /\ "CLOSED" \notin flags

\* stream.rst:128-129: "When the uv_connection_cb callback is called it is
\* guaranteed that this function will complete successfully the first time":
\* uv_accept, which ends in the assertion at tcp.c:403 that the server listens.
AcceptSucceeds ==
  pending_accepts # <<>> /\ Open /\ "ACCEPT_STATE_CHANGING" \notin flags
    => "LISTENING" \in flags
=============================================================================
