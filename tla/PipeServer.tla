----------------------------- MODULE PipeServer -----------------------------
(***************************************************************************)
(* A pipe handle that listens (win/pipe.c): one accept request per pipe    *)
(* instance.  A request is with the system, in the queue of requests that  *)
(* came back, on the stack of connections the user has not accepted, or    *)
(* nowhere.                                                                *)
(***************************************************************************)
EXTENDS UvHandle, TLC

CONSTANTS
  Instances,         \* the number uv_pipe_pending_instances sets, or the default
  MaxPipeServerCalls,
  MaxPipeServerFails,
  ListensAgain,      \* TRUE if the user calls uv_listen twice
  ClosesUnbound,     \* TRUE if it closes a handle after pending_instances without bind
  AcceptsClosing     \* TRUE if it accepts from a server it has closed

VARIABLES h, kernel, pending, pc, cb, calls, hist
vars == <<h, kernel, pending, pc, cb, calls, hist>>

Accepts == 1..Instances

\* pipe[i]: accept_reqs[i].pipeHandle is valid.
Init ==
  /\ h = uv__handle_init @@ [accept_reqs |-> FALSE, pipe |-> [i \in Accepts |-> FALSE],
                             handle |-> FALSE, pending_accepts |-> <<>>]
  /\ kernel = {} /\ pending = <<>> /\ pc = [at |-> "loop"] /\ cb = "none" /\ calls = 0
  /\ hist = [fails |-> 0, clients |-> 0, invalid |-> 0]

At(p) == cb = "none" /\ pc.at = p

User ==
  /\ cb # "none" \/ At("loop")
  /\ calls < MaxPipeServerCalls /\ calls' = calls + 1
  /\ UNCHANGED <<pc, cb>>

Fail == hist.fails < MaxPipeServerFails /\ hist' = [hist EXCEPT !.fails = @ + 1]

uv_pipe_pending_instances ==
  /\ User
  /\ ~Is(h, "BOUND") /\ ~Is(h, "PIPESERVER") /\ ~Is(h, "CLOSING")
  /\ h' = Set(h, {"PIPESERVER"})
  /\ UNCHANGED <<kernel, pending, hist>>

\* uv_pipe_bind: the first instance is made; if that fails the requests stay.
uv_pipe_bind ==
  /\ User
  /\ ~Is(h, "BOUND") /\ ~Is(h, "CLOSING")
  /\ LET p == [h EXCEPT !.accept_reqs = TRUE]
     IN  \/ /\ h' = Set([p EXCEPT !.pipe[1] = TRUE, !.handle = TRUE], {"PIPESERVER", "BOUND"})
            /\ UNCHANGED hist
         \/ Fail /\ h' = p
  /\ UNCHANGED <<kernel, pending>>

\* uv_pipe_queue_accept of request i: all but the first make their instance.
\* res says how it goes: the system has it, a client was there already, or it
\* fails; a failure is queued too, to be tried again.
QueueAccept(p, i, res) ==
  INCREASE_PENDING([p EXCEPT !.pipe[i] = res # "fails"])

QueuedBack(is, res) ==
  LET order == SelectSeq([i \in Accepts |-> i], LAMBDA i : i \in is /\ res[i] # "kernel")
  IN  [j \in DOMAIN order |-> [i |-> order[j], ok |-> res[order[j]] = "now"]]

Results(n) == {r \in [Accepts -> {"kernel", "now", "fails"}] :
                 Cardinality({i \in Accepts : r[i] = "fails"}) <= n}

\* uv_pipe_listen.
uv_pipe_listen ==
  /\ User
  /\ Is(h, "BOUND") /\ ~Is(h, "CLOSING")
  /\ ListensAgain \/ ~Is(h, "LISTENING")
  /\ \E res \in Results(MaxPipeServerFails - hist.fails) :
       /\ h' = [INCREASE_ACTIVE_COUNT(Set(h, {"LISTENING"}))
                  EXCEPT !.reqs_pending = @ + Instances,
                         !.pipe = [i \in Accepts |-> res[i] # "fails"]]
       /\ kernel' = kernel \cup {i \in Accepts : res[i] = "kernel"}
       /\ pending' = pending \o QueuedBack(Accepts, res)
       /\ hist' = [hist EXCEPT !.fails = @ + Cardinality({i \in Accepts : res[i] = "fails"})]

\* One request is queued again, on behalf of the handle p.
Again(p, i) ==
  \/ h' = QueueAccept(p, i, "kernel") /\ kernel' = kernel \cup {i} /\ UNCHANGED pending
  \/ /\ h' = QueueAccept(p, i, "now") /\ UNCHANGED kernel
     /\ pending' = Append(pending, [i |-> i, ok |-> TRUE])
  \/ /\ hist.fails < MaxPipeServerFails
     /\ h' = QueueAccept(p, i, "fails") /\ UNCHANGED kernel
     /\ pending' = Append(pending, [i |-> i, ok |-> FALSE])

\* The client takes the instance over.
GivesAway(p, i) == [p EXCEPT !.pending_accepts = Tail(@), !.pipe[i] = FALSE]

\* uv_pipe_accept: the connection that came last is accepted first.
uv_pipe_accept ==
  /\ User
  /\ h.pending_accepts # <<>> /\ ~Is(h, "CLOSED")
  /\ AcceptsClosing \/ ~Is(h, "CLOSING")
  /\ LET i == Head(h.pending_accepts)
         p == GivesAway(h, i)
         after == [hist EXCEPT !.clients = @ + Bit(h.pipe[i]), !.invalid = @ + Bit(~h.pipe[i])]
     IN  IF Is(h, "CLOSING") THEN h' = p /\ hist' = after /\ UNCHANGED <<kernel, pending>>
         ELSE /\ Again(p, i)
              /\ hist' = [after EXCEPT !.fails = @ + Bit(kernel' = kernel /\ ~h'.pipe[i])]

\* uv_pipe_close and uv_pipe_cleanup: every instance is closed, which makes the
\* requests come back.  Where accept_reqs was never allocated, it is NULL.
uv_pipe_close ==
  /\ User
  /\ ~Is(h, "CLOSING")
  /\ ClosesUnbound \/ (Is(h, "PIPESERVER") => h.accept_reqs)
  /\ LET p == IF Is(h, "LISTENING") THEN DECREASE_ACTIVE_COUNT(Clear(h, {"LISTENING"})) ELSE h
         q == IF Is(p, "PIPESERVER")
              THEN [p EXCEPT !.pipe = [i \in Accepts |-> FALSE], !.handle = FALSE] ELSE p
     IN  h' = uv__handle_closing(EndgameIfIdle(q))
  /\ hist' = [hist EXCEPT !.invalid = @ + Bit(Is(h, "PIPESERVER") /\ ~h.accept_reqs)]
  /\ UNCHANGED <<kernel, pending>>

\* A client connects, or the system gives up.
KernelCompletes(i) ==
  /\ i \in kernel
  /\ kernel' = kernel \ {i}
  /\ \/ /\ pending' = Append(pending, [i |-> i, ok |-> h.pipe[i]]) /\ UNCHANGED hist
     \/ /\ h.pipe[i] /\ Fail
        /\ pending' = Append(pending, [i |-> i, ok |-> FALSE])
  /\ UNCHANGED <<h, pc, cb, calls>>

\* uv_process_pipe_accept_req.  The decrement comes after the callback.
uv_process_pipe_accept_req ==
  /\ At("loop") /\ pending # <<>>
  /\ LET i == Head(pending).i
     IN  IF Is(h, "CLOSING")
         THEN /\ h' = DECREASE_PENDING_REQ_COUNT(h)
              /\ pending' = Tail(pending)
              /\ UNCHANGED <<kernel, pc, cb, hist>>
         ELSE IF Head(pending).ok
         THEN /\ h' = [h EXCEPT !.pending_accepts = <<i>> \o @]
              /\ cb' = "connection" /\ pc' = [at |-> "req_end"]
              /\ pending' = Tail(pending)
              /\ UNCHANGED <<kernel, hist>>
         ELSE \* pipe.c:1765-1773: the instance is closed and made again
              LET p == DECREASE_PENDING_REQ_COUNT([h EXCEPT !.pipe[i] = FALSE])
              IN  /\ \/ h' = QueueAccept(p, i, "kernel") /\ kernel' = kernel \cup {i}
                        /\ pending' = Tail(pending) /\ UNCHANGED hist
                     \/ h' = QueueAccept(p, i, "now")
                        /\ pending' = Append(Tail(pending), [i |-> i, ok |-> TRUE])
                        /\ UNCHANGED <<kernel, hist>>
                     \/ h' = QueueAccept(p, i, "fails") /\ Fail
                        /\ pending' = Append(Tail(pending), [i |-> i, ok |-> FALSE])
                        /\ UNCHANGED kernel
                  /\ UNCHANGED <<pc, cb>>
  /\ UNCHANGED calls

ReqEnd ==
  /\ At("req_end")
  /\ h' = DECREASE_PENDING_REQ_COUNT(h) /\ pc' = [at |-> "loop"]
  /\ UNCHANGED <<kernel, pending, cb, calls, hist>>

CallbackReturns ==
  /\ cb # "none"
  /\ cb' = "none"
  /\ UNCHANGED <<h, kernel, pending, pc, calls, hist>>

\* uv_pipe_endgame of a server, with its assertion on accept_reqs.
uv_pipe_endgame ==
  /\ At("loop") /\ Is(h, "ENDGAME_QUEUED")
  /\ LET p == Clear(h, {"ENDGAME_QUEUED"})
     IN  IF ~(Is(p, "CLOSING") /\ p.reqs_pending = 0) THEN h' = p /\ UNCHANGED <<pc, cb>>
         ELSE IF Is(p, "PIPESERVER") /\ ~p.accept_reqs
         THEN pc' = [at |-> "aborted"] /\ UNCHANGED <<h, cb>>
         ELSE /\ h' = uv__handle_close([p EXCEPT !.accept_reqs = @ /\ ~Is(p, "PIPESERVER")])
              /\ cb' = "close" /\ UNCHANGED pc
  /\ UNCHANGED <<kernel, pending, calls, hist>>

UserCall ==
  uv_pipe_pending_instances \/ uv_pipe_bind \/ uv_pipe_listen \/ uv_pipe_accept \/ uv_pipe_close
HandlerStep == ReqEnd \/ CallbackReturns

ProcessReq == uv_process_pipe_accept_req
Endgame == uv_pipe_endgame
SystemStep == \E i \in kernel : ~h.pipe[i] /\ KernelCompletes(i)

Next ==
  \/ UserCall \/ HandlerStep \/ uv_process_pipe_accept_req \/ uv_pipe_endgame
  \/ \E i \in Accepts : KernelCompletes(i)

-----------------------------------------------------------------------------
(* Properties.                                                             *)

Places(i) == Bit(i \in kernel) + Cardinality({j \in DOMAIN pending : pending[j].i = i})

\* Every accept request that is out is counted, and is out once.
PendingExact ==
  /\ h.reqs_pending = Cardinality(kernel) + Len(pending) + Bit(pc.at = "req_end")
  /\ \A i \in Accepts : Places(i) <= 1
  /\ Is(h, "CLOSED") => \A i \in Accepts : ~h.pipe[i] /\ Places(i) = 0

ActiveExact == LoopKnows(h) /\ h.activecnt = Bit(Is(h, "LISTENING"))

\* No instance gets lost: while the handle listens each of its requests is out
\* or waits to be accepted, with a pipe of its own; a client that was accepted
\* got a pipe, and nothing is read through a NULL accept_reqs (pipe.c:722-728,
\* 757-761, 772-833, 1740-1773).
Armed ==
  /\ Is(h, "LISTENING") =>
       \A i \in Accepts :
         LET stacked == Cardinality({j \in DOMAIN h.pending_accepts : h.pending_accepts[j] = i})
         IN  Places(i) + stacked = 1 /\ (stacked = 1 => h.pipe[i])
  /\ hist.invalid = 0
  /\ pc.at # "aborted"

\* What is promised and outstanding: the close callback of a closed handle.
Owes ==
  Is(h, "CLOSING") /\ ~Is(h, "CLOSED")
=============================================================================
