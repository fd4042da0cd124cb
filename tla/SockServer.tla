----------------------------- MODULE SockServer -----------------------------
(***************************************************************************)
(* CTCPServer of libuv_socket (libuv_socket_server/src/UVSocket.cpp): the  *)
(* listening handle, the map of clients, and for each client its CSockData *)
(* with the handle and the one write request.  The loop's thread runs the  *)
(* callbacks; a thread of the user may send.                               *)
(***************************************************************************)
EXTENDS Integers, FiniteSets

CONSTANTS
  MaxClients,     \* bound: connections; the ids are 1, 2, ...
  MaxServerSends, \* bound: sends
  MaxServerStarts,\* bound: calls of Start
  SockFaults      \* "thread_sends", "sends_again", "accept_fails", "restarts"

VARIABLES
  h,        \* the object: isinit_, the listening handle, clients_list_
  kernel,   \* connections that wait, the last id
  pending,  \* CSockData of each id: "none", "alive", "closing", "freed"
  pc,       \* where the loop's thread and the user's thread are
  cb,       \* the user's callback that runs, for which client
  calls,    \* starts and sends so far
  hist      \* writes in flight per client, and what went wrong
vars == <<h, kernel, pending, pc, cb, calls, hist>>

May(f) == f \in SockFaults
Ids == 1..MaxClients
NoCb == [name |-> "none", id |-> 0]
Cb(name, id) == [name |-> name, id |-> id]

Init ==
  /\ h = [isinit |-> FALSE, server |-> "none", list |-> {}, reading |-> {}]
  /\ kernel = [waiting |-> 0, id |-> 0]
  /\ pending = [i \in Ids |-> "none"]
  /\ pc = [loop |-> "user", user |-> 0] /\ cb = NoCb
  /\ calls = [starts |-> 0, sends |-> 0]
  /\ hist = [inflight |-> [i \in Ids |-> 0], wrong |-> {}]

Wrong(cond, what) == IF cond THEN {what} ELSE {}

-----------------------------------------------------------------------------
(* Start, close and the list.                                              *)

\* close: every client's handle, then the listening one.
ClosedAll ==
  [i \in Ids |-> IF i \in h.list THEN "closing" ELSE pending[i]]

closed(s) ==
  [s EXCEPT !.list = {}, !.reading = @ \ s.list, !.isinit = FALSE,
            !.server = IF s.isinit THEN "closing" ELSE @]

init(s) == [s EXCEPT !.isinit = TRUE, !.server = "open"]

\* bind and listen, which both may fail.
Bound(s) == {s, [s EXCEPT !.server = "listening"]}

\* What went before a failure stays.
Start ==
  /\ pc.loop = "user" /\ calls.starts < MaxServerStarts
  /\ h.server \in {"none", "closed"} \/ May("restarts")
  /\ calls' = [calls EXCEPT !.starts = @ + 1]
  /\ \E s \in Bound(init(closed(h))) :
       h' = s /\ pc' = IF s.server = "listening" THEN [pc EXCEPT !.loop = "runs"] ELSE pc
  /\ pending' = ClosedAll
  /\ hist' = [hist EXCEPT !.wrong = @ \cup Wrong(closed(h).server = "closing", "init_while_closing")]
  /\ UNCHANGED <<kernel, cb>>

\* From a callback, or after Start has returned.
close ==
  /\ pc.loop = "user" \/ cb # NoCb
  /\ h.isinit /\ pc.user = 0
  /\ h' = closed(h) /\ pending' = ClosedAll
  /\ UNCHANGED <<kernel, pc, cb, calls, hist>>

\* uv_run ends when all handles are closed; somebody runs the loop again if
\* close was called outside of it.
RunAgain ==
  /\ pc.loop = "user" /\ (h.server = "closing" \/ \E i \in Ids : pending[i] = "closing")
  /\ pc' = [pc EXCEPT !.loop = "runs"]
  /\ UNCHANGED <<h, kernel, pending, cb, calls, hist>>

RunEnds ==
  /\ pc.loop = "runs" /\ cb = NoCb /\ h.server \in {"none", "closed", "open"}
  /\ \A i \in Ids : pending[i] \notin {"closing"} /\ i \notin h.reading /\ hist.inflight[i] = 0
  /\ pc' = [pc EXCEPT !.loop = "user"]
  /\ UNCHANGED <<h, kernel, pending, cb, calls, hist>>

KeepsInList(id) == h' = [h EXCEPT !.reading = @ \ {id}]

\* DeleteClient, with the mutex, in the loop's thread only.
DeleteClient(id) == h' = [h EXCEPT !.reading = @ \ {id}, !.list = @ \ {id}]

-----------------------------------------------------------------------------
(* Callbacks of the loop.                                                  *)

\* Unless "thread_sends", the application keeps the loop from running while a
\* thread of its own sends.
Runs == pc.loop = "runs" /\ cb = NoCb /\ (pc.user = 0 \/ May("thread_sends"))

\* acceptConnection: a new CSockData; when uv_accept fails its handle is
\* closed without a callback and its memory freed at once.
acceptConnection ==
  /\ Runs /\ h.server = "listening" /\ kernel.waiting > 0
  /\ LET id == kernel.id + 1
     IN  /\ kernel' = [waiting |-> kernel.waiting - 1, id |-> id]
         /\ \E ok \in IF May("accept_fails") THEN BOOLEAN ELSE {TRUE} :
              IF ok
              THEN /\ pending' = [pending EXCEPT ![id] = "alive"]
                   /\ h' = [h EXCEPT !.list = @ \cup {id}]
                   /\ cb' = Cb("newconcb", id) /\ UNCHANGED hist
              ELSE /\ pending' = [pending EXCEPT ![id] = "freed"]
                   /\ hist' = [hist EXCEPT !.wrong = @ \cup {"freed_while_closing"}]
                   /\ UNCHANGED <<h, cb>>
  /\ UNCHANGED <<pc, calls>>

\* The end of acceptConnection: uv_read_start, its result is not looked at.
NewconcbReturns ==
  /\ cb.name = "newconcb" /\ cb' = NoCb
  /\ \E reads \in BOOLEAN :
       h' = IF pending[cb.id] = "alive" /\ reads THEN [h EXCEPT !.reading = @ \cup {cb.id}] ELSE h
  /\ UNCHANGED <<kernel, pending, pc, calls, hist>>

\* AfterServerRecv: data for the user's callback, or the end of the client.
AfterServerRecv(id) ==
  /\ Runs /\ id \in h.reading
  /\ \/ cb' = Cb("recvcb", id) /\ UNCHANGED <<h, pending>>
     \/ DeleteClient(id) /\ pending' = [pending EXCEPT ![id] = "closing"] /\ UNCHANGED cb
  /\ UNCHANGED <<kernel, pc, calls, hist>>

RecvcbReturns ==
  /\ cb.name = "recvcb" /\ cb' = NoCb
  /\ UNCHANGED <<h, kernel, pending, pc, calls, hist>>

\* The close callback comes after those of the writes.
ClosesLast(id) == Runs /\ pending[id] = "closing" /\ hist.inflight[id] = 0

AfterClientClose(id) ==
  /\ ClosesLast(id)
  /\ pending' = [pending EXCEPT ![id] = "freed"]
  /\ UNCHANGED <<h, kernel, pc, cb, calls, hist>>

AfterServerClose ==
  /\ Runs /\ h.server = "closing" /\ h' = [h EXCEPT !.server = "closed"]
  /\ UNCHANGED <<kernel, pending, pc, cb, calls, hist>>

AfterSend(id) ==
  /\ Runs /\ hist.inflight[id] > 0
  /\ hist' = [hist EXCEPT !.inflight[id] = @ - 1]
  /\ UNCHANGED <<h, kernel, pending, pc, cb, calls>>

-----------------------------------------------------------------------------
(* send: looks the client up, then copies into its buffer and writes with  *)
(* its request, without the mutex.                                         *)

Written(id) ==
  [hist EXCEPT !.inflight[id] = IF pending[id] = "alive" THEN @ + 1 ELSE @,
               !.wrong = @ \cup Wrong(hist.inflight[id] > 0, "request_reused")
                           \cup Wrong(pending[id] = "freed", "used_after_free")]

\* In a callback of the loop's thread.
send(id) ==
  /\ cb # NoCb /\ id \in h.list /\ calls.sends < MaxServerSends
  /\ hist.inflight[id] = 0 \/ May("sends_again")
  /\ calls' = [calls EXCEPT !.sends = @ + 1] /\ hist' = Written(id)
  /\ UNCHANGED <<h, kernel, pending, pc, cb>>

\* In a thread of the user: the loop may go on between the two steps.
ThreadFinds(id) ==
  /\ pc.user = 0 /\ id \in h.list /\ calls.sends < MaxServerSends
  /\ pc.loop = "runs" /\ cb = NoCb
  /\ hist.inflight[id] = 0
  /\ calls' = [calls EXCEPT !.sends = @ + 1] /\ pc' = [pc EXCEPT !.user = id]
  /\ UNCHANGED <<h, kernel, pending, cb, hist>>

ThreadWrites ==
  /\ pc.user # 0 /\ hist' = Written(pc.user) /\ pc' = [pc EXCEPT !.user = 0]
  /\ UNCHANGED <<h, kernel, pending, cb, calls>>

ClientConnects ==
  /\ h.server = "listening" /\ kernel.waiting + kernel.id < MaxClients
  /\ kernel' = [kernel EXCEPT !.waiting = @ + 1]
  /\ UNCHANGED <<h, pending, pc, cb, calls, hist>>

UserCall == Start \/ close \/ \E id \in Ids : send(id) \/ ThreadFinds(id)
HandlerStep == NewconcbReturns \/ RecvcbReturns \/ RunEnds \/ ThreadWrites
ProcessReq ==
  \/ acceptConnection \/ AfterServerClose \/ RunAgain
  \/ \E id \in Ids : AfterClientClose(id) \/ AfterSend(id)
Network == ClientConnects \/ \E id \in Ids : AfterServerRecv(id)

Next == UserCall \/ HandlerStep \/ ProcessReq \/ Network

-----------------------------------------------------------------------------
(* Properties.                                                             *)

\* The map holds the clients whose handle is open, no other and all of them;
\* only such a client reads.
PendingExact ==
  /\ h.list = {i \in Ids : pending[i] = "alive"}
  /\ h.reading \subseteq h.list

\* A CSockData is freed once its handle is closed and its write has ended; a
\* request is in flight once; nothing is used after it was freed.
Sane == hist.wrong = {}

\* A client that closes is freed; a write ends; a connection is accepted.
Owes ==
  \/ \E i \in Ids : pending[i] = "closing" \/ hist.inflight[i] > 0
  \/ kernel.waiting > 0 /\ h.server = "listening" /\ pc.loop = "runs"
=============================================================================
