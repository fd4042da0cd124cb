-------------------------- MODULE ComponentProofs --------------------------
(***************************************************************************)
(* What is proved of the parts of the library on Windows that Components   *)
(* looks at one by one, in the manner of ProgramProofs: the handles - UDP, *)
(* poll handles, signal handles, those that poll a file or watch a         *)
(* directory, pipes that a thread reads - and the requests of the file     *)
(* system. For each of them an inductive invariant is stated and shown to  *)
(* hold at the start and to be kept by every step, and the counters, the   *)
(* armed requests and the silence of Components follow from it.            *)
(*                                                                         *)
(* The handles share the first part: what the operations of handle-inl.h   *)
(* make of the fields of a handle, and what a queue does that holds a      *)
(* request once at most.  Every invariant says of the handle that it is    *)
(* active exactly for what it still has to do, that the loop counts it     *)
(* exactly while it is active or closing, and of each request that it is   *)
(* with the system or in the queue, once, and counted.                     *)
(***************************************************************************)
EXTENDS ProgramProofs, UvHandle

CONSTANTS
  Sends, MaxUdpCalls, RestartsReceive, PollEvents, MaxPollCalls, MaxPollErrors,
  SignalHandles, MaxSignalCalls, MaxRaised, ClosesSignaled, MaxStarts,
  MaxFsPollCalls, MaxChanges,
  MaxBatch, MaxFsEventCalls, MaxFails, StopsInCallback, RestartsBusy, DirFails,
  MaxReadCalls, MaxArrivals, ShutsDownReading, ClosesReading, DupFails,
  MaxFsCalls, MaxEntries, FsFaults

Ud == INSTANCE Udp
Po == INSTANCE PollHandle
Si == INSTANCE Signal WITH tree <- kernel, dispatch <- hist, port <- pending
Fp == INSTANCE FsPoll WITH ctx <- kernel, file <- pending, told <- hist
Fe == INSTANCE FsEvent
Pr == INSTANCE PipeRead
Fr == INSTANCE FsReq

\* The receive of a UDP handle is not one of the user's sends.
ASSUME SendsAssumption == "recv" \notin Sends

\* uv.h:718-722: the events there are.
ASSUME PollEventsAssumption == PollEvents \subseteq {"READABLE", "WRITABLE", "DISCONNECT"}

\* A loop has finitely many signal handles; the other values say where the
\* control thread is.
ASSUME SignalHandlesAssumption ==
  IsFiniteSet(SignalHandles) /\ SignalHandles \cap {"idle", "next"} = {}

\* A bound: the entries of the directory that scandir reads.
ASSUME EntriesAssumption == MaxEntries \in Nat

-----------------------------------------------------------------------------
(* The operations on a handle: what they make of its fields.               *)

BaseFields == {"flags", "activecnt", "reqs_pending", "active_reqs", "active_handles"}

\* A record with at least these fields.
IsRecord(u, fields) == u = [x \in DOMAIN u |-> u[x]] /\ fields \subseteq DOMAIN u

IsHandle(u) ==
  /\ IsRecord(u, BaseFields)
  /\ u.activecnt \in Int /\ u.reqs_pending \in Int /\ u.active_handles \in Int

\* v is u but for these fields.
Changes(u, v, fields) ==
  /\ v = [x \in DOMAIN v |-> v[x]] /\ DOMAIN v = DOMAIN u
  /\ \A x \in DOMAIN u : x \in fields \/ v[x] = u[x]

Active(u) == "ACTIVE" \in u.flags


\* Flags are set (uv__handle flags |= f); nothing else of a handle changes.
LEMMA Setting ==
  ASSUME NEW u, IsHandle(u), NEW F
  PROVE  IsHandle(Set(u, F)) /\ Changes(u, Set(u, F), {"flags"}) /\ Set(u, F).flags = u.flags \cup F
BY DEF IsHandle, IsRecord, BaseFields, Changes, Set

\* Flags are cleared; nothing else of a handle changes.
LEMMA Clearing ==
  ASSUME NEW u, IsHandle(u), NEW F
  PROVE  IsHandle(Clear(u, F)) /\ Changes(u, Clear(u, F), {"flags"}) /\ Clear(u, F).flags = u.flags \ F
BY DEF IsHandle, IsRecord, BaseFields, Changes, Clear

\* uv__handle_start: the loop counts the handle when it becomes active.
LEMMA Starting ==
  ASSUME NEW u, IsHandle(u), NEW v, v = uv__handle_start(u)
  PROVE  /\ IsHandle(v) /\ Changes(u, v, {"flags", "active_handles"})
         /\ v.flags = u.flags \cup {"ACTIVE"}
         /\ v.active_handles = u.active_handles + Bit(~Active(u))
<1>1. CASE Active(u)
  BY <1>1 DEF IsHandle, IsRecord, Changes, uv__handle_start, Is, Bit, Active
<1>2. CASE ~Active(u)
  <2>1. PICK s : s = Set(u, {"ACTIVE"})
    OBVIOUS
  <2>2. v = [s EXCEPT !.active_handles = s.active_handles + 1]
    BY <1>2, <2>1 DEF uv__handle_start, Is, Active
  <2>3. /\ IsHandle(s) /\ Changes(u, s, {"flags"}) /\ s.flags = u.flags \cup {"ACTIVE"}
    BY <2>1, Setting
  <2> QED
    BY <1>2, <2>2, <2>3 DEF IsHandle, IsRecord, BaseFields, Changes, Bit
<1> QED
  BY <1>1, <1>2

\* uv__handle_stop: the loop no longer counts a handle that was active.
LEMMA Stopping ==
  ASSUME NEW u, IsHandle(u), NEW v, v = uv__handle_stop(u)
  PROVE  /\ IsHandle(v) /\ Changes(u, v, {"flags", "active_handles"})
         /\ v.flags = u.flags \ {"ACTIVE"}
         /\ v.active_handles = u.active_handles - Bit(Active(u))
<1>1. CASE ~Active(u)
  BY <1>1 DEF IsHandle, IsRecord, Changes, uv__handle_stop, Is, Bit, Active
<1>2. CASE Active(u)
  <2>1. PICK s : s = Clear(u, {"ACTIVE"})
    OBVIOUS
  <2>2. v = [s EXCEPT !.active_handles = s.active_handles - 1]
    BY <1>2, <2>1 DEF uv__handle_stop, Is, Active
  <2>3. /\ IsHandle(s) /\ Changes(u, s, {"flags"}) /\ s.flags = u.flags \ {"ACTIVE"}
    BY <2>1, Clearing
  <2> QED
    BY <1>2, <2>2, <2>3 DEF IsHandle, IsRecord, BaseFields, Changes, Bit
<1> QED
  BY <1>1, <1>2

\* uv__handle_closing: a handle that closes is counted, active or not.
LEMMA Closing ==
  ASSUME NEW u, IsHandle(u), NEW v, v = uv__handle_closing(u)
  PROVE  /\ IsHandle(v) /\ Changes(u, v, {"flags", "active_handles"})
         /\ v.flags = (u.flags \ {"ACTIVE"}) \cup {"CLOSING"}
         /\ v.active_handles = u.active_handles + Bit(~Active(u))
<1>1. PICK c, s : c = Clear(u, {"ACTIVE"}) /\ s = Set(c, {"CLOSING"})
  OBVIOUS
<1>2. v = [s EXCEPT !.active_handles = s.active_handles + Bit(~Active(u))]
  BY <1>1 DEF uv__handle_closing, Is, Active
<1>3. IsHandle(c) /\ Changes(u, c, {"flags"}) /\ c.flags = u.flags \ {"ACTIVE"}
  BY <1>1, Clearing
<1>4. IsHandle(s) /\ Changes(c, s, {"flags"}) /\ s.flags = c.flags \cup {"CLOSING"}
  BY <1>1, <1>3, Setting
<1> QED
  BY <1>2, <1>3, <1>4 DEF IsHandle, IsRecord, BaseFields, Changes, Bit

\* uv__handle_close: the close callback is made and the handle counted no more.
LEMMA Closed ==
  ASSUME NEW u, IsHandle(u), NEW v, v = uv__handle_close(u)
  PROVE  /\ IsHandle(v) /\ Changes(u, v, {"flags", "active_handles"})
         /\ v.flags = u.flags \cup {"CLOSED"}
         /\ v.active_handles = u.active_handles - 1
<1>1. PICK s : s = Set(u, {"CLOSED"})
  OBVIOUS
<1>2. v = [s EXCEPT !.active_handles = s.active_handles - 1]
  BY <1>1 DEF uv__handle_close
<1>3. IsHandle(s) /\ Changes(u, s, {"flags"}) /\ s.flags = u.flags \cup {"CLOSED"}
  BY <1>1, Setting
<1> QED
  BY <1>2, <1>3 DEF IsHandle, IsRecord, BaseFields, Changes

\* INCREASE_ACTIVE_COUNT: the first activity makes the handle active.
LEMMA ActiveCountUp ==
  ASSUME NEW u, IsHandle(u), NEW v, v = INCREASE_ACTIVE_COUNT(u)
  PROVE  /\ IsHandle(v) /\ Changes(u, v, {"flags", "activecnt", "active_handles"})
         /\ v.activecnt = u.activecnt + 1
         /\ v.flags = IF u.activecnt = 0 THEN u.flags \cup {"ACTIVE"} ELSE u.flags
         /\ v.active_handles = u.active_handles + Bit(u.activecnt = 0 /\ ~Active(u))
<1>1. PICK g : g = [u EXCEPT !.activecnt = @ + 1]
  OBVIOUS
<1>2. IsHandle(g) /\ Changes(u, g, {"activecnt"}) /\ g.activecnt = u.activecnt + 1
  BY <1>1 DEF IsHandle, IsRecord, BaseFields, Changes
<1>3. v = IF u.activecnt = 0 THEN uv__handle_start(g) ELSE g
  BY <1>1 DEF INCREASE_ACTIVE_COUNT
<1>4. CASE u.activecnt = 0
  BY <1>2, <1>3, <1>4, Starting DEF IsHandle, IsRecord, BaseFields, Changes, Bit, Active
<1>5. CASE u.activecnt # 0
  BY <1>2, <1>3, <1>5 DEF IsHandle, IsRecord, BaseFields, Changes, Bit, Active
<1> QED
  BY <1>4, <1>5

\* DECREASE_ACTIVE_COUNT: the last activity makes it inactive, unless it
\* closes.
LEMMA ActiveCountDown ==
  ASSUME NEW u, IsHandle(u), NEW v, v = DECREASE_ACTIVE_COUNT(u)
  PROVE  /\ IsHandle(v) /\ Changes(u, v, {"flags", "activecnt", "active_handles"})
         /\ v.activecnt = u.activecnt - 1
         /\ v.flags = IF u.activecnt = 1 /\ "CLOSING" \notin u.flags
                      THEN u.flags \ {"ACTIVE"} ELSE u.flags
         /\ v.active_handles = u.active_handles
              - Bit(u.activecnt = 1 /\ "CLOSING" \notin u.flags /\ Active(u))
<1>1. PICK g : g = [u EXCEPT !.activecnt = @ - 1]
  OBVIOUS
<1>2. IsHandle(g) /\ Changes(u, g, {"activecnt"}) /\ g.activecnt = u.activecnt - 1
  BY <1>1 DEF IsHandle, IsRecord, BaseFields, Changes
<1>3. v = IF g.activecnt = 0 /\ "CLOSING" \notin u.flags THEN uv__handle_stop(g) ELSE g
  BY <1>1 DEF DECREASE_ACTIVE_COUNT, Is
<1>4. g.activecnt = 0 <=> u.activecnt = 1
  BY <1>2 DEF IsHandle, IsRecord, BaseFields
<1>5. CASE u.activecnt = 1 /\ "CLOSING" \notin u.flags
  BY <1>2, <1>3, <1>4, <1>5, Stopping DEF IsHandle, IsRecord, BaseFields, Changes, Bit, Active
<1>6. CASE ~(u.activecnt = 1 /\ "CLOSING" \notin u.flags)
  BY <1>2, <1>3, <1>4, <1>6 DEF IsHandle, IsRecord, BaseFields, Changes, Bit, Active
<1> QED
  BY <1>5, <1>6

\* INCREASE_PENDING: one more request is with the system or the loop.
LEMMA PendingUp ==
  ASSUME NEW u, IsHandle(u), NEW v, v = INCREASE_PENDING(u)
  PROVE  /\ IsHandle(v) /\ Changes(u, v, {"reqs_pending"})
         /\ v.reqs_pending = u.reqs_pending + 1
BY DEF IsHandle, IsRecord, BaseFields, Changes, INCREASE_PENDING

\* DECREASE_PENDING_REQ_COUNT: one less, and the last one of a handle that
\* closes calls for the endgame.
LEMMA PendingDown ==
  ASSUME NEW u, IsHandle(u), NEW v, v = DECREASE_PENDING_REQ_COUNT(u)
  PROVE  /\ IsHandle(v) /\ Changes(u, v, {"flags", "reqs_pending"})
         /\ v.reqs_pending = u.reqs_pending - 1
         /\ v.flags = IF "CLOSING" \in u.flags /\ u.reqs_pending = 1
                      THEN u.flags \cup {"ENDGAME_QUEUED"} ELSE u.flags
<1>1. PICK g : g = [u EXCEPT !.reqs_pending = @ - 1]
  OBVIOUS
<1>2. IsHandle(g) /\ Changes(u, g, {"reqs_pending"}) /\ g.reqs_pending = u.reqs_pending - 1
  BY <1>1 DEF IsHandle, IsRecord, BaseFields, Changes
<1>3. v = IF "CLOSING" \in u.flags /\ g.reqs_pending = 0 THEN Set(g, {"ENDGAME_QUEUED"}) ELSE g
  BY <1>1 DEF DECREASE_PENDING_REQ_COUNT, Is, uv_want_endgame
<1>4. g.reqs_pending = 0 <=> u.reqs_pending = 1
  BY <1>2 DEF IsHandle, IsRecord, BaseFields
<1>5. CASE "CLOSING" \in u.flags /\ u.reqs_pending = 1
  BY <1>2, <1>3, <1>4, <1>5, Setting DEF IsHandle, IsRecord, BaseFields, Changes
<1>6. CASE ~("CLOSING" \in u.flags /\ u.reqs_pending = 1)
  BY <1>2, <1>3, <1>4, <1>6 DEF IsHandle, IsRecord, BaseFields, Changes
<1> QED
  BY <1>5, <1>6

-----------------------------------------------------------------------------
(* Queues of requests.                                                     *)

\* The requests of a queue, and that none is in it twice.
Reqs(q) == {q[i].req : i \in 1..Len(q)}
Distinct(q) == \A i, j \in 1..Len(q) : q[i].req = q[j].req => i = j

\* An empty queue.
LEMMA NothingQueued ==
  ASSUME NEW S
  PROVE  <<>> \in Seq(S) /\ Len(<<>>) = 0 /\ Reqs(<<>>) = {} /\ Distinct(<<>>)
<1>1. PICK w : w = <<>>
  OBVIOUS
<1>2. w \in Seq(S) /\ Len(w) = 0
  BY <1>1, EmptySeq
<1>3. 1..Len(w) = {}
  BY <1>2
<1>4. Reqs(w) = {} /\ Distinct(w)
  BY <1>3 DEF Reqs, Distinct
<1> QED
  BY <1>1, <1>2, <1>4

\* A request is queued once if it was not queued before.
LEMMA ReqAppended ==
  ASSUME NEW S, NEW q \in Seq(S), NEW e \in S
  PROVE  /\ Append(q, e) \in Seq(S)
         /\ Len(q) \in Nat /\ Len(Append(q, e)) = Len(q) + 1
         /\ Reqs(Append(q, e)) = Reqs(q) \cup {e.req}
         /\ Distinct(q) /\ e.req \notin Reqs(q) => Distinct(Append(q, e))
<1>1. PICK w : w = Append(q, e)
  OBVIOUS
<1>2. /\ w \in Seq(S) /\ Len(q) \in Nat /\ Len(w) = Len(q) + 1
      /\ \A i \in 1..Len(q) : w[i] = q[i]
      /\ w[Len(q) + 1] = e
  BY <1>1, AppendProperties, LenProperties
<1>3. 1..Len(w) = 1..Len(q) \cup {Len(q) + 1}
  BY <1>2
<1>4. Reqs(w) = Reqs(q) \cup {e.req}
  BY <1>2, <1>3 DEF Reqs
<1>5. ASSUME Distinct(q), e.req \notin Reqs(q) PROVE Distinct(w)
  BY <1>2, <1>3, <1>5 DEF Reqs, Distinct
<1> QED
  BY <1>1, <1>2, <1>4, <1>5

\* The first request is taken.
LEMMA ReqTaken ==
  ASSUME NEW S, NEW q \in Seq(S), q # <<>>
  PROVE  /\ Head(q) \in S /\ Tail(q) \in Seq(S)
         /\ Len(q) \in Nat /\ Len(q) > 0 /\ Len(Tail(q)) = Len(q) - 1
         /\ Head(q).req \in Reqs(q)
         /\ Distinct(q) => Distinct(Tail(q)) /\ Reqs(Tail(q)) = Reqs(q) \ {Head(q).req}
<1>1. PICK w, a : w = Tail(q) /\ a = Head(q)
  OBVIOUS
<1>2. /\ w \in Seq(S) /\ Len(q) \in Nat /\ Len(q) > 0 /\ Len(w) = Len(q) - 1
      /\ \A i \in 1..Len(w) : w[i] = q[i + 1]
      /\ a = q[1] /\ a \in S
  BY <1>1, HeadTailProperties, LenProperties, EmptySeq
<1>3. 1 \in 1..Len(q) /\ \A i \in 1..Len(w) : i + 1 \in 1..Len(q) /\ i + 1 # 1
  BY <1>2
<1>4. \A i \in 1..Len(q) : i = 1 \/ (i - 1 \in 1..Len(w) /\ q[i] = w[i - 1])
  BY <1>2
<1>5. a.req \in Reqs(q)
  BY <1>2, <1>3 DEF Reqs
<1>6. ASSUME Distinct(q) PROVE Distinct(w) /\ Reqs(w) = Reqs(q) \ {a.req}
  <2>1. Distinct(w)
    BY <1>2, <1>3, <1>6 DEF Distinct
  <2>2. \A i \in 1..Len(w) : w[i].req \in Reqs(q) /\ w[i].req # a.req
    BY <1>2, <1>3, <1>6 DEF Distinct, Reqs
  <2>3. \A i \in 1..Len(q) : q[i].req = a.req \/ q[i].req \in Reqs(w)
    BY <1>2, <1>4 DEF Reqs
  <2> QED
    BY <2>1, <2>2, <2>3 DEF Reqs
<1> QED
  BY <1>1, <1>2, <1>5, <1>6

\* The same for a queue of plain items.
Items(q) == {q[i] : i \in 1..Len(q)}
OnceEach(q) == \A i, j \in 1..Len(q) : q[i] = q[j] => i = j

\* An empty queue of items.
LEMMA ItemsEmpty ==
  ASSUME NEW S
  PROVE  <<>> \in Seq(S) /\ Items(<<>>) = {} /\ OnceEach(<<>>)
<1>1. PICK w : w = <<>>
  OBVIOUS
<1>2. w \in Seq(S) /\ Len(w) = 0
  BY <1>1, EmptySeq
<1>3. 1..Len(w) = {}
  BY <1>2
<1>4. Items(w) = {} /\ OnceEach(w)
  BY <1>3 DEF Items, OnceEach
<1> QED
  BY <1>1, <1>2, <1>4

\* Without items a queue is empty.
LEMMA ItemsNone ==
  ASSUME NEW S, NEW q \in Seq(S), Items(q) = {}
  PROVE  q = <<>>
<1>1. Len(q) \in Nat /\ (q = <<>> <=> Len(q) = 0)
  BY LenProperties, EmptySeq
<1>2. ASSUME Len(q) > 0 PROVE FALSE
  <2>1. 1 \in 1..Len(q)
    BY <1>1, <1>2
  <2>2. q[1] \in Items(q)
    BY <2>1 DEF Items
  <2> QED
    BY <2>2
<1> QED
  BY <1>1, <1>2

\* An item is queued once if it was not queued before.
LEMMA ItemAppended ==
  ASSUME NEW S, NEW q \in Seq(S), NEW e \in S
  PROVE  /\ Append(q, e) \in Seq(S) /\ Append(q, e) # <<>>
         /\ Items(Append(q, e)) = Items(q) \cup {e}
         /\ OnceEach(q) /\ e \notin Items(q) => OnceEach(Append(q, e))
<1>1. PICK w : w = Append(q, e)
  OBVIOUS
<1>2. /\ w \in Seq(S) /\ Len(q) \in Nat /\ Len(w) = Len(q) + 1
      /\ \A i \in 1..Len(q) : w[i] = q[i]
      /\ w[Len(q) + 1] = e
  BY <1>1, AppendProperties, LenProperties
<1>3. 1..Len(w) = 1..Len(q) \cup {Len(q) + 1} /\ w # <<>>
  BY <1>2, EmptySeq
<1>4. Items(w) = Items(q) \cup {e}
  BY <1>2, <1>3 DEF Items
<1>5. ASSUME OnceEach(q), e \notin Items(q) PROVE OnceEach(w)
  BY <1>2, <1>3, <1>5 DEF Items, OnceEach
<1> QED
  BY <1>1, <1>2, <1>3, <1>4, <1>5

\* The first item is taken.
LEMMA ItemTaken ==
  ASSUME NEW S, NEW q \in Seq(S), q # <<>>
  PROVE  /\ Head(q) \in S /\ Tail(q) \in Seq(S) /\ Head(q) \in Items(q)
         /\ OnceEach(q) => OnceEach(Tail(q)) /\ Items(Tail(q)) = Items(q) \ {Head(q)}
<1>1. PICK w, a : w = Tail(q) /\ a = Head(q)
  OBVIOUS
<1>2. /\ w \in Seq(S) /\ Len(q) \in Nat /\ Len(q) > 0 /\ Len(w) = Len(q) - 1
      /\ \A i \in 1..Len(w) : w[i] = q[i + 1]
      /\ a = q[1] /\ a \in S
  BY <1>1, HeadTailProperties, LenProperties, EmptySeq
<1>3. 1 \in 1..Len(q) /\ \A i \in 1..Len(w) : i + 1 \in 1..Len(q) /\ i + 1 # 1
  BY <1>2
<1>4. \A i \in 1..Len(q) : i = 1 \/ (i - 1 \in 1..Len(w) /\ q[i] = w[i - 1])
  BY <1>2
<1>5. a \in Items(q)
  BY <1>2, <1>3 DEF Items
<1>6. ASSUME OnceEach(q) PROVE OnceEach(w) /\ Items(w) = Items(q) \ {a}
  <2>1. OnceEach(w)
    BY <1>2, <1>3, <1>6 DEF OnceEach
  <2>2. \A i \in 1..Len(w) : w[i] \in Items(q) /\ w[i] # a
    BY <1>2, <1>3, <1>6 DEF OnceEach, Items
  <2>3. \A i \in 1..Len(q) : q[i] = a \/ q[i] \in Items(w)
    BY <1>2, <1>4 DEF Items
  <2> QED
    BY <2>1, <2>2, <2>3 DEF Items
<1> QED
  BY <1>1, <1>2, <1>5, <1>6

-----------------------------------------------------------------------------
(* The UDP handle.                                                         *)

UdFields == {"socket", "send_queue_count", "active_udp_streams"}
UdReqs == Sends \cup {"recv"}
UdDone == [req: UdReqs, status: {"ok", "msgsize", "reset", "error"}]

UdHandle(u) ==
  /\ IsHandle(u) /\ IsRecord(u, UdFields)
  /\ u.active_reqs \in SUBSET Sends /\ IsFiniteSet(u.active_reqs)

\* While it is not closing, a handle is active for what its counters count.
UdActive(u) ==
  /\ u.activecnt = Cardinality(u.active_reqs) + Bit("READING" \in u.flags)
  /\ u.send_queue_count = Cardinality(u.active_reqs)
  /\ u.active_udp_streams = Bit("READING" \in u.flags)
  /\ "CLOSING" \notin u.flags => (Active(u) <=> u.activecnt > 0)
  /\ "CLOSING" \in u.flags => ~Active(u) /\ "READING" \notin u.flags
  /\ u.active_handles = Bit((Active(u) \/ "CLOSING" \in u.flags) /\ "CLOSED" \notin u.flags)

UdTypes ==
  /\ UdHandle(h)
  /\ kernel \in SUBSET UdReqs /\ IsFiniteSet(kernel)
  /\ pending \in Seq(UdDone)
  /\ hist \in [stopped: BOOLEAN]
  /\ pc \in {"loop", "recvfrom", "done", "counted"}

\* Every request is with Winsock or in the queue, once, and counted.
UdInFlight ==
  /\ Distinct(pending) /\ kernel \cap Reqs(pending) = {}
  /\ (kernel \cup Reqs(pending)) \ {"recv"} = h.active_reqs
  /\ h.reqs_pending = Cardinality(kernel) + Len(pending) + Bit(pc # "loop")

UdReceives ==
  /\ "recv" \in kernel => "READ_PENDING" \in h.flags
  /\ "READ_PENDING" \in h.flags => "recv" \in kernel \cup Reqs(pending)
  /\ pc \in {"recvfrom", "done"} /\ "READ_PENDING" \notin h.flags => "recv" \notin Reqs(pending)
  /\ "READING" \in h.flags => ~hist.stopped
  /\ pc = "recvfrom" => "READING" \in h.flags /\ cb \in {"none", "alloc"}
  /\ "READING" \in h.flags /\ pc \in {"loop", "counted"} => "recv" \in kernel \cup Reqs(pending)

UdCloses(u) ==
  /\ "ENDGAME_QUEUED" \in u.flags => "CLOSING" \in u.flags /\ u.reqs_pending = 0
  /\ "CLOSED" \in u.flags =>
       "CLOSING" \in u.flags /\ u.reqs_pending = 0 /\ "ENDGAME_QUEUED" \notin u.flags

UdInv == UdTypes /\ UdInFlight /\ UdReceives /\ UdActive(h) /\ UdCloses(h)

\* What Udp has by extending UvHandle is what is here.
LEMMA UdOperators ==
  /\ \A S : Ud!Cardinality(S) = Cardinality(S)
  /\ \A u, F : Ud!Set(u, F) = Set(u, F) /\ Ud!Clear(u, F) = Clear(u, F)
  /\ \A u, f : Ud!Is(u, f) <=> f \in u.flags
  /\ \A u : /\ Ud!INCREASE_ACTIVE_COUNT(u) = INCREASE_ACTIVE_COUNT(u)
            /\ Ud!DECREASE_ACTIVE_COUNT(u) = DECREASE_ACTIVE_COUNT(u)
            /\ Ud!INCREASE_PENDING(u) = INCREASE_PENDING(u)
            /\ Ud!DECREASE_PENDING_REQ_COUNT(u) = DECREASE_PENDING_REQ_COUNT(u)
            /\ Ud!uv__handle_closing(u) = uv__handle_closing(u)
            /\ Ud!uv__handle_close(u) = uv__handle_close(u)
<1>1. \A S : Ud!Cardinality(S) = Cardinality(S)
  BY DEF Ud!Cardinality, Cardinality
<1>2. \A u, F : Ud!Set(u, F) = Set(u, F) /\ Ud!Clear(u, F) = Clear(u, F)
  BY DEF Ud!Set, Ud!Clear, Set, Clear
<1>3. \A u, f : Ud!Is(u, f) <=> f \in u.flags
  BY DEF Ud!Is
<1>4. \A u : /\ Ud!INCREASE_ACTIVE_COUNT(u) = INCREASE_ACTIVE_COUNT(u)
             /\ Ud!DECREASE_ACTIVE_COUNT(u) = DECREASE_ACTIVE_COUNT(u)
  BY DEF Ud!INCREASE_ACTIVE_COUNT, Ud!uv__handle_start, Ud!Set, Ud!Clear, Ud!Is,
     Ud!DECREASE_ACTIVE_COUNT, Ud!uv__handle_stop, INCREASE_ACTIVE_COUNT, uv__handle_start,
     Set, Clear, Is, DECREASE_ACTIVE_COUNT, uv__handle_stop
<1>5. \A u : /\ Ud!INCREASE_PENDING(u) = INCREASE_PENDING(u)
             /\ Ud!DECREASE_PENDING_REQ_COUNT(u) = DECREASE_PENDING_REQ_COUNT(u)
             /\ Ud!uv__handle_closing(u) = uv__handle_closing(u)
             /\ Ud!uv__handle_close(u) = uv__handle_close(u)
  BY DEF Ud!INCREASE_PENDING, Ud!DECREASE_PENDING_REQ_COUNT, Ud!uv__handle_closing,
     Ud!uv__handle_close, Ud!Set, Ud!Clear, Ud!Is, Ud!Bit, Ud!uv_want_endgame,
     INCREASE_PENDING, DECREASE_PENDING_REQ_COUNT, uv__handle_closing, uv__handle_close,
     Set, Clear, Is, Bit, uv_want_endgame
<1> QED
  BY <1>1, <1>2, <1>3, <1>4, <1>5

\* The requests, those in flight and those completed are finitely many.
LEMMA UdNumbers ==
  /\ \A u : UdHandle(u) => Cardinality(u.active_reqs) \in Nat
  /\ UdTypes => Cardinality(kernel) \in Nat /\ Len(pending) \in Nat
BY FS_CardinalityType, LenProperties DEF UdTypes, UdHandle

\* uv_udp_init makes a handle that satisfies the invariant.
LEMMA UdInit == Ud!Init => UdInv
<1> SUFFICES ASSUME Ud!Init PROVE UdInv
  OBVIOUS
<1> USE DEF Ud!Init
<1>1. UdHandle(h) /\ h.flags \subseteq {"IPV6"} /\ h.activecnt = 0 /\ h.reqs_pending = 0
      /\ h.active_reqs = {} /\ h.active_handles = 0 /\ h.send_queue_count = 0
      /\ h.active_udp_streams = 0
  <2>1. PICK F, b : /\ F \subseteq {"IPV6"}
                    /\ h = [flags |-> F, activecnt |-> 0, reqs_pending |-> 0,
                            active_reqs |-> {}, active_handles |-> 0, socket |-> b,
                            send_queue_count |-> 0, active_udp_streams |-> 0]
    BY Zenon
  <2>2. DOMAIN h = BaseFields \cup UdFields /\ h = [x \in DOMAIN h |-> h[x]]
    BY <2>1 DEF BaseFields, UdFields
  <2> QED
    BY <2>1, <2>2, FS_EmptySet DEF UdHandle, IsHandle, IsRecord
<1>2. UdTypes
  BY <1>1, NothingQueued, FS_EmptySet DEF UdTypes
<1>3. UdInFlight
  BY <1>1, NothingQueued, FS_EmptySet DEF UdInFlight, Bit
<1>4. UdReceives /\ UdActive(h) /\ UdCloses(h)
  BY <1>1, FS_EmptySet DEF UdReceives, UdActive, UdCloses, Active, Bit
<1> QED
  BY <1>2, <1>3, <1>4 DEF UdInv

\* Binding changes what the counters do not depend on.
UdAlike(u, v) ==
  /\ Changes(u, v, {"flags", "socket"})
  /\ v.flags \ {"IPV6", "BOUND"} = u.flags \ {"IPV6", "BOUND"}

\* uv_udp_maybe_bind changes the socket and flags that do not count.
LEMMA UdBound ==
  ASSUME NEW u, UdHandle(u), NEW family, NEW how \in Ud!BindResults(u)
  PROVE  UdAlike(u, Ud!uv_udp_maybe_bind(u, family, how))
<1>1. CASE "BOUND" \in u.flags \/ how = "no socket"
  <2>1. Ud!uv_udp_maybe_bind(u, family, how) = u
    BY <1>1 DEF Ud!uv_udp_maybe_bind, Ud!Is, Ud!BindResults
  <2> QED
    BY <2>1 DEF UdAlike, UdHandle, IsHandle, IsRecord, Changes
<1>2. CASE ~("BOUND" \in u.flags \/ how = "no socket") /\ how = "no option"
  BY <1>2, UdOperators DEF UdAlike, Ud!uv_udp_maybe_bind, UdHandle, IsHandle, IsRecord, UdFields,
     BaseFields, Changes
<1>3. CASE ~("BOUND" \in u.flags \/ how = "no socket") /\ how # "no option"
  <2>1. PICK s, F : /\ s = [u EXCEPT !.socket = TRUE]
                    /\ F = (IF family = "ip6" THEN {"IPV6"} ELSE {})
                              \cup (IF how = "bound" THEN {"BOUND"} ELSE {})
    OBVIOUS
  <2>2. Ud!uv_udp_maybe_bind(u, family, how) = Set(s, F) /\ F \subseteq {"IPV6", "BOUND"}
    BY <1>3, <2>1, UdOperators DEF Ud!uv_udp_maybe_bind
  <2>3. IsHandle(s) /\ Changes(u, s, {"socket"})
    BY <2>1 DEF UdHandle, IsHandle, IsRecord, UdFields, BaseFields, Changes
  <2> QED
    BY <2>2, <2>3, Setting DEF UdAlike, UdHandle, IsHandle, IsRecord, BaseFields, Changes
<1> QED
  BY <1>1, <1>2, <1>3

\* Such a change leaves what is said of the counters.
LEMMA UdAlikeInv ==
  ASSUME NEW u, NEW v, UdHandle(u), UdActive(u), UdCloses(u), UdAlike(u, v)
  PROVE  /\ UdHandle(v) /\ UdActive(v) /\ UdCloses(v)
         /\ v.reqs_pending = u.reqs_pending /\ v.active_reqs = u.active_reqs
         /\ \A f \in {"READING", "READ_PENDING", "CLOSING", "CLOSED", "ENDGAME_QUEUED"} :
              f \in v.flags <=> f \in u.flags
<1>1. \A f \in {"READING", "READ_PENDING", "CLOSING", "CLOSED", "ACTIVE", "ENDGAME_QUEUED"} :
        f \in v.flags <=> f \in u.flags
  BY DEF UdAlike
<1>2. /\ v.activecnt = u.activecnt /\ v.reqs_pending = u.reqs_pending
      /\ v.active_reqs = u.active_reqs /\ v.active_handles = u.active_handles
      /\ v.send_queue_count = u.send_queue_count
      /\ v.active_udp_streams = u.active_udp_streams
  BY DEF UdAlike, Changes, UdHandle, IsHandle, IsRecord, BaseFields, UdFields
<1>3. UdHandle(v)
  BY <1>2 DEF UdAlike, Changes, UdHandle, IsHandle, IsRecord
<1>4. UdActive(v) /\ UdCloses(v)
  BY <1>1, <1>2 DEF UdActive, UdCloses, Active
<1> QED
  BY <1>1, <1>2, <1>3, <1>4

\* uv_udp_recv_start: reading is one activity more.
LEMMA UdStartsReading ==
  ASSUME NEW u, UdHandle(u), UdActive(u), UdCloses(u),
         "READING" \notin u.flags, "CLOSING" \notin u.flags,
         NEW v, v = [Ud!INCREASE_ACTIVE_COUNT(Ud!Set(u, {"READING"}))
                       EXCEPT !.active_udp_streams = @ + 1]
  PROVE  /\ UdHandle(v) /\ UdActive(v) /\ UdCloses(v)
         /\ v.flags = u.flags \cup {"READING", "ACTIVE"}
         /\ v.reqs_pending = u.reqs_pending /\ v.active_reqs = u.active_reqs
<1>1. PICK r, w : r = Set(u, {"READING"}) /\ w = INCREASE_ACTIVE_COUNT(r)
  OBVIOUS
<1>2. IsHandle(r) /\ Changes(u, r, {"flags"}) /\ r.flags = u.flags \cup {"READING"}
  BY <1>1, Setting DEF UdHandle
<1>3. PICK n \in Nat : n = Cardinality(u.active_reqs)
  BY UdNumbers
<1>4. /\ u.activecnt = n /\ u.active_udp_streams = 0 /\ (Active(u) <=> n > 0)
      /\ u.active_handles = Bit(n > 0 /\ "CLOSED" \notin u.flags)
  BY <1>3 DEF UdActive, Bit
<1>5. /\ r.activecnt = n /\ (Active(r) <=> n > 0) /\ r.active_udp_streams = 0
      /\ r.active_handles = Bit(n > 0 /\ "CLOSED" \notin u.flags)
      /\ r.reqs_pending = u.reqs_pending /\ r.active_reqs = u.active_reqs
      /\ r.send_queue_count = n /\ IsRecord(r, UdFields)
  BY <1>2, <1>3, <1>4 DEF Active, UdHandle, IsHandle, IsRecord, Changes, BaseFields, UdFields,
     UdActive
<1>6. /\ IsHandle(w) /\ Changes(r, w, {"flags", "activecnt", "active_handles"})
      /\ w.activecnt = n + 1
      /\ w.flags = IF n = 0 THEN r.flags \cup {"ACTIVE"} ELSE r.flags
      /\ w.active_handles = r.active_handles + Bit(n = 0)
  BY <1>1, <1>2, <1>3, <1>5, ActiveCountUp DEF Bit
<1>7. w.flags = u.flags \cup {"READING", "ACTIVE"}
  BY <1>2, <1>3, <1>5, <1>6 DEF Active
<1>8. v = [w EXCEPT !.active_udp_streams = 1]
  BY <1>1, <1>5, <1>6, UdOperators DEF Changes, IsRecord, UdFields
<1>9. /\ UdHandle(v) /\ v.flags = u.flags \cup {"READING", "ACTIVE"}
      /\ v.reqs_pending = u.reqs_pending /\ v.active_reqs = u.active_reqs
      /\ v.activecnt = n + 1 /\ v.send_queue_count = n /\ v.active_udp_streams = 1
      /\ v.active_handles = w.active_handles
  BY <1>5, <1>6, <1>7, <1>8 DEF UdHandle, IsHandle, IsRecord, Changes, BaseFields, UdFields
<1>10. "CLOSED" \notin u.flags
  BY DEF UdCloses
<1>11. UdActive(v) /\ UdCloses(v)
  BY <1>3, <1>5, <1>6, <1>9, <1>10 DEF UdActive, UdCloses, Active, Bit
<1> QED
  BY <1>9, <1>11

\* uv_udp_recv_stop: one less, if the handle was reading.
LEMMA UdStopsReading ==
  ASSUME NEW u, UdHandle(u), UdActive(u), UdCloses(u), NEW v, v = Ud!StopReceiving(u)
  PROVE  /\ UdHandle(v) /\ UdActive(v) /\ UdCloses(v)
         /\ v.flags \ {"ACTIVE"} = u.flags \ {"READING", "ACTIVE"}
         /\ v.reqs_pending = u.reqs_pending /\ v.active_reqs = u.active_reqs
<1>1. CASE "READING" \notin u.flags
  BY <1>1, UdOperators DEF Ud!StopReceiving
<1>2. CASE "READING" \in u.flags
  <2>1. PICK r, w : r = Clear(u, {"READING"}) /\ w = [r EXCEPT !.active_udp_streams = @ - 1]
    OBVIOUS
  <2>2. v = DECREASE_ACTIVE_COUNT(w)
    BY <1>2, <2>1, UdOperators DEF Ud!StopReceiving
  <2>3. IsHandle(r) /\ Changes(u, r, {"flags"}) /\ r.flags = u.flags \ {"READING"}
    BY <2>1, Clearing DEF UdHandle
  <2>4. PICK n \in Nat : n = Cardinality(u.active_reqs)
    BY UdNumbers
  <2>5. /\ u.activecnt = n + 1 /\ u.active_udp_streams = 1 /\ Active(u)
        /\ u.active_handles = 1 /\ u.send_queue_count = n
        /\ {"CLOSING", "CLOSED", "ENDGAME_QUEUED"} \cap u.flags = {}
    BY <1>2, <2>4 DEF UdActive, UdCloses, Bit
  <2>6. /\ UdHandle(w) /\ w.flags = u.flags \ {"READING"} /\ w.active_udp_streams = 0
        /\ w.activecnt = n + 1 /\ w.active_handles = 1 /\ w.send_queue_count = n
        /\ w.reqs_pending = u.reqs_pending /\ w.active_reqs = u.active_reqs
    BY <2>1, <2>3, <2>5 DEF UdHandle, IsHandle, IsRecord, Changes, BaseFields, UdFields
  <2>7. /\ IsHandle(v) /\ Changes(w, v, {"flags", "activecnt", "active_handles"})
        /\ v.activecnt = n
        /\ v.flags = IF n = 0 THEN w.flags \ {"ACTIVE"} ELSE w.flags
        /\ v.active_handles = 1 - Bit(n = 0)
    <3>1. /\ IsHandle(v) /\ Changes(w, v, {"flags", "activecnt", "active_handles"})
          /\ v.activecnt = w.activecnt - 1
          /\ v.flags = IF w.activecnt = 1 /\ "CLOSING" \notin w.flags
                       THEN w.flags \ {"ACTIVE"} ELSE w.flags
          /\ v.active_handles = w.active_handles
               - Bit(w.activecnt = 1 /\ "CLOSING" \notin w.flags /\ Active(w))
      BY <2>2, <2>6, ActiveCountDown DEF UdHandle
    <3>2. "CLOSING" \notin w.flags /\ Active(w) /\ (w.activecnt = 1 <=> n = 0)
      BY <2>4, <2>5, <2>6 DEF Active
    <3> QED
      BY <2>4, <2>6, <3>1, <3>2 DEF Bit
  <2>8. /\ UdHandle(v) /\ v.active_udp_streams = 0 /\ v.send_queue_count = n
        /\ v.reqs_pending = u.reqs_pending /\ v.active_reqs = u.active_reqs
    BY <2>6, <2>7 DEF UdHandle, IsHandle, IsRecord, Changes, BaseFields, UdFields
  <2>9. UdActive(v) /\ UdCloses(v)
    BY <2>4, <2>5, <2>6, <2>7, <2>8 DEF UdActive, UdCloses, Active, Bit
  <2> QED
    BY <2>6, <2>7, <2>8, <2>9
<1> QED
  BY <1>1, <1>2

\* A handle whose send of s was taken.
UdSent(u, s) ==
  [Ud!REGISTER_HANDLE_REQ(Ud!INCREASE_PENDING(u), s) EXCEPT !.send_queue_count = @ + 1]

\* uv__send: a send is registered and counted.
LEMMA UdRegisters ==
  ASSUME NEW u, UdHandle(u), UdActive(u), UdCloses(u), "CLOSING" \notin u.flags,
         NEW s \in Sends, s \notin u.active_reqs,
         NEW v, v = UdSent(u, s)
  PROVE  /\ UdHandle(v) /\ UdActive(v) /\ UdCloses(v)
         /\ v.flags = u.flags \cup {"ACTIVE"}
         /\ v.reqs_pending = u.reqs_pending + 1 /\ v.active_reqs = u.active_reqs \cup {s}
<1>1. PICK r, w : r = INCREASE_PENDING(u) /\ w = INCREASE_ACTIVE_COUNT(r)
  OBVIOUS
<1>2. v = [w EXCEPT !.active_reqs = @ \cup {s}, !.send_queue_count = @ + 1]
  BY <1>1, UdOperators DEF UdSent, Ud!REGISTER_HANDLE_REQ
<1>3. IsHandle(r) /\ Changes(u, r, {"reqs_pending"}) /\ r.reqs_pending = u.reqs_pending + 1
  BY <1>1, PendingUp DEF UdHandle
<1>4. PICK n \in Nat, k \in {0, 1} :
        n = Cardinality(u.active_reqs) /\ k = Bit("READING" \in u.flags)
  BY UdNumbers DEF Bit
<1>5. /\ r.activecnt = n + k /\ r.active_udp_streams = k /\ r.send_queue_count = n
      /\ r.flags = u.flags /\ r.active_reqs = u.active_reqs
      /\ r.active_handles = Bit(n + k > 0) /\ (Active(r) <=> n + k > 0)
      /\ UdHandle(r) /\ "CLOSED" \notin u.flags
  BY <1>3, <1>4 DEF UdHandle, IsHandle, IsRecord, Changes, BaseFields, UdFields, UdActive,
     UdCloses, Active, Bit
<1>6. /\ IsHandle(w) /\ Changes(r, w, {"flags", "activecnt", "active_handles"})
      /\ w.activecnt = n + k + 1
      /\ w.flags = IF n + k = 0 THEN r.flags \cup {"ACTIVE"} ELSE r.flags
      /\ w.active_handles = 1
  BY <1>1, <1>4, <1>5, ActiveCountUp DEF UdHandle, Bit
<1>7. w.flags = u.flags \cup {"ACTIVE"}
  BY <1>4, <1>5, <1>6 DEF Active
<1>8. /\ IsFiniteSet(u.active_reqs \cup {s}) /\ Cardinality(u.active_reqs \cup {s}) = n + 1
  BY <1>4, FS_AddElement DEF UdHandle
<1>9. /\ UdHandle(v) /\ v.flags = u.flags \cup {"ACTIVE"}
      /\ v.reqs_pending = u.reqs_pending + 1 /\ v.active_reqs = u.active_reqs \cup {s}
      /\ v.activecnt = n + k + 1 /\ v.send_queue_count = n + 1
      /\ v.active_udp_streams = k /\ v.active_handles = 1
  <2>1. /\ w.send_queue_count = n /\ w.active_reqs = u.active_reqs /\ IsRecord(w, UdFields)
        /\ w.reqs_pending = u.reqs_pending + 1 /\ w.active_udp_streams = k
    BY <1>3, <1>5, <1>6 DEF UdHandle, IsHandle, IsRecord, Changes, BaseFields, UdFields
  <2>2. IsHandle(v) /\ IsRecord(v, UdFields) /\ v.active_reqs = u.active_reqs \cup {s}
        /\ v.send_queue_count = n + 1
        /\ Changes(w, v, {"active_reqs", "send_queue_count"})
    BY <1>2, <1>6, <2>1 DEF IsHandle, IsRecord, Changes, BaseFields, UdFields
  <2>3. UdHandle(v)
    BY <1>8, <2>2 DEF UdHandle
  <2> QED
    BY <1>6, <1>7, <2>1, <2>2, <2>3 DEF IsHandle, IsRecord, Changes, BaseFields, UdFields
<1>10. Cardinality(v.active_reqs) = n + 1 /\ Bit("READING" \in v.flags) = k
  BY <1>4, <1>8, <1>9 DEF Bit
<1>11. UdActive(v) /\ UdCloses(v)
  BY <1>4, <1>5, <1>9, <1>10 DEF UdActive, UdCloses, Active, Bit
<1> QED
  BY <1>9, <1>11

\* A send that was reported is registered no more.
LEMMA UdUnregisters ==
  ASSUME NEW u, UdHandle(u), UdActive(u), UdCloses(u), NEW s \in u.active_reqs,
         NEW v, v = Ud!UNREGISTER_HANDLE_REQ(Ud!SendDone(u), s)
  PROVE  /\ UdHandle(v) /\ UdActive(v) /\ UdCloses(v)
         /\ v.flags \ {"ACTIVE"} = u.flags \ {"ACTIVE"}
         /\ v.reqs_pending = u.reqs_pending /\ v.active_reqs = u.active_reqs \ {s}
<1>1. PICK r, w : r = [u EXCEPT !.send_queue_count = @ - 1] /\ w = DECREASE_ACTIVE_COUNT(r)
  OBVIOUS
<1>2. v = [w EXCEPT !.active_reqs = @ \ {s}]
  BY <1>1, UdOperators DEF Ud!UNREGISTER_HANDLE_REQ, Ud!SendDone
<1>3. PICK n \in Nat, k \in {0, 1} :
        n = Cardinality(u.active_reqs) /\ k = Bit("READING" \in u.flags)
  BY UdNumbers DEF Bit
<1>4. /\ IsFiniteSet(u.active_reqs \ {s}) /\ Cardinality(u.active_reqs \ {s}) = n - 1 /\ n > 0
      /\ n - 1 \in Nat
  BY <1>3, FS_RemoveElement, FS_CardinalityType DEF UdHandle
<1>5. /\ UdHandle(r) /\ r.activecnt = n + k /\ r.active_udp_streams = k
      /\ r.send_queue_count = n - 1 /\ r.flags = u.flags /\ r.active_reqs = u.active_reqs
      /\ r.active_handles = u.active_handles /\ r.reqs_pending = u.reqs_pending
  BY <1>1, <1>3 DEF UdHandle, IsHandle, IsRecord, BaseFields, UdFields, UdActive
<1>6. /\ IsHandle(w) /\ Changes(r, w, {"flags", "activecnt", "active_handles"})
      /\ w.activecnt = n + k - 1
      /\ w.flags = IF n + k = 1 /\ "CLOSING" \notin r.flags THEN r.flags \ {"ACTIVE"} ELSE r.flags
      /\ w.active_handles
           = r.active_handles - Bit(n + k = 1 /\ "CLOSING" \notin r.flags /\ Active(r))
  <2>1. /\ IsHandle(w) /\ Changes(r, w, {"flags", "activecnt", "active_handles"})
        /\ w.activecnt = r.activecnt - 1
        /\ w.flags = IF r.activecnt = 1 /\ "CLOSING" \notin r.flags
                     THEN r.flags \ {"ACTIVE"} ELSE r.flags
        /\ w.active_handles = r.active_handles
             - Bit(r.activecnt = 1 /\ "CLOSING" \notin r.flags /\ Active(r))
    BY <1>1, <1>5, ActiveCountDown DEF UdHandle
  <2> QED
    BY <1>5, <2>1
<1>7. /\ UdHandle(v) /\ v.flags = w.flags
      /\ v.reqs_pending = u.reqs_pending /\ v.active_reqs = u.active_reqs \ {s}
      /\ v.activecnt = n + k - 1 /\ v.send_queue_count = n - 1
      /\ v.active_udp_streams = k /\ v.active_handles = w.active_handles
  <2>1. /\ w.send_queue_count = n - 1 /\ w.active_reqs = u.active_reqs /\ IsRecord(w, UdFields)
        /\ w.reqs_pending = u.reqs_pending /\ w.active_udp_streams = k
    BY <1>5, <1>6 DEF UdHandle, IsHandle, IsRecord, Changes, BaseFields, UdFields
  <2>2. IsHandle(v) /\ IsRecord(v, UdFields) /\ v.active_reqs = u.active_reqs \ {s}
        /\ Changes(w, v, {"active_reqs"})
    BY <1>2, <1>6, <2>1 DEF IsHandle, IsRecord, Changes, BaseFields
  <2>3. UdHandle(v)
    BY <1>4, <2>2 DEF UdHandle
  <2> QED
    BY <1>6, <2>1, <2>2, <2>3 DEF IsHandle, IsRecord, Changes, BaseFields, UdFields
<1>8. CASE "CLOSING" \in u.flags
  BY <1>3, <1>4, <1>5, <1>6, <1>7, <1>8 DEF UdActive, UdCloses, Active, Bit
<1>9. CASE "CLOSING" \notin u.flags
  <2>1. Active(u) /\ "CLOSED" \notin u.flags /\ "ENDGAME_QUEUED" \notin u.flags
        /\ u.active_handles = 1
    BY <1>3, <1>4, <1>9 DEF UdActive, UdCloses, Active, Bit
  <2>2. Cardinality(v.active_reqs) = n - 1 /\ Bit("READING" \in v.flags) = k
    BY <1>3, <1>4, <1>5, <1>6, <1>7 DEF Bit
  <2>3. CASE n + k = 1
    <3>1. v.flags = u.flags \ {"ACTIVE"} /\ v.activecnt = 0 /\ v.active_handles = 0
      BY <1>3, <1>4, <1>5, <1>6, <1>7, <1>9, <2>1, <2>3 DEF Active, Bit
    <3>2. {"ACTIVE", "CLOSING", "CLOSED", "ENDGAME_QUEUED"} \cap v.flags = {}
      BY <1>9, <2>1, <3>1
    <3> QED
      BY <1>7, <2>2, <2>3, <3>1, <3>2 DEF UdActive, UdCloses, Active, Bit
  <2>4. CASE n + k # 1
    BY <1>3, <1>4, <1>5, <1>6, <1>7, <1>9, <2>1, <2>2, <2>4 DEF UdActive, UdCloses, Active, Bit
  <2> QED
    BY <1>7, <1>6, <2>3, <2>4, <1>5, <2>1
<1> QED
  BY <1>8, <1>9

\* A call that leaves the requests alone, and starts to read only while a
\* receive is on its way.
LEMMA UdHandleOnly ==
  ASSUME UdInv, UNCHANGED <<kernel, pending, pc>>, pc # "recvfrom",
         UdHandle(h'), UdActive(h'), UdCloses(h'),
         h'.reqs_pending = h.reqs_pending, h'.active_reqs = h.active_reqs,
         "READ_PENDING" \in h'.flags <=> "READ_PENDING" \in h.flags,
         "READING" \in h'.flags => "READING" \in h.flags \/ "READ_PENDING" \in h.flags,
         hist' \in [stopped: BOOLEAN], "READING" \in h'.flags => ~hist'.stopped
  PROVE  UdInv'
<1>1. UdTypes'
  BY DEF UdInv, UdTypes
<1>2. UdInFlight'
  BY DEF UdInv, UdInFlight
<1>3. UdReceives'
  BY DEF UdInv, UdReceives
<1> QED
  BY <1>1, <1>2, <1>3 DEF UdInv

\* The user does not call while the receive is being made.
LEMMA UdUser ==
  UdInv /\ Ud!User => /\ pc # "recvfrom" /\ pc' = pc /\ "CLOSING" \notin h.flags
                      /\ UdHandle(h) /\ UdActive(h) /\ UdCloses(h) /\ UdTypes
BY UdOperators DEF UdInv, UdReceives, UdTypes, Ud!User, Ud!At

\* A call that only binds keeps the invariant.
LEMMA UdBinds ==
  ASSUME UdInv, Ud!User, UNCHANGED <<kernel, pending, hist>>,
         NEW family, NEW how \in Ud!BindResults(h), h' = Ud!uv_udp_maybe_bind(h, family, how)
  PROVE  UdInv'
<1>1. UdAlike(h, h')
  BY UdUser, UdBound
<1>2. /\ UdHandle(h') /\ UdActive(h') /\ UdCloses(h')
      /\ h'.reqs_pending = h.reqs_pending /\ h'.active_reqs = h.active_reqs
      /\ "READING" \in h'.flags <=> "READING" \in h.flags
      /\ "READ_PENDING" \in h'.flags <=> "READ_PENDING" \in h.flags
  BY <1>1, UdUser, UdAlikeInv
<1>3. hist' \in [stopped: BOOLEAN] /\ ("READING" \in h.flags => ~hist'.stopped)
  BY DEF UdInv, UdTypes, UdReceives
<1> QED
  BY <1>2, <1>3, UdUser, UdHandleOnly

\* uv__udp_bind.
LEMMA UdBindInv == UdInv /\ Ud!uv__udp_bind => UdInv'
BY UdBinds DEF Ud!uv__udp_bind

\* uv_udp_set_membership, which binds first.
LEMMA UdMembershipInv == UdInv /\ Ud!uv_udp_set_membership => UdInv'
BY UdBinds DEF Ud!uv_udp_set_membership

\* uv_udp_open.
LEMMA UdOpenInv == UdInv /\ Ud!uv_udp_open => UdInv'
<1> SUFFICES ASSUME UdInv, Ud!uv_udp_open PROVE UdInv'
  OBVIOUS
<1>1. PICK F : F \subseteq {"IPV6"} /\ h' = Set([h EXCEPT !.socket = TRUE], F)
  BY UdOperators DEF Ud!uv_udp_open
<1>2. PICK s : s = [h EXCEPT !.socket = TRUE]
  OBVIOUS
<1>3. IsHandle(s) /\ Changes(h, s, {"socket"})
  BY <1>2, UdUser DEF Ud!uv_udp_open, UdHandle, IsHandle, IsRecord, UdFields, BaseFields, Changes
<1>4. UdAlike(h, h')
  <2>1. h' = Set(s, F) /\ Changes(s, h', {"flags"}) /\ h'.flags = s.flags \cup F
    BY <1>1, <1>2, <1>3, Setting
  <2>2. s.flags = h.flags
    BY <1>3, UdUser DEF Ud!uv_udp_open, UdHandle, IsHandle, IsRecord, BaseFields, Changes
  <2> QED
    BY <1>1, <1>3, <2>1, <2>2 DEF UdAlike, Changes
<1>5. /\ UdHandle(h') /\ UdActive(h') /\ UdCloses(h')
      /\ h'.reqs_pending = h.reqs_pending /\ h'.active_reqs = h.active_reqs
      /\ "READING" \in h'.flags <=> "READING" \in h.flags
      /\ "READ_PENDING" \in h'.flags <=> "READ_PENDING" \in h.flags
  BY <1>4, UdUser, UdAlikeInv DEF Ud!uv_udp_open
<1>6. hist' \in [stopped: BOOLEAN] /\ ("READING" \in h.flags => ~hist'.stopped)
  BY DEF UdInv, UdTypes, UdReceives, Ud!uv_udp_open
<1> QED
  BY <1>5, <1>6, UdUser, UdHandleOnly DEF Ud!uv_udp_open

\* uv__udp_recv_stop.
LEMMA UdRecvStopInv == UdInv /\ Ud!uv__udp_recv_stop => UdInv'
<1> SUFFICES ASSUME UdInv, Ud!uv__udp_recv_stop PROVE UdInv'
  OBVIOUS
<1> USE DEF Ud!uv__udp_recv_stop
<1>1. /\ UdHandle(h') /\ UdActive(h') /\ UdCloses(h')
      /\ h'.flags \ {"ACTIVE"} = h.flags \ {"READING", "ACTIVE"}
      /\ h'.reqs_pending = h.reqs_pending /\ h'.active_reqs = h.active_reqs
  BY UdUser, UdStopsReading
<1>2. /\ "READING" \notin h'.flags
      /\ "READ_PENDING" \in h'.flags <=> "READ_PENDING" \in h.flags
  BY <1>1
<1>3. hist' \in [stopped: BOOLEAN]
  BY DEF UdInv, UdTypes
<1> QED
  BY <1>1, <1>2, <1>3, UdUser, UdHandleOnly

\* uv_udp_close.
LEMMA UdCloseInv == UdInv /\ Ud!uv_udp_close => UdInv'
<1> SUFFICES ASSUME UdInv, Ud!uv_udp_close PROVE UdInv'
  OBVIOUS
<1> USE DEF Ud!uv_udp_close
<1>1. PICK u, s, c : /\ u = Ud!StopReceiving(h) /\ s = [u EXCEPT !.socket = FALSE]
                     /\ c = uv__handle_closing(s)
  OBVIOUS
<1>2. h' = IF c.reqs_pending = 0 THEN Set(c, {"ENDGAME_QUEUED"}) ELSE c
  BY <1>1, UdOperators DEF Ud!EndgameIfIdle, Ud!uv_want_endgame
<1>3. /\ UdHandle(u) /\ UdActive(u) /\ UdCloses(u)
      /\ u.flags \ {"ACTIVE"} = h.flags \ {"READING", "ACTIVE"}
      /\ u.reqs_pending = h.reqs_pending /\ u.active_reqs = h.active_reqs
  BY <1>1, UdUser, UdStopsReading
<1>4. /\ IsHandle(s) /\ IsRecord(s, UdFields) /\ Changes(u, s, {"socket"})
  BY <1>1, <1>3 DEF UdHandle, IsHandle, IsRecord, UdFields, BaseFields, Changes
<1>5. /\ IsHandle(c) /\ Changes(s, c, {"flags", "active_handles"})
      /\ c.flags = (s.flags \ {"ACTIVE"}) \cup {"CLOSING"}
      /\ c.active_handles = s.active_handles + Bit(~Active(s))
  BY <1>1, <1>4, Closing
<1>6. /\ UdHandle(c) /\ c.flags = (u.flags \ {"ACTIVE"}) \cup {"CLOSING"}
      /\ c.reqs_pending = h.reqs_pending /\ c.active_reqs = h.active_reqs
      /\ c.activecnt = u.activecnt /\ c.send_queue_count = u.send_queue_count
      /\ c.active_udp_streams = u.active_udp_streams
      /\ c.active_handles = u.active_handles + Bit(~Active(u))
  BY <1>3, <1>4, <1>5 DEF UdHandle, IsHandle, IsRecord, UdFields, BaseFields, Changes, Active
<1>7. {"CLOSING", "CLOSED", "ENDGAME_QUEUED"} \cap h.flags = {}
  BY UdUser DEF UdCloses
<1>8. /\ "READING" \notin u.flags /\ c.active_handles = 1
      /\ {"ACTIVE", "READING", "CLOSED"} \cap c.flags = {}
      /\ "CLOSING" \in c.flags
  BY <1>3, <1>6, <1>7 DEF UdActive, Active, Bit
<1>9. UdActive(c)
  BY <1>3, <1>6, <1>8 DEF UdActive, Active, Bit
<1>10. /\ IsHandle(h') /\ Changes(c, h', {"flags"})
       /\ h'.flags = IF c.reqs_pending = 0 THEN c.flags \cup {"ENDGAME_QUEUED"} ELSE c.flags
  <2>1. CASE c.reqs_pending = 0
    <3>1. h' = Set(c, {"ENDGAME_QUEUED"})
      BY <1>2, <2>1
    <3>2. /\ IsHandle(Set(c, {"ENDGAME_QUEUED"}))
          /\ Changes(c, Set(c, {"ENDGAME_QUEUED"}), {"flags"})
          /\ Set(c, {"ENDGAME_QUEUED"}).flags = c.flags \cup {"ENDGAME_QUEUED"}
      BY <1>5, Setting
    <3> QED
      BY <2>1, <3>1, <3>2
  <2>2. CASE c.reqs_pending # 0
    BY <1>2, <1>5, <2>2 DEF IsHandle, IsRecord, Changes
  <2> QED
    BY <2>1, <2>2
<1>11. /\ UdHandle(h') /\ h'.reqs_pending = h.reqs_pending /\ h'.active_reqs = h.active_reqs
       /\ h'.activecnt = c.activecnt /\ h'.send_queue_count = c.send_queue_count
       /\ h'.active_udp_streams = c.active_udp_streams
       /\ h'.active_handles = c.active_handles
  BY <1>6, <1>10 DEF UdHandle, IsHandle, IsRecord, UdFields, BaseFields, Changes
<1>12. \A f \in {"READING", "READ_PENDING", "ACTIVE", "CLOSING", "CLOSED"} :
         f \in h'.flags <=> f \in c.flags
  BY <1>10
<1>13. UdActive(h')
  BY <1>6, <1>9, <1>11, <1>12 DEF UdActive, Active
<1>14. UdCloses(h')
  BY <1>3, <1>6, <1>7, <1>8, <1>10, <1>11, <1>12 DEF UdCloses
<1>15. /\ "READING" \notin h'.flags
       /\ "READ_PENDING" \in h'.flags <=> "READ_PENDING" \in h.flags
  BY <1>3, <1>6, <1>8, <1>12
<1>16. hist' \in [stopped: BOOLEAN]
  BY DEF UdInv, UdTypes
<1> QED
  BY <1>11, <1>13, <1>14, <1>15, <1>16, UdUser, UdHandleOnly

\* uv_udp_queue_recv when no receive is on its way, for a handle like h: the
\* request is with Winsock or in the queue, and counted.
LEMMA UdPosts ==
  ASSUME UdInv, NEW u, UdHandle(u), UdActive(u), UdCloses(u), "CLOSING" \notin u.flags,
         u.reqs_pending = h.reqs_pending, u.active_reqs = h.active_reqs,
         "recv" \notin kernel \cup Reqs(pending),
         NEW how \in Ud!Outcomes, Ud!uv_udp_queue_recv(u, how),
         pc' \in {"loop", "done", "counted"}, pc' = "loop" <=> pc = "loop",
         how = "refused" => pc' # "done",
         hist' \in [stopped: BOOLEAN], ~hist'.stopped
  PROVE  UdInv'
<1>1. PICK p, F, e : /\ p = INCREASE_PENDING(u) /\ h' = Set(p, F)
                     /\ F = (IF how = "refused" THEN {} ELSE {"READ_PENDING"})
                     /\ e = [req |-> "recv", status |-> IF how = "now" THEN "ok" ELSE "error"]
  BY UdOperators DEF Ud!uv_udp_queue_recv
<1>2. IsHandle(p) /\ Changes(u, p, {"reqs_pending"}) /\ p.reqs_pending = u.reqs_pending + 1
  BY <1>1, PendingUp DEF UdHandle
<1>3. IsHandle(h') /\ Changes(p, h', {"flags"}) /\ h'.flags = p.flags \cup F
  BY <1>1, <1>2, Setting
<1>4. /\ UdHandle(h') /\ h'.flags = u.flags \cup F
      /\ h'.reqs_pending = h.reqs_pending + 1 /\ h'.active_reqs = h.active_reqs
      /\ h'.activecnt = u.activecnt /\ h'.active_handles = u.active_handles
      /\ h'.send_queue_count = u.send_queue_count
      /\ h'.active_udp_streams = u.active_udp_streams
  BY <1>2, <1>3 DEF UdHandle, IsHandle, IsRecord, UdFields, BaseFields, Changes
<1>5. \A f \in {"READING", "ACTIVE", "CLOSING", "CLOSED", "ENDGAME_QUEUED"} :
        f \in h'.flags <=> f \in u.flags
  BY <1>1, <1>4
<1>6. UdActive(h') /\ UdCloses(h')
  BY <1>4, <1>5 DEF UdActive, UdCloses, Active
<1>7. /\ UdTypes /\ "recv" \in UdReqs /\ Cardinality(kernel) \in Nat /\ Len(pending) \in Nat
      /\ Distinct(pending)
  BY UdNumbers DEF UdInv, UdInFlight, UdReqs
<1>8. CASE how = "kernel"
  <2>1. kernel' = kernel \cup {"recv"} /\ pending' = pending
    BY <1>8 DEF Ud!uv_udp_queue_recv
  <2>2. IsFiniteSet(kernel') /\ Cardinality(kernel') = Cardinality(kernel) + 1
    BY <1>7, <2>1, FS_AddElement DEF UdTypes
  <2>3. UdTypes'
    BY <1>4, <1>7, <2>1, <2>2 DEF UdTypes
  <2>4. UdInFlight'
    BY <1>4, <1>7, <2>1, <2>2 DEF UdInv, UdInFlight, Bit
  <2>5. UdReceives'
    BY <1>1, <1>4, <1>8, <2>1 DEF UdReceives
  <2> QED
    BY <1>6, <2>3, <2>4, <2>5 DEF UdInv
<1>9. CASE how # "kernel"
  <2>1. kernel' = kernel /\ pending' = Append(pending, e) /\ e \in UdDone /\ e.req = "recv"
    BY <1>1, <1>7, <1>9 DEF Ud!uv_udp_queue_recv, UdDone
  <2>2. /\ pending' \in Seq(UdDone) /\ Len(pending') = Len(pending) + 1
        /\ Reqs(pending') = Reqs(pending) \cup {"recv"} /\ Distinct(pending')
    BY <1>7, <2>1, ReqAppended DEF UdTypes
  <2>3. UdTypes'
    BY <1>4, <1>7, <2>1, <2>2 DEF UdTypes
  <2>4. UdInFlight'
    <3>1. /\ kernel' \cap Reqs(pending') = {}
          /\ (kernel' \cup Reqs(pending')) \ {"recv"} = h'.active_reqs
      BY <1>4, <2>1, <2>2 DEF UdInv, UdInFlight
    <3>2. PICK n \in Nat, m \in Nat : n = Cardinality(kernel) /\ m = Len(pending)
      BY <1>7
    <3>3. h.reqs_pending = n + m + Bit(pc # "loop") /\ Bit(pc' # "loop") = Bit(pc # "loop")
      BY <3>2 DEF UdInv, UdInFlight
    <3>4. h'.reqs_pending = Cardinality(kernel') + Len(pending') + Bit(pc' # "loop")
      BY <1>4, <2>1, <2>2, <3>2, <3>3 DEF Bit
    <3> QED
      BY <2>2, <3>1, <3>4 DEF UdInFlight
  <2>5. UdReceives'
    BY <1>1, <1>4, <2>1, <2>2 DEF UdReceives
  <2> QED
    BY <1>6, <2>3, <2>4, <2>5 DEF UdInv
<1> QED
  BY <1>8, <1>9

\* The receive is queued if it is among the requests of the queue.
LEMMA UdRecvQueued ==
  UdTypes => (Ud!RecvQueued <=> "recv" \in Reqs(pending))
<1> SUFFICES ASSUME UdTypes PROVE Ud!RecvQueued <=> "recv" \in Reqs(pending)
  OBVIOUS
<1>1. DOMAIN pending = 1..Len(pending)
  BY LenProperties DEF UdTypes
<1> QED
  BY <1>1 DEF Ud!RecvQueued, Reqs

\* uv__udp_recv_start.
LEMMA UdRecvStartInv ==
  ASSUME RestartsReceive = FALSE
  PROVE  UdInv /\ Ud!uv__udp_recv_start => UdInv'
<1> SUFFICES ASSUME UdInv, Ud!uv__udp_recv_start PROVE UdInv'
  OBVIOUS
<1>1. /\ Ud!User /\ "READING" \notin h.flags
      /\ "READ_PENDING" \in h.flags \/ "recv" \notin Reqs(pending)
  BY UdOperators, UdRecvQueued DEF Ud!uv__udp_recv_start, UdInv
<1>2. PICK bind \in Ud!BindResults(h) :
        LET bound == Ud!uv_udp_maybe_bind(h, "ip4", bind)
            reading == [Ud!INCREASE_ACTIVE_COUNT(Ud!Set(bound, {"READING"}))
                          EXCEPT !.active_udp_streams = @ + 1]
        IN  IF bind # "bound"
            THEN h' = bound /\ UNCHANGED <<kernel, pending, hist>>
            ELSE /\ hist' = [hist EXCEPT !.stopped = FALSE]
                 /\ IF "READ_PENDING" \notin h.flags
                    THEN \E how \in Ud!Outcomes : /\ RestartsReceive \/ how # "refused" \/ pc # "done"
                                                  /\ Ud!uv_udp_queue_recv(reading, how)
                    ELSE h' = reading /\ UNCHANGED <<kernel, pending>>
  BY UdOperators DEF Ud!uv__udp_recv_start, Ud!NoReceive
<1>3. PICK b, r : /\ b = Ud!uv_udp_maybe_bind(h, "ip4", bind)
                  /\ r = [Ud!INCREASE_ACTIVE_COUNT(Ud!Set(b, {"READING"}))
                            EXCEPT !.active_udp_streams = @ + 1]
  OBVIOUS
<1>4. CASE bind # "bound"
  BY <1>1, <1>2, <1>4, UdBinds
<1>5. CASE bind = "bound"
  <2>1. UdAlike(h, b) /\ UdTypes /\ "CLOSING" \notin h.flags
    BY <1>1, <1>3, UdUser, UdBound
  <2>2. /\ UdHandle(b) /\ UdActive(b) /\ UdCloses(b)
        /\ b.reqs_pending = h.reqs_pending /\ b.active_reqs = h.active_reqs
        /\ \A f \in {"READING", "READ_PENDING", "CLOSING"} : f \in b.flags <=> f \in h.flags
    BY <1>1, <2>1, UdUser, UdAlikeInv
  <2>3. /\ UdHandle(r) /\ UdActive(r) /\ UdCloses(r)
        /\ r.flags = b.flags \cup {"READING", "ACTIVE"}
        /\ r.reqs_pending = h.reqs_pending /\ r.active_reqs = h.active_reqs
    BY <1>1, <1>3, <2>1, <2>2, UdStartsReading
  <2>4. /\ hist' \in [stopped: BOOLEAN] /\ ~hist'.stopped
    BY <1>2, <1>5, <2>1 DEF UdTypes
  <2>5. "CLOSING" \notin r.flags /\ ("READ_PENDING" \in r.flags <=> "READ_PENDING" \in h.flags)
    BY <2>1, <2>2, <2>3
  <2>6. CASE "READ_PENDING" \in h.flags
    <3>1. h' = r /\ UNCHANGED <<kernel, pending>>
      BY <1>2, <1>3, <1>5, <2>6
    <3> QED
      BY <1>1, <2>3, <2>4, <2>5, <2>6, <3>1, UdUser, UdHandleOnly
  <2>7. CASE "READ_PENDING" \notin h.flags
    <3>1. PICK how \in Ud!Outcomes : /\ how # "refused" \/ pc # "done"
                                     /\ Ud!uv_udp_queue_recv(r, how)
      BY <1>2, <1>3, <1>5, <2>7
    <3>2. "recv" \notin kernel \cup Reqs(pending)
      BY <1>1, <2>7 DEF UdInv, UdReceives
    <3>3. pc' = pc /\ pc \in {"loop", "done", "counted"}
      BY <1>1, <2>1, UdUser DEF UdTypes
    <3> QED
      BY <2>3, <2>4, <2>5, <3>1, <3>2, <3>3, UdPosts
  <2> QED
    BY <2>6, <2>7
<1> QED
  BY <1>4, <1>5

\* uv__udp_send: the request is taken, by Winsock or by the queue, or refused.
LEMMA UdSendInv == \A s \in Sends : UdInv /\ Ud!uv__udp_send(s) => UdInv'
<1> SUFFICES ASSUME UdInv, NEW s \in Sends, Ud!uv__udp_send(s) PROVE UdInv'
  OBVIOUS
<1>1. Ud!User /\ s \notin h.active_reqs /\ s # "recv" /\ UNCHANGED hist
  BY SendsAssumption DEF Ud!uv__udp_send
<1>2. PICK family \in Ud!Families, bind \in Ud!BindResults(h), how \in Ud!Outcomes :
        LET bound == Ud!uv_udp_maybe_bind(h, family, bind)
        IN  IF bind # "bound" \/ how = "refused"
            THEN h' = bound /\ UNCHANGED <<kernel, pending>>
            ELSE /\ h' = UdSent(bound, s)
                 /\ kernel' = kernel \cup IF how = "kernel" THEN {s} ELSE {}
                 /\ pending' = IF how = "kernel" THEN pending
                               ELSE Append(pending, [req |-> s, status |-> "ok"])
  BY DEF Ud!uv__udp_send, UdSent
<1>3. PICK b, v : /\ b = Ud!uv_udp_maybe_bind(h, family, bind)
                  /\ v = UdSent(b, s)
  OBVIOUS
<1>4. CASE bind # "bound" \/ how = "refused"
  <2>1. h' = b /\ UNCHANGED <<kernel, pending>>
    BY <1>2, <1>3, <1>4
  <2> QED
    BY <1>1, <1>3, <2>1, UdBinds
<1>5. CASE bind = "bound" /\ how # "refused"
  <2>1. /\ h' = v
        /\ kernel' = kernel \cup IF how = "kernel" THEN {s} ELSE {}
        /\ pending' = IF how = "kernel" THEN pending
                      ELSE Append(pending, [req |-> s, status |-> "ok"])
    BY <1>2, <1>3, <1>5
  <2>2. UdAlike(h, b) /\ UdTypes /\ "CLOSING" \notin h.flags /\ pc' = pc /\ pc # "recvfrom"
    BY <1>1, <1>3, UdUser, UdBound
  <2>3. /\ UdHandle(b) /\ UdActive(b) /\ UdCloses(b)
        /\ b.reqs_pending = h.reqs_pending /\ b.active_reqs = h.active_reqs
        /\ \A f \in {"READING", "READ_PENDING", "CLOSING"} : f \in b.flags <=> f \in h.flags
    BY <1>1, <2>2, UdUser, UdAlikeInv
  <2>4. /\ UdHandle(h') /\ UdActive(h') /\ UdCloses(h')
        /\ h'.flags = b.flags \cup {"ACTIVE"}
        /\ h'.reqs_pending = h.reqs_pending + 1 /\ h'.active_reqs = h.active_reqs \cup {s}
    <3>1. "CLOSING" \notin b.flags /\ s \notin b.active_reqs
      BY <1>1, <2>2, <2>3
    <3>2. /\ UdHandle(v) /\ UdActive(v) /\ UdCloses(v)
          /\ v.flags = b.flags \cup {"ACTIVE"}
          /\ v.reqs_pending = b.reqs_pending + 1 /\ v.active_reqs = b.active_reqs \cup {s}
      BY <1>3, <2>3, <3>1, UdRegisters
    <3> QED
      BY <2>1, <2>3, <3>2
  <2>5. s \in UdReqs /\ s \notin kernel \cup Reqs(pending) /\ Distinct(pending)
    BY <1>1 DEF UdReqs, UdInv, UdInFlight
  <2>6. PICK n \in Nat, m \in Nat :
          n = Cardinality(kernel) /\ m = Len(pending) /\ h.reqs_pending = n + m + Bit(pc # "loop")
    BY <2>2, UdNumbers DEF UdInv, UdInFlight
  <2>7. /\ kernel' \in SUBSET UdReqs /\ IsFiniteSet(kernel') /\ pending' \in Seq(UdDone)
        /\ Distinct(pending') /\ kernel' \cap Reqs(pending') = {}
        /\ kernel' \cup Reqs(pending') = kernel \cup Reqs(pending) \cup {s}
        /\ Cardinality(kernel') + Len(pending') = n + m + 1
        /\ kernel \subseteq kernel' /\ Reqs(pending) \subseteq Reqs(pending')
    <3>1. CASE how = "kernel"
      <4>1. kernel' = kernel \cup {s} /\ pending' = pending
        BY <2>1, <3>1
      <4>2. IsFiniteSet(kernel') /\ Cardinality(kernel') = n + 1
        BY <2>2, <2>5, <2>6, <4>1, FS_AddElement DEF UdTypes
      <4> QED
        BY <2>2, <2>5, <2>6, <4>1, <4>2 DEF UdTypes, UdInv, UdInFlight
    <3>2. CASE how # "kernel"
      <4>1. PICK e : e = [req |-> s, status |-> "ok"]
        OBVIOUS
      <4>2. kernel' = kernel /\ pending' = Append(pending, e) /\ e \in UdDone /\ e.req = s
        BY <2>1, <2>5, <3>2, <4>1 DEF UdDone
      <4>3. /\ pending' \in Seq(UdDone) /\ Len(pending') = m + 1
            /\ Reqs(pending') = Reqs(pending) \cup {s} /\ Distinct(pending')
        BY <2>2, <2>5, <2>6, <4>2, ReqAppended DEF UdTypes
      <4>4. kernel' \cap Reqs(pending') = {}
        BY <2>5, <4>2, <4>3 DEF UdInv, UdInFlight
      <4> QED
        BY <2>2, <2>6, <4>2, <4>3, <4>4 DEF UdTypes
    <3> QED
      BY <3>1, <3>2
  <2>8. UdTypes'
    BY <1>1, <2>2, <2>4, <2>7 DEF UdTypes
  <2>9. UdInFlight'
    <3>1. (kernel' \cup Reqs(pending')) \ {"recv"} = h'.active_reqs
      BY <1>1, <2>4, <2>7 DEF UdInv, UdInFlight
    <3>2. h'.reqs_pending = Cardinality(kernel') + Len(pending') + Bit(pc' # "loop")
      BY <2>2, <2>4, <2>6, <2>7 DEF Bit
    <3> QED
      BY <2>7, <3>1, <3>2 DEF UdInFlight
  <2>10. UdReceives'
    <3>1. /\ "recv" \in kernel' <=> "recv" \in kernel
          /\ "recv" \in Reqs(pending') <=> "recv" \in Reqs(pending)
          /\ "READING" \in h'.flags <=> "READING" \in h.flags
          /\ "READ_PENDING" \in h'.flags <=> "READ_PENDING" \in h.flags
      <4>1. "recv" \in kernel' => "recv" \in kernel
        BY <1>1, <2>1
      <4>2. "recv" \in Reqs(pending') => "recv" \in Reqs(pending)
        BY <1>1, <2>7, <4>1 DEF UdInv, UdReceives, UdInFlight
      <4> QED
        BY <2>3, <2>4, <2>7, <4>1, <4>2
    <3> QED
      BY <1>1, <2>2, <3>1 DEF UdInv, UdReceives
  <2> QED
    BY <2>4, <2>8, <2>9, <2>10 DEF UdInv
<1> QED
  BY <1>4, <1>5

\* Winsock ends a request: it moves to the queue.
LEMMA UdCompletesInv == \A r \in UdReqs : UdInv /\ Ud!KernelCompletes(r) => UdInv'
<1> SUFFICES ASSUME UdInv, NEW r \in UdReqs, Ud!KernelCompletes(r) PROVE UdInv'
  OBVIOUS
<1>1. PICK st \in {"ok", "msgsize", "reset", "error"} :
        /\ r \in kernel /\ kernel' = kernel \ {r}
        /\ pending' = Append(pending, [req |-> r, status |-> st])
        /\ UNCHANGED <<h, pc, cb, hist>>
  BY DEF Ud!KernelCompletes
<1>2. PICK e : e = [req |-> r, status |-> st]
  OBVIOUS
<1>3. e \in UdDone /\ e.req = r /\ UdTypes /\ Distinct(pending) /\ r \notin Reqs(pending)
  BY <1>1, <1>2 DEF UdDone, UdInv, UdInFlight
<1>4. PICK n \in Nat, m \in Nat :
        n = Cardinality(kernel) /\ m = Len(pending) /\ h.reqs_pending = n + m + Bit(pc # "loop")
  BY <1>3, UdNumbers DEF UdInv, UdInFlight
<1>5. IsFiniteSet(kernel') /\ Cardinality(kernel') = n - 1
  BY <1>1, <1>3, <1>4, FS_RemoveElement DEF UdTypes
<1>6. /\ pending' \in Seq(UdDone) /\ Len(pending') = m + 1
      /\ Reqs(pending') = Reqs(pending) \cup {r} /\ Distinct(pending')
  BY <1>1, <1>2, <1>3, <1>4, ReqAppended DEF UdTypes
<1>7. UdTypes'
  BY <1>1, <1>3, <1>5, <1>6 DEF UdTypes
<1>8. kernel' \cup Reqs(pending') = kernel \cup Reqs(pending)
  BY <1>1, <1>6
<1>9. UdInFlight'
  <2>1. (kernel' \cup Reqs(pending')) \ {"recv"} = h'.active_reqs /\ kernel' \cap Reqs(pending') = {}
    BY <1>1, <1>6, <1>8 DEF UdInv, UdInFlight
  <2>2. h'.reqs_pending = Cardinality(kernel') + Len(pending') + Bit(pc' # "loop")
    BY <1>1, <1>4, <1>5, <1>6 DEF Bit
  <2> QED
    BY <1>6, <2>1, <2>2 DEF UdInFlight
<1>10. UdReceives'
  <2>1. "recv" \in Reqs(pending') => "recv" \in Reqs(pending) \/ "READ_PENDING" \in h.flags
    BY <1>1, <1>6 DEF UdInv, UdReceives
  <2> QED
    BY <1>1, <1>8, <2>1 DEF UdInv, UdReceives
<1> QED
  BY <1>1, <1>7, <1>9, <1>10 DEF UdInv

\* The callback of the user returns.
LEMMA UdCallbackInv == UdInv /\ Ud!CallbackReturns => UdInv'
BY DEF UdInv, UdTypes, UdInFlight, UdReceives, UdActive, UdCloses, Ud!CallbackReturns

\* The completed request at the head of the queue goes to its handler.
LEMMA UdTakes ==
  ASSUME UdInv, NEW r, Ud!Take(r)
  PROVE  /\ pc = "loop" /\ UNCHANGED <<kernel, hist>> /\ Head(pending).req = r
         /\ r \in Reqs(pending) /\ r \notin kernel
         /\ pending' \in Seq(UdDone) /\ Distinct(pending') /\ Reqs(pending') = Reqs(pending) \ {r}
         /\ h.reqs_pending = Cardinality(kernel) + Len(pending') + 1
         /\ h.reqs_pending \in Nat
<1>1. /\ pc = "loop" /\ UNCHANGED <<kernel, hist>> /\ Head(pending).req = r
      /\ pending # <<>> /\ pending' = Tail(pending)
  BY DEF Ud!Take, Ud!At
<1>2. UdTypes /\ Distinct(pending) /\ kernel \cap Reqs(pending) = {}
  BY DEF UdInv, UdInFlight
<1>3. /\ pending' \in Seq(UdDone) /\ Len(pending) \in Nat /\ Len(pending') = Len(pending) - 1
      /\ r \in Reqs(pending) /\ Distinct(pending') /\ Reqs(pending') = Reqs(pending) \ {r}
  BY <1>1, <1>2, ReqTaken DEF UdTypes
<1>4. PICK n \in Nat, m \in Nat :
        n = Cardinality(kernel) /\ m = Len(pending) /\ h.reqs_pending = n + m
  BY <1>1, <1>2, UdNumbers DEF UdInv, UdInFlight, Bit
<1> QED
  BY <1>1, <1>2, <1>3, <1>4

\* uv_process_udp_send_req.
LEMMA UdSendReqInv == \A s \in Sends : UdInv /\ Ud!uv_process_udp_send_req(s) => UdInv'
<1> SUFFICES ASSUME UdInv, NEW s \in Sends, Ud!uv_process_udp_send_req(s) PROVE UdInv'
  OBVIOUS
<1>1. /\ Ud!Take(s) /\ s # "recv" /\ pc' = "counted"
      /\ h' = Ud!UNREGISTER_HANDLE_REQ(Ud!SendDone(h), s)
  BY SendsAssumption DEF Ud!uv_process_udp_send_req
<1>2. /\ pc = "loop" /\ UNCHANGED <<kernel, hist>>
      /\ s \in Reqs(pending) /\ s \notin kernel
      /\ pending' \in Seq(UdDone) /\ Distinct(pending') /\ Reqs(pending') = Reqs(pending) \ {s}
      /\ h.reqs_pending = Cardinality(kernel) + Len(pending') + 1
  BY <1>1, UdTakes
<1>3. s \in h.active_reqs /\ UdHandle(h) /\ UdActive(h) /\ UdCloses(h) /\ UdTypes
  BY <1>1, <1>2 DEF UdInv, UdInFlight, UdTypes
<1>4. /\ UdHandle(h') /\ UdActive(h') /\ UdCloses(h')
      /\ h'.flags \ {"ACTIVE"} = h.flags \ {"ACTIVE"}
      /\ h'.reqs_pending = h.reqs_pending /\ h'.active_reqs = h.active_reqs \ {s}
  BY <1>1, <1>3, UdUnregisters
<1>5. UdTypes'
  BY <1>1, <1>2, <1>3, <1>4 DEF UdTypes
<1>6. UdInFlight'
  <2>1. /\ kernel' \cap Reqs(pending') = {}
        /\ (kernel' \cup Reqs(pending')) \ {"recv"} = h'.active_reqs
    BY <1>1, <1>2, <1>4 DEF UdInv, UdInFlight
  <2> QED
    BY <1>1, <1>2, <1>4, <2>1 DEF UdInFlight, Bit
<1>7. UdReceives'
  <2>1. /\ "recv" \in Reqs(pending') <=> "recv" \in Reqs(pending)
        /\ "READING" \in h'.flags <=> "READING" \in h.flags
        /\ "READ_PENDING" \in h'.flags <=> "READ_PENDING" \in h.flags
    BY <1>1, <1>2, <1>4
  <2> QED
    BY <1>1, <1>2, <2>1 DEF UdInv, UdReceives
<1> QED
  BY <1>4, <1>5, <1>6, <1>7 DEF UdInv

\* uv_process_udp_recv_req, up to its first callback.
LEMMA UdRecvReqInv == UdInv /\ Ud!uv_process_udp_recv_req => UdInv'
<1> SUFFICES ASSUME UdInv, Ud!uv_process_udp_recv_req PROVE UdInv'
  OBVIOUS
<1>1. PICK u : u = Clear(h, {"READ_PENDING"})
  OBVIOUS
<1>2. PICK failed \in BOOLEAN :
        /\ Ud!Take("recv")
        /\ h' = IF failed THEN Ud!StopReceiving(u) ELSE u
        /\ pc' = IF failed \/ "READING" \notin h.flags THEN "done" ELSE "recvfrom"
        /\ cb' = IF "READING" \notin h.flags THEN "none" ELSE IF failed THEN "recv" ELSE "alloc"
  <2>1. PICK failed \in BOOLEAN : failed <=> Head(pending).status = "error"
    OBVIOUS
  <2> QED
    BY <1>1, <2>1, UdOperators DEF Ud!uv_process_udp_recv_req
<1>3. /\ pc = "loop" /\ UNCHANGED <<kernel, hist>>
      /\ "recv" \in Reqs(pending) /\ "recv" \notin kernel
      /\ pending' \in Seq(UdDone) /\ Distinct(pending')
      /\ Reqs(pending') = Reqs(pending) \ {"recv"}
      /\ h.reqs_pending = Cardinality(kernel) + Len(pending') + 1
  BY <1>2, UdTakes
<1>4. UdHandle(h) /\ UdActive(h) /\ UdCloses(h) /\ UdTypes
  BY DEF UdInv, UdTypes
<1>5. IsHandle(u) /\ Changes(h, u, {"flags"}) /\ u.flags = h.flags \ {"READ_PENDING"}
  BY <1>1, <1>4, Clearing DEF UdHandle
<1>6. /\ UdHandle(u) /\ u.activecnt = h.activecnt /\ u.active_handles = h.active_handles
      /\ u.send_queue_count = h.send_queue_count /\ u.active_reqs = h.active_reqs
      /\ u.active_udp_streams = h.active_udp_streams /\ u.reqs_pending = h.reqs_pending
  BY <1>4, <1>5 DEF UdHandle, IsHandle, IsRecord, UdFields, BaseFields, Changes
<1>7. \A f \in {"READING", "ACTIVE", "CLOSING", "CLOSED", "ENDGAME_QUEUED"} :
        f \in u.flags <=> f \in h.flags
  BY <1>5
<1>8. UdActive(u) /\ UdCloses(u)
  BY <1>4, <1>6, <1>7 DEF UdActive, UdCloses, Active
<1>9. /\ UdHandle(h') /\ UdActive(h') /\ UdCloses(h')
      /\ h'.reqs_pending = h.reqs_pending /\ h'.active_reqs = h.active_reqs
      /\ "READ_PENDING" \notin h'.flags
      /\ "READING" \in h'.flags => "READING" \in h.flags
      /\ pc' = "recvfrom" => "READING" \in h'.flags
  <2>1. CASE failed
    <3>1. PICK v : v = Ud!StopReceiving(u)
      OBVIOUS
    <3>2. /\ UdHandle(v) /\ UdActive(v) /\ UdCloses(v)
          /\ v.flags \ {"ACTIVE"} = u.flags \ {"READING", "ACTIVE"}
          /\ v.reqs_pending = u.reqs_pending /\ v.active_reqs = u.active_reqs
      BY <1>6, <1>8, <3>1, UdStopsReading
    <3>3. h' = v /\ pc' = "done"
      BY <1>2, <2>1, <3>1
    <3>4. "READ_PENDING" \notin v.flags /\ "READING" \notin v.flags
      BY <1>5, <3>2
    <3> QED
      BY <1>6, <3>2, <3>3, <3>4
  <2>2. CASE ~failed
    BY <1>2, <1>5, <1>6, <1>7, <1>8, <2>2
  <2> QED
    BY <2>1, <2>2
<1>10. pc' \in {"done", "recvfrom"} /\ "recv" \notin Reqs(pending')
  BY <1>2, <1>3
<1>11. UdTypes'
  BY <1>3, <1>4, <1>9, <1>10 DEF UdTypes
<1>12. UdInFlight'
  <2>1. /\ kernel' \cap Reqs(pending') = {}
        /\ (kernel' \cup Reqs(pending')) \ {"recv"} = h'.active_reqs
    BY <1>3, <1>9 DEF UdInv, UdInFlight
  <2> QED
    BY <1>3, <1>9, <1>10, <2>1 DEF UdInFlight, Bit
<1>13. UdReceives'
  <2>1. "READING" \in h'.flags => ~hist'.stopped
    BY <1>3, <1>9 DEF UdInv, UdReceives
  <2>2. pc' = "recvfrom" => cb' \in {"none", "alloc"}
    BY <1>2
  <2> QED
    BY <1>3, <1>9, <1>10, <2>1, <2>2 DEF UdReceives
<1> QED
  BY <1>9, <1>11, <1>12, <1>13 DEF UdInv

\* uv_process_udp_recv_req: it receives without waiting.
LEMMA UdRecvFromInv == UdInv /\ Ud!RecvFrom => UdInv'
<1> SUFFICES ASSUME UdInv, Ud!RecvFrom PROVE UdInv'
  OBVIOUS
<1>1. /\ pc = "recvfrom" /\ pc' = "done" /\ UNCHANGED <<kernel, pending, hist>>
      /\ h' = Ud!StopReceiving(h) \/ h' = h
  BY DEF Ud!RecvFrom, Ud!At
<1>2. UdHandle(h) /\ UdActive(h) /\ UdCloses(h) /\ UdTypes
  BY DEF UdInv, UdTypes
<1>3. /\ UdHandle(h') /\ UdActive(h') /\ UdCloses(h')
      /\ h'.reqs_pending = h.reqs_pending /\ h'.active_reqs = h.active_reqs
      /\ "READ_PENDING" \in h'.flags <=> "READ_PENDING" \in h.flags
      /\ "READING" \in h'.flags => "READING" \in h.flags
  <2>1. CASE h' = Ud!StopReceiving(h)
    <3>1. /\ UdHandle(h') /\ UdActive(h') /\ UdCloses(h')
          /\ h'.flags \ {"ACTIVE"} = h.flags \ {"READING", "ACTIVE"}
          /\ h'.reqs_pending = h.reqs_pending /\ h'.active_reqs = h.active_reqs
      BY <1>2, <2>1, UdStopsReading
    <3> QED
      BY <3>1
  <2>2. CASE h' = h
    BY <1>2, <2>2
  <2> QED
    BY <1>1, <2>1, <2>2
<1>4. UdTypes'
  BY <1>1, <1>2, <1>3 DEF UdTypes
<1>5. UdInFlight'
  BY <1>1, <1>3 DEF UdInv, UdInFlight, Bit
<1>6. UdReceives'
  BY <1>1, <1>3 DEF UdInv, UdReceives
<1> QED
  BY <1>3, <1>4, <1>5, <1>6 DEF UdInv

\* uv_process_udp_recv_req: it queues the next receive.
LEMMA UdRecvDoneInv == UdInv /\ Ud!RecvDone => UdInv'
<1> SUFFICES ASSUME UdInv, Ud!RecvDone PROVE UdInv'
  OBVIOUS
<1>1. /\ pc = "done" /\ pc' = "counted" /\ UNCHANGED hist
      /\ IF "READING" \in h.flags /\ "READ_PENDING" \notin h.flags
         THEN \E how \in Ud!Outcomes : Ud!uv_udp_queue_recv(h, how)
         ELSE UNCHANGED <<h, kernel, pending>>
  BY UdOperators DEF Ud!RecvDone, Ud!At, Ud!NoReceive
<1>2. UdHandle(h) /\ UdActive(h) /\ UdCloses(h) /\ UdTypes
  BY DEF UdInv, UdTypes
<1>3. CASE "READING" \in h.flags /\ "READ_PENDING" \notin h.flags
  <2>1. PICK how \in Ud!Outcomes : Ud!uv_udp_queue_recv(h, how)
    BY <1>1, <1>3
  <2>2. "recv" \notin kernel \cup Reqs(pending) /\ "CLOSING" \notin h.flags
    BY <1>1, <1>3 DEF UdInv, UdReceives, UdActive
  <2>3. hist' \in [stopped: BOOLEAN] /\ ~hist'.stopped
    BY <1>1, <1>2, <1>3 DEF UdInv, UdReceives, UdTypes
  <2> QED
    BY <1>1, <1>2, <2>1, <2>2, <2>3, UdPosts
<1>4. CASE ~("READING" \in h.flags /\ "READ_PENDING" \notin h.flags)
  <2>1. UNCHANGED <<h, kernel, pending>>
    BY <1>1, <1>4
  <2>2. UdTypes'
    BY <1>1, <1>2, <2>1 DEF UdTypes
  <2>3. UdInFlight'
    BY <1>1, <2>1 DEF UdInv, UdInFlight, Bit
  <2>4. UdReceives'
    BY <1>1, <1>4, <2>1 DEF UdInv, UdReceives
  <2> QED
    BY <1>2, <2>1, <2>2, <2>3, <2>4 DEF UdInv
<1> QED
  BY <1>3, <1>4

\* The handler of the request ends.
LEMMA UdHandlerEndInv == UdInv /\ Ud!HandlerEnd => UdInv'
<1> SUFFICES ASSUME UdInv, Ud!HandlerEnd PROVE UdInv'
  OBVIOUS
<1>1. /\ pc = "counted" /\ pc' = "loop" /\ UNCHANGED <<kernel, pending, hist>>
      /\ h' = DECREASE_PENDING_REQ_COUNT(h)
  BY UdOperators DEF Ud!HandlerEnd, Ud!At
<1>2. UdHandle(h) /\ UdActive(h) /\ UdCloses(h) /\ UdTypes
  BY DEF UdInv, UdTypes
<1>3. PICK n \in Nat, m \in Nat :
        n = Cardinality(kernel) /\ m = Len(pending) /\ h.reqs_pending = n + m + 1
  BY <1>1, <1>2, UdNumbers DEF UdInv, UdInFlight, Bit
<1>4. {"ENDGAME_QUEUED", "CLOSED"} \cap h.flags = {}
  BY <1>2, <1>3 DEF UdCloses
<1>5. /\ IsHandle(h') /\ Changes(h, h', {"flags", "reqs_pending"})
      /\ h'.reqs_pending = h.reqs_pending - 1
      /\ h'.flags = IF "CLOSING" \in h.flags /\ h.reqs_pending = 1
                    THEN h.flags \cup {"ENDGAME_QUEUED"} ELSE h.flags
  BY <1>1, <1>2, PendingDown DEF UdHandle
<1>6. /\ UdHandle(h') /\ h'.reqs_pending = n + m
      /\ h'.activecnt = h.activecnt /\ h'.active_handles = h.active_handles
      /\ h'.send_queue_count = h.send_queue_count /\ h'.active_reqs = h.active_reqs
      /\ h'.active_udp_streams = h.active_udp_streams
  BY <1>2, <1>3, <1>5 DEF UdHandle, IsHandle, IsRecord, UdFields, BaseFields, Changes
<1>7. \A f \in {"READING", "READ_PENDING", "ACTIVE", "CLOSING", "CLOSED"} :
        f \in h'.flags <=> f \in h.flags
  BY <1>5
<1>8. UdActive(h')
  BY <1>2, <1>6, <1>7 DEF UdActive, Active
<1>9. UdCloses(h')
  BY <1>4, <1>3, <1>5, <1>6, <1>7 DEF UdCloses
<1>10. UdTypes'
  BY <1>1, <1>2, <1>6 DEF UdTypes
<1>11. UdInFlight'
  BY <1>1, <1>3, <1>6 DEF UdInv, UdInFlight, Bit
<1>12. UdReceives'
  BY <1>1, <1>7 DEF UdInv, UdReceives
<1> QED
  BY <1>8, <1>9, <1>10, <1>11, <1>12 DEF UdInv

\* uv_udp_endgame.
LEMMA UdEndgameInv == UdInv /\ Ud!uv_udp_endgame => UdInv'
<1> SUFFICES ASSUME UdInv, Ud!uv_udp_endgame PROVE UdInv'
  OBVIOUS
<1>1. PICK u : u = Clear(h, {"ENDGAME_QUEUED"})
  OBVIOUS
<1>2. UdHandle(h) /\ UdActive(h) /\ UdCloses(h) /\ UdTypes
  BY DEF UdInv, UdTypes
<1>3. /\ pc = "loop" /\ UNCHANGED <<kernel, pending, pc, hist>>
      /\ "ENDGAME_QUEUED" \in h.flags
      /\ h' = IF "CLOSING" \in h.flags /\ h.reqs_pending = 0 THEN uv__handle_close(u) ELSE u
  BY <1>1, UdOperators DEF Ud!uv_udp_endgame, Ud!At
<1>4. /\ "CLOSING" \in h.flags /\ h.reqs_pending = 0 /\ "CLOSED" \notin h.flags
      /\ h.active_handles = 1 /\ {"ACTIVE", "READING"} \cap h.flags = {}
  BY <1>2, <1>3 DEF UdCloses, UdActive, Active, Bit
<1>5. IsHandle(u) /\ Changes(h, u, {"flags"}) /\ u.flags = h.flags \ {"ENDGAME_QUEUED"}
  BY <1>1, <1>2, Clearing DEF UdHandle
<1>6. h' = uv__handle_close(u)
  BY <1>3, <1>4
<1>7. /\ IsHandle(h') /\ Changes(u, h', {"flags", "active_handles"})
      /\ h'.flags = u.flags \cup {"CLOSED"} /\ h'.active_handles = u.active_handles - 1
  BY <1>5, <1>6, Closed
<1>8. /\ UdHandle(h') /\ h'.reqs_pending = 0 /\ h'.active_handles = 0
      /\ h'.activecnt = h.activecnt /\ h'.active_reqs = h.active_reqs
      /\ h'.send_queue_count = h.send_queue_count
      /\ h'.active_udp_streams = h.active_udp_streams
  BY <1>2, <1>4, <1>5, <1>7 DEF UdHandle, IsHandle, IsRecord, UdFields, BaseFields, Changes
<1>9. /\ "CLOSED" \in h'.flags /\ "ENDGAME_QUEUED" \notin h'.flags
      /\ \A f \in {"READING", "READ_PENDING", "ACTIVE", "CLOSING"} : f \in h'.flags <=> f \in h.flags
  BY <1>5, <1>7
<1>10. UdActive(h') /\ UdCloses(h')
  BY <1>2, <1>4, <1>8, <1>9 DEF UdActive, UdCloses, Active, Bit
<1>11. UdTypes'
  BY <1>2, <1>3, <1>8 DEF UdTypes
<1>12. UdInFlight'
  BY <1>3, <1>4, <1>8 DEF UdInv, UdInFlight
<1>13. UdReceives'
  BY <1>3, <1>4, <1>9 DEF UdInv, UdReceives
<1> QED
  BY <1>10, <1>11, <1>12, <1>13 DEF UdInv

\* Every step of the handle keeps the invariant.
LEMMA UdNext ==
  ASSUME RestartsReceive = FALSE
  PROVE  UdInv /\ [Ud!Next]_(Ud!vars) => UdInv'
<1> SUFFICES ASSUME UdInv, [Ud!Next]_(Ud!vars) PROVE UdInv'
  OBVIOUS
<1>1. CASE Ud!UserCall
  BY <1>1, UdRecvStartInv, UdRecvStopInv, UdBindInv, UdMembershipInv, UdOpenInv, UdSendInv,
     UdCloseInv DEF Ud!UserCall
<1>2. CASE Ud!HandlerStep
  BY <1>2, UdCallbackInv, UdRecvFromInv, UdRecvDoneInv, UdHandlerEndInv DEF Ud!HandlerStep
<1>3. CASE Ud!ProcessReq
  BY <1>3, UdRecvReqInv, UdSendReqInv DEF Ud!ProcessReq
<1>4. CASE Ud!uv_udp_endgame
  BY <1>4, UdEndgameInv
<1>5. CASE \E r \in Sends \cup {"recv"} : Ud!KernelCompletes(r)
  BY <1>5, UdCompletesInv DEF UdReqs
<1>6. CASE UNCHANGED Ud!vars
  BY <1>6 DEF Ud!vars, UdInv, UdTypes, UdInFlight, UdReceives, UdActive, UdCloses
<1> QED
  BY <1>1, <1>2, <1>3, <1>4, <1>5, <1>6 DEF Ud!Next

\* What the runs check of the handle follows.
LEMMA UdCounters == UdInv => Ud!PendingExact /\ Ud!ActiveExact
<1> SUFFICES ASSUME UdInv PROVE Ud!PendingExact /\ Ud!ActiveExact
  OBVIOUS
<1>1. UdTypes /\ UdActive(h) /\ DOMAIN pending = 1..Len(pending)
  BY LenProperties DEF UdInv, UdTypes
<1>2. Ud!PendingExact
  BY <1>1, UdOperators DEF UdInv, UdInFlight, Distinct, Ud!PendingExact, Ud!Bit, Bit
<1>3. PICK n \in Nat : n = Cardinality(h.active_reqs)
  BY <1>1, UdNumbers DEF UdTypes
<1>4. Ud!LoopKnows(h)
  <2>1. h.flags \cap {"ACTIVE", "CLOSING"} # {} <=> Active(h) \/ "CLOSING" \in h.flags
    BY DEF Active
  <2>2. h.active_handles = Bit(h.flags \cap {"ACTIVE", "CLOSING"} # {} /\ "CLOSED" \notin h.flags)
    BY <1>1, <2>1 DEF UdActive, Bit
  <2>3. PICK k \in Nat, m \in Nat : k = Cardinality(kernel) /\ m = Len(pending)
    BY <1>1, UdNumbers
  <2>4. h.activecnt >= 0 /\ h.reqs_pending >= 0
    BY <1>1, <1>3, <2>3 DEF UdActive, UdInv, UdInFlight, Bit
  <2> QED
    BY <2>2, <2>4, UdOperators DEF Ud!LoopKnows, Ud!Bit, Bit
<1>5. Ud!ActiveExact
  BY <1>1, <1>4, UdOperators DEF UdActive, Ud!ActiveExact, Ud!Bit, Bit
<1> QED
  BY <1>2, <1>5

\* A handle that reads has its receive with the system or the loop.
LEMMA UdArmed == UdInv => Ud!Armed
BY UdOperators, UdRecvQueued DEF UdInv, UdReceives, Ud!Armed

\* No datagram is told to a handle that does not read.
LEMMA UdSilent == UdInv /\ [Ud!Next]_(Ud!vars) => Ud!Silent
<1> SUFFICES ASSUME UdInv, [Ud!Next]_(Ud!vars), cb' = "recv", cb = "none"
             PROVE  ~hist.stopped
  BY DEF Ud!Silent
<1>1. Ud!uv_process_udp_recv_req \/ Ud!RecvFrom
  BY SendsAssumption DEF Ud!Next, Ud!vars, Ud!UserCall, Ud!HandlerStep, Ud!ProcessReq, Ud!User,
     Ud!uv__udp_recv_start, Ud!uv__udp_recv_stop, Ud!uv__udp_bind, Ud!uv_udp_set_membership,
     Ud!uv_udp_open, Ud!uv__udp_send, Ud!uv_udp_close, Ud!CallbackReturns, Ud!RecvDone,
     Ud!HandlerEnd, Ud!uv_process_udp_send_req, Ud!uv_udp_endgame, Ud!KernelCompletes
<1>2. CASE Ud!uv_process_udp_recv_req
  BY <1>2, UdOperators DEF Ud!uv_process_udp_recv_req, UdInv, UdReceives
<1>3. CASE Ud!RecvFrom
  BY <1>3, UdOperators DEF Ud!RecvFrom, Ud!At, UdInv, UdReceives
<1> QED
  BY <1>1, <1>2, <1>3

-----------------------------------------------------------------------------
(* The poll handle.                                                        *)

PoFields == {"events", "submitted", "mask", "result"}
PoPolls == [req: {1, 2}, cut: BOOLEAN, started: BOOLEAN, asked: SUBSET PollEvents]

Polls(u) == u.submitted[1] \cup u.submitted[2]
Serves(k) == k.req

PoHandle(u) ==
  /\ IsHandle(u) /\ IsRecord(u, PoFields)
  /\ u.events \in SUBSET PollEvents
  /\ u.submitted \in [{1, 2} -> SUBSET PollEvents]
  /\ "POLL_SLOW" \in u.flags => "DISCONNECT" \notin u.events \cup Polls(u)

\* The handle is active while it wants events; when it closes it wants none.
PoActive(u) ==
  /\ u.activecnt = 0 /\ u.reqs_pending = 0
  /\ u.events # {} => Active(u)
  /\ "CLOSING" \in u.flags => ~Active(u)
  /\ u.active_handles = Bit((Active(u) \/ "CLOSING" \in u.flags) /\ "CLOSED" \notin u.flags)

PoCloses(u) ==
  /\ "ENDGAME_QUEUED" \in u.flags =>
       "CLOSING" \in u.flags /\ Polls(u) = {} /\ "CLOSED" \notin u.flags
  /\ "CLOSED" \in u.flags =>
       "CLOSING" \in u.flags /\ Polls(u) = {} /\ "ENDGAME_QUEUED" \notin u.flags

PoTypes ==
  /\ PoHandle(h)
  /\ kernel \in SUBSET PoPolls
  /\ pending \in Seq({1, 2})
  /\ pc \in {"loop", "resubmit"}
  /\ "CLOSED" \in h.flags => pc = "loop"

\* A request that was submitted is with the system or in the queue, once.
PoInFlight ==
  /\ OnceEach(pending)
  /\ \A k, l \in kernel : k.req = l.req => k = l
  /\ \A k \in kernel : k.req \notin Items(pending)
  /\ \A i \in {1, 2} : h.submitted[i] # {} <=> i \in Items(pending) \/ \E k \in kernel : k.req = i

\* When both requests are out, slow mode polls for everything and in fast mode
\* one of them is on its way back.
PoBothOut ==
  h.submitted[1] # {} /\ h.submitted[2] # {} =>
    IF "POLL_SLOW" \in h.flags THEN PollEvents \ {"DISCONNECT"} \subseteq Polls(h)
    ELSE pending # <<>> \/ \E k \in kernel : k.cut

\* What is wanted is polled for, but while the handler runs.
PoWanted ==
  pc = "loop" => \/ h.events \subseteq Polls(h)
                 \/ h.submitted[1] # {} /\ h.submitted[2] # {}

PoInv ==
  PoTypes /\ PoInFlight /\ PoBothOut /\ PoWanted /\ PoActive(h) /\ PoCloses(h)

\* What PollHandle has by extending UvHandle is what is here.
LEMMA PoOperators ==
  /\ \A u, F : Po!Set(u, F) = Set(u, F) /\ Po!Clear(u, F) = Clear(u, F)
  /\ \A u, f : Po!Is(u, f) <=> f \in u.flags
  /\ \A u : /\ Po!uv__handle_start(u) = uv__handle_start(u)
            /\ Po!uv__handle_stop(u) = uv__handle_stop(u)
            /\ Po!uv__handle_closing(u) = uv__handle_closing(u)
            /\ Po!uv__handle_close(u) = uv__handle_close(u)
            /\ Po!uv_want_endgame(u) = Set(u, {"ENDGAME_QUEUED"})
            /\ Po!Polled(u) = Polls(u)
  /\ Po!Slow <=> "POLL_SLOW" \in h.flags
BY DEF Po!Set, Po!Clear, Po!Is, Po!uv__handle_start, Po!uv__handle_stop, Po!uv__handle_closing,
   Po!uv__handle_close, Po!uv_want_endgame, Po!Polled, Po!Slow, Po!Bit, Set, Clear, Is, Polls,
   uv__handle_start, uv__handle_stop, uv__handle_closing, uv__handle_close, Bit

\* uv_poll_init makes a handle that satisfies the invariant.
LEMMA PoInit == Po!Init => PoInv
<1> SUFFICES ASSUME Po!Init PROVE PoInv
  OBVIOUS
<1> USE DEF Po!Init
<1>1. PICK F, w, m : /\ F \subseteq {"POLL_SLOW"}
                     /\ h = [flags |-> F, activecnt |-> 0, reqs_pending |-> 0, active_reqs |-> {},
                             active_handles |-> 0, events |-> {},
                             submitted |-> [i \in {1, 2} |-> {}], mask |-> m, result |-> w]
  BY Zenon DEF Po!Two
<1>2. DOMAIN h = BaseFields \cup PoFields /\ h = [x \in DOMAIN h |-> h[x]]
  BY <1>1 DEF BaseFields, PoFields
<1>3. /\ PoHandle(h) /\ h.events = {} /\ Polls(h) = {} /\ h.flags \subseteq {"POLL_SLOW"}
      /\ h.submitted[1] = {} /\ h.submitted[2] = {}
      /\ h.activecnt = 0 /\ h.reqs_pending = 0 /\ h.active_handles = 0
  BY <1>1, <1>2 DEF PoHandle, IsHandle, IsRecord, Polls
<1>4. PoTypes /\ PoInFlight
  BY <1>3, ItemsEmpty DEF PoTypes, PoInFlight
<1>5. PoBothOut /\ PoWanted /\ PoActive(h) /\ PoCloses(h)
  BY <1>3 DEF PoBothOut, PoWanted, PoActive, PoCloses, Active, Bit
<1> QED
  BY <1>4, <1>5 DEF PoInv

\* The same handle but for its masks and results.
PoAlike(u, v) ==
  /\ PoHandle(v) /\ PoActive(v) /\ PoCloses(v)
  /\ v.flags = u.flags /\ v.events = u.events /\ v.submitted = u.submitted

\* The result of a request is not something the counters speak of.
LEMMA PoResults ==
  ASSUME NEW u, PoHandle(u), PoActive(u), PoCloses(u), NEW v, Changes(u, v, {"result", "mask"})
  PROVE  PoAlike(u, v)
<1>1. /\ v.flags = u.flags /\ v.events = u.events /\ v.submitted = u.submitted
      /\ v.activecnt = u.activecnt /\ v.reqs_pending = u.reqs_pending
      /\ v.active_handles = u.active_handles
  BY DEF Changes, PoHandle, IsHandle, IsRecord, BaseFields, PoFields
<1>2. PoHandle(v)
  BY <1>1 DEF PoHandle, IsHandle, IsRecord, Changes, Polls
<1>3. PoActive(v) /\ PoCloses(v)
  BY <1>1 DEF PoActive, PoCloses, Active, Polls
<1> QED
  BY <1>1, <1>2, <1>3 DEF PoAlike

\* Nor is the error of one that could not be submitted.
LEMMA PoFails ==
  ASSUME NEW u, PoHandle(u), PoActive(u), PoCloses(u), NEW i
  PROVE  PoAlike(u, Po!Fail(u, i))
<1>1. PICK w : w = [u.result EXCEPT ![i].status = "error"]
  OBVIOUS
<1>2. Po!Fail(u, i) = [u EXCEPT !.result = w]
  BY <1>1 DEF Po!Fail, PoHandle, IsRecord, PoFields
<1>3. Changes(u, [u EXCEPT !.result = w], {"result", "mask"})
  BY DEF Changes, PoHandle, IsRecord, PoFields
<1> QED
  BY <1>2, <1>3, PoResults

\* uv_poll_set with the handle's new events: it is active if it wants any.
LEMMA PoSets ==
  ASSUME NEW u, PoHandle(u), PoActive(u), PoCloses(u), "CLOSING" \notin u.flags,
         NEW E \in SUBSET PollEvents, "POLL_SLOW" \in u.flags => "DISCONNECT" \notin E,
         NEW e, e = [u EXCEPT !.events = E],
         NEW p, p = IF E # {} THEN uv__handle_start(e) ELSE uv__handle_stop(e)
  PROVE  /\ PoHandle(p) /\ PoActive(p) /\ PoCloses(p)
         /\ p.events = E /\ p.submitted = u.submitted
         /\ p.flags \ {"ACTIVE"} = u.flags \ {"ACTIVE"}
<1>1. /\ IsHandle(e) /\ IsRecord(e, PoFields) /\ Changes(u, e, {"events"}) /\ e.events = E
  BY DEF PoHandle, IsHandle, IsRecord, BaseFields, PoFields, Changes
<1>2. /\ e.flags = u.flags /\ e.submitted = u.submitted /\ e.activecnt = 0
      /\ e.reqs_pending = 0 /\ e.active_handles = u.active_handles
  BY <1>1 DEF Changes, PoHandle, IsHandle, IsRecord, BaseFields, PoFields, PoActive
<1>3. "CLOSED" \notin u.flags /\ "ENDGAME_QUEUED" \notin u.flags
      /\ u.active_handles = Bit(Active(u))
  BY DEF PoCloses, PoActive, Bit
<1>4. /\ IsHandle(p) /\ Changes(e, p, {"flags", "active_handles"})
      /\ p.flags \ {"ACTIVE"} = u.flags \ {"ACTIVE"}
      /\ Active(p) <=> E # {}
      /\ p.active_handles = Bit(E # {})
  <2>1. CASE E # {}
    <3>1. /\ IsHandle(p) /\ Changes(e, p, {"flags", "active_handles"})
          /\ p.flags = e.flags \cup {"ACTIVE"}
          /\ p.active_handles = e.active_handles + Bit(~Active(e))
      BY <1>1, <2>1, Starting
    <3> QED
      BY <1>2, <1>3, <2>1, <3>1 DEF Active, Bit
  <2>2. CASE E = {}
    <3>1. /\ IsHandle(p) /\ Changes(e, p, {"flags", "active_handles"})
          /\ p.flags = e.flags \ {"ACTIVE"}
          /\ p.active_handles = e.active_handles - Bit(Active(e))
      BY <1>1, <2>2, Stopping
    <3> QED
      BY <1>2, <1>3, <2>2, <3>1 DEF Active, Bit
  <2> QED
    BY <2>1, <2>2
<1>5. /\ p.events = E /\ p.submitted = u.submitted /\ p.activecnt = 0 /\ p.reqs_pending = 0
      /\ IsRecord(p, PoFields)
  BY <1>1, <1>2, <1>4 DEF Changes, IsHandle, IsRecord, BaseFields, PoFields
<1>6. \A f \in {"POLL_SLOW", "CLOSING", "CLOSED", "ENDGAME_QUEUED"} : f \in p.flags <=> f \in u.flags
  BY <1>4
<1>7. PoHandle(p)
  BY <1>4, <1>5, <1>6 DEF PoHandle, Polls
<1>8. PoActive(p) /\ PoCloses(p)
  BY <1>3, <1>4, <1>5, <1>6 DEF PoActive, PoCloses, Bit
<1> QED
  BY <1>4, <1>5, <1>7, <1>8

\* The handle once request i polls for its events.
PoSubmitted(p, i, m) == [p EXCEPT !.submitted[i] = p.events, !.mask = m]

\* uv__fast_poll_submit_poll_req: request i asks for all events the handle
\* waits for.
LEMMA PoSubmits ==
  ASSUME NEW p, PoHandle(p), PoActive(p), PoCloses(p), "CLOSING" \notin p.flags,
         NEW i \in {1, 2}, p.submitted[i] = {}, NEW m,
         NEW q, q = PoSubmitted(p, i, m)
  PROVE  /\ PoHandle(q) /\ PoActive(q) /\ PoCloses(q)
         /\ q.flags = p.flags /\ q.events = p.events
         /\ q.submitted[i] = p.events /\ \A j \in {1, 2} \ {i} : q.submitted[j] = p.submitted[j]
         /\ Polls(q) = Polls(p) \cup p.events
<1>1. PICK w, r : /\ w = [p.submitted EXCEPT ![i] = p.events]
                  /\ r = [p EXCEPT !.submitted = w]
  OBVIOUS
<1>2. q = [r EXCEPT !.mask = m]
  BY <1>1 DEF PoSubmitted, PoHandle, IsRecord, PoFields
<1>3. /\ w \in [{1, 2} -> SUBSET PollEvents] /\ w[i] = p.events
      /\ \A j \in {1, 2} \ {i} : w[j] = p.submitted[j]
  BY <1>1 DEF PoHandle
<1>4. /\ IsHandle(q) /\ IsRecord(q, PoFields) /\ Changes(p, q, {"submitted", "mask"})
      /\ q.submitted = w
  BY <1>1, <1>2 DEF PoHandle, IsHandle, IsRecord, BaseFields, PoFields, Changes
<1>5. /\ q.flags = p.flags /\ q.events = p.events /\ q.activecnt = p.activecnt
      /\ q.reqs_pending = p.reqs_pending /\ q.active_handles = p.active_handles
  BY <1>4 DEF PoHandle, IsHandle, IsRecord, BaseFields, PoFields, Changes
<1>6. Polls(q) = Polls(p) \cup p.events
  BY <1>3, <1>4 DEF Polls
<1>7. PoHandle(q)
  BY <1>3, <1>4, <1>5, <1>6 DEF PoHandle
<1>8. PoActive(q) /\ PoCloses(q)
  BY <1>5 DEF PoActive, PoCloses, Active
<1> QED
  BY <1>3, <1>4, <1>5, <1>6, <1>7, <1>8

\* AFD gives back what it has: the same requests, each told to return.
PoCut(K) == {[k EXCEPT !.cut = TRUE] : k \in K}

\* A new poll of the same socket ends those that are with the system.
LEMMA PoCuts ==
  ASSUME PoInv, NEW O, O = PoCut(kernel)
  PROVE  /\ O \in SUBSET PoPolls
         /\ \A k, l \in O : k.req = l.req => k = l
         /\ \A l \in O : l.cut /\ \E k \in kernel : k.req = l.req
         /\ \A k \in kernel : \E l \in O : l.req = k.req
<1>1. \A k \in kernel : k \in PoPolls
  BY DEF PoInv, PoTypes
<1>2. \A k \in kernel : LET l == [k EXCEPT !.cut = TRUE] IN l \in PoPolls /\ l.req = k.req /\ l.cut
  BY <1>1 DEF PoPolls
<1>3. \A k, l \in kernel : k.req = l.req => k = l
  BY DEF PoInv, PoInFlight
<1>4. \A l \in O : \E k \in kernel : l = [k EXCEPT !.cut = TRUE]
  BY DEF PoCut
<1>5. ASSUME NEW l \in O PROVE l \in PoPolls /\ l.cut /\ \E k \in kernel : k.req = l.req
  <2>1. PICK k \in kernel : l = [k EXCEPT !.cut = TRUE]
    BY <1>4
  <2>2. l \in PoPolls /\ l.req = k.req /\ l.cut
    BY <1>2, <2>1
  <2> QED
    BY <2>2
<1>6. ASSUME NEW a \in O, NEW b \in O, a.req = b.req PROVE a = b
  <2>1. PICK k \in kernel : a = [k EXCEPT !.cut = TRUE]
    BY <1>4
  <2>2. PICK l \in kernel : b = [l EXCEPT !.cut = TRUE]
    BY <1>4
  <2>3. k.req = l.req
    BY <1>2, <1>6, <2>1, <2>2
  <2> QED
    BY <1>3, <2>1, <2>2, <2>3
<1>7. ASSUME NEW k \in kernel PROVE \E l \in O : l.req = k.req
  <2>1. [k EXCEPT !.cut = TRUE] \in O
    BY DEF PoCut
  <2> QED
    BY <1>2, <2>1
<1> QED
  BY <1>5, <1>6, <1>7

\* uv__fast_poll_submit_poll_req and uv__slow_poll_submit_poll_req for a handle
\* like h that wants what is not polled for.
LEMMA PoSubmitInv ==
  ASSUME PoInv, NEW p, PoHandle(p), PoActive(p), PoCloses(p), "CLOSING" \notin p.flags,
         p.submitted = h.submitted, "POLL_SLOW" \in p.flags <=> "POLL_SLOW" \in h.flags,
         Po!NeedsSubmit(p), Po!SubmitPoll(p), pc' \in {"loop", "resubmit"}
  PROVE  PoInv'
<1>1. PICK i : i = Po!FreeReq(p)
  OBVIOUS
<1>2. /\ \/ i \in {1, 2} /\ p.submitted[i] = {}
         \/ i = 0 /\ p.submitted[1] # {} /\ p.submitted[2] # {}
  BY <1>1 DEF Po!FreeReq
<1>3. PoTypes /\ PoInFlight /\ PoBothOut /\ "CLOSED" \notin p.flags /\ p.events \in SUBSET PollEvents
  BY DEF PoInv, PoCloses, PoHandle
<1>4. PICK x \in p.events : x \notin Polls(p)
  BY PoOperators DEF Po!NeedsSubmit
<1>5. CASE i = 0
  <2>1. h' = p /\ UNCHANGED <<kernel, pending>>
    BY <1>1, <1>5 DEF Po!SubmitPoll
  <2>2. PoTypes'
    BY <1>3, <2>1 DEF PoTypes
  <2>3. PoInFlight' /\ PoBothOut' /\ PoWanted'
    BY <1>2, <1>3, <1>5, <2>1 DEF PoInFlight, PoBothOut, PoWanted, Polls
  <2> QED
    BY <2>1, <2>2, <2>3 DEF PoInv
<1>6. CASE i # 0
  <2>1. i \in {1, 2} /\ p.submitted[i] = {} /\ h.submitted[i] = {}
    BY <1>2, <1>6
  <2>2. PICK q, O, e :
          /\ q = PoSubmitted(p, i, Po!Masks(p, i))
          /\ O = (IF "POLL_SLOW" \in h.flags THEN kernel ELSE PoCut(kernel))
          /\ e = [req |-> i, cut |-> FALSE, started |-> "POLL_SLOW" \notin h.flags, asked |-> p.events]
    OBVIOUS
  <2>3. \/ h' = q /\ kernel' = O \cup {e} /\ pending' = pending
        \/ h' = Po!Fail(q, i) /\ pending' = Append(pending, i) /\ kernel' = kernel
    BY <1>1, <1>6, <2>2, PoOperators DEF Po!SubmitPoll, PoSubmitted, PoCut
  <2>4. /\ PoHandle(q) /\ PoActive(q) /\ PoCloses(q)
        /\ q.flags = p.flags /\ q.events = p.events
        /\ q.submitted[i] = p.events /\ \A j \in {1, 2} \ {i} : q.submitted[j] = h.submitted[j]
        /\ Polls(q) = Polls(p) \cup p.events
    BY <2>1, <2>2, PoSubmits
  <2>5. PoAlike(q, Po!Fail(q, i))
    BY <2>4, PoFails
  <2>6. /\ PoHandle(h') /\ PoActive(h') /\ PoCloses(h')
        /\ h'.flags = p.flags /\ h'.events = p.events
        /\ h'.submitted[i] = p.events /\ \A j \in {1, 2} \ {i} : h'.submitted[j] = h.submitted[j]
        /\ Polls(h') = Polls(p) \cup p.events
    BY <2>3, <2>4, <2>5 DEF PoAlike, Polls
  <2>7. i \notin Items(pending) /\ \A k \in kernel : k.req # i
    BY <1>3, <2>1 DEF PoInFlight
  <2>8. /\ O \in SUBSET PoPolls
        /\ \A k, l \in O : k.req = l.req => k = l
        /\ \A l \in O : \E k \in kernel : k.req = l.req
        /\ \A k \in kernel : \E l \in O : l.req = k.req
        /\ "POLL_SLOW" \notin h.flags => \A l \in O : l.cut
    <3>1. CASE "POLL_SLOW" \in h.flags
      BY <1>3, <2>2, <3>1 DEF PoTypes, PoInFlight
    <3>2. CASE "POLL_SLOW" \notin h.flags
      BY <2>2, <3>2, PoCuts
    <3> QED
      BY <3>1, <3>2
  <2>9. /\ kernel' \in SUBSET PoPolls /\ pending' \in Seq({1, 2}) /\ OnceEach(pending')
        /\ \A k, l \in kernel' : k.req = l.req => k = l
        /\ \A k \in kernel' : k.req \notin Items(pending')
        /\ \A j \in {1, 2} : j = i \/ (j \in Items(pending) \/ \E k \in kernel : k.req = j)
             <=> j \in Items(pending') \/ \E k \in kernel' : k.req = j
        /\ "POLL_SLOW" \in h.flags \/ pending' # <<>> \/ \A k \in kernel' \ {e} : k.cut
        /\ pending # <<>> => pending' # <<>>
    <3>1. CASE kernel' = O \cup {e} /\ pending' = pending
      <4>1. e \in PoPolls /\ e.req = i
        BY <1>3, <2>1, <2>2 DEF PoPolls
      <4>2. \A l \in O : l.req # i /\ l.req \notin Items(pending)
        BY <1>3, <2>7, <2>8 DEF PoInFlight
      <4>3. kernel' \in SUBSET PoPolls /\ \A k, l \in kernel' : k.req = l.req => k = l
        BY <2>8, <3>1, <4>1, <4>2
      <4>4. \A k \in kernel' : k.req \notin Items(pending')
        BY <2>7, <3>1, <4>1, <4>2
      <4>5. \A j \in {1, 2} : j = i \/ (\E k \in kernel : k.req = j) <=> \E k \in kernel' : k.req = j
        BY <2>8, <3>1, <4>1
      <4> QED
        BY <1>3, <2>8, <3>1, <4>3, <4>4, <4>5 DEF PoTypes, PoInFlight
    <3>2. CASE kernel' = kernel /\ pending' = Append(pending, i)
      <4>1. /\ pending' \in Seq({1, 2}) /\ pending' # <<>> /\ OnceEach(pending')
            /\ Items(pending') = Items(pending) \cup {i}
        BY <1>3, <2>1, <2>7, <3>2, ItemAppended DEF PoTypes, PoInFlight
      <4> QED
        BY <1>3, <2>7, <3>2, <4>1 DEF PoTypes, PoInFlight
    <3> QED
      BY <2>3, <3>1, <3>2
  <2>10. PoTypes'
    BY <1>3, <2>6, <2>9 DEF PoTypes
  <2>11. PoInFlight'
    <3>1. \A j \in {1, 2} : h'.submitted[j] # {} <=>
            j \in Items(pending') \/ \E k \in kernel' : k.req = j
      BY <1>3, <1>4, <2>6, <2>9 DEF PoInFlight
    <3> QED
      BY <2>9, <3>1 DEF PoInFlight
  <2>12. PoBothOut'
    <3>1. SUFFICES ASSUME h'.submitted[1] # {}, h'.submitted[2] # {}
                   PROVE  IF "POLL_SLOW" \in h.flags
                          THEN PollEvents \ {"DISCONNECT"} \subseteq Polls(h')
                          ELSE pending' # <<>> \/ \E k \in kernel' : k.cut
      BY <2>6 DEF PoBothOut
    <3>2. PICK j \in {1, 2} : j # i /\ h.submitted[j] # {}
      BY <2>1, <2>6, <3>1
    <3>3. CASE "POLL_SLOW" \in h.flags
      <4>1. PICK y : y \in h.submitted[j]
        BY <3>2
      <4>2. y \in Polls(p) /\ x # y
        BY <1>4, <3>2, <4>1 DEF Polls
      <4>3. x \in PollEvents \ {"DISCONNECT"} /\ y \in PollEvents \ {"DISCONNECT"}
        BY <1>4, <3>3, <4>2 DEF PoHandle, Polls
      <4>4. PollEvents \ {"DISCONNECT"} \subseteq {x, y}
        BY <4>2, <4>3, PollEventsAssumption
      <4> QED
        BY <1>4, <2>6, <3>3, <4>2, <4>4
    <3>4. CASE "POLL_SLOW" \notin h.flags
      <4>1. j \in Items(pending) \/ \E k \in kernel : k.req = j
        BY <1>3, <3>2 DEF PoInFlight
      <4>2. j \in Items(pending') \/ \E k \in kernel' : k.req = j
        BY <2>9, <4>1
      <4>3. Items(<<>>) = {}
        BY ItemsEmpty
      <4>4. e.req = i
        BY <2>2
      <4> QED
        BY <2>9, <3>2, <3>4, <4>2, <4>3, <4>4
    <3> QED
      BY <3>3, <3>4
  <2>13. PoWanted'
    BY <2>6 DEF PoWanted
  <2> QED
    BY <2>6, <2>10, <2>11, <2>12, <2>13 DEF PoInv
<1> QED
  BY <1>5, <1>6

\* uv_poll_set once the events are in the handle.
LEMMA PoPollSetInv ==
  ASSUME PoInv, "CLOSING" \notin h.flags, pc' = pc,
         NEW E \in SUBSET PollEvents, "POLL_SLOW" \in h.flags => "DISCONNECT" \notin E,
         Po!PollSet(E)
  PROVE  PoInv'
<1>1. PICK e, p : /\ e = [h EXCEPT !.events = E]
                  /\ p = IF E # {} THEN uv__handle_start(e) ELSE uv__handle_stop(e)
  OBVIOUS
<1>2. IF Po!NeedsSubmit(p) THEN Po!SubmitPoll(p) ELSE h' = p /\ UNCHANGED <<kernel, pending>>
  BY <1>1, PoOperators DEF Po!PollSet
<1>3. PoHandle(h) /\ PoActive(h) /\ PoCloses(h) /\ PoTypes
  BY DEF PoInv, PoTypes
<1>4. /\ PoHandle(p) /\ PoActive(p) /\ PoCloses(p)
      /\ p.events = E /\ p.submitted = h.submitted
      /\ p.flags \ {"ACTIVE"} = h.flags \ {"ACTIVE"}
  BY <1>1, <1>3, PoSets
<1>5. \A f \in {"POLL_SLOW", "CLOSING", "CLOSED"} : f \in p.flags <=> f \in h.flags
  BY <1>4
<1>6. CASE Po!NeedsSubmit(p)
  BY <1>2, <1>3, <1>4, <1>5, <1>6, PoSubmitInv DEF PoTypes
<1>7. CASE ~Po!NeedsSubmit(p)
  <2>1. h' = p /\ UNCHANGED <<kernel, pending>> /\ p.events \subseteq Polls(p)
    BY <1>2, <1>7, PoOperators DEF Po!NeedsSubmit
  <2>2. PoTypes'
    BY <1>3, <1>4, <1>5, <2>1 DEF PoTypes
  <2>3. PoInFlight' /\ PoBothOut' /\ PoWanted'
    BY <1>4, <1>5, <2>1 DEF PoInv, PoInFlight, PoBothOut, PoWanted, Polls
  <2> QED
    BY <1>4, <2>1, <2>2, <2>3 DEF PoInv
<1> QED
  BY <1>6, <1>7

\* uv_poll_start, uv_poll_stop and uv_poll_close.
LEMMA PoUserInv == PoInv /\ Po!UserCall => PoInv'
<1> SUFFICES ASSUME PoInv, Po!UserCall PROVE PoInv'
  OBVIOUS
<1>1. "CLOSING" \notin h.flags /\ pc' = pc
  BY PoOperators DEF Po!UserCall, Po!uv_poll_start, Po!uv_poll_stop, Po!uv_poll_close, Po!User
<1>2. CASE Po!uv_poll_start
  <2>1. PICK E \in SUBSET (IF Po!Slow THEN PollEvents \ {"DISCONNECT"} ELSE PollEvents) :
          Po!PollSet(E)
    BY <1>2 DEF Po!uv_poll_start
  <2>2. E \in SUBSET PollEvents /\ ("POLL_SLOW" \in h.flags => "DISCONNECT" \notin E)
    BY PoOperators
  <2> QED
    BY <1>1, <2>1, <2>2, PoPollSetInv
<1>3. CASE Po!uv_poll_stop
  BY <1>1, <1>3, PoPollSetInv DEF Po!uv_poll_stop
<1>4. CASE Po!uv_poll_close
  <2>1. PICK e, p : e = [h EXCEPT !.events = {}] /\ p = uv__handle_closing(e)
    OBVIOUS
  <2>2. /\ h' = IF Polls(p) = {} THEN Set(p, {"ENDGAME_QUEUED"}) ELSE p
        /\ kernel' = IF "POLL_SLOW" \in h.flags THEN kernel ELSE PoCut(kernel)
        /\ pending' = pending
    BY <1>4, <2>1, PoOperators DEF Po!uv_poll_close, PoCut
  <2>3. PoHandle(h) /\ PoActive(h) /\ PoCloses(h) /\ PoTypes /\ PoInFlight
    BY DEF PoInv, PoTypes
  <2>4. /\ IsHandle(e) /\ IsRecord(e, PoFields) /\ Changes(h, e, {"events"}) /\ e.events = {}
    BY <2>1, <2>3 DEF PoHandle, IsHandle, IsRecord, BaseFields, PoFields, Changes
  <2>5. /\ IsHandle(p) /\ Changes(e, p, {"flags", "active_handles"})
        /\ p.flags = (e.flags \ {"ACTIVE"}) \cup {"CLOSING"}
        /\ p.active_handles = e.active_handles + Bit(~Active(e))
    BY <2>1, <2>4, Closing
  <2>6. /\ p.flags = (h.flags \ {"ACTIVE"}) \cup {"CLOSING"}
        /\ p.events = {} /\ p.submitted = h.submitted /\ p.activecnt = 0 /\ p.reqs_pending = 0
        /\ p.active_handles = h.active_handles + Bit(~Active(h)) /\ IsRecord(p, PoFields)
    BY <2>3, <2>4, <2>5 DEF PoHandle, IsHandle, IsRecord, BaseFields, PoFields, Changes, Active,
       PoActive
  <2>7. {"CLOSING", "CLOSED", "ENDGAME_QUEUED"} \cap h.flags = {} /\ p.active_handles = 1
    BY <1>1, <2>3, <2>6 DEF PoCloses, PoActive, Bit
  <2>8. PoHandle(p)
    BY <2>3, <2>5, <2>6 DEF PoHandle, Polls
  <2>9. /\ IsHandle(h') /\ Changes(p, h', {"flags"})
        /\ h'.flags = IF Polls(p) = {} THEN p.flags \cup {"ENDGAME_QUEUED"} ELSE p.flags
    <3>1. CASE Polls(p) = {}
      BY <2>2, <2>5, <3>1, Setting
    <3>2. CASE Polls(p) # {}
      BY <2>2, <2>5, <3>2 DEF IsHandle, IsRecord, Changes
    <3> QED
      BY <3>1, <3>2
  <2>10. /\ IsRecord(h', PoFields) /\ h'.events = {} /\ h'.submitted = h.submitted
         /\ h'.activecnt = 0 /\ h'.reqs_pending = 0 /\ h'.active_handles = 1
    BY <2>5, <2>6, <2>7, <2>9 DEF IsHandle, IsRecord, BaseFields, PoFields, Changes
  <2>11. /\ "CLOSING" \in h'.flags /\ {"CLOSED", "ACTIVE"} \cap h'.flags = {}
         /\ "POLL_SLOW" \in h'.flags <=> "POLL_SLOW" \in h.flags
         /\ "ENDGAME_QUEUED" \in h'.flags => Polls(p) = {}
    BY <2>6, <2>7, <2>9
  <2>12. Polls(h') = Polls(h) /\ Polls(p) = Polls(h)
    BY <2>6, <2>10 DEF Polls
  <2>13. PoHandle(h') /\ PoActive(h') /\ PoCloses(h')
    BY <2>3, <2>9, <2>10, <2>11, <2>12 DEF PoHandle, PoActive, PoCloses, Active, Bit
  <2>14. /\ kernel' \in SUBSET PoPolls
         /\ \A k, l \in kernel' : k.req = l.req => k = l
         /\ \A l \in kernel' : \E k \in kernel : k.req = l.req
         /\ \A k \in kernel : \E l \in kernel' : l.req = k.req
         /\ "POLL_SLOW" \notin h.flags => \A l \in kernel' : l.cut
    <3>1. CASE "POLL_SLOW" \in h.flags
      BY <2>2, <2>3, <3>1 DEF PoTypes, PoInFlight
    <3>2. CASE "POLL_SLOW" \notin h.flags
      BY <2>2, <3>2, PoCuts
    <3> QED
      BY <3>1, <3>2
  <2>15. PoTypes'
    BY <1>1, <2>2, <2>3, <2>11, <2>13, <2>14 DEF PoTypes
  <2>16. PoInFlight'
    BY <2>2, <2>3, <2>10, <2>14 DEF PoInFlight
  <2>17. PoBothOut'
    <3>1. CASE "POLL_SLOW" \in h.flags
      BY <2>2, <2>10, <2>11, <2>12, <3>1 DEF PoInv, PoBothOut
    <3>2. CASE "POLL_SLOW" \notin h.flags
      BY <2>2, <2>10, <2>11, <2>14, <3>2 DEF PoInv, PoBothOut
    <3> QED
      BY <3>1, <3>2
  <2>18. PoWanted'
    BY <2>10 DEF PoWanted
  <2> QED
    BY <2>13, <2>15, <2>16, <2>17, <2>18 DEF PoInv
<1> QED
  BY <1>2, <1>3, <1>4 DEF Po!UserCall

\* The thread of a slow poll begins to wait.
LEMMA PoSlowStartsInv == \A k \in kernel : PoInv /\ Po!SlowPollStarts(k) => PoInv'
<1> SUFFICES ASSUME NEW k \in kernel, PoInv, Po!SlowPollStarts(k) PROVE PoInv'
  OBVIOUS
<1>1. PICK l : l = [k EXCEPT !.started = TRUE, !.asked = h.events]
  OBVIOUS
<1>2. kernel' = (kernel \ {k}) \cup {l} /\ UNCHANGED <<h, pending, pc>>
  BY <1>1 DEF Po!SlowPollStarts
<1>3. PoTypes /\ PoInFlight /\ k \in PoPolls /\ h.events \in SUBSET PollEvents
  BY DEF PoInv, PoTypes, PoHandle
<1>4. l \in PoPolls /\ l.req = k.req /\ l.cut = k.cut
  BY <1>1, <1>3 DEF PoPolls
<1>5. PoTypes'
  BY <1>2, <1>3, <1>4 DEF PoTypes
<1>6. PoInFlight'
  <2>1. \A a, b \in kernel' : a.req = b.req => a = b
    BY <1>2, <1>3, <1>4 DEF PoInFlight
  <2>2. \A a \in kernel' : a.req \notin Items(pending)
    BY <1>2, <1>3, <1>4 DEF PoInFlight
  <2>3. \A i \in {1, 2} : (\E a \in kernel : a.req = i) <=> \E a \in kernel' : a.req = i
    BY <1>2, <1>4
  <2> QED
    BY <1>2, <1>3, <2>1, <2>2, <2>3 DEF PoInFlight
<1>7. PoBothOut'
  <2>1. (\E a \in kernel : a.cut) => \E a \in kernel' : a.cut
    BY <1>2, <1>4
  <2> QED
    BY <1>2, <2>1 DEF PoInv, PoBothOut
<1> QED
  BY <1>2, <1>5, <1>6, <1>7 DEF PoInv, PoWanted

\* A request comes back.
LEMMA PoReturnsInv ==
  ASSUME PoInv, NEW k \in kernel, kernel' = kernel \ {k}, pending' = Append(pending, k.req),
         PoAlike(h, h'), pc' = pc
  PROVE  PoInv'
<1>1. PoTypes /\ PoInFlight /\ k.req \in {1, 2} /\ k.req \notin Items(pending)
  BY DEF PoInv, PoTypes, PoInFlight, PoPolls
<1>2. /\ PoHandle(h') /\ PoActive(h') /\ PoCloses(h')
      /\ h'.flags = h.flags /\ h'.events = h.events /\ h'.submitted = h.submitted
  BY DEF PoAlike
<1>3. /\ pending' \in Seq({1, 2}) /\ pending' # <<>> /\ OnceEach(pending')
      /\ Items(pending') = Items(pending) \cup {k.req}
  BY <1>1, ItemAppended DEF PoTypes, PoInFlight
<1>4. PoTypes'
  BY <1>1, <1>2, <1>3 DEF PoTypes
<1>5. PoInFlight'
  <2>1. \A a \in kernel' : a.req \notin Items(pending')
    BY <1>1, <1>3 DEF PoInFlight
  <2>2. \A i \in {1, 2} : (i \in Items(pending') \/ \E a \in kernel' : a.req = i)
          <=> (i \in Items(pending) \/ \E a \in kernel : a.req = i)
    BY <1>1, <1>3 DEF PoInFlight
  <2> QED
    BY <1>1, <1>2, <1>3, <2>1, <2>2 DEF PoInFlight
<1>6. PoBothOut'
  BY <1>2, <1>3 DEF PoInv, PoBothOut, Polls
<1>7. PoWanted'
  BY <1>2 DEF PoInv, PoWanted, Polls
<1> QED
  BY <1>2, <1>4, <1>5, <1>6, <1>7 DEF PoInv

\* The system serves a poll, or fails it.
LEMMA PoServedInv ==
  \A k \in kernel : PoInv /\ (Po!PollReturns(k) \/ Po!PollFails(k)) => PoInv'
<1> SUFFICES ASSUME NEW k \in kernel, PoInv, Po!PollReturns(k) \/ Po!PollFails(k) PROVE PoInv'
  OBVIOUS
<1>1. PoHandle(h) /\ PoActive(h) /\ PoCloses(h)
  BY DEF PoInv, PoTypes
<1>2. kernel' = kernel \ {k} /\ pending' = Append(pending, k.req) /\ pc' = pc
  BY DEF Po!PollReturns, Po!PollFails
<1>3. PoAlike(h, h')
  <2>1. CASE Po!PollReturns(k)
    <3>1. PICK w : h' = [h EXCEPT !.result = w]
      BY <2>1 DEF Po!PollReturns, PoHandle, IsRecord, PoFields
    <3>2. Changes(h, h', {"result", "mask"})
      BY <1>1, <3>1 DEF Changes, PoHandle, IsRecord, PoFields
    <3> QED
      BY <1>1, <3>2, PoResults
  <2>2. CASE Po!PollFails(k)
    BY <1>1, <2>2, PoFails DEF Po!PollFails
  <2> QED
    BY <2>1, <2>2
<1> QED
  BY <1>2, <1>3, PoReturnsInv

\* uv_process_poll_req, up to its callback.
LEMMA PoProcessInv == PoInv /\ Po!uv_process_poll_req => PoInv'
<1> SUFFICES ASSUME PoInv, Po!uv_process_poll_req PROVE PoInv'
  OBVIOUS
<1>1. PICK i, p : i = Head(pending) /\ p = [h EXCEPT !.submitted[i] = {}]
  OBVIOUS
<1>2. /\ pending # <<>> /\ pending' = Tail(pending) /\ pc' = "resubmit" /\ kernel' = kernel
      /\ h' = [p EXCEPT !.events = {}] \/ h' = p
  BY <1>1 DEF Po!uv_process_poll_req
<1>3. PoTypes /\ PoInFlight /\ PoHandle(h) /\ PoActive(h) /\ PoCloses(h)
  BY DEF PoInv, PoTypes
<1>4. /\ i \in {1, 2} /\ i \in Items(pending) /\ pending' \in Seq({1, 2}) /\ OnceEach(pending')
      /\ Items(pending') = Items(pending) \ {i}
  BY <1>1, <1>2, <1>3, ItemTaken DEF PoTypes, PoInFlight
<1>5. PICK w : /\ w = [h.submitted EXCEPT ![i] = {}] /\ p = [h EXCEPT !.submitted = w]
  BY <1>1, <1>3 DEF PoHandle, IsRecord, PoFields
<1>6. /\ w \in [{1, 2} -> SUBSET PollEvents] /\ w[i] = {}
      /\ \A j \in {1, 2} \ {i} : w[j] = h.submitted[j]
  BY <1>3, <1>4, <1>5 DEF PoHandle
<1>7. /\ IsHandle(h') /\ IsRecord(h', PoFields) /\ Changes(h, h', {"submitted", "events"})
      /\ h'.submitted = w /\ h'.events \subseteq h.events
  BY <1>2, <1>3, <1>5 DEF PoHandle, IsHandle, IsRecord, BaseFields, PoFields, Changes
<1>8. /\ h'.flags = h.flags /\ h'.activecnt = h.activecnt
      /\ h'.reqs_pending = h.reqs_pending /\ h'.active_handles = h.active_handles
  BY <1>3, <1>7 DEF PoHandle, IsHandle, IsRecord, BaseFields, Changes
<1>9. w[1] \cup w[2] \subseteq Polls(h) /\ Polls(h) # {} /\ Polls(h') = w[1] \cup w[2]
  BY <1>3, <1>4, <1>6, <1>7 DEF PoInFlight, Polls
<1>10. PoHandle(h') /\ PoActive(h') /\ PoCloses(h')
  BY <1>3, <1>6, <1>7, <1>8, <1>9 DEF PoHandle, PoActive, PoCloses, Active
<1>11. PoTypes'
  BY <1>2, <1>3, <1>4, <1>8, <1>9, <1>10 DEF PoTypes, PoCloses
<1>12. PoInFlight'
  <2>1. \A k \in kernel : k.req # i
    BY <1>3, <1>4 DEF PoInFlight
  <2> QED
    BY <1>2, <1>3, <1>4, <1>6, <1>7, <2>1 DEF PoInFlight
<1>13. PoBothOut' /\ PoWanted'
  BY <1>2, <1>4, <1>6, <1>7 DEF PoBothOut, PoWanted
<1> QED
  BY <1>10, <1>11, <1>12, <1>13 DEF PoInv

\* uv_process_poll_req after its callback.
LEMMA PoResubmitInv == PoInv /\ Po!Resubmit => PoInv'
<1> SUFFICES ASSUME PoInv, Po!Resubmit PROVE PoInv'
  OBVIOUS
<1>1. PoTypes /\ PoHandle(h) /\ PoActive(h) /\ PoCloses(h)
  BY DEF PoInv, PoTypes
<1>2. pc' = "loop"
  BY DEF Po!Resubmit
<1>3. CASE Po!NeedsSubmit(h)
  <2>1. Po!SubmitPoll(h)
    BY <1>3 DEF Po!Resubmit
  <2>2. "CLOSING" \notin h.flags
    BY <1>1, <1>3 DEF Po!NeedsSubmit, PoActive
  <2> QED
    BY <1>1, <1>2, <1>3, <2>1, <2>2, PoSubmitInv
<1>4. CASE ~Po!NeedsSubmit(h)
  <2>1. /\ UNCHANGED <<kernel, pending>>
        /\ h' = IF "CLOSING" \in h.flags /\ Polls(h) = {} THEN Set(h, {"ENDGAME_QUEUED"}) ELSE h
    BY <1>4, PoOperators DEF Po!Resubmit
  <2>2. h.events \subseteq Polls(h) /\ pc = "resubmit" /\ "CLOSED" \notin h.flags
    BY <1>1, <1>4, PoOperators DEF Po!NeedsSubmit, Po!Resubmit, Po!At, PoTypes
  <2>3. /\ IsHandle(h') /\ Changes(h, h', {"flags"})
        /\ h'.flags = IF "CLOSING" \in h.flags /\ Polls(h) = {} THEN h.flags \cup {"ENDGAME_QUEUED"}
                      ELSE h.flags
    <3>1. CASE "CLOSING" \in h.flags /\ Polls(h) = {}
      BY <1>1, <2>1, <3>1, Setting DEF PoHandle
    <3>2. CASE ~("CLOSING" \in h.flags /\ Polls(h) = {})
      BY <1>1, <2>1, <3>2 DEF PoHandle, IsHandle, IsRecord, Changes
    <3> QED
      BY <3>1, <3>2
  <2>4. /\ IsRecord(h', PoFields) /\ h'.events = h.events /\ h'.submitted = h.submitted
        /\ h'.activecnt = h.activecnt /\ h'.reqs_pending = h.reqs_pending
        /\ h'.active_handles = h.active_handles
    BY <1>1, <2>3 DEF PoHandle, IsHandle, IsRecord, BaseFields, PoFields, Changes
  <2>5. /\ \A f \in {"POLL_SLOW", "CLOSING", "CLOSED", "ACTIVE"} : f \in h'.flags <=> f \in h.flags
        /\ Polls(h') = Polls(h)
    BY <2>3, <2>4 DEF Polls
  <2>6. PoHandle(h') /\ PoActive(h')
    BY <1>1, <2>3, <2>4, <2>5 DEF PoHandle, PoActive, Active
  <2>7. PoCloses(h')
    BY <1>1, <2>2, <2>3, <2>5 DEF PoCloses
  <2>8. PoTypes'
    BY <1>1, <1>2, <2>1, <2>6 DEF PoTypes
  <2>9. PoInFlight' /\ PoBothOut' /\ PoWanted'
    BY <2>1, <2>2, <2>4, <2>5 DEF PoInv, PoInFlight, PoBothOut, PoWanted
  <2> QED
    BY <2>6, <2>7, <2>8, <2>9 DEF PoInv
<1> QED
  BY <1>3, <1>4

\* uv_poll_endgame.
LEMMA PoEndgameInv == PoInv /\ Po!uv_poll_endgame => PoInv'
<1> SUFFICES ASSUME PoInv, Po!uv_poll_endgame PROVE PoInv'
  OBVIOUS
<1>1. PICK u : u = Clear(h, {"ENDGAME_QUEUED"})
  OBVIOUS
<1>2. /\ pc = "loop" /\ UNCHANGED <<kernel, pending, pc>> /\ "ENDGAME_QUEUED" \in h.flags
      /\ h' = uv__handle_close(u)
  BY <1>1, PoOperators DEF Po!uv_poll_endgame, Po!At
<1>3. PoTypes /\ PoHandle(h) /\ PoActive(h) /\ PoCloses(h)
  BY DEF PoInv, PoTypes
<1>4. /\ "CLOSING" \in h.flags /\ Polls(h) = {} /\ {"CLOSED", "ACTIVE"} \cap h.flags = {}
      /\ h.active_handles = 1 /\ h.events = {}
  BY <1>2, <1>3 DEF PoCloses, PoActive, Active, Bit
<1>5. IsHandle(u) /\ Changes(h, u, {"flags"}) /\ u.flags = h.flags \ {"ENDGAME_QUEUED"}
  BY <1>1, <1>3, Clearing DEF PoHandle
<1>6. /\ IsHandle(h') /\ Changes(u, h', {"flags", "active_handles"})
      /\ h'.flags = u.flags \cup {"CLOSED"} /\ h'.active_handles = u.active_handles - 1
  BY <1>2, <1>5, Closed
<1>7. /\ IsRecord(h', PoFields) /\ h'.events = {} /\ h'.submitted = h.submitted
      /\ h'.activecnt = h.activecnt /\ h'.reqs_pending = h.reqs_pending
      /\ h'.active_handles = 0
  BY <1>3, <1>4, <1>5, <1>6 DEF PoHandle, IsHandle, IsRecord, BaseFields, PoFields, Changes
<1>8. /\ "CLOSED" \in h'.flags /\ "ENDGAME_QUEUED" \notin h'.flags
      /\ \A f \in {"POLL_SLOW", "ACTIVE", "CLOSING"} : f \in h'.flags <=> f \in h.flags
      /\ Polls(h') = {}
  BY <1>4, <1>5, <1>6, <1>7 DEF Polls
<1>9. PoHandle(h') /\ PoActive(h') /\ PoCloses(h')
  BY <1>3, <1>4, <1>6, <1>7, <1>8 DEF PoHandle, PoActive, PoCloses, Active, Bit
<1>10. PoTypes'
  BY <1>2, <1>3, <1>9 DEF PoTypes
<1>11. PoInFlight' /\ PoBothOut' /\ PoWanted'
  BY <1>2, <1>4, <1>7, <1>8 DEF PoInv, PoInFlight, PoBothOut, PoWanted, Polls
<1> QED
  BY <1>9, <1>10, <1>11 DEF PoInv

\* Every step keeps the invariant of a poll handle.
LEMMA PoNext == PoInv /\ [Po!Next]_(Po!vars) => PoInv'
<1> SUFFICES ASSUME PoInv, [Po!Next]_(Po!vars) PROVE PoInv'
  OBVIOUS
<1>1. CASE UNCHANGED <<h, kernel, pending, pc>>
  BY <1>1 DEF PoInv, PoTypes, PoInFlight, PoBothOut, PoWanted, PoActive, PoCloses
<1>2. CASE Po!CallbackReturns \/ Po!PeerActs \/ UNCHANGED Po!vars
  BY <1>1, <1>2 DEF Po!CallbackReturns, Po!PeerActs, Po!vars
<1> QED
  BY <1>2, PoUserInv, PoResubmitInv, PoProcessInv, PoEndgameInv, PoSlowStartsInv, PoServedInv
     DEF Po!Next, Po!HandlerStep

\* What the runs check of the handle follows.
LEMMA PoCounters == PoInv => Po!PendingExact /\ Po!ActiveExact
<1> SUFFICES ASSUME PoInv PROVE Po!PendingExact /\ Po!ActiveExact
  OBVIOUS
<1>1. PoTypes /\ PoInFlight /\ PoActive(h) /\ PoCloses(h) /\ DOMAIN pending = 1..Len(pending)
  BY LenProperties DEF PoInv, PoTypes
<1>2. ASSUME NEW i \in {1, 2} PROVE Po!Outstanding(i) = Po!Bit(h.submitted[i] # {})
  <2>1. PICK K, Q : K = {k \in kernel : k.req = i} /\ Q = {j \in DOMAIN pending : pending[j] = i}
    OBVIOUS
  <2>2. Po!Outstanding(i) = Cardinality(K) + Cardinality(Q)
    BY <2>1 DEF Po!Outstanding, Po!Cardinality, Cardinality
  <2>3. CASE i \in Items(pending)
    <3>1. PICK j \in 1..Len(pending) : pending[j] = i
      BY <2>3 DEF Items
    <3>2. K = {} /\ Q = {j} /\ h.submitted[i] # {}
      BY <1>1, <2>1, <2>3, <3>1 DEF PoInFlight, OnceEach
    <3>3. Cardinality(K) = 0 /\ Cardinality(Q) = 1
      BY <3>2, FS_EmptySet, FS_Singleton
    <3> QED
      BY <2>2, <3>2, <3>3 DEF Po!Bit
  <2>4. CASE \E k \in kernel : k.req = i
    <3>1. PICK k \in kernel : k.req = i
      BY <2>4
    <3>2. K = {k} /\ i \notin Items(pending) /\ h.submitted[i] # {}
      BY <1>1, <2>1, <3>1 DEF PoInFlight
    <3>3. Q = {}
      BY <1>1, <2>1, <3>2 DEF Items
    <3> QED
      BY <2>2, <3>2, <3>3, FS_EmptySet, FS_Singleton DEF Po!Bit
  <2>5. CASE i \notin Items(pending) /\ ~\E k \in kernel : k.req = i
    <3>1. K = {} /\ Q = {} /\ h.submitted[i] = {}
      BY <1>1, <2>1, <2>5 DEF PoInFlight, Items
    <3> QED
      BY <2>2, <3>1, FS_EmptySet DEF Po!Bit
  <2> QED
    BY <2>3, <2>4, <2>5
<1>3. Po!PendingExact
  BY <1>2 DEF Po!PendingExact, Po!Two
<1>4. Po!LoopKnows(h)
  <2>1. h.flags \cap {"ACTIVE", "CLOSING"} # {} <=> Active(h) \/ "CLOSING" \in h.flags
    BY DEF Active
  <2> QED
    BY <1>1, <2>1, PoOperators DEF PoActive, Po!LoopKnows, Po!Bit, Bit
<1>5. ASSUME "CLOSED" \in h.flags PROVE kernel = {} /\ pending = <<>>
  <2>1. h.submitted[1] = {} /\ h.submitted[2] = {}
    BY <1>1, <1>5 DEF PoCloses, Polls
  <2>2. \A k \in kernel : k.req \in {1, 2}
    BY <1>1 DEF PoTypes, PoPolls
  <2>3. Items(pending) \subseteq {1, 2}
    BY <1>1 DEF Items, PoTypes
  <2>4. kernel = {} /\ Items(pending) = {}
    BY <1>1, <2>1, <2>2, <2>3 DEF PoInFlight
  <2> QED
    BY <1>1, <2>4, ItemsNone DEF PoTypes
<1>6. Po!ActiveExact
  BY <1>1, <1>4, <1>5, PoOperators DEF Po!ActiveExact, PoActive, Active
<1> QED
  BY <1>3, <1>6

\* Every event the handle waits for is asked for by a request in flight.
LEMMA PoArmed == PoInv => Po!Armed
<1> SUFFICES ASSUME PoInv, pc = "loop"
             PROVE  \/ h.events \subseteq Polls(h)
                    \/ "POLL_SLOW" \notin h.flags /\ (pending # <<>> \/ \E k \in kernel : k.cut)
  BY PoOperators DEF Po!Armed, Po!At
<1>1. CASE h.events \subseteq Polls(h)
  BY <1>1
<1>2. CASE h.submitted[1] # {} /\ h.submitted[2] # {}
  <2>1. CASE "POLL_SLOW" \in h.flags
    BY <1>2, <2>1 DEF PoInv, PoBothOut, PoTypes, PoHandle
  <2>2. CASE "POLL_SLOW" \notin h.flags
    BY <1>2, <2>2 DEF PoInv, PoBothOut
  <2> QED
    BY <2>1, <2>2
<1> QED
  BY <1>1, <1>2 DEF PoInv, PoWanted

-----------------------------------------------------------------------------
(* Signal handles: kernel is the tree of watchers, hist the control        *)
(* thread's dispatch and pending the port.                                 *)

SiFields == {"signum", "pending_signum"}
SiSignals == {"SIGINT", "SIGWINCH"}

SiHandle(u) ==
  /\ IsHandle(u) /\ IsRecord(u, SiFields)
  /\ u.signum \in SiSignals \cup {"0"} /\ u.pending_signum \in SiSignals \cup {"0"}

\* A handle is active while it watches a signal, and closed with none to report.
SiActive(u) ==
  /\ u.activecnt = 0 /\ u.reqs_pending = 0
  /\ Active(u) <=> u.signum # "0"
  /\ u.active_handles = Bit((Active(u) \/ "CLOSING" \in u.flags) /\ "CLOSED" \notin u.flags)
  /\ "CLOSING" \in u.flags => u.signum = "0"
  /\ "ENDGAME_QUEUED" \in u.flags => "CLOSING" \in u.flags /\ "CLOSED" \notin u.flags
  /\ "CLOSED" \in u.flags => "CLOSING" \in u.flags /\ u.pending_signum = "0"

\* The loop's thread outside uv_signal_start: it ends a request of a handle
\* that is not closed yet.
SiResting(f, p) ==
  /\ p.at \in {"loop", "req_end"}
  /\ p.at = "req_end" => p.handle \in SignalHandles /\ "CLOSED" \notin f[p.handle].flags

SiStarting(f, p) ==
  /\ p.at = "start" /\ p.handle \in SignalHandles /\ p.signum \in SiSignals
  /\ f[p.handle].signum = "0" /\ "CLOSING" \notin f[p.handle].flags
  /\ SiResting(f, p.back)

SiLoop(f, p) == p.at = "aborted" \/ SiResting(f, p) \/ SiStarting(f, p)

SiHandles(f) ==
  /\ f = [s \in SignalHandles |-> f[s]]
  /\ \A s \in SignalHandles : SiHandle(f[s]) /\ SiActive(f[s])

\* The tree holds the handles that watch, counted where the console is meant.
SiTree ==
  /\ kernel = [watchers |-> {s \in SignalHandles : h[s].signum # "0"}, refs |-> kernel.refs]
  /\ kernel.refs = Cardinality({s \in SignalHandles : h[s].signum = "SIGINT"})

\* The control thread visits handles that watch.
SiDispatch ==
  /\ hist = [at |-> hist.at, signum |-> hist.signum, todo |-> hist.todo, raised |-> hist.raised]
  /\ hist.at \in SignalHandles \cup {"idle", "next"}
  /\ hist.at # "idle" => hist.signum \in SiSignals /\ hist.todo \subseteq kernel.watchers

\* A handle with a signal to report has its request in the port or about to be
\* posted, once.
SiInFlight ==
  /\ pending \in Seq(SignalHandles) /\ OnceEach(pending) /\ hist.at \notin Items(pending)
  /\ \A s \in SignalHandles : h[s].pending_signum # "0" <=> s \in Items(pending) \/ hist.at = s

SiInv == SiHandles(h) /\ SiLoop(h, pc) /\ SiTree /\ SiDispatch /\ SiInFlight

\* What Signal has by extending UvHandle is what is here.
LEMMA SiOperators ==
  /\ \A u, F : Si!Set(u, F) = Set(u, F) /\ Si!Clear(u, F) = Clear(u, F)
  /\ \A u, f : Si!Is(u, f) <=> f \in u.flags
  /\ \A b : Si!Bit(b) = Bit(b)
  /\ \A u : /\ Si!uv__handle_start(u) = uv__handle_start(u)
            /\ Si!uv__handle_stop(u) = uv__handle_stop(u)
            /\ Si!uv__handle_closing(u) = uv__handle_closing(u)
            /\ Si!uv__handle_close(u) = uv__handle_close(u)
            /\ Si!uv_want_endgame(u) = Set(u, {"ENDGAME_QUEUED"})
BY DEF Si!Set, Si!Clear, Si!Is, Si!uv__handle_start, Si!uv__handle_stop, Si!uv__handle_closing,
   Si!uv__handle_close, Si!uv_want_endgame, Si!Bit, Set, Clear, Is,
   uv__handle_start, uv__handle_stop, uv__handle_closing, uv__handle_close, Bit

\* uv_signal_init makes handles that satisfy the invariant.
LEMMA SiInit == Si!Init => SiInv
<1> SUFFICES ASSUME Si!Init PROVE SiInv
  OBVIOUS
<1> USE DEF Si!Init
<1>1. ASSUME NEW s \in SignalHandles
      PROVE  SiHandle(h[s]) /\ SiActive(h[s]) /\ h[s].signum = "0" /\ h[s].pending_signum = "0"
  <2>1. h[s] = [flags |-> {}, activecnt |-> 0, reqs_pending |-> 0, active_reqs |-> {},
                active_handles |-> 0, signum |-> "0", pending_signum |-> "0"]
    OBVIOUS
  <2>2. DOMAIN h[s] = BaseFields \cup SiFields /\ h[s] = [x \in DOMAIN h[s] |-> h[s][x]]
    BY <2>1 DEF BaseFields, SiFields
  <2> QED
    BY <2>1, <2>2 DEF SiHandle, SiActive, IsHandle, IsRecord, Active, Bit
<1>2. h = [s \in SignalHandles |-> h[s]]
  OBVIOUS
<1>3. SiHandles(h)
  BY <1>1, <1>2 DEF SiHandles
<1>4. {s \in SignalHandles : h[s].signum # "0"} = {} /\ {s \in SignalHandles : h[s].signum = "SIGINT"} = {}
  BY <1>1
<1>5. SiTree
  BY <1>4, FS_EmptySet DEF SiTree
<1>6. SiDispatch /\ SiLoop(h, pc)
  BY DEF SiDispatch, SiLoop, SiResting
<1>7. SiInFlight
  BY <1>1, ItemsEmpty, SignalHandlesAssumption DEF SiInFlight
<1> QED
  BY <1>3, <1>5, <1>6, <1>7 DEF SiInv

\* What the operations make of one handle.
LEMMA SiStops ==
  ASSUME NEW u, SiHandle(u), SiActive(u), "CLOSING" \notin u.flags, NEW v, v = Si!Stopped(u)
  PROVE  /\ SiHandle(v) /\ SiActive(v) /\ v.signum = "0" /\ v.pending_signum = u.pending_signum
         /\ v.flags = u.flags \ {"ACTIVE"} /\ v.active_handles = 0
<1>1. PICK e : e = [u EXCEPT !.signum = "0"]
  OBVIOUS
<1>2. /\ IsHandle(e) /\ IsRecord(e, SiFields) /\ Changes(u, e, {"signum"}) /\ e.signum = "0"
  BY <1>1 DEF SiHandle, IsHandle, IsRecord, BaseFields, SiFields, Changes
<1>3. v = uv__handle_stop(e)
  BY <1>1, SiOperators DEF Si!Stopped
<1>4. /\ IsHandle(v) /\ Changes(e, v, {"flags", "active_handles"})
      /\ v.flags = e.flags \ {"ACTIVE"} /\ v.active_handles = e.active_handles - Bit(Active(e))
  BY <1>2, <1>3, Stopping
<1>5. /\ IsRecord(v, SiFields) /\ v.signum = "0" /\ v.pending_signum = u.pending_signum
      /\ v.activecnt = u.activecnt /\ v.reqs_pending = u.reqs_pending
      /\ v.flags = u.flags \ {"ACTIVE"} /\ v.active_handles = u.active_handles - Bit(Active(u))
  BY <1>2, <1>4 DEF SiHandle, IsHandle, IsRecord, BaseFields, SiFields, Changes, Active
<1>6. v.active_handles = 0 /\ {"CLOSED", "ENDGAME_QUEUED", "CLOSING", "ACTIVE"} \cap v.flags = {}
  BY <1>5 DEF SiActive, Bit
<1>7. SiHandle(v)
  BY <1>4, <1>5 DEF SiHandle
<1>8. SiActive(v)
  BY <1>5, <1>6 DEF SiActive, Active, Bit
<1> QED
  BY <1>5, <1>6, <1>7, <1>8

\* uv_signal_start: the handle watches n.
LEMMA SiStarts ==
  ASSUME NEW u, SiHandle(u), SiActive(u), "CLOSING" \notin u.flags, u.signum = "0",
         NEW n \in SiSignals, NEW e, e = [u EXCEPT !.signum = n], NEW v, v = uv__handle_start(e)
  PROVE  /\ SiHandle(v) /\ SiActive(v) /\ v.signum = n /\ v.pending_signum = u.pending_signum
         /\ v.flags = u.flags \cup {"ACTIVE"}
<1>1. /\ IsHandle(e) /\ IsRecord(e, SiFields) /\ Changes(u, e, {"signum"}) /\ e.signum = n
  BY DEF SiHandle, IsHandle, IsRecord, BaseFields, SiFields, Changes
<1>2. /\ IsHandle(v) /\ Changes(e, v, {"flags", "active_handles"})
      /\ v.flags = e.flags \cup {"ACTIVE"} /\ v.active_handles = e.active_handles + Bit(~Active(e))
  BY <1>1, Starting
<1>3. /\ IsRecord(v, SiFields) /\ v.signum = n /\ v.pending_signum = u.pending_signum
      /\ v.activecnt = u.activecnt /\ v.reqs_pending = u.reqs_pending
      /\ v.flags = u.flags \cup {"ACTIVE"} /\ v.active_handles = u.active_handles + Bit(~Active(u))
  BY <1>1, <1>2 DEF SiHandle, IsHandle, IsRecord, BaseFields, SiFields, Changes, Active
<1>4. v.active_handles = 1 /\ {"CLOSED", "ENDGAME_QUEUED", "CLOSING"} \cap v.flags = {} /\ Active(v)
  BY <1>3 DEF SiActive, Bit, Active
<1>5. SiHandle(v)
  BY <1>2, <1>3 DEF SiHandle
<1>6. SiActive(v)
  BY <1>3, <1>4 DEF SiActive, Bit, SiSignals
<1> QED
  BY <1>3, <1>5, <1>6

\* A signal was caught for the handle, or its request has been processed.
LEMMA SiPends ==
  ASSUME NEW u, SiHandle(u), SiActive(u), NEW n \in SiSignals \cup {"0"},
         "CLOSED" \in u.flags => n = "0", NEW v, v = [u EXCEPT !.pending_signum = n]
  PROVE  /\ SiHandle(v) /\ SiActive(v) /\ v.signum = u.signum /\ v.pending_signum = n
         /\ v.flags = u.flags
<1>1. /\ IsHandle(v) /\ IsRecord(v, SiFields) /\ Changes(u, v, {"pending_signum"})
      /\ v.pending_signum = n
  BY DEF SiHandle, IsHandle, IsRecord, BaseFields, SiFields, Changes
<1>2. /\ v.signum = u.signum /\ v.activecnt = u.activecnt /\ v.reqs_pending = u.reqs_pending
      /\ v.flags = u.flags /\ v.active_handles = u.active_handles
  BY <1>1 DEF SiHandle, IsHandle, IsRecord, BaseFields, SiFields, Changes
<1> QED
  BY <1>1, <1>2 DEF SiHandle, SiActive, Active

\* A handle that closes is queued for the endgame.
LEMMA SiWants ==
  ASSUME NEW u, SiHandle(u), SiActive(u), "CLOSING" \in u.flags, "CLOSED" \notin u.flags,
         NEW v, v = Set(u, {"ENDGAME_QUEUED"})
  PROVE  /\ SiHandle(v) /\ SiActive(v) /\ v.signum = u.signum
         /\ v.pending_signum = u.pending_signum /\ v.flags = u.flags \cup {"ENDGAME_QUEUED"}
<1>1. IsHandle(v) /\ Changes(u, v, {"flags"}) /\ v.flags = u.flags \cup {"ENDGAME_QUEUED"}
  BY Setting DEF SiHandle
<1>2. /\ v.signum = u.signum /\ v.activecnt = u.activecnt /\ v.reqs_pending = u.reqs_pending
      /\ v.pending_signum = u.pending_signum /\ v.active_handles = u.active_handles
      /\ IsRecord(v, SiFields)
  BY <1>1 DEF SiHandle, IsHandle, IsRecord, BaseFields, SiFields, Changes
<1> QED
  BY <1>1, <1>2 DEF SiHandle, SiActive, Active, Bit

\* uv_signal_close: the handle stops, and closes once no signal is pending.
LEMMA SiCloses ==
  ASSUME NEW u, SiHandle(u), SiActive(u), "CLOSING" \notin u.flags,
         NEW v, v = Si!EndgameUnlessPending(uv__handle_closing(Si!Stopped(u)))
  PROVE  /\ SiHandle(v) /\ SiActive(v) /\ v.signum = "0" /\ v.pending_signum = u.pending_signum
         /\ "CLOSED" \notin v.flags
<1>1. PICK s, c : s = Si!Stopped(u) /\ c = uv__handle_closing(s)
  OBVIOUS
<1>2. /\ SiHandle(s) /\ SiActive(s) /\ s.signum = "0" /\ s.pending_signum = u.pending_signum
      /\ s.flags = u.flags \ {"ACTIVE"} /\ s.active_handles = 0
  BY <1>1, SiStops
<1>3. /\ IsHandle(c) /\ Changes(s, c, {"flags", "active_handles"})
      /\ c.flags = (s.flags \ {"ACTIVE"}) \cup {"CLOSING"}
      /\ c.active_handles = s.active_handles + Bit(~Active(s))
  BY <1>1, <1>2, Closing DEF SiHandle
<1>4. /\ IsRecord(c, SiFields) /\ c.signum = "0" /\ c.pending_signum = u.pending_signum
      /\ c.activecnt = s.activecnt /\ c.reqs_pending = s.reqs_pending /\ c.active_handles = 1
      /\ "CLOSING" \in c.flags /\ {"CLOSED", "ENDGAME_QUEUED", "ACTIVE"} \cap c.flags = {}
  BY <1>2, <1>3 DEF SiHandle, SiActive, IsHandle, IsRecord, BaseFields, SiFields, Changes, Active, Bit
<1>5. SiHandle(c) /\ SiActive(c)
  BY <1>2, <1>3, <1>4 DEF SiHandle, SiActive, Active, Bit
<1>6. v = IF c.pending_signum = "0" THEN Set(c, {"ENDGAME_QUEUED"}) ELSE c
  BY <1>1, SiOperators DEF Si!EndgameUnlessPending
<1>7. CASE c.pending_signum = "0"
  BY <1>4, <1>5, <1>6, <1>7, SiWants
<1>8. CASE c.pending_signum # "0"
  BY <1>4, <1>5, <1>6, <1>8
<1> QED
  BY <1>7, <1>8

\* uv_signal_endgame: the handle is closed.
LEMMA SiGoes ==
  ASSUME NEW u, SiHandle(u), SiActive(u), "ENDGAME_QUEUED" \in u.flags, u.pending_signum = "0",
         NEW v, v = uv__handle_close(Clear(u, {"ENDGAME_QUEUED"}))
  PROVE  SiHandle(v) /\ SiActive(v) /\ v.signum = u.signum /\ v.pending_signum = "0"
<1>1. PICK c : c = Clear(u, {"ENDGAME_QUEUED"})
  OBVIOUS
<1>2. IsHandle(c) /\ Changes(u, c, {"flags"}) /\ c.flags = u.flags \ {"ENDGAME_QUEUED"}
  BY <1>1, Clearing DEF SiHandle
<1>3. /\ IsHandle(v) /\ Changes(c, v, {"flags", "active_handles"})
      /\ v.flags = c.flags \cup {"CLOSED"} /\ v.active_handles = c.active_handles - 1
  BY <1>1, <1>2, Closed
<1>4. /\ IsRecord(v, SiFields) /\ v.signum = u.signum /\ v.pending_signum = "0"
      /\ v.activecnt = u.activecnt /\ v.reqs_pending = u.reqs_pending
      /\ v.active_handles = u.active_handles - 1
  BY <1>2, <1>3 DEF SiHandle, IsHandle, IsRecord, BaseFields, SiFields, Changes
<1>5. /\ u.active_handles = 1 /\ "CLOSING" \in u.flags /\ u.signum = "0" /\ ~Active(u)
  BY DEF SiActive, Bit
<1>6. "CLOSED" \in v.flags /\ "CLOSING" \in v.flags /\ "ENDGAME_QUEUED" \notin v.flags /\ ~Active(v)
  BY <1>2, <1>3, <1>5 DEF Active
<1>7. SiHandle(v)
  BY <1>3, <1>4 DEF SiHandle
<1>8. SiActive(v)
  BY <1>4, <1>5, <1>6 DEF SiActive, Bit
<1> QED
  BY <1>4, <1>7, <1>8

\* A step that changes one handle.
LEMMA SiChanged ==
  ASSUME SiInv, NEW s \in SignalHandles, NEW v, SiHandle(v), SiActive(v), h' = [h EXCEPT ![s] = v]
  PROVE  /\ SiHandles(h') /\ h'[s] = v
         /\ \A t \in SignalHandles : t = s \/ h'[t] = h[t]
         /\ ("CLOSED" \in v.flags => "CLOSED" \in h[s].flags) =>
              \A p : SiResting(h, p) => SiResting(h', p)
<1>1. h = [t \in SignalHandles |-> h[t]] /\ \A t \in SignalHandles : SiHandle(h[t]) /\ SiActive(h[t])
  BY DEF SiInv, SiHandles
<1>2. h' = [t \in SignalHandles |-> IF t = s THEN v ELSE h[t]]
  BY <1>1
<1>3. h'[s] = v /\ \A t \in SignalHandles : t = s \/ h'[t] = h[t]
  BY <1>2
<1>4. SiHandles(h')
  BY <1>1, <1>2, <1>3 DEF SiHandles
<1>5. ASSUME "CLOSED" \in v.flags => "CLOSED" \in h[s].flags, NEW p, SiResting(h, p)
      PROVE  SiResting(h', p)
  BY <1>3, <1>5 DEF SiResting
<1> QED
  BY <1>3, <1>4, <1>5

\* The tree is as it was if no handle watches another signal.
LEMMA SiSame ==
  ASSUME SiInv, NEW s \in SignalHandles, NEW v, SiHandle(v), SiActive(v), h' = [h EXCEPT ![s] = v],
         v.signum = h[s].signum, kernel' = kernel
  PROVE  SiTree'
<1>1. \A t \in SignalHandles : h'[t].signum = h[t].signum
  BY SiChanged
<1> QED
  BY <1>1 DEF SiInv, SiTree

\* What s adds to a set of handles.
LEMMA SiCounts ==
  ASSUME NEW S \in SUBSET SignalHandles, NEW s
  PROVE  /\ Cardinality(S \ {s}) \in Nat
         /\ Cardinality(S) = Cardinality(S \ {s}) + Bit(s \in S)
<1>1. IsFiniteSet(S)
  BY FS_Subset, SignalHandlesAssumption
<1>2. IsFiniteSet(S \ {s})
  BY <1>1, FS_Subset
<1>3. PICK n \in Nat : n = Cardinality(S \ {s})
  BY <1>2, FS_CardinalityType
<1>4. PICK m \in Nat : m = Cardinality(S)
  BY <1>1, FS_CardinalityType
<1>5. CASE s \in S
  <2>1. Cardinality(S \ {s}) = Cardinality(S) - 1
    BY <1>1, <1>5, FS_RemoveElement
  <2>2. n = m - 1
    BY <1>3, <1>4, <2>1
  <2> QED
    BY <1>3, <1>4, <1>5, <2>2 DEF Bit
<1>6. CASE s \notin S
  <2>1. S \ {s} = S
    BY <1>6
  <2> QED
    BY <1>3, <1>6, <2>1 DEF Bit
<1> QED
  BY <1>3, <1>5, <1>6

\* A handle's signal changes, and the tree with it.
LEMMA SiRewatched ==
  ASSUME SiInv, NEW s \in SignalHandles, NEW v, SiHandle(v), SiActive(v), h' = [h EXCEPT ![s] = v],
         kernel' = [watchers |-> IF v.signum = "0" THEN kernel.watchers \ {s}
                                 ELSE kernel.watchers \cup {s},
                    refs |-> kernel.refs - Bit(h[s].signum = "SIGINT") + Bit(v.signum = "SIGINT")]
  PROVE  SiTree'
<1>1. h'[s] = v /\ \A t \in SignalHandles : t = s \/ h'[t] = h[t]
  BY SiChanged
<1>2. PICK W, C : /\ W = {t \in SignalHandles : h[t].signum = "SIGINT"}
                  /\ C = {t \in SignalHandles : h'[t].signum = "SIGINT"}
  OBVIOUS
<1>3. W \ {s} = C \ {s} /\ (s \in W <=> h[s].signum = "SIGINT") /\ (s \in C <=> v.signum = "SIGINT")
  BY <1>1, <1>2
<1>4. PICK n \in Nat : n = Cardinality(W \ {s})
  BY <1>2, SiCounts
<1>5. Cardinality(W) = n + Bit(s \in W) /\ Cardinality(C) = n + Bit(s \in C)
  <2>1. W \in SUBSET SignalHandles /\ C \in SUBSET SignalHandles
    BY <1>2
  <2>2. Cardinality(W) = Cardinality(W \ {s}) + Bit(s \in W)
    BY <2>1, SiCounts
  <2>3. Cardinality(C) = Cardinality(C \ {s}) + Bit(s \in C)
    BY <2>1, SiCounts
  <2> QED
    BY <1>3, <1>4, <2>2, <2>3
<1>6. kernel.refs = Cardinality(W) /\ kernel.watchers = {t \in SignalHandles : h[t].signum # "0"}
  BY <1>2 DEF SiInv, SiTree
<1>7. kernel'.refs = Cardinality(C)
  BY <1>3, <1>4, <1>5, <1>6 DEF Bit
<1>8. kernel'.watchers = {t \in SignalHandles : h'[t].signum # "0"}
  BY <1>1, <1>6
<1> QED
  BY <1>2, <1>7, <1>8 DEF SiTree

\* Under the lock no dispatch is under way.
LEMMA SiUnlocked ==
  ASSUME SiInv, Si!LockFree, hist' = hist PROVE SiDispatch'
BY DEF Si!LockFree, SiInv, SiDispatch

\* A handle's pending signal stays.
LEMMA SiUnreported ==
  ASSUME SiInv, NEW s \in SignalHandles, NEW v, SiHandle(v), SiActive(v), h' = [h EXCEPT ![s] = v],
         v.pending_signum = h[s].pending_signum, pending' = pending, hist' = hist
  PROVE  SiInFlight'
<1>1. \A t \in SignalHandles : h'[t].pending_signum = h[t].pending_signum
  BY SiChanged
<1> QED
  BY <1>1 DEF SiInv, SiInFlight

\* The user calls for a handle that is not closing, from the loop or a callback.
LEMMA SiUser ==
  ASSUME SiInv, NEW s \in SignalHandles, Si!User(s)
  PROVE  SiHandle(h[s]) /\ SiActive(h[s]) /\ "CLOSING" \notin h[s].flags /\ SiResting(h, pc)
BY SiOperators DEF Si!User, SiInv, SiHandles, SiLoop, SiResting, SiStarting

\* Taking a handle out of the tree.
LEMMA SiUnwatched ==
  ASSUME SiInv, NEW s \in SignalHandles, h[s].signum # "0"
  PROVE  Si!Unwatch(s) = [watchers |-> kernel.watchers \ {s},
                          refs |-> kernel.refs - Bit(h[s].signum = "SIGINT")]
<1>1. Bit(h[s].signum \in Si!Console) = Bit(h[s].signum = "SIGINT")
  BY DEF Si!Console, Bit
<1> QED
  BY <1>1, SiOperators DEF Si!Unwatch

\* uv_signal_stop.
LEMMA SiStopInv == \A s \in SignalHandles : SiInv /\ Si!uv_signal_stop(s) => SiInv'
<1> SUFFICES ASSUME NEW s \in SignalHandles, SiInv, Si!uv_signal_stop(s) PROVE SiInv'
  OBVIOUS
<1>1. PICK v : v = Si!Stopped(h[s])
  OBVIOUS
<1>2. /\ Si!User(s) /\ h[s].signum # "0" /\ Si!LockFree /\ kernel' = Si!Unwatch(s)
      /\ h' = [h EXCEPT ![s] = v] /\ UNCHANGED <<hist, pending, pc>>
  BY <1>1 DEF Si!uv_signal_stop
<1>3. SiHandle(h[s]) /\ SiActive(h[s]) /\ "CLOSING" \notin h[s].flags /\ SiResting(h, pc)
  BY <1>2, SiUser
<1>4. /\ SiHandle(v) /\ SiActive(v) /\ v.signum = "0" /\ v.pending_signum = h[s].pending_signum
      /\ "CLOSED" \in v.flags => "CLOSED" \in h[s].flags
  BY <1>1, <1>3, SiStops
<1>5. SiHandles(h') /\ SiLoop(h, pc)'
  BY <1>2, <1>3, <1>4, SiChanged DEF SiLoop
<1>6. SiTree'
  <2>1. kernel.refs - Bit(h[s].signum = "SIGINT")
          = kernel.refs - Bit(h[s].signum = "SIGINT") + Bit(v.signum = "SIGINT")
    <3>1. kernel.refs \in Nat
      BY SiCounts, FS_Subset, FS_CardinalityType, SignalHandlesAssumption DEF SiInv, SiTree
    <3> QED
      BY <1>4, <3>1 DEF Bit
  <2> QED
    BY <1>2, <1>4, <2>1, SiUnwatched, SiRewatched
<1> QED
  BY <1>2, <1>4, <1>5, <1>6, SiUnlocked, SiUnreported DEF SiInv

\* uv_signal_start.
LEMMA SiStartInv ==
  \A s \in SignalHandles, n \in SiSignals : SiInv /\ Si!uv_signal_start(s, n) => SiInv'
<1> SUFFICES ASSUME NEW s \in SignalHandles, NEW n \in SiSignals, SiInv, Si!uv_signal_start(s, n)
             PROVE  SiInv'
  OBVIOUS
<1>1. PICK v : v = Si!Stopped(h[s])
  OBVIOUS
<1>2. /\ Si!User(s)
      /\ IF h[s].signum = "0" THEN UNCHANGED <<h, kernel>>
         ELSE Si!LockFree /\ kernel' = Si!Unwatch(s) /\ h' = [h EXCEPT ![s] = v]
      /\ pc' = [at |-> "start", handle |-> s, signum |-> n, back |-> pc]
      /\ UNCHANGED <<hist, pending>>
  BY <1>1 DEF Si!uv_signal_start
<1>3. SiHandle(h[s]) /\ SiActive(h[s]) /\ "CLOSING" \notin h[s].flags /\ SiResting(h, pc)
  BY <1>2, SiUser
<1>4. CASE h[s].signum = "0"
  <2>1. SiStarting(h, pc)'
    BY <1>2, <1>3, <1>4 DEF SiStarting, SiResting
  <2>2. SiHandles(h)' /\ SiTree' /\ SiDispatch' /\ SiInFlight'
    BY <1>2, <1>4 DEF SiInv, SiHandles, SiTree, SiDispatch, SiInFlight
  <2> QED
    BY <2>1, <2>2 DEF SiInv, SiLoop
<1>5. CASE h[s].signum # "0"
  <2>1. /\ Si!LockFree /\ kernel' = Si!Unwatch(s) /\ h' = [h EXCEPT ![s] = v]
    BY <1>2, <1>5
  <2>2. /\ SiHandle(v) /\ SiActive(v) /\ v.signum = "0" /\ v.pending_signum = h[s].pending_signum
        /\ "CLOSED" \in v.flags => "CLOSED" \in h[s].flags
        /\ "CLOSING" \notin v.flags
    BY <1>1, <1>3, SiStops
  <2>3. SiHandles(h') /\ h'[s] = v /\ SiResting(h', pc)
    BY <1>3, <2>1, <2>2, SiChanged
  <2>4. SiStarting(h, pc)'
    BY <1>2, <2>2, <2>3 DEF SiStarting
  <2>5. SiTree'
    <3>1. kernel.refs \in Nat
      BY FS_Subset, FS_CardinalityType, SignalHandlesAssumption DEF SiInv, SiTree
    <3>2. kernel.refs - Bit(h[s].signum = "SIGINT")
            = kernel.refs - Bit(h[s].signum = "SIGINT") + Bit(v.signum = "SIGINT")
      BY <2>2, <3>1 DEF Bit
    <3> QED
      BY <1>5, <2>1, <2>2, <3>2, SiUnwatched, SiRewatched
  <2> QED
    BY <1>2, <2>1, <2>2, <2>3, <2>4, <2>5, SiUnlocked, SiUnreported DEF SiInv, SiLoop
<1> QED
  BY <1>4, <1>5

\* uv_signal_start, after the stop of the old signal.
LEMMA SiStartWatchingInv == SiInv /\ Si!StartWatching => SiInv'
<1> SUFFICES ASSUME SiInv, Si!StartWatching PROVE SiInv'
  OBVIOUS
<1>1. SiStarting(h, pc)
  BY DEF Si!StartWatching, SiInv, SiLoop, SiResting
<1>2. PICK s, n : s = pc.handle /\ n = pc.signum /\ s \in SignalHandles /\ n \in SiSignals
  BY <1>1 DEF SiStarting
<1>3. PICK e, v : e = [h[s] EXCEPT !.signum = n] /\ v = uv__handle_start(e)
  OBVIOUS
<1>4. /\ \/ /\ kernel' = [watchers |-> kernel.watchers \cup {s},
                          refs |-> kernel.refs + Bit(n = "SIGINT")]
            /\ h' = [h EXCEPT ![s] = v]
         \/ UNCHANGED <<kernel, h>>
      /\ pc' = pc.back /\ UNCHANGED <<hist, pending>> /\ Si!LockFree
  <2>1. Bit(n \in Si!Console) = Bit(n = "SIGINT")
    BY DEF Si!Console, Bit
  <2> QED
    BY <1>2, <1>3, <2>1, SiOperators DEF Si!StartWatching
<1>5. SiHandle(h[s]) /\ SiActive(h[s]) /\ "CLOSING" \notin h[s].flags /\ h[s].signum = "0"
  BY <1>1, <1>2 DEF SiStarting, SiInv, SiHandles
<1>6. CASE UNCHANGED <<kernel, h>>
  <2>1. SiLoop(h, pc)'
    BY <1>1, <1>4, <1>6 DEF SiStarting, SiLoop, SiResting
  <2> QED
    BY <1>4, <1>6, <2>1 DEF SiInv, SiHandles, SiTree, SiDispatch, SiInFlight
<1>7. CASE /\ kernel' = [watchers |-> kernel.watchers \cup {s},
                         refs |-> kernel.refs + Bit(n = "SIGINT")]
           /\ h' = [h EXCEPT ![s] = v]
  <2>1. /\ SiHandle(v) /\ SiActive(v) /\ v.signum = n /\ v.pending_signum = h[s].pending_signum
        /\ v.flags = h[s].flags \cup {"ACTIVE"}
    BY <1>2, <1>3, <1>5, SiStarts
  <2>2. "CLOSED" \in v.flags => "CLOSED" \in h[s].flags
    BY <2>1
  <2>3. SiHandles(h') /\ SiResting(h', pc.back)
    BY <1>1, <1>2, <1>7, <2>1, <2>2, SiChanged DEF SiStarting
  <2>4. SiTree'
    <3>1. kernel.refs \in Nat
      BY FS_Subset, FS_CardinalityType, SignalHandlesAssumption DEF SiInv, SiTree
    <3>2. kernel.refs + Bit(n = "SIGINT")
            = kernel.refs - Bit(h[s].signum = "SIGINT") + Bit(v.signum = "SIGINT")
      BY <1>5, <2>1, <3>1 DEF Bit
    <3>3. v.signum # "0"
      BY <1>2, <2>1 DEF SiSignals
    <3> QED
      BY <1>2, <1>7, <2>1, <3>2, <3>3, SiRewatched
  <2> QED
    BY <1>2, <1>4, <1>7, <2>1, <2>3, <2>4, SiUnlocked, SiUnreported DEF SiInv, SiLoop
<1> QED
  BY <1>4, <1>6, <1>7

\* uv_signal_close.
LEMMA SiCloseInv == \A s \in SignalHandles : SiInv /\ Si!uv_signal_close(s) => SiInv'
<1> SUFFICES ASSUME NEW s \in SignalHandles, SiInv, Si!uv_signal_close(s) PROVE SiInv'
  OBVIOUS
<1>1. PICK v : v = Si!EndgameUnlessPending(uv__handle_closing(Si!Stopped(h[s])))
  OBVIOUS
<1>2. /\ Si!User(s)
      /\ IF h[s].signum # "0" THEN Si!LockFree /\ kernel' = Si!Unwatch(s) ELSE UNCHANGED kernel
      /\ h' = [h EXCEPT ![s] = v]
      /\ UNCHANGED <<hist, pending, pc>>
  BY <1>1, SiOperators DEF Si!uv_signal_close
<1>3. SiHandle(h[s]) /\ SiActive(h[s]) /\ "CLOSING" \notin h[s].flags /\ SiResting(h, pc)
  BY <1>2, SiUser
<1>4. /\ SiHandle(v) /\ SiActive(v) /\ v.signum = "0" /\ v.pending_signum = h[s].pending_signum
      /\ "CLOSED" \in v.flags => "CLOSED" \in h[s].flags
  BY <1>1, <1>3, SiCloses
<1>5. SiHandles(h') /\ SiLoop(h, pc)'
  BY <1>2, <1>3, <1>4, SiChanged DEF SiLoop
<1>6. SiTree' /\ SiDispatch'
  <2>1. CASE h[s].signum = "0"
    <3>1. SiTree'
      BY <1>2, <1>4, <2>1, SiSame
    <3>2. SiDispatch'
      BY <1>2, <2>1 DEF SiInv, SiDispatch
    <3> QED
      BY <3>1, <3>2
  <2>2. CASE h[s].signum # "0"
    <3>1. kernel.refs \in Nat
      BY FS_Subset, FS_CardinalityType, SignalHandlesAssumption DEF SiInv, SiTree
    <3>2. kernel.refs - Bit(h[s].signum = "SIGINT")
            = kernel.refs - Bit(h[s].signum = "SIGINT") + Bit(v.signum = "SIGINT")
      BY <1>4, <3>1 DEF Bit
    <3>3. SiTree'
      BY <1>2, <1>4, <2>2, <3>2, SiUnwatched, SiRewatched
    <3>4. SiDispatch'
      BY <1>2, <2>2, SiUnlocked
    <3> QED
      BY <3>3, <3>4
  <2> QED
    BY <2>1, <2>2
<1> QED
  BY <1>2, <1>4, <1>5, <1>6, SiUnreported DEF SiInv

\* uv_process_signal_req, up to its callback.
LEMMA SiProcessInv == SiInv /\ Si!uv_process_signal_req => SiInv'
<1> SUFFICES ASSUME SiInv, Si!uv_process_signal_req PROVE SiInv'
  OBVIOUS
<1>1. PICK s, v : s = Head(pending) /\ v = [h[s] EXCEPT !.pending_signum = "0"]
  OBVIOUS
<1>2. /\ pending # <<>> /\ pending' = Tail(pending) /\ UNCHANGED <<kernel, hist>>
      /\ pc' = [at |-> "req_end", handle |-> s] /\ h' = [h EXCEPT ![s] = v]
  BY <1>1 DEF Si!uv_process_signal_req
<1>3. /\ s \in SignalHandles /\ s \in Items(pending) /\ pending' \in Seq(SignalHandles)
      /\ OnceEach(pending') /\ Items(pending') = Items(pending) \ {s}
  BY <1>1, <1>2, ItemTaken DEF SiInv, SiInFlight
<1>4. SiHandle(h[s]) /\ SiActive(h[s]) /\ h[s].pending_signum # "0" /\ hist.at # s
  BY <1>3 DEF SiInv, SiHandles, SiInFlight
<1>5. "CLOSED" \notin h[s].flags
  BY <1>4 DEF SiActive
<1>6. /\ SiHandle(v) /\ SiActive(v) /\ v.signum = h[s].signum /\ v.pending_signum = "0"
      /\ v.flags = h[s].flags
  BY <1>1, <1>4, SiPends
<1>7. SiHandles(h') /\ h'[s] = v /\ \A t \in SignalHandles : t = s \/ h'[t] = h[t]
  BY <1>2, <1>3, <1>6, SiChanged
<1>8. SiResting(h, pc)'
  BY <1>2, <1>3, <1>5, <1>6, <1>7 DEF SiResting
<1>9. SiTree'
  BY <1>2, <1>3, <1>6, SiSame
<1>10. SiInFlight'
  BY <1>2, <1>3, <1>4, <1>6, <1>7 DEF SiInv, SiInFlight
<1> QED
  BY <1>2, <1>7, <1>8, <1>9, <1>10 DEF SiInv, SiLoop, SiDispatch

\* uv_process_signal_req after its callback.
LEMMA SiReqEndInv == SiInv /\ Si!ReqEnd => SiInv'
<1> SUFFICES ASSUME SiInv, Si!ReqEnd PROVE SiInv'
  OBVIOUS
<1>1. PICK s : s = pc.handle
  OBVIOUS
<1>2. PICK v : v = IF "CLOSING" \in h[s].flags THEN Set(h[s], {"ENDGAME_QUEUED"}) ELSE h[s]
  OBVIOUS
<1>3. /\ pc.at = "req_end" /\ pc' = [at |-> "loop"] /\ UNCHANGED <<kernel, hist, pending>>
      /\ h' = [h EXCEPT ![s] = v]
  BY <1>1, <1>2, SiOperators DEF Si!ReqEnd, Si!At
<1>4. s \in SignalHandles /\ "CLOSED" \notin h[s].flags /\ SiHandle(h[s]) /\ SiActive(h[s])
  BY <1>1, <1>3 DEF SiInv, SiLoop, SiResting, SiStarting, SiHandles
<1>5. /\ SiHandle(v) /\ SiActive(v) /\ v.signum = h[s].signum
      /\ v.pending_signum = h[s].pending_signum
  BY <1>2, <1>4, SiWants
<1>6. SiHandles(h') /\ SiTree' /\ SiInFlight'
  BY <1>3, <1>4, <1>5, SiChanged, SiSame, SiUnreported
<1>7. SiLoop(h, pc)' /\ SiDispatch'
  BY <1>3 DEF SiInv, SiLoop, SiResting, SiDispatch
<1> QED
  BY <1>6, <1>7 DEF SiInv

\* uv_signal_endgame.
LEMMA SiEndgameInv == \A s \in SignalHandles : SiInv /\ Si!uv_signal_endgame(s) => SiInv'
<1> SUFFICES ASSUME NEW s \in SignalHandles, SiInv, Si!uv_signal_endgame(s) PROVE SiInv'
  OBVIOUS
<1>1. PICK v : v = uv__handle_close(Clear(h[s], {"ENDGAME_QUEUED"}))
  OBVIOUS
<1>2. /\ pc.at = "loop" /\ "ENDGAME_QUEUED" \in h[s].flags /\ UNCHANGED <<kernel, hist, pending>>
      /\ IF h[s].pending_signum = "0" THEN h' = [h EXCEPT ![s] = v] /\ UNCHANGED pc
         ELSE pc' = [at |-> "aborted"] /\ UNCHANGED h
  BY <1>1, SiOperators DEF Si!uv_signal_endgame, Si!At
<1>3. SiHandle(h[s]) /\ SiActive(h[s])
  BY DEF SiInv, SiHandles
<1>4. CASE h[s].pending_signum = "0"
  <2>1. /\ SiHandle(v) /\ SiActive(v) /\ v.signum = h[s].signum
        /\ v.pending_signum = h[s].pending_signum
    BY <1>1, <1>2, <1>3, <1>4, SiGoes
  <2>2. h' = [h EXCEPT ![s] = v] /\ UNCHANGED pc
    BY <1>2, <1>4
  <2>3. SiHandles(h') /\ SiTree' /\ SiInFlight'
    BY <1>2, <2>1, <2>2, SiChanged, SiSame, SiUnreported
  <2>4. SiLoop(h, pc)' /\ SiDispatch'
    BY <1>2, <2>2 DEF SiInv, SiLoop, SiResting, SiDispatch
  <2> QED
    BY <2>3, <2>4 DEF SiInv
<1>5. CASE h[s].pending_signum # "0"
  <2>1. SiLoop(h, pc)'
    BY <1>2, <1>5 DEF SiLoop
  <2> QED
    BY <1>2, <1>5, <2>1 DEF SiInv, SiHandles, SiTree, SiDispatch, SiInFlight
<1> QED
  BY <1>4, <1>5

\* uv__signal_dispatch: the control thread exchanges pending_signum.
LEMMA SiExchangeInv == SiInv /\ Si!DispatchExchange => SiInv'
<1> SUFFICES ASSUME SiInv, Si!DispatchExchange PROVE SiInv'
  OBVIOUS
<1>1. PICK s \in hist.todo :
        /\ h' = [h EXCEPT ![s].pending_signum = hist.signum]
        /\ hist' = [hist EXCEPT !.todo = @ \ {s},
                                !.at = IF h[s].pending_signum = "0" THEN s ELSE "next"]
  BY DEF Si!DispatchExchange, Si!NotPosted
<1>2. hist.at = "next" /\ UNCHANGED <<kernel, pending, pc>>
  BY DEF Si!DispatchExchange
<1>3. /\ s \in kernel.watchers /\ s \in SignalHandles /\ h[s].signum # "0"
      /\ hist.signum \in SiSignals /\ hist.todo \subseteq kernel.watchers
      /\ hist = [at |-> hist.at, signum |-> hist.signum, todo |-> hist.todo,
                 raised |-> hist.raised]
  BY <1>1, <1>2 DEF SiInv, SiDispatch, SiTree
<1>4. PICK v : v = [h[s] EXCEPT !.pending_signum = hist.signum]
  OBVIOUS
<1>5. h' = [h EXCEPT ![s] = v]
  BY <1>1, <1>4
<1>6. SiHandle(h[s]) /\ SiActive(h[s]) /\ "CLOSED" \notin h[s].flags
  BY <1>3 DEF SiInv, SiHandles, SiActive
<1>7. /\ SiHandle(v) /\ SiActive(v) /\ v.signum = h[s].signum /\ v.pending_signum = hist.signum
      /\ v.flags = h[s].flags
  BY <1>3, <1>4, <1>6, SiPends
<1>8. /\ SiHandles(h') /\ h'[s] = v /\ \A t \in SignalHandles : t = s \/ h'[t] = h[t]
      /\ \A p : SiResting(h, p) => SiResting(h', p)
  BY <1>3, <1>5, <1>7, SiChanged
<1>9. SiLoop(h, pc)'
  <2>1. SiStarting(h, pc) => SiStarting(h', pc)
    BY <1>7, <1>8 DEF SiStarting
  <2> QED
    BY <1>2, <1>8, <2>1 DEF SiInv, SiLoop
<1>10. SiTree'
  BY <1>2, <1>3, <1>5, <1>7, SiSame
<1>11. /\ hist' = [at |-> hist'.at, signum |-> hist'.signum, todo |-> hist'.todo,
                   raised |-> hist'.raised]
       /\ hist'.at = IF h[s].pending_signum = "0" THEN s ELSE "next"
       /\ hist'.signum = hist.signum /\ hist'.todo = hist.todo \ {s}
  BY <1>1, <1>3
<1>12. SiDispatch'
  BY <1>2, <1>3, <1>11 DEF SiDispatch
<1>13. SiInFlight'
  <2>1. /\ pending \in Seq(SignalHandles) /\ OnceEach(pending) /\ "next" \notin Items(pending)
        /\ \A t \in SignalHandles : h[t].pending_signum # "0" <=> t \in Items(pending)
    BY <1>2, SignalHandlesAssumption DEF SiInv, SiInFlight
  <2>2. hist.signum # "0"
    BY <1>3 DEF SiSignals
  <2>3. CASE h[s].pending_signum = "0"
    BY <1>2, <1>3, <1>7, <1>8, <1>11, <2>1, <2>2, <2>3 DEF SiInFlight
  <2>4. CASE h[s].pending_signum # "0"
    BY <1>2, <1>3, <1>7, <1>8, <1>11, <2>1, <2>2, <2>4, SignalHandlesAssumption DEF SiInFlight
  <2> QED
    BY <2>3, <2>4
<1> QED
  BY <1>8, <1>9, <1>10, <1>12, <1>13 DEF SiInv

\* uv__signal_dispatch: and posts the request.
LEMMA SiPostInv == SiInv /\ Si!DispatchPost => SiInv'
<1> SUFFICES ASSUME SiInv, Si!DispatchPost PROVE SiInv'
  OBVIOUS
<1>1. PICK s \in SignalHandles : s = hist.at
  BY DEF Si!DispatchPost
<1>2. /\ pending' = Append(pending, s) /\ hist' = [hist EXCEPT !.at = "next"]
      /\ UNCHANGED <<h, kernel, pc>>
  BY <1>1 DEF Si!DispatchPost
<1>3. /\ hist' = [at |-> "next", signum |-> hist.signum, todo |-> hist.todo, raised |-> hist.raised]
      /\ hist.at # "idle"
  BY <1>1, <1>2, SignalHandlesAssumption DEF SiInv, SiDispatch
<1>4. SiDispatch'
  BY <1>2, <1>3 DEF SiInv, SiDispatch
<1>5. /\ pending' \in Seq(SignalHandles) /\ OnceEach(pending')
      /\ Items(pending') = Items(pending) \cup {s}
  BY <1>1, <1>2, ItemAppended DEF SiInv, SiInFlight
<1>6. "next" \notin Items(pending')
  BY <1>5, SignalHandlesAssumption DEF Items
<1>7. SiInFlight'
  BY <1>1, <1>2, <1>3, <1>5, <1>6, SignalHandlesAssumption DEF SiInv, SiInFlight
<1> QED
  BY <1>2, <1>4, <1>7 DEF SiInv, SiHandles, SiLoop, SiTree, SiResting, SiStarting

\* The control thread calls uv__signal_dispatch.
LEMMA SiDispatchInv == \A n \in SiSignals : SiInv /\ Si!uv__signal_dispatch(n) => SiInv'
<1> SUFFICES ASSUME NEW n \in SiSignals, SiInv, Si!uv__signal_dispatch(n) PROVE SiInv'
  OBVIOUS
<1>1. /\ hist.at = "idle" /\ UNCHANGED <<h, kernel, pending, pc>>
      /\ hist' = [at |-> "next", signum |-> n, raised |-> hist.raised + 1,
                  todo |-> {s \in kernel.watchers : h[s].signum = n}]
  BY DEF Si!uv__signal_dispatch, Si!LockFree
<1>2. SiDispatch'
  BY <1>1 DEF SiDispatch
<1>3. "idle" \notin Items(pending) /\ "next" \notin Items(pending)
  BY SignalHandlesAssumption DEF SiInv, SiInFlight, Items
<1>4. SiInFlight'
  BY <1>1, <1>3, SignalHandlesAssumption DEF SiInv, SiInFlight
<1> QED
  BY <1>1, <1>2, <1>4 DEF SiInv, SiHandles, SiLoop, SiTree, SiResting, SiStarting

\* uv__signal_dispatch has seen all handles.
LEMMA SiDoneInv == SiInv /\ Si!DispatchDone => SiInv'
<1> SUFFICES ASSUME SiInv, Si!DispatchDone PROVE SiInv'
  OBVIOUS
<1>1. /\ hist.at = "next" /\ UNCHANGED <<h, kernel, pending, pc>>
      /\ hist' = [hist EXCEPT !.at = "idle"]
  BY DEF Si!DispatchDone
<1>2. SiDispatch'
  BY <1>1 DEF SiInv, SiDispatch
<1>3. "idle" \notin Items(pending)
  BY SignalHandlesAssumption DEF SiInv, SiInFlight, Items
<1>4. hist'.at = "idle"
  BY <1>1 DEF SiInv, SiDispatch
<1>5. SiInFlight'
  BY <1>1, <1>3, <1>4, SignalHandlesAssumption DEF SiInv, SiInFlight
<1> QED
  BY <1>1, <1>2, <1>5 DEF SiInv, SiHandles, SiLoop, SiTree, SiResting, SiStarting

\* Every step keeps the invariant of the signal handles.
LEMMA SiNext == SiInv /\ [Si!Next]_(Si!vars) => SiInv'
<1> SUFFICES ASSUME SiInv, [Si!Next]_(Si!vars) PROVE SiInv'
  OBVIOUS
<1>1. CASE Si!CallbackReturns \/ UNCHANGED Si!vars
  <2>1. UNCHANGED <<h, kernel, pending, hist, pc>>
    BY <1>1 DEF Si!CallbackReturns, Si!vars
  <2> QED
    BY <2>1 DEF SiInv, SiHandles, SiLoop, SiTree, SiResting, SiStarting, SiDispatch, SiInFlight
<1>2. CASE Si!UserCall
  BY <1>2, SiStopInv, SiStartInv, SiCloseInv DEF Si!UserCall, Si!Signals, SiSignals
<1> QED
  BY <1>1, <1>2, SiStartWatchingInv, SiProcessInv, SiReqEndInv, SiEndgameInv, SiExchangeInv,
     SiPostInv, SiDispatchInv, SiDoneInv
     DEF Si!Next, Si!LoopStep, Si!DispatchStep, Si!uv_process_endgames, Si!Signals, SiSignals

\* The assertion of uv_signal_endgame: a handle that is queued for it, or that
\* closes in its callback and will be queued after that, has no signal pending.
SiReports(p, s) == p.at = "req_end" /\ p.handle = s
SiReporting(p, s) == SiReports(p, s) \/ (p.at = "start" /\ SiReports(p.back, s))

SiCalmHandle(u, reporting) ==
  "ENDGAME_QUEUED" \in u.flags \/ (reporting /\ "CLOSING" \in u.flags) => u.pending_signum = "0"

SiCalm ==
  /\ pc.at # "aborted"
  /\ \A s \in SignalHandles : SiCalmHandle(h[s], SiReporting(pc, s))

LEMMA SiCalmInit == Si!Init => SiCalm
BY DEF Si!Init, SiCalm, SiCalmHandle

\* A step that changes one handle, and leaves the loop's thread in its request
\* or lets it return from uv_signal_start.
LEMMA SiCalmed ==
  ASSUME SiInv, SiCalm, NEW s \in SignalHandles, NEW v, h' = [h EXCEPT ![s] = v], pc'.at # "aborted",
         \A t \in SignalHandles : SiReporting(pc', t) => t = s \/ SiReporting(pc, t),
         SiCalmHandle(v, SiReporting(pc', s))
  PROVE  SiCalm'
<1>1. h = [t \in SignalHandles |-> h[t]]
  BY DEF SiInv, SiHandles
<1>2. h'[s] = v /\ \A t \in SignalHandles : t = s \/ h'[t] = h[t]
  BY <1>1
<1> QED
  BY <1>2 DEF SiCalm, SiCalmHandle

\* While no handle changes.
LEMMA SiCalmStays ==
  ASSUME SiCalm, h' = h, pc'.at # "aborted",
         \A t \in SignalHandles : SiReporting(pc', t) => SiReporting(pc, t)
  PROVE  SiCalm'
BY DEF SiCalm, SiCalmHandle

LEMMA SiCalmStop == \A s \in SignalHandles : SiInv /\ SiCalm /\ Si!uv_signal_stop(s) => SiCalm'
<1> SUFFICES ASSUME NEW s \in SignalHandles, SiInv, SiCalm, Si!uv_signal_stop(s) PROVE SiCalm'
  OBVIOUS
<1>1. PICK v : v = Si!Stopped(h[s])
  OBVIOUS
<1>2. Si!User(s) /\ h' = [h EXCEPT ![s] = v] /\ pc' = pc
  BY <1>1 DEF Si!uv_signal_stop
<1>3. SiHandle(h[s]) /\ SiActive(h[s]) /\ "CLOSING" \notin h[s].flags
  BY <1>2, SiUser
<1>4. v.flags = h[s].flags \ {"ACTIVE"}
  BY <1>1, <1>3, SiStops
<1>5. SiCalmHandle(v, SiReporting(pc', s))
  BY <1>3, <1>4 DEF SiActive, SiCalmHandle
<1>6. pc'.at # "aborted"
  BY <1>2 DEF SiCalm
<1> QED
  BY <1>2, <1>5, <1>6, SiCalmed

LEMMA SiCalmStart ==
  \A s \in SignalHandles, n \in SiSignals : SiInv /\ SiCalm /\ Si!uv_signal_start(s, n) => SiCalm'
<1> SUFFICES ASSUME NEW s \in SignalHandles, NEW n \in SiSignals, SiInv, SiCalm, Si!uv_signal_start(s, n)
             PROVE  SiCalm'
  OBVIOUS
<1>1. PICK v : v = Si!Stopped(h[s])
  OBVIOUS
<1>2. /\ Si!User(s)
      /\ \/ h' = h
         \/ h' = [h EXCEPT ![s] = v]
      /\ pc' = [at |-> "start", handle |-> s, signum |-> n, back |-> pc]
  BY <1>1 DEF Si!uv_signal_start
<1>3. SiHandle(h[s]) /\ SiActive(h[s]) /\ "CLOSING" \notin h[s].flags
  BY <1>2, SiUser
<1>4. v.flags = h[s].flags \ {"ACTIVE"}
  BY <1>1, <1>3, SiStops
<1>5. SiCalmHandle(v, SiReporting(pc', s))
  BY <1>3, <1>4 DEF SiActive, SiCalmHandle
<1>6. pc'.at = "start" /\ pc'.back = pc
  BY <1>2
<1>7. \A t \in SignalHandles : SiReporting(pc', t) => SiReporting(pc, t)
  BY <1>6 DEF SiReporting, SiReports
<1> QED
  BY <1>2, <1>5, <1>6, <1>7, SiCalmed, SiCalmStays

LEMMA SiCalmWatching == SiInv /\ SiCalm /\ Si!StartWatching => SiCalm'
<1> SUFFICES ASSUME SiInv, SiCalm, Si!StartWatching PROVE SiCalm'
  OBVIOUS
<1>1. PICK s, n : s = pc.handle /\ n = pc.signum
  OBVIOUS
<1>2. PICK e, v : e = [h[s] EXCEPT !.signum = n] /\ v = uv__handle_start(e)
  OBVIOUS
<1>3. /\ pc.at = "start" /\ pc' = pc.back
      /\ h' = h \/ h' = [h EXCEPT ![s] = v]
  BY <1>1, <1>2, SiOperators DEF Si!StartWatching
<1>4. SiStarting(h, pc) /\ pc'.at # "aborted"
  BY <1>3 DEF SiInv, SiLoop, SiResting, SiStarting
<1>5. s \in SignalHandles /\ n \in SiSignals /\ h[s].signum = "0" /\ "CLOSING" \notin h[s].flags
      /\ SiHandle(h[s]) /\ SiActive(h[s])
  BY <1>1, <1>4 DEF SiStarting, SiInv, SiHandles
<1>6. v.flags = h[s].flags \cup {"ACTIVE"}
  BY <1>2, <1>5, SiStarts
<1>7. SiCalmHandle(v, SiReporting(pc', s))
  BY <1>5, <1>6 DEF SiActive, SiCalmHandle
<1>8. \A t \in SignalHandles : SiReporting(pc', t) => SiReporting(pc, t)
  BY <1>3, <1>4 DEF SiReporting, SiReports, SiStarting, SiResting
<1> QED
  BY <1>3, <1>4, <1>5, <1>7, <1>8, SiCalmed, SiCalmStays

\* A handle that closes is queued if no signal is pending for it; in its
\* callback there is none, for a handle that ClosesSignaled is left out.
LEMMA SiCalmClose ==
  ASSUME ClosesSignaled = FALSE
  PROVE  \A s \in SignalHandles : SiInv /\ SiCalm /\ Si!uv_signal_close(s) => SiCalm'
<1> SUFFICES ASSUME NEW s \in SignalHandles, SiInv, SiCalm, Si!uv_signal_close(s) PROVE SiCalm'
  OBVIOUS
<1>1. PICK v : v = Si!EndgameUnlessPending(uv__handle_closing(Si!Stopped(h[s])))
  OBVIOUS
<1>2. /\ Si!User(s) /\ pc' = pc /\ h' = [h EXCEPT ![s] = v]
      /\ SiReports(pc, s) => h[s].pending_signum = "0"
      /\ pc.at \in {"loop", "req_end"}
  BY <1>1, SiOperators DEF Si!uv_signal_close, Si!PostedInCallback, Si!User, SiReports
<1>3. SiHandle(h[s]) /\ SiActive(h[s]) /\ "CLOSING" \notin h[s].flags
  BY <1>2, SiUser
<1>4. v.pending_signum = h[s].pending_signum
  BY <1>1, <1>3, SiCloses
<1>5. "ENDGAME_QUEUED" \in v.flags => v.pending_signum = "0"
  <2>1. PICK u, c : u = Si!Stopped(h[s]) /\ c = uv__handle_closing(u)
    OBVIOUS
  <2>2. SiHandle(u) /\ SiActive(u) /\ u.flags = h[s].flags \ {"ACTIVE"}
    BY <1>3, <2>1, SiStops
  <2>3. c.flags = (u.flags \ {"ACTIVE"}) \cup {"CLOSING"}
    BY <2>1, <2>2, Closing DEF SiHandle
  <2>4. "ENDGAME_QUEUED" \notin c.flags
    BY <1>3, <2>2, <2>3 DEF SiActive
  <2>5. v = IF c.pending_signum = "0" THEN Set(c, {"ENDGAME_QUEUED"}) ELSE c
    BY <1>1, <2>1, SiOperators DEF Si!EndgameUnlessPending
  <2>6. CASE c.pending_signum = "0"
    <3>1. SiHandle(c)
      <4>1. /\ IsHandle(c) /\ Changes(u, c, {"flags", "active_handles"})
        BY <2>1, <2>2, Closing DEF SiHandle
      <4> QED
        BY <2>2, <4>1 DEF SiHandle, IsHandle, IsRecord, BaseFields, SiFields, Changes
    <3>2. Changes(c, v, {"flags"})
      BY <2>5, <2>6, <3>1, Setting DEF SiHandle
    <3> QED
      BY <2>6, <3>1, <3>2 DEF SiHandle, IsHandle, IsRecord, BaseFields, SiFields, Changes
  <2>7. CASE c.pending_signum # "0"
    BY <2>4, <2>5, <2>7
  <2> QED
    BY <2>6, <2>7
<1>6. SiReporting(pc', s) => v.pending_signum = "0"
  BY <1>2, <1>4 DEF SiReporting
<1>7. SiCalmHandle(v, SiReporting(pc', s)) /\ pc'.at # "aborted"
  BY <1>2, <1>5, <1>6 DEF SiCalmHandle
<1> QED
  BY <1>2, <1>7, SiCalmed

LEMMA SiCalmProcess == SiInv /\ SiCalm /\ Si!uv_process_signal_req => SiCalm'
<1> SUFFICES ASSUME SiInv, SiCalm, Si!uv_process_signal_req PROVE SiCalm'
  OBVIOUS
<1>1. PICK s, v : s = Head(pending) /\ v = [h[s] EXCEPT !.pending_signum = "0"]
  OBVIOUS
<1>2. /\ pending # <<>> /\ pc' = [at |-> "req_end", handle |-> s] /\ h' = [h EXCEPT ![s] = v]
  BY <1>1 DEF Si!uv_process_signal_req
<1>3. s \in SignalHandles
  BY <1>1, <1>2, ItemTaken DEF SiInv, SiInFlight
<1>4. SiHandle(h[s])
  BY <1>3 DEF SiInv, SiHandles
<1>5. v.pending_signum = "0"
  BY <1>1, <1>4 DEF SiHandle, IsHandle, IsRecord, BaseFields, SiFields
<1>6. pc'.at = "req_end" /\ pc'.handle = s
  BY <1>2
<1>7. \A t \in SignalHandles : SiReporting(pc', t) => t = s
  BY <1>6 DEF SiReporting, SiReports
<1> QED
  BY <1>2, <1>3, <1>5, <1>6, <1>7, SiCalmed DEF SiCalmHandle

LEMMA SiCalmReqEnd == SiInv /\ SiCalm /\ Si!ReqEnd => SiCalm'
<1> SUFFICES ASSUME SiInv, SiCalm, Si!ReqEnd PROVE SiCalm'
  OBVIOUS
<1>1. PICK s : s = pc.handle
  OBVIOUS
<1>2. PICK v : v = IF "CLOSING" \in h[s].flags THEN Set(h[s], {"ENDGAME_QUEUED"}) ELSE h[s]
  OBVIOUS
<1>3. /\ pc.at = "req_end" /\ pc' = [at |-> "loop"] /\ h' = [h EXCEPT ![s] = v]
  BY <1>1, <1>2, SiOperators DEF Si!ReqEnd, Si!At
<1>4. s \in SignalHandles /\ "CLOSED" \notin h[s].flags /\ SiHandle(h[s]) /\ SiActive(h[s])
  BY <1>1, <1>3 DEF SiInv, SiLoop, SiResting, SiStarting, SiHandles
<1>5. v.pending_signum = h[s].pending_signum
  BY <1>2, <1>4, SiWants
<1>6. SiReporting(pc, s)
  BY <1>1, <1>3 DEF SiReporting, SiReports
<1>7. SiCalmHandle(h[s], SiReporting(pc, s))
  BY <1>4 DEF SiCalm
<1>8. pc'.at = "loop"
  BY <1>3
<1>9. \A t \in SignalHandles : ~SiReporting(pc', t)
  BY <1>8 DEF SiReporting, SiReports
<1>10. SiCalmHandle(v, SiReporting(pc', s))
  BY <1>2, <1>5, <1>6, <1>7, <1>9 DEF SiCalmHandle
<1> QED
  BY <1>3, <1>4, <1>8, <1>9, <1>10, SiCalmed

\* So the endgame finds no signal.
LEMMA SiCalmEndgame == \A s \in SignalHandles : SiInv /\ SiCalm /\ Si!uv_signal_endgame(s) => SiCalm'
<1> SUFFICES ASSUME NEW s \in SignalHandles, SiInv, SiCalm, Si!uv_signal_endgame(s) PROVE SiCalm'
  OBVIOUS
<1>1. PICK v : v = uv__handle_close(Clear(h[s], {"ENDGAME_QUEUED"}))
  OBVIOUS
<1>2. h[s].pending_signum = "0" /\ "ENDGAME_QUEUED" \in h[s].flags
  BY SiOperators DEF Si!uv_signal_endgame, SiCalm, SiCalmHandle
<1>3. h' = [h EXCEPT ![s] = v] /\ pc' = pc
  BY <1>1, <1>2, SiOperators DEF Si!uv_signal_endgame
<1>4. SiHandle(h[s]) /\ SiActive(h[s])
  BY DEF SiInv, SiHandles
<1>5. v.pending_signum = "0"
  BY <1>1, <1>2, <1>4, SiGoes
<1> QED
  BY <1>3, <1>5, SiCalmed DEF SiCalm, SiCalmHandle

\* The control thread exchanges pending_signum of a handle that watches, and so
\* does not close.
LEMMA SiCalmExchange == SiInv /\ SiCalm /\ Si!DispatchExchange => SiCalm'
<1> SUFFICES ASSUME SiInv, SiCalm, Si!DispatchExchange PROVE SiCalm'
  OBVIOUS
<1>1. PICK s \in hist.todo : h' = [h EXCEPT ![s].pending_signum = hist.signum]
  BY DEF Si!DispatchExchange
<1>2. hist.at = "next" /\ pc' = pc
  BY DEF Si!DispatchExchange
<1>3. s \in SignalHandles /\ h[s].signum # "0" /\ hist.signum \in SiSignals
  BY <1>1, <1>2 DEF SiInv, SiDispatch, SiTree
<1>4. PICK v : v = [h[s] EXCEPT !.pending_signum = hist.signum]
  OBVIOUS
<1>5. h' = [h EXCEPT ![s] = v]
  BY <1>1, <1>4
<1>6. SiHandle(h[s]) /\ SiActive(h[s]) /\ {"CLOSED", "CLOSING", "ENDGAME_QUEUED"} \cap h[s].flags = {}
  BY <1>3 DEF SiInv, SiHandles, SiActive
<1>7. v.flags = h[s].flags
  BY <1>3, <1>4, <1>6, SiPends
<1> QED
  BY <1>2, <1>3, <1>5, <1>6, <1>7, SiCalmed DEF SiCalm, SiCalmHandle

LEMMA SiCalmNext ==
  ASSUME ClosesSignaled = FALSE
  PROVE  SiInv /\ SiCalm /\ [Si!Next]_(Si!vars) => SiCalm'
<1> SUFFICES ASSUME SiInv, SiCalm, [Si!Next]_(Si!vars) PROVE SiCalm'
  OBVIOUS
<1>1. CASE \/ Si!CallbackReturns \/ Si!DispatchPost \/ Si!DispatchDone
           \/ \E n \in SiSignals : Si!uv__signal_dispatch(n)
           \/ UNCHANGED Si!vars
  <2>1. UNCHANGED <<h, pc>>
    BY <1>1 DEF Si!CallbackReturns, Si!DispatchPost, Si!DispatchDone, Si!uv__signal_dispatch, Si!vars
  <2> QED
    BY <2>1 DEF SiCalm
<1>2. CASE Si!UserCall
  BY <1>2, SiCalmStop, SiCalmStart, SiCalmClose DEF Si!UserCall, Si!Signals, SiSignals
<1> QED
  BY <1>1, <1>2, SiCalmWatching, SiCalmProcess, SiCalmReqEnd, SiCalmEndgame, SiCalmExchange
     DEF Si!Next, Si!LoopStep, Si!DispatchStep, Si!uv_process_endgames, Si!Signals, SiSignals

\* What the runs check of the handles follows.
LEMMA SiCounters == SiInv /\ SiCalm => Si!PendingExact /\ Si!ActiveExact
<1> SUFFICES ASSUME SiInv, SiCalm PROVE Si!PendingExact /\ Si!ActiveExact
  OBVIOUS
<1>1. /\ \A s \in SignalHandles : SiHandle(h[s]) /\ SiActive(h[s])
      /\ pending \in Seq(SignalHandles) /\ DOMAIN pending = 1..Len(pending)
  BY LenProperties DEF SiInv, SiHandles, SiInFlight
<1>2. ASSUME NEW s \in SignalHandles
      PROVE  Si!Cardinality({i \in DOMAIN pending : pending[i] = s}) + Si!Bit(hist.at = s)
               = Si!Bit(h[s].pending_signum # "0")
  <2>1. PICK Q : Q = {i \in DOMAIN pending : pending[i] = s}
    OBVIOUS
  <2>2. Si!Cardinality(Q) = Cardinality(Q)
    BY DEF Si!Cardinality, Cardinality
  <2>3. CASE s \in Items(pending)
    <3>1. PICK i \in 1..Len(pending) : pending[i] = s
      BY <2>3 DEF Items
    <3>2. Q = {i} /\ hist.at # s /\ h[s].pending_signum # "0"
      BY <1>1, <2>1, <2>3, <3>1 DEF SiInv, SiInFlight, OnceEach
    <3>3. Cardinality(Q) = 1
      BY <3>2, FS_Singleton
    <3> QED
      BY <2>1, <2>2, <3>2, <3>3 DEF Si!Bit
  <2>4. CASE s \notin Items(pending)
    <3>1. Q = {} /\ (hist.at = s <=> h[s].pending_signum # "0")
      BY <1>1, <2>1, <2>4 DEF SiInv, SiInFlight, Items
    <3>2. Cardinality(Q) = 0
      BY <3>1, FS_EmptySet
    <3> QED
      BY <2>1, <2>2, <3>1, <3>2 DEF Si!Bit
  <2> QED
    BY <2>3, <2>4
<1>3. Si!PendingExact
  BY <1>1, <1>2, SiOperators DEF Si!PendingExact, SiActive, SiCalm
<1>4. /\ kernel.watchers = {s \in SignalHandles : h[s].signum # "0"}
      /\ kernel.refs = Cardinality({s \in SignalHandles : h[s].signum = "SIGINT"})
  BY DEF SiInv, SiTree
<1>5. {s \in kernel.watchers : h[s].signum \in Si!Console} = {s \in SignalHandles : h[s].signum = "SIGINT"}
  BY <1>4 DEF Si!Console
<1>6. ASSUME NEW s \in SignalHandles
      PROVE  Si!LoopKnows(h[s]) /\ (Si!Is(h[s], "ACTIVE") <=> s \in kernel.watchers)
  <2>1. h[s].flags \cap {"ACTIVE", "CLOSING"} # {} <=> Active(h[s]) \/ "CLOSING" \in h[s].flags
    BY DEF Active
  <2>2. Si!LoopKnows(h[s])
    BY <1>1, <2>1, SiOperators DEF SiActive, Si!LoopKnows, Si!Bit, Bit
  <2> QED
    BY <1>1, <1>4, <2>2, SiOperators DEF SiActive, Active
<1>7. Si!ActiveExact
  <2>1. \A S : Si!Cardinality(S) = Cardinality(S)
    BY DEF Si!Cardinality, Cardinality
  <2> QED
    BY <1>4, <1>5, <1>6, <2>1 DEF Si!ActiveExact
<1> QED
  BY <1>3, <1>7

-----------------------------------------------------------------------------
(* The handle that polls a file: kernel holds its contexts, pending is the *)
(* file and hist what the user was told.                                   *)

FpErrors == {-1, -2}
FpResults == FpErrors \cup {1, 2}
FpContexts ==
  [parent: BOOLEAN, busy_polling: FpErrors \cup {0, 1}, statbuf: {0, 1, 2},
   timer: {"inactive", "active", "closing", "closed"}, stat: FpResults \cup {0, 100},
   freed: BOOLEAN]

FpHandle(u) ==
  /\ IsHandle(u) /\ IsRecord(u, {"poll_ctx"}) /\ u.poll_ctx \in Nat
  /\ u.activecnt = 0 /\ u.reqs_pending = 0
  /\ Active(u) <=> u.poll_ctx # 0
  /\ "CLOSING" \in u.flags => ~Active(u)
  /\ u.active_handles = Bit((Active(u) \/ "CLOSING" \in u.flags) /\ "CLOSED" \notin u.flags)
  /\ "ENDGAME_QUEUED" \in u.flags => "CLOSING" \in u.flags /\ "CLOSED" \notin u.flags
  /\ "CLOSED" \in u.flags => "CLOSING" \in u.flags

\* A context has its stat, its timer, or is freed.
FpContext(x) ==
  /\ x.timer = "inactive" <=> x.stat # 0
  /\ x.timer = "closed" <=> x.freed
  /\ x.parent => x.timer \in {"inactive", "active"}
  /\ x.busy_polling = 0 => x.statbuf = 0

\* The last result that a context has kept.
FpKept(x) == IF x.busy_polling < 0 THEN x.busy_polling ELSE x.statbuf

InCallback(c) == pc.at = "poll_end" /\ pc.c = c

FpTypes ==
  /\ FpHandle(h) /\ h.poll_ctx \in 0..Len(kernel)
  /\ kernel \in Seq(FpContexts)
  /\ hist \in Seq(FpResults \cup {0}) /\ Len(hist) = Len(kernel)
  /\ pending \in [result: FpResults, changes: Int]
  /\ pc.at \in {"loop", "poll_end"}
  /\ pc.at = "poll_end" => pc.c \in 1..Len(kernel) /\ kernel[pc.c].stat \in FpResults

\* The handle's own context is its parent's; the user was told what the last
\* result was, and in the callback what it will be.
FpInv ==
  /\ FpTypes
  /\ \A c \in 1..Len(kernel) :
       /\ FpContext(kernel[c])
       /\ kernel[c].parent <=> h.poll_ctx = c
       /\ hist[c] = IF InCallback(c) THEN kernel[c].stat ELSE FpKept(kernel[c])

\* What FsPoll has by extending UvHandle is what is here.
LEMMA FpOperators ==
  /\ \A u, f : Fp!Is(u, f) <=> f \in u.flags
  /\ \A b : Fp!Bit(b) = Bit(b)
  /\ \A u : /\ Fp!uv__handle_start(u) = uv__handle_start(u)
            /\ Fp!uv__handle_stop(u) = uv__handle_stop(u)
            /\ Fp!uv__handle_closing(u) = uv__handle_closing(u)
            /\ Fp!uv__handle_close(u) = uv__handle_close(u)
            /\ Fp!uv_want_endgame(u) = Set(u, {"ENDGAME_QUEUED"})
            /\ Fp!Clear(u, {"ENDGAME_QUEUED"}) = Clear(u, {"ENDGAME_QUEUED"})
  /\ Fp!Results = FpResults /\ Fp!Errors = FpErrors
BY DEF Fp!Set, Fp!Clear, Fp!Is, Fp!uv__handle_start, Fp!uv__handle_stop, Fp!uv__handle_closing,
   Fp!uv__handle_close, Fp!uv_want_endgame, Fp!Bit, Set, Clear, Is, Fp!Results, Fp!Errors,
   FpResults, FpErrors,
   uv__handle_start, uv__handle_stop, uv__handle_closing, uv__handle_close, Bit

\* uv_fs_poll_init makes a handle that satisfies the invariant.
LEMMA FpInit == Fp!Init => FpInv
<1> SUFFICES ASSUME Fp!Init PROVE FpInv
  OBVIOUS
<1> USE DEF Fp!Init
<1>1. h = [flags |-> {}, activecnt |-> 0, reqs_pending |-> 0, active_reqs |-> {},
           active_handles |-> 0, poll_ctx |-> 0]
  BY DEF Fp!None
<1>2. DOMAIN h = BaseFields \cup {"poll_ctx"} /\ h = [x \in DOMAIN h |-> h[x]]
  BY <1>1 DEF BaseFields
<1>3. FpHandle(h) /\ h.poll_ctx = 0
  BY <1>1, <1>2 DEF FpHandle, IsHandle, IsRecord, Active, Bit
<1>4. kernel \in Seq(FpContexts) /\ hist \in Seq(FpResults \cup {0}) /\ Len(kernel) = 0 /\ Len(hist) = 0
  BY EmptySeq
<1>5. 1..Len(kernel) = {}
  BY <1>4
<1>6. FpTypes
  BY <1>3, <1>4 DEF FpTypes, FpResults, FpErrors
<1> QED
  BY <1>5, <1>6 DEF FpInv

\* uv_fs_poll_start: the handle has a new context.
LEMMA FpStarts ==
  ASSUME NEW u, FpHandle(u), "CLOSING" \notin u.flags, ~Active(u), NEW c \in Nat, c # 0,
         NEW e, e = [u EXCEPT !.poll_ctx = c], NEW v, v = uv__handle_start(e)
  PROVE  FpHandle(v) /\ v.poll_ctx = c
<1>1. /\ IsHandle(e) /\ IsRecord(e, {"poll_ctx"}) /\ Changes(u, e, {"poll_ctx"}) /\ e.poll_ctx = c
  BY DEF FpHandle, IsHandle, IsRecord, BaseFields, Changes
<1>2. /\ IsHandle(v) /\ Changes(e, v, {"flags", "active_handles"})
      /\ v.flags = e.flags \cup {"ACTIVE"} /\ v.active_handles = e.active_handles + Bit(~Active(e))
  BY <1>1, Starting
<1>3. /\ IsRecord(v, {"poll_ctx"}) /\ v.poll_ctx = c /\ v.activecnt = 0 /\ v.reqs_pending = 0
      /\ v.flags = u.flags \cup {"ACTIVE"} /\ v.active_handles = 1
  BY <1>1, <1>2 DEF FpHandle, IsHandle, IsRecord, BaseFields, Changes, Active, Bit
<1>4. "ACTIVE" \in v.flags /\ {"CLOSED", "ENDGAME_QUEUED", "CLOSING"} \cap v.flags = {}
  BY <1>3 DEF FpHandle
<1> QED
  BY <1>2, <1>3, <1>4 DEF FpHandle, Active, Bit

\* uv_fs_poll_stop: it has none.
LEMMA FpStops ==
  ASSUME NEW u, FpHandle(u), "CLOSING" \notin u.flags,
         NEW e, e = [u EXCEPT !.poll_ctx = 0], NEW v, v = uv__handle_stop(e)
  PROVE  FpHandle(v) /\ v.poll_ctx = 0 /\ "CLOSING" \notin v.flags
<1>1. /\ IsHandle(e) /\ IsRecord(e, {"poll_ctx"}) /\ Changes(u, e, {"poll_ctx"}) /\ e.poll_ctx = 0
  BY DEF FpHandle, IsHandle, IsRecord, BaseFields, Changes
<1>2. /\ IsHandle(v) /\ Changes(e, v, {"flags", "active_handles"})
      /\ v.flags = e.flags \ {"ACTIVE"} /\ v.active_handles = e.active_handles - Bit(Active(e))
  BY <1>1, Stopping
<1>3. /\ IsRecord(v, {"poll_ctx"}) /\ v.poll_ctx = 0 /\ v.activecnt = 0 /\ v.reqs_pending = 0
      /\ v.flags = u.flags \ {"ACTIVE"} /\ v.active_handles = 0
  BY <1>1, <1>2 DEF FpHandle, IsHandle, IsRecord, BaseFields, Changes, Active, Bit
<1>4. {"ACTIVE", "CLOSED", "ENDGAME_QUEUED", "CLOSING"} \cap v.flags = {}
  BY <1>3 DEF FpHandle
<1> QED
  BY <1>2, <1>3, <1>4 DEF FpHandle, Active, Bit

\* uv__fs_poll_close: a handle that has no context closes.
LEMMA FpCloses ==
  ASSUME NEW u, FpHandle(u), "CLOSING" \notin u.flags, u.poll_ctx = 0,
         NEW v, v = Set(uv__handle_closing(u), {"ENDGAME_QUEUED"})
  PROVE  FpHandle(v) /\ v.poll_ctx = 0
<1>1. PICK c : c = uv__handle_closing(u)
  OBVIOUS
<1>2. /\ IsHandle(c) /\ Changes(u, c, {"flags", "active_handles"})
      /\ c.flags = (u.flags \ {"ACTIVE"}) \cup {"CLOSING"}
      /\ c.active_handles = u.active_handles + Bit(~Active(u))
  BY <1>1, Closing DEF FpHandle
<1>3. IsHandle(v) /\ Changes(c, v, {"flags"}) /\ v.flags = c.flags \cup {"ENDGAME_QUEUED"}
  BY <1>1, <1>2, Setting
<1>4. /\ IsRecord(v, {"poll_ctx"}) /\ v.poll_ctx = 0 /\ v.activecnt = 0 /\ v.reqs_pending = 0
      /\ v.active_handles = u.active_handles + Bit(~Active(u))
  BY <1>2, <1>3 DEF FpHandle, IsHandle, IsRecord, BaseFields, Changes
<1>5. "CLOSED" \notin u.flags /\ u.active_handles = 0 /\ ~Active(u)
  BY DEF FpHandle, Bit
<1>6. /\ "CLOSING" \in v.flags /\ {"CLOSED", "ACTIVE"} \cap v.flags = {} /\ v.active_handles = 1
  BY <1>2, <1>3, <1>4, <1>5 DEF Bit
<1> QED
  BY <1>3, <1>4, <1>6 DEF FpHandle, Active, Bit

\* uv__fs_poll_endgame: the handle is closed.
LEMMA FpGoes ==
  ASSUME NEW u, FpHandle(u), "ENDGAME_QUEUED" \in u.flags,
         NEW v, v = uv__handle_close(Clear(u, {"ENDGAME_QUEUED"}))
  PROVE  FpHandle(v) /\ v.poll_ctx = u.poll_ctx
<1>1. PICK c : c = Clear(u, {"ENDGAME_QUEUED"})
  OBVIOUS
<1>2. IsHandle(c) /\ Changes(u, c, {"flags"}) /\ c.flags = u.flags \ {"ENDGAME_QUEUED"}
  BY <1>1, Clearing DEF FpHandle
<1>3. /\ IsHandle(v) /\ Changes(c, v, {"flags", "active_handles"})
      /\ v.flags = c.flags \cup {"CLOSED"} /\ v.active_handles = c.active_handles - 1
  BY <1>1, <1>2, Closed
<1>4. /\ IsRecord(v, {"poll_ctx"}) /\ v.poll_ctx = u.poll_ctx /\ v.activecnt = 0
      /\ v.reqs_pending = 0 /\ v.active_handles = u.active_handles - 1
  BY <1>2, <1>3 DEF FpHandle, IsHandle, IsRecord, BaseFields, Changes
<1>5. u.active_handles = 1 /\ "CLOSING" \in u.flags /\ ~Active(u) /\ u.poll_ctx = 0
  BY DEF FpHandle, Bit
<1>6. "CLOSED" \in v.flags /\ "CLOSING" \in v.flags /\ "ENDGAME_QUEUED" \notin v.flags /\ ~Active(v)
  BY <1>2, <1>3, <1>5 DEF Active
<1> QED
  BY <1>3, <1>4, <1>5, <1>6 DEF FpHandle, Bit

\* A step that changes one context.
LEMMA FpChanged ==
  ASSUME FpTypes, NEW c \in 1..Len(kernel), NEW v \in FpContexts, kernel' = [kernel EXCEPT ![c] = v]
  PROVE  /\ kernel' \in Seq(FpContexts) /\ Len(kernel') = Len(kernel) /\ kernel'[c] = v
         /\ \A d \in 1..Len(kernel) : d = c \/ kernel'[d] = kernel[d]
BY ExceptSeq DEF FpTypes

\* The contexts, by their numbers.
LEMMA FpContextOf ==
  FpTypes => /\ \A c \in 1..Len(kernel) : kernel[c] \in FpContexts
             /\ DOMAIN kernel = 1..Len(kernel) /\ Len(kernel) \in Nat
BY LenProperties, ElementOfSeq DEF FpTypes

\* A context with other values of these fields is a context.
LEMMA FpUpdated ==
  ASSUME NEW x \in FpContexts, NEW p \in BOOLEAN, NEW b \in FpErrors \cup {0, 1},
         NEW r \in {0, 1, 2}, NEW t \in {"inactive", "active", "closing", "closed"},
         NEW s \in FpResults \cup {0, 100}, NEW f \in BOOLEAN
  PROVE  /\ [x EXCEPT !.stat = s] \in FpContexts
         /\ [x EXCEPT !.timer = t] \in FpContexts
         /\ [x EXCEPT !.parent = p] \in FpContexts
         /\ [x EXCEPT !.busy_polling = b] \in FpContexts
         /\ [x EXCEPT !.statbuf = r] \in FpContexts
         /\ [x EXCEPT !.freed = f] \in FpContexts
BY DEF FpContexts

\* A step that changes the context c and leaves what it has kept.
LEMMA FpStep ==
  ASSUME FpInv, NEW c \in 1..Len(kernel), NEW v \in FpContexts, kernel' = [kernel EXCEPT ![c] = v],
         FpContext(v), FpKept(v) = FpKept(kernel[c]), InCallback(c) => v.stat = kernel[c].stat,
         FpHandle(h'), h'.poll_ctx \in 0..Len(kernel), v.parent <=> h'.poll_ctx = c,
         \A d \in 1..Len(kernel) : d = c \/ (h'.poll_ctx = d <=> h.poll_ctx = d),
         UNCHANGED <<pending, pc, hist>>
  PROVE  FpInv'
<1>1. FpTypes
  BY DEF FpInv
<1>2. /\ kernel' \in Seq(FpContexts) /\ Len(kernel') = Len(kernel) /\ kernel'[c] = v
      /\ \A d \in 1..Len(kernel) : d = c \/ kernel'[d] = kernel[d]
  BY <1>1, FpChanged
<1>3. FpTypes'
  <2>1. pc.at = "poll_end" => pc.c \in 1..Len(kernel) /\ kernel'[pc.c].stat \in FpResults
    BY <1>1, <1>2 DEF FpTypes, InCallback
  <2> QED
    BY <1>1, <1>2, <2>1 DEF FpTypes
<1>4. ASSUME NEW d \in 1..Len(kernel)
      PROVE  /\ FpContext(kernel'[d])
             /\ kernel'[d].parent <=> h'.poll_ctx = d
             /\ hist[d] = IF InCallback(d) THEN kernel'[d].stat ELSE FpKept(kernel'[d])
  <2>1. CASE d = c
    BY <1>2, <2>1 DEF FpInv
  <2>2. CASE d # c
    BY <1>2, <2>2 DEF FpInv
  <2> QED
    BY <2>1, <2>2
<1> QED
  BY <1>2, <1>3, <1>4 DEF FpInv, InCallback

FpNew == [Fp!NewCtx EXCEPT !.stat = 100]

\* uv_fs_poll_start.
LEMMA FpStartInv == FpInv /\ Fp!uv_fs_poll_start => FpInv'
<1> SUFFICES ASSUME FpInv, Fp!uv_fs_poll_start PROVE FpInv'
  OBVIOUS
<1>1. FpTypes /\ FpHandle(h) /\ Len(kernel) \in Nat
  BY FpContextOf DEF FpInv, FpTypes
<1>2. /\ "CLOSING" \notin h.flags /\ ~Active(h) /\ UNCHANGED <<pending, pc>>
      /\ kernel' = Append(kernel, FpNew) /\ hist' = Append(hist, 0)
      /\ h' = uv__handle_start([h EXCEPT !.poll_ctx = Len(kernel) + 1])
  BY FpOperators DEF Fp!uv_fs_poll_start, Fp!User, FpNew, Fp!Pool, Active
<1>3. FpHandle(h') /\ h'.poll_ctx = Len(kernel) + 1
  <2>1. PICK c, e : c = Len(kernel) + 1 /\ e = [h EXCEPT !.poll_ctx = c]
    OBVIOUS
  <2>2. h' = uv__handle_start(e) /\ c \in Nat /\ c # 0
    BY <1>1, <1>2, <2>1
  <2> QED
    BY <1>1, <1>2, <2>1, <2>2, FpStarts
<1>4. /\ FpNew \in FpContexts /\ FpContext(FpNew) /\ FpNew.parent /\ FpKept(FpNew) = 0
      /\ FpNew.stat = 100
  <2>1. PICK n : n = Fp!NewCtx
    OBVIOUS
  <2>2. /\ n \in FpContexts /\ n.parent /\ ~n.freed /\ n.timer = "inactive"
        /\ n.busy_polling = 0 /\ n.statbuf = 0
    BY <2>1 DEF Fp!NewCtx, Fp!None, FpContexts
  <2>3. PICK m : m = FpNew
    OBVIOUS
  <2>4. m = [n EXCEPT !.stat = 100]
    BY <2>1, <2>3 DEF FpNew
  <2>5. /\ m \in FpContexts /\ m.parent /\ ~m.freed /\ m.timer = "inactive"
        /\ m.busy_polling = 0 /\ m.statbuf = 0 /\ m.stat = 100
    BY <2>2, <2>4 DEF FpContexts
  <2> QED
    BY <2>3, <2>5 DEF FpContext, FpKept
<1>5. /\ kernel' \in Seq(FpContexts) /\ Len(kernel') = Len(kernel) + 1
      /\ kernel'[Len(kernel) + 1] = FpNew
      /\ \A d \in 1..Len(kernel) : kernel'[d] = kernel[d]
  BY <1>1, <1>2, <1>4, AppendProperties DEF FpTypes
<1>6. /\ hist' \in Seq(FpResults \cup {0}) /\ Len(hist') = Len(kernel) + 1
      /\ hist'[Len(kernel) + 1] = 0
      /\ \A d \in 1..Len(kernel) : hist'[d] = hist[d]
  BY <1>1, <1>2, AppendProperties DEF FpTypes
<1>7. pc.at = "poll_end" => pc.c \in 1..Len(kernel)
  BY <1>1 DEF FpTypes
<1>8. FpTypes'
  <2>1. pc.at = "poll_end" => pc.c \in 1..Len(kernel') /\ kernel'[pc.c].stat \in FpResults
    BY <1>1, <1>5, <1>7 DEF FpTypes
  <2> QED
    BY <1>1, <1>2, <1>3, <1>5, <1>6, <2>1 DEF FpTypes
<1>9. ASSUME NEW d \in 1..Len(kernel')
      PROVE  /\ FpContext(kernel'[d])
             /\ kernel'[d].parent <=> h'.poll_ctx = d
             /\ hist'[d] = IF InCallback(d) THEN kernel'[d].stat ELSE FpKept(kernel'[d])
  <2>1. CASE d = Len(kernel) + 1
    <3>1. ~InCallback(d)
      BY <1>1, <1>7, <2>1 DEF InCallback
    <3> QED
      BY <1>3, <1>4, <1>5, <1>6, <2>1, <3>1
  <2>2. CASE d # Len(kernel) + 1
    <3>1. d \in 1..Len(kernel) /\ h.poll_ctx = 0
      BY <1>1, <1>2, <1>5, <2>2 DEF FpHandle
    <3>2. ~kernel[d].parent /\ FpContext(kernel[d])
          /\ hist[d] = IF InCallback(d) THEN kernel[d].stat ELSE FpKept(kernel[d])
      BY <3>1 DEF FpInv
    <3> QED
      BY <1>3, <1>5, <1>6, <2>2, <3>1, <3>2
  <2> QED
    BY <2>1, <2>2
<1> QED
  BY <1>2, <1>8, <1>9 DEF FpInv, InCallback

\* The handle's context is cut off, the handle no longer refers to it.
LEMMA FpCutInv ==
  ASSUME FpInv, Active(h), kernel' = [kernel EXCEPT ![h.poll_ctx] = Fp!CutOff(@)],
         FpHandle(h'), h'.poll_ctx = 0, UNCHANGED <<pending, pc, hist>>
  PROVE  FpInv'
<1>1. PICK c : c = h.poll_ctx
  OBVIOUS
<1>2. FpTypes /\ c \in 1..Len(kernel) /\ kernel[c] \in FpContexts /\ DOMAIN kernel = 1..Len(kernel)
      /\ Len(kernel) \in Nat
  BY <1>1, FpContextOf DEF FpInv, FpTypes, FpHandle
<1>3. PICK v : v = Fp!CutOff(kernel[c])
  OBVIOUS
<1>4. kernel' = [kernel EXCEPT ![c] = v]
  BY <1>1, <1>2, <1>3
<1>5. FpContext(kernel[c]) /\ kernel[c].parent
  BY <1>1, <1>2 DEF FpInv
<1>6. /\ v \in FpContexts /\ FpContext(v) /\ ~v.parent
      /\ v.stat = kernel[c].stat /\ FpKept(v) = FpKept(kernel[c])
  <2>1. PICK x, t : /\ x = [kernel[c] EXCEPT !.parent = FALSE]
                    /\ t = IF kernel[c].timer = "active" THEN "closing" ELSE kernel[c].timer
    OBVIOUS
  <2>2. /\ x \in FpContexts /\ ~x.parent /\ x.stat = kernel[c].stat /\ x.timer = kernel[c].timer
        /\ x.busy_polling = kernel[c].busy_polling /\ x.statbuf = kernel[c].statbuf
        /\ x.freed = kernel[c].freed
    BY <1>2, <2>1 DEF FpContexts
  <2>3. v = [x EXCEPT !.timer = t]
    <3>1. v = [x EXCEPT !.timer = IF x.timer = "active" THEN "closing" ELSE x.timer]
      BY <1>3, <2>1 DEF Fp!CutOff
    <3> QED
      BY <2>1, <2>2, <3>1
  <2>4. t \in {"inactive", "active", "closing", "closed"}
    BY <1>2, <2>1 DEF FpContexts
  <2>5. /\ v \in FpContexts /\ ~v.parent /\ v.stat = x.stat /\ v.timer = t
        /\ v.busy_polling = x.busy_polling /\ v.statbuf = x.statbuf /\ v.freed = x.freed
    BY <2>2, <2>3, <2>4 DEF FpContexts
  <2> QED
    BY <1>5, <2>1, <2>2, <2>5 DEF FpContext, FpKept
<1>7. \A d \in 1..Len(kernel) : d = c \/ (h'.poll_ctx = d <=> h.poll_ctx = d)
  BY <1>1, <1>2
<1>8. v.parent <=> h'.poll_ctx = c
  BY <1>2, <1>6
<1>9. h'.poll_ctx \in 0..Len(kernel)
  BY <1>2
<1> QED
  BY <1>2, <1>4, <1>6, <1>7, <1>8, <1>9, FpStep

\* The calls of the user.
LEMMA FpUserInv == FpInv /\ Fp!UserCall => FpInv'
<1> SUFFICES ASSUME FpInv, Fp!UserCall PROVE FpInv'
  OBVIOUS
<1>1. "CLOSING" \notin h.flags /\ UNCHANGED <<pending, pc>>
  BY FpOperators DEF Fp!UserCall, Fp!uv_fs_poll_start, Fp!uv_fs_poll_stop, Fp!uv__fs_poll_close,
     Fp!User
<1>2. FpTypes /\ FpHandle(h)
  BY DEF FpInv, FpTypes
<1>3. PICK e, s : e = [h EXCEPT !.poll_ctx = 0] /\ s = uv__handle_stop(e)
  OBVIOUS
<1>4. FpHandle(s) /\ s.poll_ctx = 0 /\ "CLOSING" \notin s.flags
  BY <1>1, <1>2, <1>3, FpStops
<1>5. CASE Fp!uv_fs_poll_stop
  <2>1. /\ Active(h) /\ hist' = hist /\ h' = s
        /\ kernel' = [kernel EXCEPT ![h.poll_ctx] = Fp!CutOff(@)]
    BY <1>3, <1>5, FpOperators DEF Fp!uv_fs_poll_stop, Fp!None, Active
  <2> QED
    BY <1>1, <1>4, <2>1, FpCutInv
<1>6. CASE Fp!uv__fs_poll_close
  <2>1. /\ kernel' = IF Active(h) THEN [kernel EXCEPT ![h.poll_ctx] = Fp!CutOff(@)] ELSE kernel
        /\ hist' = hist
        /\ h' = Set(uv__handle_closing(IF Active(h) THEN s ELSE h), {"ENDGAME_QUEUED"})
    BY <1>3, <1>6, FpOperators DEF Fp!uv__fs_poll_close, Fp!None, Active
  <2>2. CASE Active(h)
    <3>1. h' = Set(uv__handle_closing(s), {"ENDGAME_QUEUED"})
      BY <2>1, <2>2
    <3>2. FpHandle(h') /\ h'.poll_ctx = 0
      BY <1>4, <3>1, FpCloses
    <3> QED
      BY <1>1, <2>1, <2>2, <3>2, FpCutInv
  <2>3. CASE ~Active(h)
    <3>1. h' = Set(uv__handle_closing(h), {"ENDGAME_QUEUED"}) /\ h.poll_ctx = 0
      BY <1>2, <2>1, <2>3 DEF FpHandle
    <3>2. FpHandle(h') /\ h'.poll_ctx = h.poll_ctx
      BY <1>1, <1>2, <3>1, FpCloses
    <3> QED
      BY <1>1, <2>1, <2>3, <3>2 DEF FpInv, FpTypes, InCallback
  <2> QED
    BY <2>2, <2>3
<1> QED
  BY <1>5, <1>6, FpStartInv DEF Fp!UserCall

\* The file changes.
LEMMA FpFileInv == FpInv /\ Fp!FileChanges => FpInv'
<1> SUFFICES ASSUME FpInv, Fp!FileChanges PROVE FpInv'
  OBVIOUS
<1>1. PICK r \in FpResults : pending' = [result |-> r, changes |-> pending.changes + 1]
  BY FpOperators DEF Fp!FileChanges
<1>2. pending' \in [result: FpResults, changes: Int]
  BY <1>1 DEF FpInv, FpTypes
<1> QED
  BY <1>2 DEF FpInv, FpTypes, InCallback, Fp!FileChanges

\* The stat is made in the thread pool.
LEMMA FpStatInv == \A c \in 1..Len(kernel) : FpInv /\ Fp!StatRuns(c) => FpInv'
<1> SUFFICES ASSUME NEW c \in 1..Len(kernel), FpInv, Fp!StatRuns(c) PROVE FpInv'
  OBVIOUS
<1>1. /\ FpTypes /\ FpHandle(h) /\ h.poll_ctx \in 0..Len(kernel)
      /\ kernel[c] \in FpContexts /\ c \in DOMAIN kernel
  BY FpContextOf DEF FpInv, FpTypes
<1>2. PICK v : v = [kernel[c] EXCEPT !.stat = pending.result]
  OBVIOUS
<1>3. /\ kernel[c].stat = 100 /\ kernel' = [kernel EXCEPT ![c] = v]
      /\ UNCHANGED <<h, pending, pc, hist>>
  BY <1>1, <1>2 DEF Fp!StatRuns, Fp!Pool
<1>4. pending.result \in FpResults
  BY <1>1 DEF FpTypes
<1>5. /\ v \in FpContexts /\ v.parent = kernel[c].parent /\ v.stat # 0 /\ v.timer = kernel[c].timer
      /\ v.busy_polling = kernel[c].busy_polling /\ v.statbuf = kernel[c].statbuf
      /\ v.freed = kernel[c].freed
  BY <1>1, <1>2, <1>4 DEF FpContexts, FpResults, FpErrors
<1>6. FpContext(v) /\ FpKept(v) = FpKept(kernel[c]) /\ (v.parent <=> h.poll_ctx = c)
  BY <1>3, <1>5 DEF FpInv, FpContext, FpKept
<1>7. ~InCallback(c)
  BY <1>1, <1>3 DEF FpTypes, InCallback, FpResults, FpErrors
<1> QED
  BY <1>1, <1>3, <1>5, <1>6, <1>7, FpStep

\* The result of a stat that comes to the handle's own context.
LEMMA FpToldInv ==
  ASSUME FpInv, NEW c \in 1..Len(kernel), pc.at = "loop", pc' = [at |-> "poll_end", c |-> c],
         kernel[c].stat \in FpResults, UNCHANGED <<h, kernel, pending>>,
         hist' = IF Fp!Reported(kernel[c], kernel[c].stat) \/ hist[c] = 0
                 THEN [hist EXCEPT ![c] = kernel[c].stat] ELSE hist
  PROVE  FpInv'
<1>1. /\ FpTypes /\ kernel[c] \in FpContexts /\ hist \in Seq(FpResults \cup {0})
      /\ Len(hist) = Len(kernel) /\ Len(kernel) \in Nat /\ FpContext(kernel[c])
  BY FpContextOf DEF FpInv, FpTypes
<1>2. hist[c] = FpKept(kernel[c])
  BY DEF FpInv, InCallback
<1>3. PICK r : r = kernel[c].stat
  OBVIOUS
<1>4. /\ hist' \in Seq(FpResults \cup {0}) /\ Len(hist') = Len(hist) /\ hist'[c] = r
      /\ \A d \in 1..Len(kernel) : d = c \/ hist'[d] = hist[d]
  <2>1. CASE Fp!Reported(kernel[c], r) \/ hist[c] = 0
    <3>1. hist' = [hist EXCEPT ![c] = r] /\ r \in FpResults \cup {0}
      BY <1>3, <2>1
    <3>2. PICK S : S = FpResults \cup {0}
      OBVIOUS
    <3>3. hist \in Seq(S) /\ r \in S /\ c \in 1..Len(hist)
      BY <1>1, <3>1, <3>2
    <3>4. hist' \in Seq(S) /\ Len(hist') = Len(hist)
          /\ \A d \in 1..Len(hist) : hist'[d] = IF d = c THEN r ELSE hist[d]
      BY <3>1, <3>3, ExceptSeq
    <3> QED
      BY <1>1, <3>2, <3>4
  <2>2. CASE ~(Fp!Reported(kernel[c], r) \/ hist[c] = 0)
    <3>1. hist' = hist
      BY <1>3, <2>2
    <3>2. CASE r \in FpErrors
      <4>1. kernel[c].busy_polling = r /\ r < 0
        BY <2>2, <3>2, FpOperators DEF Fp!Reported, FpErrors
      <4> QED
        BY <1>1, <1>2, <3>1, <4>1 DEF FpKept
    <3>3. CASE r \notin FpErrors
      <4>1. /\ kernel[c].busy_polling = 0 \/ (~(kernel[c].busy_polling < 0) /\ kernel[c].statbuf = r)
        BY <2>2, <3>3, FpOperators DEF Fp!Reported
      <4>2. kernel[c].busy_polling # 0
        BY <1>1, <1>2, <2>2 DEF FpContext, FpKept
      <4> QED
        BY <1>1, <1>2, <3>1, <4>1, <4>2 DEF FpKept
    <3> QED
      BY <3>2, <3>3
  <2> QED
    BY <2>1, <2>2
<1>5. pc'.at = "poll_end" /\ pc'.c = c
  OBVIOUS
<1>6. FpTypes'
  BY <1>1, <1>4, <1>5 DEF FpTypes
<1>7. ASSUME NEW d \in 1..Len(kernel)
      PROVE  /\ FpContext(kernel[d]) /\ (kernel[d].parent <=> h.poll_ctx = d)
             /\ hist'[d] = IF d = c THEN kernel[d].stat ELSE FpKept(kernel[d])
  BY <1>3, <1>4 DEF FpInv, InCallback
<1> QED
  BY <1>5, <1>6, <1>7 DEF FpInv, InCallback

\* poll_cb, up to its callback.
LEMMA FpPollInv == \A c \in 1..Len(kernel) : FpInv /\ Fp!poll_cb(c) => FpInv'
<1> SUFFICES ASSUME NEW c \in 1..Len(kernel), FpInv, Fp!poll_cb(c) PROVE FpInv'
  OBVIOUS
<1>1. /\ FpTypes /\ FpHandle(h) /\ h.poll_ctx \in 0..Len(kernel)
      /\ kernel[c] \in FpContexts /\ c \in DOMAIN kernel /\ FpContext(kernel[c])
      /\ kernel[c].parent <=> h.poll_ctx = c
  BY FpContextOf DEF FpInv, FpTypes
<1>2. pc.at = "loop" /\ kernel[c].stat \in FpResults /\ UNCHANGED <<h, pending>>
  BY FpOperators DEF Fp!poll_cb, Fp!At
<1>3. CASE ~kernel[c].parent
  <2>1. PICK g, v : g = [kernel EXCEPT ![c].stat = 0] /\ v = [kernel[c] EXCEPT !.stat = 0, !.timer = "closing"]
    OBVIOUS
  <2>2. kernel' = [g EXCEPT ![c].timer = "closing"] /\ UNCHANGED <<pc, hist>>
    BY <1>3, <2>1 DEF Fp!poll_cb, Fp!None
  <2>3. PICK y : y = [kernel[c] EXCEPT !.stat = 0]
    OBVIOUS
  <2>4. /\ y \in FpContexts /\ y.stat = 0 /\ y.parent = kernel[c].parent /\ y.freed = kernel[c].freed
        /\ y.busy_polling = kernel[c].busy_polling /\ y.statbuf = kernel[c].statbuf
    BY <1>1, <2>3 DEF FpContexts
  <2>5. PICK z : z = [y EXCEPT !.timer = "closing"]
    OBVIOUS
  <2>6. /\ z \in FpContexts /\ z.stat = 0 /\ z.parent = kernel[c].parent /\ z.freed = kernel[c].freed
        /\ z.busy_polling = kernel[c].busy_polling /\ z.statbuf = kernel[c].statbuf
        /\ z.timer = "closing"
    BY <2>4, <2>5 DEF FpContexts
  <2>7. g = [kernel EXCEPT ![c] = y] /\ g[c] = y /\ DOMAIN g = DOMAIN kernel
    BY <1>1, <2>1, <2>3
  <2>8. kernel' = [kernel EXCEPT ![c] = z]
    BY <1>1, <2>2, <2>5, <2>7
  <2>9. ~kernel[c].freed
    BY <1>1, <1>2 DEF FpContext, FpResults, FpErrors
  <2>10. FpContext(z) /\ FpKept(z) = FpKept(kernel[c]) /\ ~InCallback(c)
    BY <1>1, <1>2, <1>3, <2>6, <2>9 DEF FpContext, FpKept, InCallback
  <2> QED
    BY <1>1, <1>2, <2>2, <2>6, <2>8, <2>10, FpStep
<1>4. CASE kernel[c].parent
  <2>1. /\ pc' = [at |-> "poll_end", c |-> c] /\ kernel' = kernel
        /\ hist' = IF Fp!Reported(kernel[c], kernel[c].stat) \/ hist[c] = 0
                   THEN [hist EXCEPT ![c] = kernel[c].stat] ELSE hist
    BY <1>4 DEF Fp!poll_cb
  <2> QED
    BY <1>2, <2>1, FpToldInv
<1> QED
  BY <1>3, <1>4

\* poll_cb after its callback.
LEMMA FpPollEndInv == FpInv /\ Fp!PollEnd => FpInv'
<1> SUFFICES ASSUME FpInv, Fp!PollEnd PROVE FpInv'
  OBVIOUS
<1>1. PICK c, r : c = pc.c /\ r = kernel[c].stat
  OBVIOUS
<1>2. FpTypes /\ pc.at = "poll_end" /\ UNCHANGED <<h, pending, hist>> /\ pc' = [at |-> "loop"]
  BY DEF FpInv, Fp!PollEnd, Fp!At
<1>3. /\ c \in 1..Len(kernel) /\ r \in FpResults /\ InCallback(c) /\ h.poll_ctx \in 0..Len(kernel)
  BY <1>1, <1>2 DEF FpTypes, InCallback
<1>4. /\ kernel[c] \in FpContexts /\ c \in DOMAIN kernel /\ FpContext(kernel[c])
      /\ kernel[c].parent <=> h.poll_ctx = c
      /\ hist[c] = r
  BY <1>1, <1>2, <1>3, FpContextOf DEF FpInv
<1>5. PICK k : k = IF r \in FpErrors THEN [kernel[c] EXCEPT !.busy_polling = r, !.stat = 0]
                   ELSE [kernel[c] EXCEPT !.busy_polling = 1, !.statbuf = r, !.stat = 0]
  OBVIOUS
<1>6. PICK v : v = [k EXCEPT !.timer = IF k.parent THEN "active" ELSE "closing"]
  OBVIOUS
<1>7. kernel' = [kernel EXCEPT ![c] = v]
  BY <1>1, <1>5, <1>6, FpOperators DEF Fp!PollEnd, Fp!None
<1>8. /\ k \in FpContexts /\ k.stat = 0 /\ k.parent = kernel[c].parent /\ k.freed = kernel[c].freed
      /\ k.busy_polling # 0
      /\ FpKept(k) = r
  <2>1. CASE r \in FpErrors
    <3>1. PICK x : x = [kernel[c] EXCEPT !.busy_polling = r]
      OBVIOUS
    <3>2. /\ x \in FpContexts /\ x.parent = kernel[c].parent /\ x.freed = kernel[c].freed
          /\ x.busy_polling = r
      BY <1>4, <2>1, <3>1 DEF FpContexts
    <3>3. k = [x EXCEPT !.stat = 0]
      BY <1>5, <2>1, <3>1
    <3>4. /\ k \in FpContexts /\ k.stat = 0 /\ k.parent = x.parent /\ k.freed = x.freed
          /\ k.busy_polling = r
      BY <3>2, <3>3 DEF FpContexts
    <3> QED
      BY <2>1, <3>2, <3>4 DEF FpKept, FpErrors
  <2>2. CASE r \notin FpErrors
    <3>1. PICK x, y : x = [kernel[c] EXCEPT !.busy_polling = 1] /\ y = [x EXCEPT !.statbuf = r]
      OBVIOUS
    <3>2. /\ x \in FpContexts /\ x.parent = kernel[c].parent /\ x.freed = kernel[c].freed
          /\ x.busy_polling = 1
      BY <1>4, <3>1 DEF FpContexts
    <3>3. r \in {1, 2}
      BY <1>3, <2>2 DEF FpResults
    <3>4. /\ y \in FpContexts /\ y.parent = x.parent /\ y.freed = x.freed
          /\ y.busy_polling = 1 /\ y.statbuf = r
      BY <3>1, <3>2, <3>3 DEF FpContexts
    <3>5. k = [y EXCEPT !.stat = 0]
      BY <1>5, <2>2, <3>1
    <3>6. /\ k \in FpContexts /\ k.stat = 0 /\ k.parent = y.parent /\ k.freed = y.freed
          /\ k.busy_polling = 1 /\ k.statbuf = r
      BY <3>4, <3>5 DEF FpContexts
    <3> QED
      BY <3>2, <3>4, <3>6 DEF FpKept
  <2> QED
    BY <2>1, <2>2
<1>9. /\ v \in FpContexts /\ v.stat = 0 /\ v.parent = kernel[c].parent /\ v.freed = kernel[c].freed
      /\ v.busy_polling = k.busy_polling /\ v.statbuf = k.statbuf
      /\ v.timer = IF v.parent THEN "active" ELSE "closing"
  BY <1>6, <1>8 DEF FpContexts
<1>10. ~kernel[c].freed
  BY <1>1, <1>3, <1>4 DEF FpContext, FpResults, FpErrors
<1>11. FpContext(v) /\ FpKept(v) = r
  BY <1>8, <1>9, <1>10 DEF FpContext, FpKept
<1>12. /\ kernel' \in Seq(FpContexts) /\ Len(kernel') = Len(kernel) /\ kernel'[c] = v
       /\ \A d \in 1..Len(kernel) : d = c \/ kernel'[d] = kernel[d]
  BY <1>2, <1>3, <1>7, <1>9, FpChanged
<1>13. pc'.at = "loop"
  BY <1>2
<1>14. FpTypes'
  BY <1>2, <1>12, <1>13 DEF FpTypes
<1>15. ASSUME NEW d \in 1..Len(kernel)
       PROVE  /\ FpContext(kernel'[d]) /\ (kernel'[d].parent <=> h.poll_ctx = d)
              /\ hist[d] = FpKept(kernel'[d])
  <2>1. CASE d = c
    BY <1>4, <1>9, <1>11, <1>12, <2>1
  <2>2. CASE d # c
    <3>1. ~InCallback(d)
      BY <1>1, <2>2 DEF InCallback
    <3> QED
      BY <1>12, <2>2, <3>1 DEF FpInv
  <2> QED
    BY <2>1, <2>2
<1> QED
  BY <1>2, <1>12, <1>13, <1>14, <1>15 DEF FpInv, InCallback

\* timer_cb and timer_close_cb.
LEMMA FpTimerInv ==
  \A c \in 1..Len(kernel) : FpInv /\ (Fp!timer_cb(c) \/ Fp!timer_close_cb(c)) => FpInv'
<1> SUFFICES ASSUME NEW c \in 1..Len(kernel), FpInv, Fp!timer_cb(c) \/ Fp!timer_close_cb(c)
             PROVE  FpInv'
  OBVIOUS
<1>1. /\ FpTypes /\ FpHandle(h) /\ h.poll_ctx \in 0..Len(kernel)
      /\ kernel[c] \in FpContexts /\ c \in DOMAIN kernel /\ FpContext(kernel[c])
      /\ kernel[c].parent <=> h.poll_ctx = c
  BY FpContextOf DEF FpInv, FpTypes
<1>2. pc.at = "loop" /\ ~InCallback(c) /\ UNCHANGED <<h, pending, pc, hist>>
  BY DEF Fp!timer_cb, Fp!timer_close_cb, Fp!At, InCallback
<1>3. CASE Fp!timer_cb(c)
  <2>1. PICK g, y, z : /\ g = [kernel EXCEPT ![c].timer = "inactive"]
                       /\ y = [kernel[c] EXCEPT !.timer = "inactive"] /\ z = [y EXCEPT !.stat = 100]
    OBVIOUS
  <2>2. kernel' = [g EXCEPT ![c].stat = 100] /\ kernel[c].timer = "active"
    BY <1>3, <2>1 DEF Fp!timer_cb, Fp!Pool
  <2>3. g = [kernel EXCEPT ![c] = y] /\ g[c] = y /\ DOMAIN g = DOMAIN kernel
    BY <1>1, <2>1
  <2>4. kernel' = [kernel EXCEPT ![c] = z]
    BY <1>1, <2>1, <2>2, <2>3
  <2>5. /\ y \in FpContexts /\ y.parent = kernel[c].parent /\ y.freed = kernel[c].freed
        /\ y.busy_polling = kernel[c].busy_polling /\ y.statbuf = kernel[c].statbuf
        /\ y.timer = "inactive"
    BY <1>1, <2>1 DEF FpContexts
  <2>6. /\ z \in FpContexts /\ z.parent = y.parent /\ z.freed = y.freed
        /\ z.busy_polling = y.busy_polling /\ z.statbuf = y.statbuf
        /\ z.timer = "inactive" /\ z.stat = 100
    BY <2>1, <2>5 DEF FpContexts
  <2>7. FpContext(z) /\ FpKept(z) = FpKept(kernel[c])
    BY <1>1, <2>2, <2>5, <2>6 DEF FpContext, FpKept
  <2> QED
    BY <1>1, <1>2, <2>4, <2>5, <2>6, <2>7, FpStep
<1>4. CASE Fp!timer_close_cb(c)
  <2>1. PICK g, y, z : /\ g = [kernel EXCEPT ![c].timer = "closed"]
                       /\ y = [kernel[c] EXCEPT !.timer = "closed"] /\ z = [y EXCEPT !.freed = TRUE]
    OBVIOUS
  <2>2. kernel' = [g EXCEPT ![c].freed = TRUE] /\ kernel[c].timer = "closing"
    BY <1>4, <2>1 DEF Fp!timer_close_cb
  <2>3. g = [kernel EXCEPT ![c] = y] /\ g[c] = y /\ DOMAIN g = DOMAIN kernel
    BY <1>1, <2>1
  <2>4. kernel' = [kernel EXCEPT ![c] = z]
    BY <1>1, <2>1, <2>2, <2>3
  <2>5. /\ y \in FpContexts /\ y.parent = kernel[c].parent /\ y.stat = kernel[c].stat
        /\ y.busy_polling = kernel[c].busy_polling /\ y.statbuf = kernel[c].statbuf
        /\ y.timer = "closed"
    BY <1>1, <2>1 DEF FpContexts
  <2>6. /\ z \in FpContexts /\ z.parent = y.parent /\ z.stat = y.stat
        /\ z.busy_polling = y.busy_polling /\ z.statbuf = y.statbuf
        /\ z.timer = "closed" /\ z.freed
    BY <2>1, <2>5 DEF FpContexts
  <2>7. FpContext(z) /\ FpKept(z) = FpKept(kernel[c])
    BY <1>1, <2>2, <2>5, <2>6 DEF FpContext, FpKept
  <2> QED
    BY <1>1, <1>2, <2>4, <2>5, <2>6, <2>7, FpStep
<1> QED
  BY <1>3, <1>4

\* uv__fs_poll_endgame.
LEMMA FpEndgameInv == FpInv /\ Fp!uv__fs_poll_endgame => FpInv'
<1> SUFFICES ASSUME FpInv, Fp!uv__fs_poll_endgame PROVE FpInv'
  OBVIOUS
<1>1. /\ FpTypes /\ "ENDGAME_QUEUED" \in h.flags /\ UNCHANGED <<kernel, pending, pc, hist>>
      /\ h' = uv__handle_close(Clear(h, {"ENDGAME_QUEUED"}))
  BY FpOperators DEF Fp!uv__fs_poll_endgame, FpInv
<1>2. FpHandle(h') /\ h'.poll_ctx = h.poll_ctx
  BY <1>1, FpGoes DEF FpTypes
<1> QED
  BY <1>1, <1>2 DEF FpInv, FpTypes, InCallback

\* Every step keeps the invariant of a handle that polls a file.
LEMMA FpNext == FpInv /\ [Fp!Next]_(Fp!vars) => FpInv'
<1> SUFFICES ASSUME FpInv, [Fp!Next]_(Fp!vars) PROVE FpInv'
  OBVIOUS
<1>1. CASE UNCHANGED <<h, kernel, pending, pc, hist>>
  BY <1>1 DEF FpInv, FpTypes, InCallback
<1>2. CASE Fp!CallbackReturns \/ UNCHANGED Fp!vars
  BY <1>1, <1>2 DEF Fp!CallbackReturns, Fp!vars
<1>3. DOMAIN kernel = 1..Len(kernel)
  BY FpContextOf DEF FpInv
<1> QED
  BY <1>2, <1>3, FpUserInv, FpPollEndInv, FpEndgameInv, FpFileInv, FpStatInv, FpPollInv, FpTimerInv
     DEF Fp!Next, Fp!HandlerStep, Fp!Endgame, Fp!CtxStep

\* What the runs check of the handle follows.
LEMMA FpCounters == FpInv => Fp!PendingExact /\ Fp!ActiveExact
<1> SUFFICES ASSUME FpInv PROVE Fp!PendingExact /\ Fp!ActiveExact
  OBVIOUS
<1>1. FpTypes /\ FpHandle(h) /\ DOMAIN kernel = 1..Len(kernel)
  BY FpContextOf DEF FpInv, FpTypes
<1>2. ASSUME NEW c \in DOMAIN kernel
      PROVE  /\ Bit(kernel[c].stat # 0) + Bit(kernel[c].timer \in {"active", "closing"})
                  = Bit(~kernel[c].freed)
             /\ kernel[c].parent <=> h.poll_ctx = c
  <2>1. FpContext(kernel[c]) /\ kernel[c] \in FpContexts /\ (kernel[c].parent <=> h.poll_ctx = c)
    BY <1>1, FpContextOf DEF FpInv
  <2>2. kernel[c].timer \in {"inactive", "active", "closing", "closed"}
    BY <2>1 DEF FpContexts
  <2>3. CASE kernel[c].timer = "inactive"
    BY <2>1, <2>3 DEF FpContext, Bit
  <2>4. CASE kernel[c].timer = "closed"
    BY <2>1, <2>4 DEF FpContext, Bit
  <2>5. CASE kernel[c].timer \in {"active", "closing"}
    BY <2>1, <2>5 DEF FpContext, Bit
  <2> QED
    BY <2>1, <2>2, <2>3, <2>4, <2>5
<1>3. Fp!PendingExact
  BY <1>2, FpOperators DEF Fp!PendingExact, Fp!None
<1>4. Fp!LoopKnows(h)
  <2>1. h.flags \cap {"ACTIVE", "CLOSING"} # {} <=> Active(h) \/ "CLOSING" \in h.flags
    BY DEF Active
  <2> QED
    BY <1>1, <2>1, FpOperators DEF FpHandle, Fp!LoopKnows, Fp!Bit, Bit
<1>5. Fp!ActiveExact
  BY <1>1, <1>4, FpOperators DEF Fp!ActiveExact, FpHandle, Active, Fp!None
<1> QED
  BY <1>3, <1>5

\* A handle that is active has a timer or a stat under way.
LEMMA FpArmed == FpInv => Fp!Armed
<1> SUFFICES ASSUME FpInv, NEW c \in DOMAIN kernel, pc.at = "loop"
             PROVE  hist[c] = FpKept(kernel[c])
  BY DEF Fp!Armed, Fp!At, FpKept
<1>1. c \in 1..Len(kernel) /\ ~InCallback(c)
  BY FpContextOf DEF FpInv, InCallback
<1> QED
  BY <1>1 DEF FpInv

-----------------------------------------------------------------------------
(* The handle that watches a directory, in a program that does not stop it *)
(* in its callback nor starts it again before its request has returned.    *)

FeFields == {"dir_handle", "req_pending", "mem"}

FeMem(m) ==
  /\ m = [n \in Fe!Names |-> m[n]]
  /\ \A n \in Fe!Names : m[n] \in {"null", "alloc"}

\* A handle that is not active watches nothing and holds no names.
FeIdle(u) == ~u.dir_handle /\ \A n \in {"path", "filew", "dirw"} : u.mem[n] = "null"

FeHandle(u) ==
  /\ IsHandle(u) /\ IsRecord(u, FeFields)
  /\ u.dir_handle \in BOOLEAN /\ u.req_pending \in BOOLEAN /\ FeMem(u.mem)
  /\ u.activecnt = 0 /\ u.reqs_pending = 0
  /\ "CLOSING" \in u.flags => ~Active(u)
  /\ u.active_handles = Bit((Active(u) \/ "CLOSING" \in u.flags) /\ "CLOSED" \notin u.flags)
  /\ "ENDGAME_QUEUED" \in u.flags =>
       "CLOSING" \in u.flags /\ "CLOSED" \notin u.flags /\ u.req_pending = FALSE
  /\ "CLOSED" \in u.flags =>
       "CLOSING" \in u.flags /\ u.mem["buffer"] = "null" /\ u.req_pending = FALSE
  /\ ~Active(u) => FeIdle(u)
  /\ Active(u) /\ u.req_pending => u.dir_handle

\* The one request is with the system or in the queue; in the handler it is
\* neither, and the handle still watches or is closing.
FeInv ==
  /\ FeHandle(h)
  /\ kernel \in Nat /\ pending \in Seq(Int) /\ kernel + Len(pending) = Bit(h.req_pending)
  /\ hist = [fails |-> hist.fails, badFree |-> hist.badFree, silent |-> hist.silent]
  /\ hist.badFree = FALSE
  /\ h.dir_handle => hist.silent = FALSE
  /\ \/ /\ pc.at = "loop" /\ cb \in {"none", "close"}
        /\ cb = "close" => "CLOSING" \in h.flags
        /\ h.dir_handle => h.req_pending
     \/ /\ pc = [at |-> "entries", left |-> pc.left] /\ pc.left \in Int
        /\ cb \in {"none", "fs_event"}
        /\ h.req_pending = FALSE /\ "CLOSED" \notin h.flags
        /\ "CLOSING" \in h.flags \/ h.dir_handle

\* What FsEvent has by extending UvHandle is what is here.
LEMMA FeOperators ==
  /\ \A u, f : Fe!Is(u, f) <=> f \in u.flags
  /\ \A b : Fe!Bit(b) = Bit(b)
  /\ \A u : /\ Fe!uv__handle_start(u) = uv__handle_start(u)
            /\ Fe!uv__handle_stop(u) = uv__handle_stop(u)
            /\ Fe!uv__handle_closing(u) = uv__handle_closing(u)
            /\ Fe!uv__handle_close(u) = uv__handle_close(u)
            /\ Fe!uv_want_endgame(u) = Set(u, {"ENDGAME_QUEUED"})
            /\ Fe!Clear(u, {"ENDGAME_QUEUED"}) = Clear(u, {"ENDGAME_QUEUED"})
BY DEF Fe!Set, Fe!Clear, Fe!Is, Fe!uv__handle_start, Fe!uv__handle_stop, Fe!uv__handle_closing,
   Fe!uv__handle_close, Fe!uv_want_endgame, Fe!Bit, Set, Clear, Is,
   uv__handle_start, uv__handle_stop, uv__handle_closing, uv__handle_close, Bit

\* uv_fs_event_init makes a handle that satisfies the invariant.
LEMMA FeInit == Fe!Init => FeInv
<1> SUFFICES ASSUME Fe!Init PROVE FeInv
  OBVIOUS
<1>1. h = [flags |-> {}, activecnt |-> 0, reqs_pending |-> 0, active_reqs |-> {},
           active_handles |-> 0, dir_handle |-> FALSE, req_pending |-> FALSE,
           mem |-> [n \in Fe!Names |-> "null"]]
  BY DEF Fe!Init
<1>2. DOMAIN h = BaseFields \cup FeFields /\ h = [x \in DOMAIN h |-> h[x]]
  BY <1>1 DEF BaseFields, FeFields
<1>3. FeMem(h.mem) /\ FeIdle(h)
  BY <1>1 DEF FeMem, FeIdle, Fe!Names
<1>4. FeHandle(h)
  BY <1>1, <1>2, <1>3 DEF FeHandle, IsHandle, IsRecord, Active, Bit
<1>5. kernel = 0 /\ pending \in Seq(Int) /\ Len(pending) = 0
  BY EmptySeq DEF Fe!Init
<1>6. hist = [fails |-> 0, badFree |-> FALSE, silent |-> TRUE] /\ pc.at = "loop" /\ cb = "none"
  BY DEF Fe!Init
<1> QED
  BY <1>1, <1>4, <1>5, <1>6 DEF FeInv, Bit

FeUpdate(u, m, d, r) == [u EXCEPT !.mem = m, !.dir_handle = d, !.req_pending = r]

\* The fields of its own change.
LEMMA FeChange ==
  ASSUME NEW u, IsHandle(u), IsRecord(u, FeFields), NEW d, NEW r, NEW m,
         NEW v, v = FeUpdate(u, m, d, r)
  PROVE  /\ IsHandle(v) /\ IsRecord(v, FeFields) /\ Changes(u, v, FeFields)
         /\ v.dir_handle = d /\ v.req_pending = r /\ v.mem = m
<1>1. PICK a : a = [u EXCEPT !.mem = m]
  OBVIOUS
<1>2. PICK b : b = [a EXCEPT !.dir_handle = d]
  OBVIOUS
<1>3. v = [b EXCEPT !.req_pending = r]
  BY <1>1, <1>2 DEF FeUpdate
<1>4. IsRecord(u, BaseFields \cup FeFields)
  BY DEF IsHandle, IsRecord
<1>5. /\ IsRecord(a, BaseFields \cup FeFields) /\ DOMAIN a = DOMAIN u /\ a.mem = m
      /\ \A x \in DOMAIN u : x # "mem" => a[x] = u[x]
  BY <1>1, <1>4 DEF IsRecord, FeFields
<1>6. /\ IsRecord(b, BaseFields \cup FeFields) /\ DOMAIN b = DOMAIN a /\ b.dir_handle = d
      /\ \A x \in DOMAIN a : x # "dir_handle" => b[x] = a[x]
  BY <1>2, <1>5 DEF IsRecord, FeFields
<1>7. /\ IsRecord(v, BaseFields \cup FeFields) /\ DOMAIN v = DOMAIN b /\ v.req_pending = r
      /\ \A x \in DOMAIN b : x # "req_pending" => v[x] = b[x]
  BY <1>3, <1>6 DEF IsRecord, FeFields
<1>8. v.mem = m /\ v.dir_handle = d
  BY <1>5, <1>6, <1>7 DEF IsRecord, FeFields
<1>9. \A x \in DOMAIN u : x \in FeFields \/ v[x] = u[x]
  BY <1>5, <1>6, <1>7 DEF FeFields
<1>10. \A x \in BaseFields : x \in DOMAIN u /\ x \notin FeFields /\ v[x] = u[x]
  BY <1>4, <1>9 DEF IsRecord, BaseFields, FeFields
<1> QED
  BY <1>5, <1>6, <1>7, <1>8, <1>9, <1>10 DEF IsRecord, IsHandle, Changes, BaseFields


FeNamed(u, m) == [u EXCEPT !.mem = m]

\* Only its names change.
LEMMA FeMemory ==
  ASSUME NEW u, IsHandle(u), IsRecord(u, FeFields), NEW m, NEW v, v = FeNamed(u, m)
  PROVE  /\ IsHandle(v) /\ IsRecord(v, FeFields) /\ Changes(u, v, {"mem"}) /\ v.mem = m
         /\ v.dir_handle = u.dir_handle /\ v.req_pending = u.req_pending
BY DEF IsHandle, IsRecord, BaseFields, FeFields, Changes, FeNamed

\* Only whether its request is out changes.
LEMMA FeRequest ==
  ASSUME NEW u, FeHandle(u), NEW r \in BOOLEAN, NEW v, v = [u EXCEPT !.req_pending = r],
         r = TRUE => u.dir_handle /\ Active(u)
  PROVE  /\ FeHandle(v) /\ v.flags = u.flags /\ v.req_pending = r /\ v.dir_handle = u.dir_handle
         /\ v.mem = u.mem
<1>1. IsHandle(u) /\ IsRecord(u, FeFields)
  BY DEF FeHandle
<1>2. /\ IsHandle(v) /\ IsRecord(v, FeFields) /\ Changes(u, v, {"req_pending"}) /\ v.req_pending = r
  BY <1>1 DEF IsHandle, IsRecord, BaseFields, FeFields, Changes
<1>3. /\ v.flags = u.flags /\ v.activecnt = u.activecnt /\ v.reqs_pending = u.reqs_pending
      /\ v.active_handles = u.active_handles /\ v.dir_handle = u.dir_handle /\ v.mem = u.mem
  BY <1>1, <1>2 DEF IsHandle, IsRecord, BaseFields, FeFields, Changes
<1>4. Active(v) <=> Active(u)
  BY <1>3 DEF Active
<1>5. r = TRUE => "CLOSING" \notin u.flags
  BY DEF FeHandle
<1>6. FeIdle(v) <=> FeIdle(u)
  BY <1>3 DEF FeIdle
<1> QED
  BY <1>2, <1>3, <1>4, <1>5, <1>6 DEF FeHandle

\* uv_want_endgame: a handle that closes and has no request out waits for the
\* endgame.
LEMMA FeWants ==
  ASSUME NEW u, FeHandle(u), "CLOSING" \in u.flags, "CLOSED" \notin u.flags, u.req_pending = FALSE,
         NEW v, v = Set(u, {"ENDGAME_QUEUED"})
  PROVE  /\ FeHandle(v) /\ v.flags = u.flags \cup {"ENDGAME_QUEUED"}
         /\ v.req_pending = FALSE /\ v.dir_handle = u.dir_handle /\ v.mem = u.mem
<1>1. IsHandle(u) /\ IsRecord(u, FeFields)
  BY DEF FeHandle
<1>2. /\ IsHandle(v) /\ Changes(u, v, {"flags"}) /\ v.flags = u.flags \cup {"ENDGAME_QUEUED"}
  BY <1>1, Setting
<1>3. /\ IsRecord(v, FeFields) /\ v.activecnt = u.activecnt /\ v.reqs_pending = u.reqs_pending
      /\ v.active_handles = u.active_handles /\ v.dir_handle = u.dir_handle /\ v.mem = u.mem
      /\ v.req_pending = FALSE
  BY <1>1, <1>2 DEF IsHandle, IsRecord, BaseFields, FeFields, Changes
<1>4. Active(v) <=> Active(u)
  BY <1>2 DEF Active
<1>5. FeIdle(v) <=> FeIdle(u)
  BY <1>3 DEF FeIdle
<1> QED
  BY <1>2, <1>3, <1>4, <1>5 DEF FeHandle

\* Names are freed.
LEMMA FeFrees ==
  ASSUME NEW m, FeMem(m), NEW names, NEW f, f = Fe!Free(m, names)
  PROVE  FeMem(f) /\ \A n \in Fe!Names : f[n] = IF n \in names THEN "null" ELSE m[n]
BY DEF FeMem, Fe!Free

\* No name is freed that is freed already.
LEMMA FeFreesRight == \A u : FeHandle(u) => ~Fe!FreesDangling(u)
<1> SUFFICES ASSUME NEW u, FeHandle(u), NEW n \in {"path", "filew", "dirw"}
             PROVE  u.mem[n] # "dangling"
  BY DEF Fe!FreesDangling, Fe!Dangles
<1>1. n \in Fe!Names
  BY DEF Fe!Names
<1> QED
  BY <1>1 DEF FeHandle, FeMem

\* uv_fs_event_start: the handle is active, and watches unless that failed.
LEMMA FeStarted ==
  ASSUME NEW u, FeHandle(u), "CLOSING" \notin u.flags, ~Active(u), u.req_pending = FALSE,
         NEW s, s = uv__handle_start(u), NEW d \in BOOLEAN, NEW m, FeMem(m),
         NEW v, \/ v = FeUpdate(s, m, d, d)
                \/ v = FeNamed(s, m) /\ d = FALSE
  PROVE  /\ FeHandle(v) /\ v.dir_handle = d /\ v.req_pending = d /\ "CLOSING" \notin v.flags
<1>1. IsHandle(u) /\ IsRecord(u, FeFields)
  BY DEF FeHandle
<1>2. /\ IsHandle(s) /\ Changes(u, s, {"flags", "active_handles"})
      /\ s.flags = u.flags \cup {"ACTIVE"} /\ s.active_handles = u.active_handles + Bit(~Active(u))
  BY <1>1, Starting
<1>3. /\ IsRecord(s, FeFields) /\ s.dir_handle = u.dir_handle /\ s.req_pending = u.req_pending
      /\ s.activecnt = 0 /\ s.reqs_pending = 0 /\ s.active_handles = 1
  BY <1>1, <1>2 DEF FeHandle, IsHandle, IsRecord, BaseFields, FeFields, Changes, Active, Bit
<1>4. u.dir_handle = FALSE
  BY DEF FeHandle, FeIdle
<1>5. /\ IsHandle(v) /\ IsRecord(v, FeFields) /\ Changes(s, v, FeFields)
      /\ v.dir_handle = d /\ v.req_pending = d /\ v.mem = m
  <2>1. CASE v = FeUpdate(s, m, d, d)
    BY ONLY <1>2, <1>3, <2>1, FeChange
  <2>2. CASE v = FeNamed(s, m) /\ d = FALSE
    <3>1. /\ IsHandle(v) /\ IsRecord(v, FeFields) /\ Changes(s, v, {"mem"}) /\ v.mem = m
          /\ v.dir_handle = s.dir_handle /\ v.req_pending = s.req_pending
      BY ONLY <1>2, <1>3, <2>2, FeMemory
    <3>2. Changes(s, v, FeFields)
      BY <3>1 DEF Changes, FeFields
    <3> QED
      BY <1>3, <1>4, <2>2, <3>1, <3>2
  <2> QED
    BY <2>1, <2>2
<1>6. v.flags = s.flags /\ v.activecnt = 0 /\ v.reqs_pending = 0 /\ v.active_handles = 1
  BY <1>2, <1>3, <1>5 DEF IsHandle, IsRecord, BaseFields, FeFields, Changes
<1>7. /\ "ACTIVE" \in v.flags /\ {"CLOSED", "ENDGAME_QUEUED", "CLOSING"} \cap v.flags = {}
  BY <1>2, <1>6 DEF FeHandle
<1> QED
  BY <1>5, <1>6, <1>7 DEF FeHandle, Active, Bit

\* uv_fs_event_stop: it watches nothing and has no names.
LEMMA FeStops ==
  ASSUME NEW u, FeHandle(u), "CLOSING" \notin u.flags, NEW v, v = Fe!StopWatching(u)
  PROVE  /\ FeHandle(v) /\ v.flags = u.flags \ {"ACTIVE"} /\ v.req_pending = u.req_pending
         /\ v.dir_handle = FALSE
<1>1. IsHandle(u) /\ IsRecord(u, FeFields)
  BY DEF FeHandle
<1>2. CASE ~Active(u)
  <2>1. v = u
    BY <1>2, FeOperators DEF Fe!StopWatching, Active
  <2> QED
    BY <1>2, <2>1 DEF FeHandle, FeIdle, Active
<1>3. CASE Active(u)
  <2>1. PICK m : m = Fe!Free(u.mem, {"path", "filew", "dirw"})
    OBVIOUS
  <2>0. PICK d : d = FALSE
    OBVIOUS
  <2>r. PICK r : r = u.req_pending
    OBVIOUS
  <2>2. PICK e : e = FeUpdate(u, m, d, r)
    OBVIOUS
  <2>3. e = [u EXCEPT !.dir_handle = FALSE, !.mem = m]
    BY <1>1, <2>0, <2>r, <2>2 DEF IsRecord, FeFields, FeUpdate
  <2>4. v = uv__handle_stop(e)
    BY <1>3, <2>1, <2>3, FeOperators DEF Fe!StopWatching, Active
  <2>5. FeMem(m) /\ \A n \in {"path", "filew", "dirw"} : m[n] = "null"
    BY <2>1, FeFrees DEF FeHandle, Fe!Names
  <2>6. m["buffer"] = u.mem["buffer"]
    BY <2>1, FeFrees DEF FeHandle, Fe!Names
  <2>7. /\ IsHandle(e) /\ IsRecord(e, FeFields) /\ Changes(u, e, FeFields)
        /\ e.dir_handle = FALSE /\ e.req_pending = u.req_pending /\ e.mem = m
    <3>1. /\ IsHandle(e) /\ IsRecord(e, FeFields) /\ Changes(u, e, FeFields)
          /\ e.dir_handle = d /\ e.req_pending = r /\ e.mem = m
      BY ONLY <1>1, <2>2, FeChange
    <3> QED
      BY ONLY <2>0, <2>r, <3>1
  <2>8. /\ e.flags = u.flags /\ e.activecnt = 0 /\ e.reqs_pending = 0
        /\ e.active_handles = u.active_handles
    BY <1>1, <2>7 DEF FeHandle, IsHandle, IsRecord, BaseFields, FeFields, Changes
  <2>9. /\ IsHandle(v) /\ Changes(e, v, {"flags", "active_handles"})
        /\ v.flags = e.flags \ {"ACTIVE"} /\ v.active_handles = e.active_handles - Bit(Active(e))
    BY <2>4, <2>7, Stopping
  <2>10. /\ IsRecord(v, FeFields) /\ v.dir_handle = FALSE /\ v.req_pending = u.req_pending
         /\ v.mem = m /\ v.activecnt = 0 /\ v.reqs_pending = 0
    BY <2>7, <2>8, <2>9 DEF IsHandle, IsRecord, BaseFields, FeFields, Changes
  <2>11. {"CLOSED", "ENDGAME_QUEUED", "CLOSING", "ACTIVE"} \cap v.flags = {}
    BY <2>8, <2>9 DEF FeHandle
  <2>12. v.active_handles = 0
    BY <1>3, <2>8, <2>9, <2>11 DEF FeHandle, Active, Bit
  <2> QED
    BY <2>5, <2>8, <2>9, <2>10, <2>11, <2>12 DEF FeHandle, FeIdle, Active, Bit
<1> QED
  BY <1>2, <1>3

\* uv_fs_event_close: the endgame follows, now or after the request.
LEMMA FeCloses ==
  ASSUME NEW u, FeHandle(u), "CLOSING" \notin u.flags,
         NEW v, v = Fe!EndgameUnlessBusy(uv__handle_closing(Fe!StopWatching(u)))
  PROVE  /\ FeHandle(v) /\ {"CLOSING"} \subseteq v.flags /\ "CLOSED" \notin v.flags
         /\ v.req_pending = u.req_pending /\ v.dir_handle = FALSE
<1>1. PICK s, c : s = Fe!StopWatching(u) /\ c = uv__handle_closing(s)
  OBVIOUS
<1>2. /\ FeHandle(s) /\ s.flags = u.flags \ {"ACTIVE"} /\ s.req_pending = u.req_pending
      /\ s.dir_handle = FALSE
  BY <1>1, FeStops
<1>3. ~Active(s) /\ {"CLOSED", "ENDGAME_QUEUED", "CLOSING"} \cap s.flags = {}
  BY <1>2 DEF Active, FeHandle
<1>4. /\ IsHandle(c) /\ Changes(s, c, {"flags", "active_handles"})
      /\ c.flags = (s.flags \ {"ACTIVE"}) \cup {"CLOSING"}
      /\ c.active_handles = s.active_handles + Bit(~Active(s))
  BY <1>1, <1>2, Closing DEF FeHandle
<1>5. /\ IsRecord(c, FeFields) /\ c.dir_handle = FALSE /\ c.req_pending = u.req_pending
      /\ c.mem = s.mem /\ c.activecnt = 0 /\ c.reqs_pending = 0 /\ c.active_handles = 1
  BY <1>2, <1>3, <1>4 DEF FeHandle, IsHandle, IsRecord, BaseFields, FeFields, Changes, Bit
<1>6. "CLOSING" \in c.flags /\ {"CLOSED", "ENDGAME_QUEUED", "ACTIVE"} \cap c.flags = {}
  BY <1>3, <1>4
<1>7. FeHandle(c)
  BY <1>2, <1>3, <1>4, <1>5, <1>6 DEF FeHandle, FeIdle, Active, Bit
<1>8. v = IF c.req_pending THEN c ELSE Set(c, {"ENDGAME_QUEUED"})
  BY <1>1, FeOperators DEF Fe!EndgameUnlessBusy
<1>9. CASE c.req_pending
  BY <1>5, <1>6, <1>7, <1>8, <1>9
<1>10. CASE ~c.req_pending
  <2>1. c.req_pending = FALSE
    BY <1>7, <1>10 DEF FeHandle
  <2>2. v = Set(c, {"ENDGAME_QUEUED"}) /\ "CLOSING" \in c.flags /\ "CLOSED" \notin c.flags
    BY <1>6, <1>8, <1>10
  <2>3. FeHandle(v) /\ v.flags = c.flags \cup {"ENDGAME_QUEUED"}
        /\ v.req_pending = FALSE /\ v.dir_handle = c.dir_handle
    BY ONLY <1>7, <2>1, <2>2, FeWants
  <2> QED
    BY <1>5, <1>6, <2>1, <2>3
<1> QED
  BY <1>9, <1>10


\* uv_fs_event_endgame: the handle is closed and holds nothing.
LEMMA FeGoes ==
  ASSUME NEW u, FeHandle(u), "ENDGAME_QUEUED" \in u.flags, NEW e, e = Clear(u, {"ENDGAME_QUEUED"}),
         NEW v, v = uv__handle_close([e EXCEPT !.mem = [e.mem EXCEPT !["buffer"] = "null"]])
  PROVE  /\ FeHandle(v) /\ "CLOSING" \in v.flags /\ v.req_pending = u.req_pending
         /\ v.dir_handle = FALSE
<1>1. IsHandle(u) /\ IsRecord(u, FeFields)
  BY DEF FeHandle
<1>2. /\ IsHandle(e) /\ Changes(u, e, {"flags"}) /\ e.flags = u.flags \ {"ENDGAME_QUEUED"}
  BY <1>1, Clearing
<1>3. /\ IsRecord(e, FeFields) /\ e.mem = u.mem /\ e.req_pending = u.req_pending
      /\ e.dir_handle = u.dir_handle /\ e.activecnt = 0 /\ e.reqs_pending = 0
      /\ e.active_handles = u.active_handles
  BY <1>1, <1>2 DEF FeHandle, IsHandle, IsRecord, BaseFields, FeFields, Changes
<1>4. PICK m, x : m = [e.mem EXCEPT !["buffer"] = "null"] /\ x = FeNamed(e, m)
  OBVIOUS
<1>5. FeMem(m) /\ m["buffer"] = "null" /\ \A n \in {"path", "filew", "dirw"} : m[n] = u.mem[n]
  BY <1>3, <1>4 DEF FeHandle, FeMem, Fe!Names
<1>6. /\ IsHandle(x) /\ IsRecord(x, FeFields) /\ Changes(e, x, {"mem"}) /\ x.mem = m
      /\ x.dir_handle = e.dir_handle /\ x.req_pending = e.req_pending
  BY ONLY <1>2, <1>3, <1>4, FeMemory
<1>7. x.flags = e.flags /\ x.activecnt = 0 /\ x.reqs_pending = 0 /\ x.active_handles = u.active_handles
  BY <1>2, <1>3, <1>6 DEF IsHandle, IsRecord, BaseFields, FeFields, Changes
<1>8. /\ IsHandle(v) /\ Changes(x, v, {"flags", "active_handles"})
      /\ v.flags = x.flags \cup {"CLOSED"} /\ v.active_handles = x.active_handles - 1
  BY <1>4, <1>6, Closed DEF FeNamed
<1>9. /\ IsRecord(v, FeFields) /\ v.mem = m /\ v.dir_handle = u.dir_handle
      /\ v.req_pending = u.req_pending /\ v.activecnt = 0 /\ v.reqs_pending = 0
  BY <1>3, <1>6, <1>7, <1>8 DEF IsHandle, IsRecord, BaseFields, FeFields, Changes
<1>10. /\ "CLOSING" \in u.flags /\ "CLOSED" \notin u.flags /\ u.req_pending = FALSE
       /\ ~Active(u) /\ FeIdle(u) /\ u.active_handles = 1
  BY DEF FeHandle, Bit
<1>11. /\ {"CLOSING", "CLOSED"} \subseteq v.flags /\ {"ACTIVE", "ENDGAME_QUEUED"} \cap v.flags = {}
       /\ v.active_handles = 0
  BY <1>2, <1>7, <1>8, <1>10 DEF Active
<1> QED
  BY <1>5, <1>8, <1>9, <1>10, <1>11 DEF FeHandle, FeIdle, Active, Bit

\* A callback runs in the loop, or in the handler.
LEMMA FeUser ==
  ASSUME FeInv, Fe!User
  PROVE  /\ "CLOSING" \notin h.flags /\ UNCHANGED <<pc, cb>>
         /\ pc.at = "loop" => cb = "none"
BY FeOperators DEF Fe!User, FeInv

\* What a start does, by how far it gets.
FeOutcome(s, isDir, how) ==
  LET named == [h.mem EXCEPT !.path = "alloc",
                             !.filew = IF isDir THEN @ ELSE "alloc",
                             !.dirw = IF isDir THEN "alloc" ELSE @]
  IN  /\ hist' = [hist EXCEPT !.fails = @ + Fe!Bit(how # "ok"), !.silent = (how # "ok")]
      /\ CASE how = "ok" ->
                /\ h' = [s EXCEPT !.mem = [named EXCEPT !.buffer = "alloc"],
                                  !.dir_handle = TRUE, !.req_pending = TRUE]
                /\ kernel' = kernel + 1
           [] how = "convert" ->
                h' = [s EXCEPT !.mem.path = "alloc"] /\ UNCHANGED kernel
           [] how = "look" ->
                /\ h' = [s EXCEPT !.mem = Fe!Free(h.mem, {"path", "filew", "buffer"})]
                /\ UNCHANGED kernel
           [] OTHER ->
                /\ h' = [s EXCEPT !.mem = [Fe!Free(named, {"path", "filew", "buffer"})
                                             EXCEPT !.dirw = Fe!AfterError(isDir)]]
                /\ UNCHANGED kernel

\* uv_fs_event_start keeps the invariant.
LEMMA FeStartInv ==
  ASSUME DirFails = FALSE, RestartsBusy = FALSE, FeInv, Fe!uv_fs_event_start
  PROVE  FeInv'
<1>1. /\ ~Active(h) /\ "CLOSING" \notin h.flags /\ UNCHANGED <<pc, cb, pending>>
      /\ ~h.req_pending /\ ~Fe!InCallback
  BY FeUser, FeOperators DEF Fe!uv_fs_event_start, Active
<1>2. FeHandle(h) /\ h.req_pending = FALSE /\ h.dir_handle = FALSE
  BY <1>1 DEF FeInv, FeHandle, FeIdle
<1>3. pc.at = "loop" /\ cb = "none"
  <2>1. pc.at = "loop"
    BY <1>1, <1>2 DEF FeInv
  <2> QED
    BY <2>1, FeUser DEF Fe!uv_fs_event_start
<1>4. PICK s : s = uv__handle_start(h)
  OBVIOUS
<1>5. PICK isDir \in BOOLEAN : \E how \in Fe!Starts(isDir) : FeOutcome(s, isDir, how)
  BY <1>4, FeOperators DEF Fe!uv_fs_event_start, FeOutcome
<1>o. PICK how \in Fe!Starts(isDir) : FeOutcome(s, isDir, how)
  BY <1>5
<1>6. PICK named : named = [h.mem EXCEPT !.path = "alloc",
                                         !.filew = IF isDir THEN @ ELSE "alloc",
                                         !.dirw = IF isDir THEN "alloc" ELSE @]
  OBVIOUS
<1>7. FeMem(h.mem) /\ s.mem = h.mem
  <2>1. Changes(h, s, {"flags", "active_handles"}) /\ IsRecord(h, FeFields)
    BY <1>2, <1>4, Starting DEF FeHandle
  <2> QED
    BY <1>2, <2>1 DEF FeHandle, Changes, IsRecord, FeFields
<1>8. FeMem(named)
  BY <1>6, <1>7 DEF FeMem, Fe!Names
<1>9. /\ hist' = [fails |-> hist'.fails, badFree |-> hist'.badFree, silent |-> hist'.silent]
      /\ hist'.badFree = FALSE
      /\ how = "ok" => hist'.silent = FALSE
  <2>1. PICK hi : hi = hist
    OBVIOUS
  <2>2. PICK f : f = hist.fails + Fe!Bit(how # "ok")
    OBVIOUS
  <2>3. PICK b : b = (how # "ok")
    OBVIOUS
  <2>4. hi = [fails |-> hi.fails, badFree |-> hi.badFree, silent |-> hi.silent] /\ hi.badFree = FALSE
    BY <2>1 DEF FeInv
  <2>5. PICK x : x = [hi EXCEPT !.fails = f]
    OBVIOUS
  <2>6. hist' = [x EXCEPT !.silent = b]
    BY <1>o, <2>1, <2>2, <2>3, <2>5 DEF FeOutcome
  <2>7. x = [fails |-> f, badFree |-> hi.badFree, silent |-> hi.silent]
    BY ONLY <2>4, <2>5
  <2>8. hist' = [fails |-> f, badFree |-> hi.badFree, silent |-> b]
    BY ONLY <2>6, <2>7
  <2> QED
    BY <2>3, <2>4, <2>8
<1>10. /\ FeHandle(h') /\ "CLOSING" \notin h'.flags
       /\ \/ /\ h'.dir_handle = TRUE /\ h'.req_pending = TRUE
             /\ kernel' = kernel + 1 /\ how = "ok"
          \/ /\ h'.dir_handle = FALSE /\ h'.req_pending = FALSE /\ UNCHANGED kernel
  <2>1. CASE how = "ok"
    <3>1. PICK m : m = [named EXCEPT !.buffer = "alloc"]
      OBVIOUS
    <3>2. FeMem(m)
      BY <1>8, <3>1 DEF FeMem, Fe!Names
    <3>t. PICK t : t = TRUE
      OBVIOUS
    <3>3. h' = FeUpdate(s, m, t, t) /\ kernel' = kernel + 1
      BY <1>o, <1>6, <2>1, <3>1, <3>t DEF FeUpdate, FeOutcome
    <3>4. t \in BOOLEAN /\ t = TRUE
      BY <3>t
    <3> QED
      <4>1. FeHandle(h') /\ h'.dir_handle = t /\ h'.req_pending = t /\ "CLOSING" \notin h'.flags
        BY ONLY <1>1, <1>2, <1>4, <3>2, <3>3, <3>4, FeStarted
      <4> QED
        BY <2>1, <3>t, <3>3, <4>1
  <2>2. CASE how = "convert"
    <3>1. PICK m : m = [s.mem EXCEPT !.path = "alloc"]
      OBVIOUS
    <3>2. FeMem(m)
      BY <1>7, <3>1 DEF FeMem, Fe!Names
    <3>3. h' = FeNamed(s, m) /\ UNCHANGED kernel
      BY <1>o, <2>2, <3>1 DEF FeOutcome, FeNamed
    <3>6. PICK d : d = FALSE
      OBVIOUS
    <3>7. d \in BOOLEAN /\ d = FALSE
      BY <3>6
    <3>8. FeHandle(h') /\ h'.dir_handle = d /\ h'.req_pending = d /\ "CLOSING" \notin h'.flags
      BY ONLY <1>1, <1>2, <1>4, <3>2, <3>3, <3>7, FeStarted
    <3> QED
      BY <3>3, <3>7, <3>8
  <2>3. CASE how = "look"
    <3>1. PICK m : m = Fe!Free(h.mem, {"path", "filew", "buffer"})
      OBVIOUS
    <3>2. FeMem(m)
      BY <1>7, <3>1, FeFrees
    <3>3. h' = FeNamed(s, m) /\ UNCHANGED kernel
      BY <1>o, <2>3, <3>1 DEF FeOutcome, FeNamed
    <3>6. PICK d : d = FALSE
      OBVIOUS
    <3>7. d \in BOOLEAN /\ d = FALSE
      BY <3>6
    <3>8. FeHandle(h') /\ h'.dir_handle = d /\ h'.req_pending = d /\ "CLOSING" \notin h'.flags
      BY ONLY <1>1, <1>2, <1>4, <3>2, <3>3, <3>7, FeStarted
    <3> QED
      BY <3>3, <3>7, <3>8
  <2>4. CASE how \notin {"ok", "convert", "look"}
    <3>1. PICK f, m : f = Fe!Free(named, {"path", "filew", "buffer"})
                      /\ m = [f EXCEPT !.dirw = Fe!AfterError(isDir)]
      OBVIOUS
    <3>2. isDir = FALSE
      BY <2>4 DEF Fe!Starts
    <3>3. FeMem(f)
      BY <1>8, <3>1, FeFrees
    <3>4. FeMem(m)
      BY <3>1, <3>2, <3>3 DEF FeMem, Fe!AfterError, Fe!Names
    <3>5. h' = FeNamed(s, m) /\ UNCHANGED kernel
      BY <1>o, <1>6, <2>4, <3>1 DEF FeOutcome, FeNamed
    <3>6. PICK d : d = FALSE
      OBVIOUS
    <3>7. d \in BOOLEAN /\ d = FALSE
      BY <3>6
    <3>8. FeHandle(h') /\ h'.dir_handle = d /\ h'.req_pending = d /\ "CLOSING" \notin h'.flags
      BY ONLY <1>1, <1>2, <1>4, <3>4, <3>5, <3>7, FeStarted
    <3> QED
      BY <3>5, <3>7, <3>8
  <2> QED
    BY <2>1, <2>2, <2>3, <2>4
<1>13. kernel' \in Nat /\ pending' \in Seq(Int) /\ kernel' + Len(pending') = Bit(h'.req_pending)
  BY <1>1, <1>2, <1>10, LenProperties DEF FeInv, Bit
<1>14. h'.dir_handle => hist'.silent = FALSE
  BY <1>9, <1>10
<1> QED
  BY <1>1, <1>3, <1>9, <1>10, <1>13, <1>14 DEF FeInv


\* What a stop and a close keep in mind.
LEMMA FeHushed ==
  ASSUME FeInv, hist' = [hist EXCEPT !.badFree = @ \/ Fe!FreesDangling(h), !.silent = TRUE]
  PROVE  /\ hist' = [fails |-> hist'.fails, badFree |-> hist'.badFree, silent |-> hist'.silent]
         /\ hist'.badFree = FALSE
<1>1. PICK hi : hi = hist
  OBVIOUS
<1>2. hi = [fails |-> hi.fails, badFree |-> hi.badFree, silent |-> hi.silent] /\ hi.badFree = FALSE
  BY <1>1 DEF FeInv
<1>3. PICK b : b = (hi.badFree \/ Fe!FreesDangling(h))
  OBVIOUS
<1>4. b = FALSE
  BY <1>2, <1>3, FeFreesRight DEF FeInv
<1>5. PICK t : t = TRUE
  OBVIOUS
<1>6. PICK x : x = [hi EXCEPT !.badFree = b]
  OBVIOUS
<1>7. hist' = [x EXCEPT !.silent = t]
  BY <1>1, <1>3, <1>5, <1>6
<1>8. x = [fails |-> hi.fails, badFree |-> b, silent |-> hi.silent]
  BY ONLY <1>2, <1>6
<1>9. hist' = [fails |-> hi.fails, badFree |-> b, silent |-> t]
  BY ONLY <1>7, <1>8
<1>10. hist'.badFree = b /\ hist' = [fails |-> hist'.fails, badFree |-> hist'.badFree, silent |-> hist'.silent]
  BY ONLY <1>9
<1> QED
  BY ONLY <1>4, <1>10

\* uv_fs_event_stop keeps the invariant.
LEMMA FeStopInv == StopsInCallback = FALSE /\ FeInv /\ Fe!uv_fs_event_stop => FeInv'
<1> SUFFICES ASSUME StopsInCallback = FALSE, FeInv, Fe!uv_fs_event_stop PROVE FeInv'
  OBVIOUS
<1>1. /\ "CLOSING" \notin h.flags /\ UNCHANGED <<pc, cb, kernel, pending>> /\ ~Fe!InCallback
      /\ h' = Fe!StopWatching(h) /\ (pc.at = "loop" => cb = "none") /\ FeHandle(h)
      /\ hist' = [hist EXCEPT !.badFree = @ \/ Fe!FreesDangling(h), !.silent = TRUE]
      /\ cb # "none" \/ pc.at = "loop"
  BY FeUser DEF Fe!uv_fs_event_stop, FeInv, Fe!User, Fe!At
<1>2. pc.at = "loop" /\ cb = "none"
  BY <1>1 DEF FeInv, Fe!InCallback
<1>3. /\ FeHandle(h') /\ h'.flags = h.flags \ {"ACTIVE"} /\ h'.req_pending = h.req_pending
      /\ h'.dir_handle = FALSE
  BY <1>1, FeStops
<1>4. /\ hist' = [fails |-> hist'.fails, badFree |-> hist'.badFree, silent |-> hist'.silent]
      /\ hist'.badFree = FALSE
  BY <1>1, FeHushed
<1> QED
  BY <1>1, <1>2, <1>3, <1>4 DEF FeInv

\* uv_fs_event_close keeps the invariant.
LEMMA FeCloseInv == FeInv /\ Fe!uv_fs_event_close => FeInv'
<1> SUFFICES ASSUME FeInv, Fe!uv_fs_event_close PROVE FeInv'
  OBVIOUS
<1>1. /\ "CLOSING" \notin h.flags /\ UNCHANGED <<pc, cb, kernel, pending>>
      /\ h' = Fe!EndgameUnlessBusy(uv__handle_closing(Fe!StopWatching(h))) /\ FeHandle(h)
      /\ hist' = [hist EXCEPT !.badFree = @ \/ Fe!FreesDangling(h), !.silent = TRUE]
  BY FeUser, FeOperators DEF Fe!uv_fs_event_close, FeInv
<1>2. /\ FeHandle(h') /\ "CLOSING" \in h'.flags /\ "CLOSED" \notin h'.flags
      /\ h'.req_pending = h.req_pending /\ h'.dir_handle = FALSE
  BY <1>1, FeCloses
<1>3. /\ hist' = [fails |-> hist'.fails, badFree |-> hist'.badFree, silent |-> hist'.silent]
      /\ hist'.badFree = FALSE
  BY <1>1, FeHushed
<1> QED
  BY <1>1, <1>2, <1>3 DEF FeInv

\* One more failure is counted.
LEMMA FeFailed ==
  ASSUME FeInv, NEW n, hist' = [hist EXCEPT !.fails = n]
  PROVE  /\ hist' = [fails |-> hist'.fails, badFree |-> hist'.badFree, silent |-> hist'.silent]
         /\ hist'.badFree = FALSE /\ hist'.silent = hist.silent
<1>1. PICK hi : hi = hist
  OBVIOUS
<1>2. hi = [fails |-> hi.fails, badFree |-> hi.badFree, silent |-> hi.silent] /\ hi.badFree = FALSE
  BY <1>1 DEF FeInv
<1>3. hist' = [fails |-> n, badFree |-> hi.badFree, silent |-> hi.silent]
  BY ONLY <1>1, <1>2, hist' = [hist EXCEPT !.fails = n]
<1> QED
  BY <1>1, <1>2, <1>3

\* A request the system returns goes into the queue.
LEMMA FeCompletesInv == FeInv /\ Fe!KernelCompletes => FeInv'
<1> SUFFICES ASSUME FeInv, Fe!KernelCompletes PROVE FeInv'
  OBVIOUS
<1>1. PICK n : /\ n \in IF h.dir_handle THEN -1..MaxBatch ELSE {-1}
               /\ pending' = Append(pending, n)
               /\ hist' = [hist EXCEPT !.fails = @ + Fe!Bit(n = -1 /\ h.dir_handle)]
  BY DEF Fe!KernelCompletes
<1>2. kernel > 0 /\ kernel' = kernel - 1 /\ UNCHANGED <<h, pc, cb>>
  BY DEF Fe!KernelCompletes
<1>3. n \in Int
  BY <1>1
<1>4. pending' \in Seq(Int) /\ Len(pending) \in Nat /\ Len(pending') = Len(pending) + 1
  BY <1>1, <1>3, AppendProperties, LenProperties DEF FeInv
<1>5. /\ hist' = [fails |-> hist'.fails, badFree |-> hist'.badFree, silent |-> hist'.silent]
      /\ hist'.badFree = FALSE /\ hist'.silent = hist.silent
  BY <1>1, FeFailed
<1>6. kernel' \in Nat /\ kernel' + Len(pending') = Bit(h.req_pending)
  <2>1. kernel \in Nat /\ kernel + Len(pending) = Bit(h.req_pending)
    BY DEF FeInv
  <2> QED
    BY ONLY <1>2, <1>4, <2>1
<1> QED
  BY <1>2, <1>4, <1>5, <1>6 DEF FeInv

\* uv_process_fs_event_req takes the request: what it brings is told if the
\* handle still watches.
LEMMA FeProcessInv == FeInv /\ Fe!uv_process_fs_event_req => FeInv'
<1> SUFFICES ASSUME FeInv, Fe!uv_process_fs_event_req PROVE FeInv'
  OBVIOUS
<1>1. /\ cb = "none" /\ pc.at = "loop" /\ pending # <<>> /\ pending' = Tail(pending)
      /\ UNCHANGED <<kernel, hist>>
  BY DEF Fe!uv_process_fs_event_req, Fe!At
<1>2. /\ pending' \in Seq(Int) /\ Head(pending) \in Int /\ Len(pending) \in Nat
      /\ Len(pending) > 0 /\ Len(pending') = Len(pending) - 1
  BY <1>1, HeadTailProperties, LenProperties, EmptySeq DEF FeInv
<1>3. /\ h.req_pending = TRUE /\ kernel = 0 /\ Len(pending') = 0 /\ FeHandle(h)
      /\ h.req_pending \in BOOLEAN
  BY <1>2 DEF FeInv, FeHandle, Bit
<1>4. PICK r : r = FALSE
  OBVIOUS
<1>5. PICK e : e = [h EXCEPT !.req_pending = r]
  OBVIOUS
<1>6. r \in BOOLEAN /\ r # TRUE
  BY <1>4
<1>7. /\ FeHandle(e) /\ e.flags = h.flags /\ e.req_pending = FALSE /\ e.dir_handle = h.dir_handle
  <2>1. /\ FeHandle(e) /\ e.flags = h.flags /\ e.req_pending = r /\ e.dir_handle = h.dir_handle
    BY ONLY <1>3, <1>5, <1>6, FeRequest
  <2> QED
    BY <1>4, <2>1
<1>8. "CLOSED" \notin h.flags
  BY <1>3 DEF FeHandle
<1>9. CASE ~Active(h)
  <2>1. UNCHANGED <<pc, cb>> /\ h.dir_handle = FALSE
    BY <1>3, <1>9, FeOperators DEF Fe!uv_process_fs_event_req, Fe!Ignored, Active, FeHandle, FeIdle
  <2>2. CASE "CLOSING" \in h.flags
    <3>1. h' = Set(e, {"ENDGAME_QUEUED"})
      BY <1>4, <1>5, <1>9, <2>2, FeOperators DEF Fe!uv_process_fs_event_req, Fe!Ignored, Active
    <3>2. "CLOSING" \in e.flags /\ "CLOSED" \notin e.flags
      BY <1>7, <1>8, <2>2
    <3>3. /\ FeHandle(h') /\ h'.flags = e.flags \cup {"ENDGAME_QUEUED"} /\ h'.req_pending = FALSE
          /\ h'.dir_handle = e.dir_handle
      BY ONLY <1>7, <3>1, <3>2, FeWants
    <3> QED
      BY <1>1, <1>2, <1>3, <1>7, <2>1, <3>2, <3>3 DEF FeInv, Bit
  <2>3. CASE "CLOSING" \notin h.flags
    <3>1. h' = e
      BY <1>4, <1>5, <1>9, <2>3, FeOperators DEF Fe!uv_process_fs_event_req, Fe!Ignored, Active
    <3> QED
      BY <1>1, <1>2, <1>3, <1>7, <2>1, <3>1 DEF FeInv, Bit
  <2> QED
    BY <2>2, <2>3
<1>10. CASE Active(h)
  <2>1. h' = e /\ pc' = [at |-> "entries", left |-> Head(pending)]
    BY <1>4, <1>5, <1>10, FeOperators DEF Fe!uv_process_fs_event_req, Fe!Ignored, Active
  <2>2. cb' \in {"none", "fs_event"}
    BY <1>1, <1>10, FeOperators DEF Fe!uv_process_fs_event_req, Fe!Ignored, Active
  <2>3. h.dir_handle
    BY <1>3, <1>10 DEF FeHandle
  <2>4. pc' = [at |-> "entries", left |-> pc'.left] /\ pc'.left \in Int
    BY <1>2, <2>1
  <2>5. kernel' \in Nat /\ pending' \in Seq(Int) /\ kernel' + Len(pending') = Bit(h'.req_pending)
    BY <1>1, <1>2, <1>3, <1>7, <2>1 DEF Bit
  <2>6. /\ hist' = [fails |-> hist'.fails, badFree |-> hist'.badFree, silent |-> hist'.silent]
        /\ hist'.badFree = FALSE /\ (h.dir_handle => hist'.silent = FALSE)
    BY <1>1 DEF FeInv
  <2>7. FeHandle(h') /\ h'.req_pending = FALSE /\ "CLOSED" \notin h'.flags /\ h'.dir_handle = h.dir_handle
    BY <1>7, <1>8, <2>1
  <2> QED
    BY ONLY <2>2, <2>3, <2>4, <2>5, <2>6, <2>7 DEF FeInv
<1> QED
  BY <1>9, <1>10

\* One change after the other is told.
LEMMA FeEntryInv == FeInv /\ Fe!NextEntry => FeInv'
<1> SUFFICES ASSUME FeInv, Fe!NextEntry PROVE FeInv'
  OBVIOUS
<1>1. /\ cb = "none" /\ pc.at = "entries" /\ UNCHANGED <<h, kernel, pending, hist>>
      /\ cb' \in {"none", "fs_event"} /\ pc' = [pc EXCEPT !.left = @ - 1]
  BY DEF Fe!NextEntry, Fe!At
<1>2. pc = [at |-> "entries", left |-> pc.left] /\ pc.left \in Int
  BY <1>1 DEF FeInv
<1>3. pc' = [at |-> "entries", left |-> pc.left - 1]
  BY <1>1, <1>2
<1> QED
  BY <1>1, <1>2, <1>3 DEF FeInv

\* The request is sent again, or the endgame called for.
LEMMA FeRequeueInv == FeInv /\ Fe!Requeue => FeInv'
<1> SUFFICES ASSUME FeInv, Fe!Requeue PROVE FeInv'
  OBVIOUS
<1>1. cb = "none" /\ pc.at = "entries" /\ pc' = [at |-> "loop"] /\ UNCHANGED cb
  BY DEF Fe!Requeue, Fe!EntriesDone, Fe!At
<1>2. /\ FeHandle(h) /\ h.req_pending = FALSE /\ "CLOSED" \notin h.flags
      /\ kernel = 0 /\ Len(pending) = 0
  <2>1. FeHandle(h) /\ h.req_pending = FALSE /\ "CLOSED" \notin h.flags
    BY <1>1 DEF FeInv
  <2>2. kernel \in Nat /\ Len(pending) \in Nat /\ kernel + Len(pending) = 0
    BY <2>1, LenProperties DEF FeInv, Bit
  <2> QED
    BY <2>1, <2>2
<1>3. CASE "CLOSING" \in h.flags
  <2>1. h' = Set(h, {"ENDGAME_QUEUED"}) /\ UNCHANGED <<kernel, pending, hist>>
    BY <1>3, FeOperators DEF Fe!Requeue
  <2>2. /\ FeHandle(h') /\ h'.flags = h.flags \cup {"ENDGAME_QUEUED"} /\ h'.req_pending = FALSE
        /\ h'.dir_handle = h.dir_handle
    BY ONLY <1>2, <1>3, <2>1, FeWants
  <2>3. h.dir_handle = FALSE
    BY <1>2, <1>3 DEF FeHandle, FeIdle
  <2> QED
    BY <1>1, <1>2, <2>1, <2>2, <2>3 DEF FeInv
<1>4. CASE "CLOSING" \notin h.flags
  <2>1. h.dir_handle /\ Active(h)
    BY <1>1, <1>2, <1>4 DEF FeInv, FeHandle, FeIdle
  <2>2. PICK r : r = TRUE
    OBVIOUS
  <2>3. h' = [h EXCEPT !.req_pending = r] /\ r \in BOOLEAN
    BY <1>4, <2>2, FeOperators DEF Fe!Requeue
  <2>4. FeHandle(h') /\ h'.req_pending = r /\ h'.dir_handle = h.dir_handle
    BY ONLY <1>2, <2>1, <2>3, FeRequest
  <2>5. CASE kernel' = kernel + 1 /\ UNCHANGED <<pending, hist>>
    <3>1. h'.req_pending = TRUE /\ kernel' = 1 /\ Len(pending') = 0
      BY <1>2, <2>2, <2>4, <2>5
    <3> QED
      BY <1>1, <2>1, <2>4, <2>5, <3>1 DEF FeInv, Bit
  <2>6. CASE /\ hist' = [hist EXCEPT !.fails = @ + 1]
             /\ pending' = Append(pending, -1) /\ UNCHANGED kernel
    <3>1. h'.req_pending = TRUE /\ kernel' = 0
      BY <1>2, <2>2, <2>4, <2>6
    <3>2. pending' \in Seq(Int) /\ Len(pending') = 1
      BY <1>2, <2>6, AppendProperties DEF FeInv
    <3>3. /\ hist' = [fails |-> hist'.fails, badFree |-> hist'.badFree, silent |-> hist'.silent]
          /\ hist'.badFree = FALSE /\ hist'.silent = hist.silent
      BY <2>6, FeFailed
    <3> QED
      BY <1>1, <2>1, <2>4, <3>1, <3>2, <3>3 DEF FeInv, Bit
  <2> QED
    BY <1>4, <2>5, <2>6, FeOperators DEF Fe!Requeue
<1> QED
  BY <1>3, <1>4

\* uv_fs_event_endgame keeps the invariant.
LEMMA FeEndgameInv == FeInv /\ Fe!uv_fs_event_endgame => FeInv'
<1> SUFFICES ASSUME FeInv, Fe!uv_fs_event_endgame PROVE FeInv'
  OBVIOUS
<1>1. /\ cb = "none" /\ pc.at = "loop" /\ "ENDGAME_QUEUED" \in h.flags /\ FeHandle(h)
      /\ UNCHANGED <<kernel, pending, pc, hist>>
  BY FeOperators DEF Fe!uv_fs_event_endgame, Fe!At, FeInv
<1>2. "CLOSING" \in h.flags /\ h.req_pending = FALSE /\ "ENDGAME_QUEUED" # "CLOSING"
  BY <1>1 DEF FeHandle
<1>3. PICK e : e = Clear(h, {"ENDGAME_QUEUED"})
  OBVIOUS
<1>4. "CLOSING" \in e.flags /\ e.req_pending = FALSE
  <2>1. Changes(h, e, {"flags"}) /\ e.flags = h.flags \ {"ENDGAME_QUEUED"} /\ IsRecord(h, FeFields)
    BY <1>1, <1>3, Clearing DEF FeHandle
  <2> QED
    BY <1>2, <2>1 DEF Changes, IsRecord, FeFields
<1>5. h' = uv__handle_close([e EXCEPT !.mem = [e.mem EXCEPT !["buffer"] = "null"]]) /\ cb' = "close"
  BY <1>2, <1>3, <1>4, FeOperators DEF Fe!uv_fs_event_endgame
<1>6. /\ FeHandle(h') /\ "CLOSING" \in h'.flags /\ h'.req_pending = h.req_pending
      /\ h'.dir_handle = FALSE
  BY ONLY <1>1, <1>3, <1>5, FeGoes
<1> QED
  BY <1>1, <1>5, <1>6 DEF FeInv

\* Every step keeps the invariant, in a program that does not stop the handle
\* in its callback nor starts it while its request is out, and while no start
\* on a directory fails after it was named.
LEMMA FeNext ==
  ASSUME StopsInCallback = FALSE, RestartsBusy = FALSE, DirFails = FALSE, FeInv, [Fe!Next]_(Fe!vars)
  PROVE  FeInv'
<1>1. CASE Fe!CallbackReturns
  BY <1>1 DEF Fe!CallbackReturns, FeInv
<1>2. CASE UNCHANGED Fe!vars
  BY <1>2 DEF Fe!vars, FeInv
<1>3. CASE Fe!uv_fs_event_start
  BY <1>3, FeStartInv
<1>4. CASE Fe!uv_fs_event_stop \/ Fe!uv_fs_event_close
  BY <1>4, FeStopInv, FeCloseInv
<1> QED
  BY <1>1, <1>2, <1>3, <1>4, FeCompletesInv, FeProcessInv, FeEntryInv, FeRequeueInv, FeEndgameInv
     DEF Fe!Next, Fe!UserCall, Fe!HandlerStep

\* What the runs check of it follows.
LEMMA FeCounters == FeInv => Fe!PendingExact /\ Fe!ActiveExact
<1> SUFFICES ASSUME FeInv PROVE Fe!PendingExact /\ Fe!ActiveExact
  OBVIOUS
<1>1. FeHandle(h)
  BY DEF FeInv
<1>2. h.flags \cap {"ACTIVE", "CLOSING"} # {} <=> Active(h) \/ "CLOSING" \in h.flags
  BY DEF Active
<1>3. Fe!LoopKnows(h)
  BY <1>1, <1>2, FeOperators DEF FeHandle, Fe!LoopKnows, Fe!Bit, Bit
<1>4. h.dir_handle => Fe!Is(h, "ACTIVE")
  BY <1>1, FeOperators DEF FeHandle, FeIdle, Active
<1> QED
  BY <1>3, <1>4 DEF Fe!ActiveExact, FeInv, Fe!PendingExact, Fe!Bit, Bit

\* A watched directory has its request out, and the assertions hold.
LEMMA FeFollows == FeInv => Fe!Armed /\ Fe!NoBadFree /\ Fe!MayRequeue
<1> SUFFICES ASSUME FeInv PROVE Fe!Armed /\ Fe!NoBadFree /\ Fe!MayRequeue
  OBVIOUS
<1>1. Fe!Armed
  BY DEF Fe!Armed, FeInv
<1>2. ASSUME "CLOSED" \in h.flags, NEW n \in Fe!Names PROVE h.mem[n] = "null"
  <2>1. FeIdle(h) /\ h.mem["buffer"] = "null"
    BY <1>2 DEF FeInv, FeHandle
  <2> QED
    BY <1>2, <2>1 DEF FeIdle, Fe!Names
<1>3. Fe!NoBadFree
  BY <1>2, FeOperators DEF Fe!NoBadFree, FeInv
<1>4. Fe!MayRequeue
  BY FeOperators DEF Fe!MayRequeue, Fe!EntriesDone, Fe!At, FeInv
<1> QED
  BY <1>1, <1>3, <1>4

\* A callback begins only while the handle watches.
LEMMA FeSilent == FeInv /\ [Fe!Next]_(Fe!vars) => Fe!Silent
<1> SUFFICES ASSUME FeInv, [Fe!Next]_(Fe!vars), cb = "none", cb' = "fs_event" PROVE ~hist.silent
  BY DEF Fe!Silent
<1>1. CASE Fe!uv_process_fs_event_req
  <2>1. /\ cb = "none" /\ pc.at = "loop" /\ pending # <<>> /\ Active(h) /\ FeHandle(h)
    BY <1>1, FeOperators DEF Fe!uv_process_fs_event_req, Fe!At, Fe!Ignored, Active, FeInv
  <2>2. Len(pending) > 0 /\ Len(pending) \in Nat /\ kernel \in Nat
    BY <2>1, LenProperties, EmptySeq DEF FeInv
  <2>3. h.dir_handle
    BY <2>1, <2>2 DEF FeInv, FeHandle, Bit
  <2> QED
    BY <2>3 DEF FeInv
<1>2. CASE Fe!NextEntry
  BY <1>2, FeOperators DEF Fe!NextEntry, Fe!At, FeInv
<1>3. ~Fe!CallbackReturns
  BY DEF Fe!CallbackReturns
<1>4. cb' # cb
  OBVIOUS
<1>5. ~Fe!UserCall /\ ~Fe!KernelCompletes /\ ~Fe!Requeue /\ ~(UNCHANGED Fe!vars)
  BY <1>4 DEF Fe!UserCall, Fe!uv_fs_event_start, Fe!uv_fs_event_stop, Fe!uv_fs_event_close, Fe!User,
     Fe!KernelCompletes, Fe!Requeue, Fe!vars
<1>6. ~Fe!uv_fs_event_endgame
  BY <1>4 DEF Fe!uv_fs_event_endgame
<1> QED
  BY <1>1, <1>2, <1>3, <1>5, <1>6 DEF Fe!Next, Fe!HandlerStep

-----------------------------------------------------------------------------
(* The pipe without an overlapped mode, whose reads a thread makes, in a   *)
(* program that does not shut down or close what it still reads from.      *)

PrFields == {"handle", "readfile_thread", "mutex"}

\* Who reads, or has a read out, can be cancelled and is not about to end.  The
\* mutex is there as long as a read can be cancelled.
PrHandle(u) ==
  /\ IsHandle(u) /\ IsRecord(u, PrFields)
  /\ u.handle \in BOOLEAN /\ u.readfile_thread \in BOOLEAN
  /\ u.mutex \in {"free", "held", "destroyed"}
  /\ u.activecnt = Bit("READING" \in u.flags)
  /\ Active(u) <=> "READING" \in u.flags
  /\ u.active_handles = Bit((Active(u) \/ "CLOSING" \in u.flags) /\ "CLOSED" \notin u.flags)
  /\ u.flags \cap {"READING", "READ_PENDING"} # {} =>
       "PIPE_READ_CANCELABLE" \in u.flags /\ u.flags \cap {"ENDGAME_QUEUED", "CLOSING"} = {}
  /\ u.mutex = "destroyed" <=> "PIPE_READ_CANCELABLE" \notin u.flags
  /\ u.handle = FALSE => "CLOSING" \in u.flags
  /\ "CLOSED" \in u.flags => "CLOSING" \in u.flags /\ "ENDGAME_QUEUED" \notin u.flags

PrPausing == pc.at \in {"pause", "paused"}

\* The handler of a read runs.
PrHandling ==
  \/ pc.at = "req_end"
  \/ PrPausing /\ pc.back = "req_end"
  \/ pc.at = "close_pipe" /\ cb = "read"

PrPlace ==
  /\ \/ pc = [at |-> "loop"] /\ cb \in {"none", "close"}
     \/ pc = [at |-> "req_end"] /\ cb \in {"none", "read"}
     \/ pc = [at |-> "close_pipe"] /\ cb \in {"none", "read"} /\ "CLOSING" \in h.flags
     \/ /\ pc = [at |-> pc.at, why |-> pc.why, back |-> pc.back] /\ PrPausing
        /\ (pc.back = "loop" /\ cb = "none") \/ (pc.back = "req_end" /\ cb = "read")
        /\ pc.why = "close" => "CLOSING" \in h.flags
  /\ cb = "close" => "CLOSING" \in h.flags
  /\ "CLOSED" \in h.flags => pc.at = "loop"

\* Who pauses the reading has the mutex, and when it goes on the thread is
\* out of ReadFile.
PrTouches ==
  /\ h.mutex = "held" <=> PrPausing /\ "PIPE_READ_CANCELABLE" \in h.flags
  /\ pc.at = "pause" => "PIPE_READ_CANCELABLE" \in h.flags
  /\ pc.at = "paused" => h.readfile_thread = FALSE

\* readfile_thread is the thread from when it is on its way into ReadFile until
\* it has said that it is back.
PrThread ==
  /\ kernel = [at |-> kernel.at, hThread |-> kernel.hThread]
  /\ kernel.at \in {"none", "queued", "restart_readfile", "ReadFile", "aborted", "relock", "done",
                    "close_thread", "post"}
  /\ h.readfile_thread = TRUE <=> kernel.at \in {"restart_readfile", "ReadFile", "aborted", "done"}
  /\ kernel.at \notin {"none", "queued", "post"} => kernel.hThread = TRUE
  /\ pending \in Seq({"read"})
  /\ Bit(kernel.at # "none") + Len(pending) = Bit("READ_PENDING" \in h.flags)

PrInv ==
  /\ PrHandle(h) /\ PrPlace /\ PrTouches /\ PrThread
  /\ h.reqs_pending = Bit("READ_PENDING" \in h.flags) + Bit(PrHandling)
  /\ hist = [data |-> hist.data, arrived |-> hist.arrived, dead |-> hist.dead] /\ hist.dead = FALSE

\* What PipeRead has by extending UvHandle is what is here.
LEMMA PrOperators ==
  /\ \A u, f : Pr!Is(u, f) <=> f \in u.flags
  /\ \A b : Pr!Bit(b) = Bit(b)
  /\ \A u, F : Pr!Set(u, F) = Set(u, F) /\ Pr!Clear(u, F) = Clear(u, F)
  /\ \A u : /\ Pr!INCREASE_ACTIVE_COUNT(u) = INCREASE_ACTIVE_COUNT(u)
            /\ Pr!DECREASE_ACTIVE_COUNT(u) = DECREASE_ACTIVE_COUNT(u)
            /\ Pr!INCREASE_PENDING(u) = INCREASE_PENDING(u)
            /\ Pr!DECREASE_PENDING_REQ_COUNT(u) = DECREASE_PENDING_REQ_COUNT(u)
            /\ Pr!uv__handle_closing(u) = uv__handle_closing(u)
            /\ Pr!uv__handle_close(u) = uv__handle_close(u)
            /\ Pr!uv_want_endgame(u) = Set(u, {"ENDGAME_QUEUED"})
            /\ Pr!EndgameIfIdle(u) = IF u.reqs_pending = 0 THEN Set(u, {"ENDGAME_QUEUED"}) ELSE u
<1>1. \A u, F : Pr!Set(u, F) = Set(u, F) /\ Pr!Clear(u, F) = Clear(u, F)
  BY DEF Pr!Set, Pr!Clear, Set, Clear
<1>2. \A u, f : Pr!Is(u, f) <=> f \in u.flags
  BY DEF Pr!Is
<1>3. \A b : Pr!Bit(b) = Bit(b)
  BY DEF Pr!Bit, Bit
<1>4. \A u : /\ Pr!INCREASE_ACTIVE_COUNT(u) = INCREASE_ACTIVE_COUNT(u)
             /\ Pr!DECREASE_ACTIVE_COUNT(u) = DECREASE_ACTIVE_COUNT(u)
  BY DEF Pr!INCREASE_ACTIVE_COUNT, Pr!uv__handle_start, Pr!Set, Pr!Clear, Pr!Is,
     Pr!DECREASE_ACTIVE_COUNT, Pr!uv__handle_stop, INCREASE_ACTIVE_COUNT, uv__handle_start,
     Set, Clear, Is, DECREASE_ACTIVE_COUNT, uv__handle_stop
<1>5. \A u : /\ Pr!INCREASE_PENDING(u) = INCREASE_PENDING(u)
             /\ Pr!DECREASE_PENDING_REQ_COUNT(u) = DECREASE_PENDING_REQ_COUNT(u)
             /\ Pr!uv__handle_closing(u) = uv__handle_closing(u)
             /\ Pr!uv__handle_close(u) = uv__handle_close(u)
             /\ Pr!uv_want_endgame(u) = Set(u, {"ENDGAME_QUEUED"})
             /\ Pr!EndgameIfIdle(u) = IF u.reqs_pending = 0 THEN Set(u, {"ENDGAME_QUEUED"}) ELSE u
  BY DEF Pr!INCREASE_PENDING, Pr!DECREASE_PENDING_REQ_COUNT, Pr!uv__handle_closing,
     Pr!uv__handle_close, Pr!Set, Pr!Clear, Pr!Is, Pr!Bit, Pr!uv_want_endgame, Pr!EndgameIfIdle,
     INCREASE_PENDING, DECREASE_PENDING_REQ_COUNT, uv__handle_closing, uv__handle_close,
     Set, Clear, Is, Bit, uv_want_endgame
<1> QED
  BY <1>1, <1>2, <1>3, <1>4, <1>5

\* The pipe as it is made satisfies the invariant.
LEMMA PrInit == Pr!Init => PrInv
<1> SUFFICES ASSUME Pr!Init PROVE PrInv
  OBVIOUS
<1>1. /\ h = [flags |-> {"CONNECTION", "READABLE", "PIPE_READ_CANCELABLE"},
              activecnt |-> 0, reqs_pending |-> 0, active_reqs |-> {}, active_handles |-> 0,
              handle |-> TRUE, readfile_thread |-> FALSE, mutex |-> "free"]
      /\ kernel = [at |-> "none", hThread |-> FALSE]
      /\ pending = <<>> /\ pc = [at |-> "loop"] /\ cb = "none"
      /\ hist = [data |-> 0, arrived |-> 0, dead |-> FALSE]
  BY DEF Pr!Init
<1>2. DOMAIN h = BaseFields \cup PrFields /\ h = [x \in DOMAIN h |-> h[x]]
  BY <1>1 DEF BaseFields, PrFields
<1>3. PrHandle(h)
  BY <1>1, <1>2 DEF PrHandle, IsHandle, IsRecord, Active, Bit
<1>4. pending \in Seq({"read"}) /\ Len(pending) = 0
  BY <1>1, EmptySeq
<1>5. ~PrHandling
  BY <1>1 DEF PrHandling, PrPausing
<1>6. PrPlace
  BY <1>1 DEF PrPlace
<1>7. PrTouches
  BY <1>1 DEF PrTouches, PrPausing
<1>8. PrThread
  BY <1>1, <1>4 DEF PrThread, Bit
<1> QED
  BY <1>1, <1>3, <1>5, <1>6, <1>7, <1>8 DEF PrInv, Bit

\* readfile_thread is set or cleared, which nothing else of the handle is about.
LEMMA PrThreadSet ==
  ASSUME NEW u, PrHandle(u), NEW b \in BOOLEAN, NEW v, v = [u EXCEPT !.readfile_thread = b]
  PROVE  /\ PrHandle(v) /\ v.flags = u.flags /\ v.reqs_pending = u.reqs_pending
         /\ v.mutex = u.mutex /\ v.handle = u.handle /\ v.readfile_thread = b
<1>1. IsHandle(u) /\ IsRecord(u, PrFields)
  BY DEF PrHandle
<1>2. /\ IsHandle(v) /\ IsRecord(v, PrFields) /\ v.readfile_thread = b
      /\ v.flags = u.flags /\ v.activecnt = u.activecnt /\ v.reqs_pending = u.reqs_pending
      /\ v.active_handles = u.active_handles /\ v.mutex = u.mutex /\ v.handle = u.handle
  BY <1>1 DEF IsHandle, IsRecord, BaseFields, PrFields
<1>3. Active(v) <=> Active(u)
  BY <1>2 DEF Active
<1> QED
  BY <1>2, <1>3 DEF PrHandle

\* So is the mutex, and the handle of the system.
LEMMA PrMutexSet ==
  ASSUME NEW u, PrHandle(u), "PIPE_READ_CANCELABLE" \in u.flags, NEW m \in {"free", "held"},
         NEW v, v = [u EXCEPT !.mutex = m]
  PROVE  /\ PrHandle(v) /\ v.flags = u.flags /\ v.reqs_pending = u.reqs_pending
         /\ v.mutex = m /\ v.handle = u.handle /\ v.readfile_thread = u.readfile_thread
<1>1. IsHandle(u) /\ IsRecord(u, PrFields)
  BY DEF PrHandle
<1>2. /\ IsHandle(v) /\ IsRecord(v, PrFields) /\ v.mutex = m
      /\ v.flags = u.flags /\ v.activecnt = u.activecnt /\ v.reqs_pending = u.reqs_pending
      /\ v.active_handles = u.active_handles /\ v.handle = u.handle
      /\ v.readfile_thread = u.readfile_thread
  BY <1>1 DEF IsHandle, IsRecord, BaseFields, PrFields
<1>3. Active(v) <=> Active(u)
  BY <1>2 DEF Active
<1> QED
  BY <1>2, <1>3 DEF PrHandle

\* The flags that say what is to come change, and what is counted with them.
LEMMA PrFlags ==
  ASSUME NEW u, PrHandle(u), NEW v, IsHandle(v), Changes(u, v, BaseFields),
         v.activecnt = Bit("READING" \in v.flags), Active(v) <=> "READING" \in v.flags,
         v.active_handles = Bit((Active(v) \/ "CLOSING" \in v.flags) /\ "CLOSED" \notin v.flags),
         v.flags \cap {"READING", "READ_PENDING"} # {} =>
           "PIPE_READ_CANCELABLE" \in v.flags /\ v.flags \cap {"ENDGAME_QUEUED", "CLOSING"} = {},
         "PIPE_READ_CANCELABLE" \in v.flags <=> "PIPE_READ_CANCELABLE" \in u.flags,
         "CLOSING" \in u.flags => "CLOSING" \in v.flags,
         "CLOSED" \in v.flags => "CLOSING" \in v.flags /\ "ENDGAME_QUEUED" \notin v.flags
  PROVE  /\ PrHandle(v) /\ v.mutex = u.mutex /\ v.handle = u.handle
         /\ v.readfile_thread = u.readfile_thread
<1>1. /\ IsRecord(v, PrFields) /\ v.mutex = u.mutex /\ v.handle = u.handle
      /\ v.readfile_thread = u.readfile_thread
  BY DEF PrHandle, IsRecord, PrFields, BaseFields, Changes
<1> QED
  BY <1>1 DEF PrHandle

-----------------------------------------------------------------------------
(* The thread.                                                             *)

\* A step of the thread changes readfile_thread and its own place, and takes
\* the mutex only when that is free.
LEMMA PrThreadMoves ==
  ASSUME PrInv, UNCHANGED <<pc, cb, calls>>, PrHandle(h'), h'.flags = h.flags,
         h'.reqs_pending = h.reqs_pending, h'.mutex = h.mutex,
         h'.readfile_thread = h.readfile_thread \/ h'.readfile_thread = FALSE \/ h.mutex = "free",
         PrThread', UNCHANGED hist \/ hist' = [hist EXCEPT !.dead = FALSE]
  PROVE  PrInv'
<1>1. PrHandling' <=> PrHandling
  BY DEF PrHandling, PrPausing
<1>2. PrPlace'
  BY DEF PrPlace, PrInv, PrPausing
<1>0. h.mutex = "destroyed" <=> "PIPE_READ_CANCELABLE" \notin h.flags
  BY DEF PrInv, PrHandle
<1>3. PrTouches'
  <2>1. CASE h.mutex = "free"
    BY <1>0, <2>1 DEF PrTouches, PrInv, PrPausing
  <2>2. CASE h'.readfile_thread = h.readfile_thread \/ h'.readfile_thread = FALSE
    BY <2>2 DEF PrTouches, PrInv, PrPausing
  <2> QED
    BY <2>1, <2>2
<1>4. hist' = [data |-> hist'.data, arrived |-> hist'.arrived, dead |-> hist'.dead] /\ hist'.dead = FALSE
  BY DEF PrInv
<1> QED
  BY <1>1, <1>2, <1>3, <1>4 DEF PrInv

\* Who has the mutex of a pipe that can be read: nobody used a dead one.
LEMMA PrLocks ==
  ASSUME PrInv, NEW b \in BOOLEAN, Pr!Locked(b), kernel.at # "none"
  PROVE  /\ h.mutex = "free" /\ PrHandle(h') /\ h'.flags = h.flags
         /\ h'.reqs_pending = h.reqs_pending /\ h'.mutex = h.mutex /\ h'.readfile_thread = b
         /\ hist' = [hist EXCEPT !.dead = FALSE]
<1>1. "READ_PENDING" \in h.flags
  BY LenProperties DEF PrInv, PrThread, Bit
<1>2. h.mutex = "free" /\ PrHandle(h)
  BY <1>1 DEF PrInv, PrHandle, Pr!Locked
<1>3. hist.dead \/ h.mutex = "destroyed" <=> FALSE
  BY <1>2 DEF PrInv
<1>4. hist' = [hist EXCEPT !.dead = FALSE]
  <2>1. PICK d : d = (hist.dead \/ h.mutex = "destroyed")
    OBVIOUS
  <2>2. d = FALSE
    BY <1>3, <2>1
  <2> QED
    BY <2>1, <2>2 DEF Pr!Locked
<1>5. h' = [h EXCEPT !.readfile_thread = b]
  BY DEF Pr!Locked
<1> QED
  BY <1>2, <1>4, <1>5, PrThreadSet

\* The place of the thread changes, and what it has said.
LEMMA PrThreadAt ==
  ASSUME PrInv, NEW a, kernel' = [at |-> a, hThread |-> kernel'.hThread], kernel.at # "none",
         a \in {"restart_readfile", "ReadFile", "aborted", "relock", "done", "close_thread", "post"},
         h'.readfile_thread = TRUE <=> a \in {"restart_readfile", "ReadFile", "aborted", "done"},
         a # "post" => kernel'.hThread = TRUE, UNCHANGED pending, h'.flags = h.flags
  PROVE  PrThread'
<1>1. kernel'.at = a
  OBVIOUS
<1>2. Bit(kernel'.at # "none") = 1 /\ Bit(kernel.at # "none") = 1
  BY <1>1 DEF Bit
<1> QED
  BY <1>1, <1>2 DEF PrThread, PrInv


\* Each step of the thread keeps the invariant.
LEMMA PrStartsInv == DupFails = FALSE /\ PrInv /\ Pr!ThreadStarts => PrInv'
<1> SUFFICES ASSUME DupFails = FALSE, PrInv, Pr!ThreadStarts PROVE PrInv'
  OBVIOUS
<1>1. kernel.at = "queued" /\ UNCHANGED <<pc, cb, calls, pending>>
  BY DEF Pr!ThreadStarts, Pr!Only
<1>2. "PIPE_READ_CANCELABLE" \in h.flags
  <2>1. "READ_PENDING" \in h.flags
    BY <1>1, LenProperties DEF PrInv, PrThread, Bit
  <2> QED
    BY <2>1 DEF PrInv, PrHandle
<1>3. Pr!Locked(TRUE) /\ kernel' = [at |-> "restart_readfile", hThread |-> TRUE]
  BY <1>1, <1>2, PrOperators DEF Pr!ThreadStarts
<1>4. /\ h.mutex = "free" /\ PrHandle(h') /\ h'.flags = h.flags
      /\ h'.reqs_pending = h.reqs_pending /\ h'.mutex = h.mutex /\ h'.readfile_thread = TRUE
      /\ hist' = [hist EXCEPT !.dead = FALSE]
  BY <1>1, <1>3, PrLocks
<1>5. PrThread'
  BY <1>1, <1>3, <1>4, PrThreadAt
<1> QED
  BY <1>1, <1>4, <1>5, PrThreadMoves

LEMMA PrEntersInv == PrInv /\ Pr!EntersReadFile => PrInv'
<1> SUFFICES ASSUME PrInv, Pr!EntersReadFile PROVE PrInv'
  OBVIOUS
<1>1. /\ kernel.at = "restart_readfile" /\ UNCHANGED <<pc, cb, calls, h, pending, hist>>
      /\ kernel' = [kernel EXCEPT !.at = IF h.handle THEN "ReadFile" ELSE "failed"]
  BY DEF Pr!EntersReadFile, Pr!Thread, Pr!Only
<1>2. h.handle = TRUE /\ PrHandle(h)
  <2>1. "READ_PENDING" \in h.flags
    BY <1>1, LenProperties DEF PrInv, PrThread, Bit
  <2> QED
    BY <2>1 DEF PrInv, PrHandle
<1>3. kernel = [at |-> kernel.at, hThread |-> kernel.hThread] /\ kernel.hThread = TRUE
      /\ h.readfile_thread = TRUE
  BY <1>1 DEF PrInv, PrThread
<1>4. kernel' = [at |-> "ReadFile", hThread |-> kernel.hThread]
  <2>1. kernel' = [kernel EXCEPT !.at = "ReadFile"]
    BY <1>1, <1>2
  <2> QED
    BY <1>3, <2>1
<1>5. PrThread'
  BY <1>1, <1>3, <1>4, PrThreadAt
<1> QED
  BY <1>1, <1>2, <1>5, PrThreadMoves

LEMMA PrReturnsInv == PrInv /\ Pr!ReadFileReturns => PrInv'
<1> SUFFICES ASSUME PrInv, Pr!ReadFileReturns PROVE PrInv'
  OBVIOUS
<1>1. /\ kernel.at = "ReadFile" /\ UNCHANGED <<pc, cb, calls, h, pending, hist>>
      /\ kernel' = [kernel EXCEPT !.at = "done"]
  BY DEF Pr!ReadFileReturns, Pr!Thread, Pr!Only
<1>2. kernel = [at |-> kernel.at, hThread |-> kernel.hThread] /\ kernel.hThread = TRUE
      /\ h.readfile_thread = TRUE /\ PrHandle(h)
  BY <1>1 DEF PrInv, PrThread
<1>3. kernel' = [at |-> "done", hThread |-> kernel.hThread]
  BY <1>1, <1>2
<1>4. PrThread'
  BY <1>1, <1>2, <1>3, PrThreadAt
<1> QED
  BY <1>1, <1>2, <1>4, PrThreadMoves

LEMMA PrAbortedInv == PrInv /\ Pr!ThreadAborted => PrInv'
<1> SUFFICES ASSUME PrInv, Pr!ThreadAborted PROVE PrInv'
  OBVIOUS
<1>1. kernel.at = "aborted" /\ UNCHANGED <<pc, cb, calls, pending, hist>> /\ PrHandle(h)
  BY DEF Pr!ThreadAborted, Pr!Only, PrInv
<1>2. kernel = [at |-> kernel.at, hThread |-> kernel.hThread] /\ kernel.hThread = TRUE
      /\ h.readfile_thread = TRUE
  BY <1>1 DEF PrInv, PrThread
<1>3. CASE Pr!BreakOff(h)
  <2>1. h' = [h EXCEPT !.readfile_thread = FALSE] /\ kernel' = [kernel EXCEPT !.at = "relock"]
    BY <1>1, <1>3 DEF Pr!ThreadAborted
  <2>2. kernel' = [at |-> "relock", hThread |-> kernel.hThread]
    BY <1>2, <2>1
  <2>3. /\ PrHandle(h') /\ h'.flags = h.flags /\ h'.reqs_pending = h.reqs_pending
        /\ h'.mutex = h.mutex /\ h'.readfile_thread = FALSE
    BY <1>1, <2>1, PrThreadSet
  <2>4. PrThread'
    BY <1>1, <1>2, <2>2, <2>3, PrThreadAt
  <2> QED
    BY <1>1, <2>3, <2>4, PrThreadMoves
<1>4. CASE ~Pr!BreakOff(h)
  <2>1. h' = h /\ kernel' = [kernel EXCEPT !.at = "done"]
    BY <1>1, <1>4 DEF Pr!ThreadAborted
  <2>2. kernel' = [at |-> "done", hThread |-> kernel.hThread]
    BY <1>2, <2>1
  <2>3. PrThread'
    BY <1>1, <1>2, <2>1, <2>2, PrThreadAt
  <2> QED
    BY <1>1, <2>1, <2>3, PrThreadMoves
<1> QED
  BY <1>3, <1>4

LEMMA PrResumesInv == PrInv /\ Pr!ThreadResumes => PrInv'
<1> SUFFICES ASSUME PrInv, Pr!ThreadResumes PROVE PrInv'
  OBVIOUS
<1>1. /\ kernel.at = "relock" /\ UNCHANGED <<pc, cb, calls, pending>>
      /\ kernel' = [kernel EXCEPT !.at = "restart_readfile"] /\ Pr!Locked(kernel.hThread)
  BY DEF Pr!ThreadResumes, Pr!Thread, Pr!Only
<1>2. kernel = [at |-> kernel.at, hThread |-> kernel.hThread] /\ kernel.hThread = TRUE
  BY <1>1 DEF PrInv, PrThread
<1>3. kernel' = [at |-> "restart_readfile", hThread |-> kernel.hThread]
  BY <1>1, <1>2
<1>4. Pr!Locked(TRUE)
  BY <1>1, <1>2
<1>5. /\ h.mutex = "free" /\ PrHandle(h') /\ h'.flags = h.flags
      /\ h'.reqs_pending = h.reqs_pending /\ h'.mutex = h.mutex /\ h'.readfile_thread = TRUE
      /\ hist' = [hist EXCEPT !.dead = FALSE]
  BY <1>1, <1>4, PrLocks
<1>6. PrThread'
  BY <1>1, <1>2, <1>3, <1>5, PrThreadAt
<1> QED
  BY <1>1, <1>5, <1>6, PrThreadMoves

LEMMA PrClearsInv == PrInv /\ Pr!ThreadClears => PrInv'
<1> SUFFICES ASSUME PrInv, Pr!ThreadClears PROVE PrInv'
  OBVIOUS
<1>1. kernel.at = "done" /\ UNCHANGED <<pc, cb, calls, pending, hist>> /\ PrHandle(h)
  BY DEF Pr!ThreadClears, Pr!Only, PrInv, PrThread
<1>2. kernel = [at |-> kernel.at, hThread |-> kernel.hThread] /\ kernel.hThread = TRUE
  BY <1>1 DEF PrInv, PrThread
<1>3. h' = [h EXCEPT !.readfile_thread = FALSE] /\ kernel' = [kernel EXCEPT !.at = "close_thread"]
  BY <1>2 DEF Pr!ThreadClears
<1>4. kernel' = [at |-> "close_thread", hThread |-> kernel.hThread]
  BY <1>2, <1>3
<1>5. /\ PrHandle(h') /\ h'.flags = h.flags /\ h'.reqs_pending = h.reqs_pending
      /\ h'.mutex = h.mutex /\ h'.readfile_thread = FALSE
  BY <1>1, <1>3, PrThreadSet
<1>6. PrThread'
  BY <1>1, <1>2, <1>4, <1>5, PrThreadAt
<1> QED
  BY <1>1, <1>5, <1>6, PrThreadMoves

LEMMA PrClosesThreadInv == PrInv /\ Pr!ThreadClosesHandle => PrInv'
<1> SUFFICES ASSUME PrInv, Pr!ThreadClosesHandle PROVE PrInv'
  OBVIOUS
<1>1. /\ kernel.at = "close_thread" /\ UNCHANGED <<pc, cb, calls, pending>>
      /\ kernel' = [kernel EXCEPT !.at = "post"] /\ Pr!Locked(h.readfile_thread)
  BY DEF Pr!ThreadClosesHandle, Pr!Thread, Pr!Only
<1>2. /\ kernel = [at |-> kernel.at, hThread |-> kernel.hThread] /\ h.readfile_thread \in BOOLEAN
      /\ h.readfile_thread # TRUE
  BY <1>1 DEF PrInv, PrThread, PrHandle
<1>3. kernel' = [at |-> "post", hThread |-> kernel.hThread]
  BY <1>1, <1>2
<1>4. h.readfile_thread = FALSE
  BY <1>2
<1>5. Pr!Locked(FALSE)
  BY <1>1, <1>4
<1>6. /\ h.mutex = "free" /\ PrHandle(h') /\ h'.flags = h.flags
      /\ h'.reqs_pending = h.reqs_pending /\ h'.mutex = h.mutex /\ h'.readfile_thread = FALSE
      /\ hist' = [hist EXCEPT !.dead = FALSE]
  BY <1>1, <1>5, PrLocks
<1>7. PrThread'
  BY <1>1, <1>3, <1>6, PrThreadAt
<1> QED
  BY <1>1, <1>6, <1>7, PrThreadMoves

LEMMA PrPostsInv == PrInv /\ Pr!ThreadPosts => PrInv'
<1> SUFFICES ASSUME PrInv, Pr!ThreadPosts PROVE PrInv'
  OBVIOUS
<1>1. /\ kernel.at = "post" /\ UNCHANGED <<pc, cb, calls, h, hist>> /\ PrHandle(h)
      /\ kernel' = [kernel EXCEPT !.at = "none"] /\ pending' = Append(pending, "read")
  BY DEF Pr!ThreadPosts, Pr!Thread, Pr!Only, PrInv
<1>2. kernel = [at |-> kernel.at, hThread |-> kernel.hThread] /\ pending \in Seq({"read"})
      /\ h.readfile_thread # TRUE /\ Bit(kernel.at # "none") + Len(pending) = Bit("READ_PENDING" \in h.flags)
  BY <1>1 DEF PrInv, PrThread
<1>3. kernel' = [at |-> "none", hThread |-> kernel.hThread]
  BY <1>1, <1>2
<1>4. pending' \in Seq({"read"}) /\ Len(pending) \in Nat /\ Len(pending') = Len(pending) + 1
  BY <1>1, <1>2, AppendProperties, LenProperties
<1>5. Bit(kernel.at # "none") = 1 /\ Bit(kernel'.at # "none") = 0
  BY <1>1, <1>3 DEF Bit
<1>6. Bit(kernel'.at # "none") + Len(pending') = Bit("READ_PENDING" \in h.flags)
  BY ONLY <1>2, <1>4, <1>5
<1>7. PrThread'
  BY <1>1, <1>2, <1>3, <1>4, <1>6 DEF PrThread
<1> QED
  BY <1>1, <1>7, PrThreadMoves

\* What the loop's thread does to get it out of ReadFile.
LEMMA PrCancelInv == PrInv /\ Pr!CancelOnce => PrInv'
<1> SUFFICES ASSUME PrInv, Pr!CancelOnce PROVE PrInv'
  OBVIOUS
<1>1. /\ UNCHANGED <<pc, cb, calls, h, pending, hist>> /\ PrHandle(h) /\ h.readfile_thread
      /\ kernel' = [kernel EXCEPT !.at = IF @ = "ReadFile" THEN "aborted" ELSE @]
  BY DEF Pr!CancelOnce, PrInv
<1>2. h.readfile_thread = TRUE
  BY <1>1 DEF PrHandle
<1>3. kernel = [at |-> kernel.at, hThread |-> kernel.hThread] /\ kernel.hThread = TRUE
      /\ kernel.at \in {"restart_readfile", "ReadFile", "aborted", "done"}
  BY <1>2 DEF PrInv, PrThread
<1>4. PICK a : a = IF kernel.at = "ReadFile" THEN "aborted" ELSE kernel.at
  OBVIOUS
<1>5. kernel' = [at |-> a, hThread |-> kernel.hThread]
  BY <1>1, <1>3, <1>4
<1>6. a \in {"restart_readfile", "aborted", "done"}
  BY <1>3, <1>4
<1>7. PrThread'
  BY <1>1, <1>2, <1>3, <1>5, <1>6, PrThreadAt
<1> QED
  BY <1>1, <1>7, PrThreadMoves


-----------------------------------------------------------------------------
(* The loop's thread.                                                      *)

\* The thread is left alone.
LEMMA PrSameThread ==
  ASSUME PrInv, UNCHANGED <<kernel, pending>>, h'.readfile_thread = h.readfile_thread,
         "READ_PENDING" \in h'.flags <=> "READ_PENDING" \in h.flags
  PROVE  PrThread'
BY DEF PrInv, PrThread, Bit

\* No read is out: the thread is at rest.
LEMMA PrNobodyReads ==
  ASSUME PrInv, "READ_PENDING" \notin h.flags
  PROVE  kernel.at = "none" /\ Len(pending) = 0 /\ h.readfile_thread = FALSE
<1>1. Len(pending) \in Nat /\ Bit(kernel.at # "none") + Len(pending) = 0
  BY LenProperties DEF PrInv, PrThread, Bit
<1>2. kernel.at = "none" /\ Len(pending) = 0
  BY ONLY <1>1 DEF Bit
<1> QED
  BY <1>2 DEF PrInv, PrThread, PrHandle

\* Where the user may call.
LEMMA PrUser ==
  ASSUME PrInv, Pr!User
  PROVE  /\ "CLOSING" \notin h.flags /\ UNCHANGED cb /\ PrHandle(h) /\ "CLOSED" \notin h.flags
         /\ \/ pc = [at |-> "loop"] /\ cb = "none"
            \/ pc = [at |-> "req_end"] /\ cb = "read"
         /\ ~PrPausing /\ h.mutex # "held"
<1>1. "CLOSING" \notin h.flags /\ UNCHANGED cb /\ PrHandle(h) /\ "CLOSED" \notin h.flags
  BY PrOperators DEF Pr!User, PrInv, PrHandle
<1>2. \/ cb = "none" /\ pc.at = "loop"
      \/ cb # "none" /\ pc.at \in {"loop", "req_end"}
  BY DEF Pr!User, Pr!At
<1>3. \/ pc = [at |-> "loop"] /\ cb = "none"
      \/ pc = [at |-> "req_end"] /\ cb = "read"
  BY <1>1, <1>2 DEF PrInv, PrPlace, PrPausing
<1>4. ~PrPausing
  BY <1>3 DEF PrPausing
<1> QED
  BY <1>1, <1>3, <1>4 DEF PrInv, PrTouches

\* uv__pipe_queue_read: a read is out again.
LEMMA PrQueues ==
  ASSUME NEW u, PrHandle(u), "READING" \in u.flags, "READ_PENDING" \notin u.flags,
         NEW v, v = Set(INCREASE_PENDING(u), {"READ_PENDING"})
  PROVE  /\ PrHandle(v) /\ v.flags = u.flags \cup {"READ_PENDING"}
         /\ v.reqs_pending = u.reqs_pending + 1 /\ v.mutex = u.mutex
         /\ v.readfile_thread = u.readfile_thread
<1>1. PICK p : p = INCREASE_PENDING(u)
  OBVIOUS
<1>2. IsHandle(u)
  BY DEF PrHandle
<1>3. IsHandle(p) /\ Changes(u, p, {"reqs_pending"}) /\ p.reqs_pending = u.reqs_pending + 1
  BY <1>1, <1>2, PendingUp
<1>4. IsHandle(v) /\ Changes(p, v, {"flags"}) /\ v.flags = p.flags \cup {"READ_PENDING"}
  BY <1>1, <1>3, Setting
<1>5. /\ v.flags = u.flags \cup {"READ_PENDING"} /\ v.reqs_pending = u.reqs_pending + 1
      /\ v.activecnt = u.activecnt /\ v.active_handles = u.active_handles
      /\ Changes(u, v, BaseFields)
  BY <1>2, <1>3, <1>4 DEF IsHandle, IsRecord, BaseFields, Changes
<1>6. Active(v) <=> Active(u)
  BY <1>5 DEF Active
<1>7. "READING" \in v.flags <=> "READING" \in u.flags
  BY <1>5
<1>8. /\ u.flags \cap {"ENDGAME_QUEUED", "CLOSING", "CLOSED"} = {}
      /\ "PIPE_READ_CANCELABLE" \in u.flags /\ u.activecnt = 1 /\ Active(u) /\ u.active_handles = 1
  BY DEF PrHandle, Bit
<1>9. /\ v.flags \cap {"ENDGAME_QUEUED", "CLOSING", "CLOSED"} = {} /\ "READING" \in v.flags
      /\ "PIPE_READ_CANCELABLE" \in v.flags /\ v.activecnt = 1 /\ Active(v) /\ v.active_handles = 1
  BY <1>5, <1>6, <1>7, <1>8
<1>10. /\ v.activecnt = Bit("READING" \in v.flags)
       /\ v.active_handles = Bit((Active(v) \/ "CLOSING" \in v.flags) /\ "CLOSED" \notin v.flags)
  BY <1>9 DEF Bit
<1>11. PrHandle(v) /\ v.mutex = u.mutex /\ v.handle = u.handle /\ v.readfile_thread = u.readfile_thread
  BY <1>4, <1>5, <1>8, <1>9, <1>10, PrFlags
<1> QED
  BY <1>5, <1>11

\* The handle begins to read, and is active.
LEMMA PrBegins ==
  ASSUME NEW u, PrHandle(u), "READING" \notin u.flags, "PIPE_READ_CANCELABLE" \in u.flags,
         u.flags \cap {"ENDGAME_QUEUED", "CLOSING"} = {},
         NEW v, v = INCREASE_ACTIVE_COUNT(Set(u, {"READING"}))
  PROVE  /\ PrHandle(v) /\ v.flags = u.flags \cup {"READING", "ACTIVE"}
         /\ v.reqs_pending = u.reqs_pending /\ v.mutex = u.mutex
         /\ v.readfile_thread = u.readfile_thread
<1>1. PICK p : p = Set(u, {"READING"})
  OBVIOUS
<1>2. IsHandle(u) /\ u.activecnt = 0 /\ ~Active(u) /\ u.active_handles = 0
  BY DEF PrHandle, Bit
<1>3. IsHandle(p) /\ Changes(u, p, {"flags"}) /\ p.flags = u.flags \cup {"READING"}
  BY <1>1, <1>2, Setting
<1>4. p.activecnt = 0 /\ p.active_handles = 0 /\ ~Active(p) /\ p.reqs_pending = u.reqs_pending
  BY <1>2, <1>3 DEF IsHandle, IsRecord, BaseFields, Changes, Active
<1>5. /\ IsHandle(v) /\ Changes(p, v, {"flags", "activecnt", "active_handles"})
      /\ v.activecnt = 1 /\ v.flags = p.flags \cup {"ACTIVE"} /\ v.active_handles = 1
  <2>1. v = INCREASE_ACTIVE_COUNT(p)
    BY <1>1
  <2>2. /\ IsHandle(v) /\ Changes(p, v, {"flags", "activecnt", "active_handles"})
        /\ v.activecnt = p.activecnt + 1
        /\ v.flags = IF p.activecnt = 0 THEN p.flags \cup {"ACTIVE"} ELSE p.flags
        /\ v.active_handles = p.active_handles + Bit(p.activecnt = 0 /\ ~Active(p))
    BY ONLY <1>3, <2>1, ActiveCountUp
  <2> QED
    BY ONLY <1>4, <2>2 DEF Bit
<1>6. /\ v.flags = u.flags \cup {"READING", "ACTIVE"} /\ v.reqs_pending = u.reqs_pending
      /\ Changes(u, v, BaseFields)
  BY <1>2, <1>3, <1>4, <1>5 DEF IsHandle, IsRecord, BaseFields, Changes
<1>7. Active(v) /\ "READING" \in v.flags /\ "CLOSED" \notin v.flags
  BY <1>6 DEF Active, PrHandle
<1>8. PrHandle(v) /\ v.mutex = u.mutex /\ v.handle = u.handle /\ v.readfile_thread = u.readfile_thread
  BY <1>5, <1>6, <1>7, PrFlags DEF Bit
<1> QED
  BY <1>6, <1>8

\* It reads no more, and is not active.
LEMMA PrEnds ==
  ASSUME NEW u, PrHandle(u), "READING" \in u.flags,
         NEW v, v = DECREASE_ACTIVE_COUNT(Clear(u, {"READING"}))
  PROVE  /\ PrHandle(v) /\ v.flags = u.flags \ {"READING", "ACTIVE"}
         /\ v.reqs_pending = u.reqs_pending /\ v.mutex = u.mutex
         /\ v.readfile_thread = u.readfile_thread
<1>1. PICK p : p = Clear(u, {"READING"})
  OBVIOUS
<1>2. /\ IsHandle(u) /\ u.activecnt = 1 /\ Active(u) /\ u.active_handles = 1
      /\ "CLOSING" \notin u.flags /\ "CLOSED" \notin u.flags
  BY DEF PrHandle, Bit
<1>3. IsHandle(p) /\ Changes(u, p, {"flags"}) /\ p.flags = u.flags \ {"READING"}
  BY <1>1, <1>2, Clearing
<1>4. p.activecnt = 1 /\ p.active_handles = 1 /\ Active(p) /\ p.reqs_pending = u.reqs_pending
      /\ "CLOSING" \notin p.flags
  BY <1>2, <1>3 DEF IsHandle, IsRecord, BaseFields, Changes, Active
<1>5. /\ IsHandle(v) /\ Changes(p, v, {"flags", "activecnt", "active_handles"})
      /\ v.activecnt = 0 /\ v.flags = p.flags \ {"ACTIVE"} /\ v.active_handles = 0
  <2>1. v = DECREASE_ACTIVE_COUNT(p)
    BY <1>1
  <2>2. /\ IsHandle(v) /\ Changes(p, v, {"flags", "activecnt", "active_handles"})
        /\ v.activecnt = p.activecnt - 1
        /\ v.flags = IF p.activecnt = 1 /\ "CLOSING" \notin p.flags
                     THEN p.flags \ {"ACTIVE"} ELSE p.flags
        /\ v.active_handles = p.active_handles
              - Bit(p.activecnt = 1 /\ "CLOSING" \notin p.flags /\ Active(p))
    BY ONLY <1>3, <2>1, ActiveCountDown
  <2> QED
    BY ONLY <1>4, <2>2 DEF Bit
<1>6. /\ v.flags = u.flags \ {"READING", "ACTIVE"} /\ v.reqs_pending = u.reqs_pending
      /\ Changes(u, v, BaseFields)
  BY <1>2, <1>3, <1>4, <1>5 DEF IsHandle, IsRecord, BaseFields, Changes
<1>7. ~Active(v) /\ "READING" \notin v.flags /\ "CLOSED" \notin v.flags /\ "CLOSING" \notin v.flags
  BY <1>2, <1>6 DEF Active
<1>8. v.flags \cap {"READING", "READ_PENDING"} # {} =>
        "PIPE_READ_CANCELABLE" \in v.flags /\ v.flags \cap {"ENDGAME_QUEUED", "CLOSING"} = {}
  BY <1>2, <1>6 DEF PrHandle
<1>9. PrHandle(v) /\ v.mutex = u.mutex /\ v.handle = u.handle /\ v.readfile_thread = u.readfile_thread
  BY <1>2, <1>5, <1>6, <1>7, <1>8, PrFlags DEF Bit
<1> QED
  BY <1>6, <1>9

\* uv_pipe_read_start keeps the invariant.
LEMMA PrStartInv == ShutsDownReading = FALSE /\ PrInv /\ Pr!uv_pipe_read_start => PrInv'
<1> SUFFICES ASSUME ShutsDownReading = FALSE, PrInv, Pr!uv_pipe_read_start PROVE PrInv'
  OBVIOUS
<1>1. /\ "CLOSING" \notin h.flags /\ UNCHANGED cb /\ PrHandle(h)
      /\ \/ pc = [at |-> "loop"] /\ cb = "none"
         \/ pc = [at |-> "req_end"] /\ cb = "read"
      /\ ~PrPausing /\ h.mutex # "held"
  BY PrUser DEF Pr!uv_pipe_read_start
<1>2. /\ "READING" \notin h.flags /\ "PIPE_READ_CANCELABLE" \in h.flags
      /\ "ENDGAME_QUEUED" \notin h.flags /\ UNCHANGED <<pending, pc, hist>>
  BY PrOperators DEF Pr!uv_pipe_read_start
<1>3. PICK p : p = INCREASE_ACTIVE_COUNT(Set(h, {"READING"}))
  OBVIOUS
<1>4. IF "READ_PENDING" \in p.flags THEN h' = p /\ UNCHANGED kernel ELSE Pr!QueueRead(p)
  <2>1. LET q == Pr!INCREASE_ACTIVE_COUNT(Pr!Set(h, {"READING"}))
        IN  IF "READ_PENDING" \in h.flags THEN h' = q /\ UNCHANGED kernel ELSE Pr!QueueRead(q)
    BY PrOperators DEF Pr!uv_pipe_read_start
  <2>2. IF "READ_PENDING" \in h.flags THEN h' = p /\ UNCHANGED kernel ELSE Pr!QueueRead(p)
    BY <1>3, <2>1, PrOperators
  <2>3. p.flags = h.flags \cup {"READING", "ACTIVE"}
    BY <1>1, <1>2, <1>3, PrBegins
  <2> QED
    BY <2>2, <2>3
<1>5. /\ PrHandle(p) /\ p.flags = h.flags \cup {"READING", "ACTIVE"}
      /\ p.reqs_pending = h.reqs_pending /\ p.mutex = h.mutex
      /\ p.readfile_thread = h.readfile_thread
  BY <1>1, <1>2, <1>3, PrBegins
<1>6. PrHandling' <=> PrHandling
  BY <1>1, <1>2 DEF PrHandling, PrPausing
<1>7. CASE "READ_PENDING" \in p.flags
  <2>1. h' = p /\ UNCHANGED kernel
    BY <1>4, <1>7
  <2>2. PrThread'
    BY <1>2, <1>5, <2>1, PrSameThread
  <2>3. PrPlace'
    BY <1>1, <1>2, <1>5, <2>1 DEF PrPlace, PrInv
  <2>4. PrTouches'
    BY <1>1, <1>2, <1>5, <2>1 DEF PrTouches, PrInv, PrPausing
  <2> QED
    BY <1>2, <1>5, <1>6, <2>1, <2>2, <2>3, <2>4 DEF PrInv, Bit
<1>8. CASE "READ_PENDING" \notin p.flags
  <2>1. h' = Set(INCREASE_PENDING(p), {"READ_PENDING"}) /\ kernel' = [at |-> "queued", hThread |-> FALSE]
    BY <1>4, <1>8, PrOperators DEF Pr!QueueRead
  <2>2. /\ PrHandle(h') /\ h'.flags = p.flags \cup {"READ_PENDING"}
        /\ h'.reqs_pending = p.reqs_pending + 1 /\ h'.mutex = p.mutex
        /\ h'.readfile_thread = p.readfile_thread
    BY <1>5, <1>8, <2>1, PrQueues
  <2>0. "READ_PENDING" \notin h.flags
    BY <1>5, <1>8
  <2>3. kernel.at = "none" /\ Len(pending) = 0 /\ h.readfile_thread # TRUE
    BY <2>0, PrNobodyReads
  <2>4. PrThread'
    BY <1>2, <1>5, <2>1, <2>2, <2>3 DEF PrThread, PrInv, Bit
  <2>5. PrPlace'
    BY <1>1, <1>2, <1>5, <2>2 DEF PrPlace, PrInv
  <2>6. PrTouches'
    BY <1>1, <1>2, <1>5, <2>2 DEF PrTouches, PrInv, PrPausing
  <2>7. h'.reqs_pending = Bit("READ_PENDING" \in h'.flags) + Bit(PrHandling')
    BY <1>5, <1>6, <1>8, <2>2 DEF PrInv, Bit
  <2> QED
    BY <1>2, <2>2, <2>4, <2>5, <2>6, <2>7 DEF PrInv
<1> QED
  BY <1>7, <1>8

\* Where the loop is when it pauses the reading.
LEMMA PrPaused ==
  ASSUME NEW a \in {"pause", "paused"}, NEW why, pc' = [at |-> a, why |-> why, back |-> pc.at],
         \/ pc = [at |-> "loop"] /\ cb = "none"
         \/ pc = [at |-> "req_end"] /\ cb = "read",
         UNCHANGED cb, "CLOSED" \notin h'.flags, why = "close" => "CLOSING" \in h'.flags
  PROVE  PrPlace'
<1>1. pc'.at = a /\ pc'.why = why /\ pc'.back = pc.at /\ pc' = [at |-> pc'.at, why |-> pc'.why, back |-> pc'.back]
  OBVIOUS
<1>2. PrPausing'
  BY <1>1 DEF PrPausing
<1>3. (pc'.back = "loop" /\ cb' = "none") \/ (pc'.back = "req_end" /\ cb' = "read")
  <2>1. CASE pc = [at |-> "loop"] /\ cb = "none"
    <3>1. pc.at = "loop"
      BY <2>1
    <3>2. pc'.back = "loop"
      BY ONLY <3>1, <1>1
    <3>3. cb' = "none"
      BY <2>1
    <3> QED
      BY ONLY <3>2, <3>3
  <2>2. CASE pc = [at |-> "req_end"] /\ cb = "read"
    <3>1. pc.at = "req_end"
      BY <2>2
    <3>2. pc'.back = "req_end"
      BY ONLY <3>1, <1>1
    <3>3. cb' = "read"
      BY <2>2
    <3> QED
      BY ONLY <3>2, <3>3
  <2> QED
    BY <2>1, <2>2
<1>4. cb' # "close"
  BY <1>3
<1> QED
  BY <1>1, <1>2, <1>3, <1>4 DEF PrPlace

\* uv__pipe_pause_read: the mutex is taken, if the thread needs it.
LEMMA PrPauses ==
  ASSUME PrInv, NEW p, PrHandle(p), NEW why, Pr!Pause(p, why), h.mutex # "held", ~PrPausing,
         \/ pc = [at |-> "loop"] /\ cb = "none"
         \/ pc = [at |-> "req_end"] /\ cb = "read",
         UNCHANGED <<kernel, pending, cb, hist>>, "CLOSED" \notin p.flags,
         why = "close" => "CLOSING" \in p.flags,
         "READ_PENDING" \in p.flags <=> "READ_PENDING" \in h.flags,
         "PIPE_READ_CANCELABLE" \in p.flags <=> "PIPE_READ_CANCELABLE" \in h.flags,
         p.reqs_pending = h.reqs_pending, p.mutex = h.mutex, p.readfile_thread = h.readfile_thread
  PROVE  PrInv'
<1>1. PrHandling' <=> PrHandling
  <2>1. pc' = [at |-> "pause", why |-> why, back |-> pc.at] \/ pc' = [at |-> "paused", why |-> why, back |-> pc.at]
    BY DEF Pr!Pause
  <2>2. pc'.at \in {"pause", "paused"} /\ pc'.back = pc.at
    BY <2>1
  <2> QED
    BY <2>2 DEF PrHandling, PrPausing
<1>2. CASE "PIPE_READ_CANCELABLE" \in p.flags
  <2>1. h' = [p EXCEPT !.mutex = "held"] /\ pc' = [at |-> "pause", why |-> why, back |-> pc.at]
    BY <1>2, PrOperators DEF Pr!Pause
  <2>2. /\ PrHandle(h') /\ h'.flags = p.flags /\ h'.reqs_pending = p.reqs_pending
        /\ h'.mutex = "held" /\ h'.readfile_thread = p.readfile_thread
    BY <1>2, <2>1, PrMutexSet
  <2>3. PrThread'
    BY <2>2, PrSameThread
  <2>4. pc'.at = "pause" /\ pc'.why = why /\ pc'.back = pc.at /\ pc.at \in {"loop", "req_end"}
    BY <2>1
  <2>5. PrPlace'
    BY <2>1, <2>2, <2>4, PrPaused
  <2>6. PrTouches'
    BY <1>2, <2>2, <2>4 DEF PrTouches, PrPausing
  <2> QED
    BY <1>1, <2>2, <2>3, <2>5, <2>6 DEF PrInv, Bit
<1>3. CASE "PIPE_READ_CANCELABLE" \notin p.flags
  <2>1. h' = p /\ pc' = [at |-> "paused", why |-> why, back |-> pc.at]
    BY <1>3, PrOperators DEF Pr!Pause
  <2>2. "READ_PENDING" \notin h.flags
    BY <1>3 DEF PrInv, PrHandle
  <2>3. h.readfile_thread = FALSE
    BY <2>2, PrNobodyReads
  <2>4. PrThread'
    BY <2>1, PrSameThread
  <2>5. pc'.at = "paused" /\ pc'.why = why /\ pc'.back = pc.at /\ pc.at \in {"loop", "req_end"}
    BY <2>1
  <2>6. PrPlace'
    BY <2>1, <2>5, PrPaused
  <2>7. PrTouches'
    BY <1>3, <2>1, <2>3, <2>5 DEF PrTouches, PrPausing
  <2> QED
    BY <1>1, <2>1, <2>4, <2>6, <2>7 DEF PrInv, Bit
<1> QED
  BY <1>2, <1>3

\* uv_read_stop and uv__pipe_getname keep the invariant.
LEMMA PrStopInv == PrInv /\ (Pr!uv_read_stop \/ Pr!uv__pipe_getname) => PrInv'
<1> SUFFICES ASSUME PrInv, Pr!uv_read_stop \/ Pr!uv__pipe_getname PROVE PrInv'
  OBVIOUS
<1>1. /\ "CLOSING" \notin h.flags /\ UNCHANGED cb /\ PrHandle(h) /\ "CLOSED" \notin h.flags
      /\ \/ pc = [at |-> "loop"] /\ cb = "none"
         \/ pc = [at |-> "req_end"] /\ cb = "read"
      /\ ~PrPausing /\ h.mutex # "held"
  BY PrUser DEF Pr!uv_read_stop, Pr!uv__pipe_getname
<1>2. UNCHANGED <<kernel, pending, hist>>
  BY DEF Pr!uv_read_stop, Pr!uv__pipe_getname
<1>3. CASE Pr!uv__pipe_getname
  <2>1. Pr!Pause(h, "getname")
    BY <1>3 DEF Pr!uv__pipe_getname
  <2> QED
    BY <1>1, <1>2, <2>1, PrPauses
<1>4. CASE Pr!uv_read_stop
  <2>1. PICK p : p = DECREASE_ACTIVE_COUNT(Clear(h, {"READING"}))
    OBVIOUS
  <2>2. Pr!Pause(p, "stop") /\ "READING" \in h.flags
    BY <1>4, <2>1, PrOperators DEF Pr!uv_read_stop, Pr!StopReading
  <2>3. /\ PrHandle(p) /\ p.flags = h.flags \ {"READING", "ACTIVE"}
        /\ p.reqs_pending = h.reqs_pending /\ p.mutex = h.mutex
        /\ p.readfile_thread = h.readfile_thread
    BY <1>1, <2>1, <2>2, PrEnds
  <2> QED
    BY <1>1, <1>2, <2>2, <2>3, PrPauses
<1> QED
  BY <1>3, <1>4


\* uv_pipe_close keeps the invariant: nothing was being read.
LEMMA PrCloses ==
  ASSUME NEW u, PrHandle(u), "CLOSING" \notin u.flags, "READ_PENDING" \notin u.flags,
         "READING" \notin u.flags, "CLOSED" \notin u.flags,
         NEW c, c = Clear(u, {"READABLE", "WRITABLE"}),
         NEW e, e = IF c.reqs_pending = 0 THEN Set(c, {"ENDGAME_QUEUED"}) ELSE c,
         NEW v, v = uv__handle_closing(e)
  PROVE  /\ PrHandle(v) /\ "CLOSING" \in v.flags /\ "CLOSED" \notin v.flags
         /\ "READ_PENDING" \notin v.flags
         /\ "PIPE_READ_CANCELABLE" \in v.flags <=> "PIPE_READ_CANCELABLE" \in u.flags
         /\ v.reqs_pending = u.reqs_pending /\ v.mutex = u.mutex
         /\ v.readfile_thread = u.readfile_thread
<1>1. IsHandle(u) /\ u.activecnt = 0 /\ ~Active(u) /\ u.active_handles = 0
  BY DEF PrHandle, Bit
<1>2. IsHandle(c) /\ Changes(u, c, {"flags"}) /\ c.flags = u.flags \ {"READABLE", "WRITABLE"}
  BY <1>1, Clearing
<1>3. /\ IsHandle(e) /\ Changes(c, e, {"flags"})
      /\ e.flags = c.flags \cup {"ENDGAME_QUEUED"} \/ e.flags = c.flags
  <2>1. CASE c.reqs_pending = 0
    BY <1>2, <2>1, Setting
  <2>2. CASE c.reqs_pending # 0
    BY <1>2, <2>2 DEF IsHandle, IsRecord, Changes
  <2> QED
    BY <2>1, <2>2
<1>4. ~Active(e) /\ e.active_handles = 0 /\ e.activecnt = 0 /\ e.reqs_pending = u.reqs_pending
  BY <1>1, <1>2, <1>3 DEF IsHandle, IsRecord, BaseFields, Changes, Active
<1>5. /\ IsHandle(v) /\ Changes(e, v, {"flags", "active_handles"})
      /\ v.flags = (e.flags \ {"ACTIVE"}) \cup {"CLOSING"} /\ v.active_handles = 1
  BY <1>3, <1>4, Closing DEF Bit
<1>6. /\ v.reqs_pending = u.reqs_pending /\ v.activecnt = 0 /\ Changes(u, v, BaseFields)
  BY <1>1, <1>2, <1>3, <1>4, <1>5 DEF IsHandle, IsRecord, BaseFields, Changes
<1>7. /\ ~Active(v) /\ "CLOSING" \in v.flags /\ {"CLOSED", "READING", "READ_PENDING"} \cap v.flags = {}
      /\ "PIPE_READ_CANCELABLE" \in v.flags <=> "PIPE_READ_CANCELABLE" \in u.flags
  BY <1>2, <1>3, <1>5 DEF Active
<1>8. PrHandle(v) /\ v.mutex = u.mutex /\ v.handle = u.handle /\ v.readfile_thread = u.readfile_thread
  BY <1>5, <1>6, <1>7, PrFlags DEF Bit
<1> QED
  BY <1>6, <1>7, <1>8

LEMMA PrCloseInv == ClosesReading = FALSE /\ PrInv /\ Pr!uv_pipe_close => PrInv'
<1> SUFFICES ASSUME ClosesReading = FALSE, PrInv, Pr!uv_pipe_close PROVE PrInv'
  OBVIOUS
<1>1. /\ "CLOSING" \notin h.flags /\ UNCHANGED cb /\ PrHandle(h) /\ "CLOSED" \notin h.flags
      /\ \/ pc = [at |-> "loop"] /\ cb = "none"
         \/ pc = [at |-> "req_end"] /\ cb = "read"
      /\ ~PrPausing /\ h.mutex # "held"
  BY PrUser DEF Pr!uv_pipe_close
<1>2. "READ_PENDING" \notin h.flags /\ UNCHANGED <<kernel, pending, hist>>
  BY PrOperators DEF Pr!uv_pipe_close
<1>3. PICK p : p = IF "READING" \in h.flags THEN DECREASE_ACTIVE_COUNT(Clear(h, {"READING"})) ELSE h
  OBVIOUS
<1>4. PICK c, e, v : /\ c = Clear(p, {"READABLE", "WRITABLE"})
                     /\ e = IF c.reqs_pending = 0 THEN Set(c, {"ENDGAME_QUEUED"}) ELSE c
                     /\ v = uv__handle_closing(e)
  OBVIOUS
<1>5. Pr!Pause(v, "close")
  <2>1. Pr!Pause(Pr!uv__handle_closing(Pr!EndgameIfIdle(Pr!Clear(
          IF Pr!Is(h, "READING") THEN Pr!DECREASE_ACTIVE_COUNT(Pr!Clear(h, {"READING"})) ELSE h,
          {"READABLE", "WRITABLE"}))), "close")
    BY DEF Pr!uv_pipe_close, Pr!StopReading
  <2>2. p = IF Pr!Is(h, "READING") THEN Pr!DECREASE_ACTIVE_COUNT(Pr!Clear(h, {"READING"})) ELSE h
    BY <1>3, PrOperators
  <2>3. Pr!Pause(Pr!uv__handle_closing(Pr!EndgameIfIdle(Pr!Clear(p, {"READABLE", "WRITABLE"}))), "close")
    BY ONLY <2>1, <2>2
  <2> QED
    BY <1>4, <2>3, PrOperators
<1>6. /\ PrHandle(p) /\ {"CLOSING", "READ_PENDING", "READING", "CLOSED"} \cap p.flags = {}
      /\ "PIPE_READ_CANCELABLE" \in p.flags <=> "PIPE_READ_CANCELABLE" \in h.flags
      /\ p.reqs_pending = h.reqs_pending /\ p.mutex = h.mutex
      /\ p.readfile_thread = h.readfile_thread
  <2>1. CASE "READING" \in h.flags
    <3>1. /\ PrHandle(p) /\ p.flags = h.flags \ {"READING", "ACTIVE"}
          /\ p.reqs_pending = h.reqs_pending /\ p.mutex = h.mutex
          /\ p.readfile_thread = h.readfile_thread
      BY <1>1, <1>3, <2>1, PrEnds
    <3> QED
      BY <1>1, <1>2, <3>1
  <2>2. CASE "READING" \notin h.flags
    BY <1>1, <1>2, <1>3, <2>2
  <2> QED
    BY <2>1, <2>2
<1>7. /\ PrHandle(v) /\ "CLOSING" \in v.flags /\ "CLOSED" \notin v.flags
      /\ "READ_PENDING" \notin v.flags
      /\ "PIPE_READ_CANCELABLE" \in v.flags <=> "PIPE_READ_CANCELABLE" \in p.flags
      /\ v.reqs_pending = p.reqs_pending /\ v.mutex = p.mutex
      /\ v.readfile_thread = p.readfile_thread
  <2>1. /\ "CLOSING" \notin p.flags /\ "READ_PENDING" \notin p.flags /\ "READING" \notin p.flags
        /\ "CLOSED" \notin p.flags
    BY <1>6
  <2> QED
    BY ONLY <1>4, <1>6, <2>1, PrCloses
<1> QED
  BY <1>1, <1>2, <1>5, <1>6, <1>7, PrPauses

\* The pause is over, and what it was for is done.
LEMMA PrUnpauseInv == PrInv /\ (Pr!PauseDone \/ Pr!Unpause) => PrInv'
<1> SUFFICES ASSUME PrInv, Pr!PauseDone \/ Pr!Unpause PROVE PrInv'
  OBVIOUS
<1>1. UNCHANGED <<kernel, pending, cb, hist>> /\ PrHandle(h) /\ PrPausing
  BY DEF Pr!PauseDone, Pr!Unpause, PrInv, PrPausing
<1>2. /\ pc = [at |-> pc.at, why |-> pc.why, back |-> pc.back]
      /\ (pc.back = "loop" /\ cb = "none") \/ (pc.back = "req_end" /\ cb = "read")
      /\ pc.why = "close" => "CLOSING" \in h.flags
      /\ "CLOSED" \notin h.flags
  <2>1. pc.at \notin {"loop", "req_end", "close_pipe"}
    BY <1>1 DEF PrPausing
  <2> QED
    BY <2>1 DEF PrInv, PrPlace
<1>3. CASE Pr!PauseDone
  <2>1. /\ pc.at = "pause" /\ h.readfile_thread = FALSE /\ pc' = [pc EXCEPT !.at = "paused"]
        /\ h' = h
    BY <1>1, <1>3 DEF Pr!PauseDone, PrHandle
  <2>2. pc' = [at |-> "paused", why |-> pc.why, back |-> pc.back]
    BY <1>2, <2>1
  <2>3. pc'.at = "paused" /\ pc'.why = pc.why /\ pc'.back = pc.back
        /\ pc' = [at |-> pc'.at, why |-> pc'.why, back |-> pc'.back]
    BY <2>2
  <2>4. PrPausing' /\ (PrHandling' <=> PrHandling)
    BY <1>1, <2>3 DEF PrPausing, PrHandling
  <2>5. PrPlace'
    BY <1>1, <1>2, <2>1, <2>3, <2>4 DEF PrPlace
  <2>6. PrTouches'
    BY <1>1, <2>1, <2>3, <2>4 DEF PrTouches, PrInv
  <2>7. PrThread'
    BY <1>1, <2>1, PrSameThread
  <2> QED
    BY <1>1, <2>1, <2>4, <2>5, <2>6, <2>7 DEF PrInv, Bit
<1>4. CASE Pr!Unpause
  <2>1. /\ pc.at = "paused"
        /\ h' = IF "PIPE_READ_CANCELABLE" \in h.flags THEN [h EXCEPT !.mutex = "free"] ELSE h
        /\ pc' = [at |-> IF pc.why = "close" THEN "close_pipe" ELSE pc.back]
    BY <1>4, PrOperators DEF Pr!Unpause
  <2>2. /\ PrHandle(h') /\ h'.flags = h.flags /\ h'.reqs_pending = h.reqs_pending
        /\ h'.mutex # "held" /\ h'.readfile_thread = h.readfile_thread
    <3>1. CASE "PIPE_READ_CANCELABLE" \in h.flags
      BY <1>1, <2>1, <3>1, PrMutexSet
    <3>2. CASE "PIPE_READ_CANCELABLE" \notin h.flags
      BY <1>1, <2>1, <3>2 DEF PrHandle
    <3> QED
      BY <3>1, <3>2
  <2>3. \/ pc' = [at |-> "close_pipe"] /\ cb \in {"none", "read"} /\ "CLOSING" \in h.flags
        \/ pc' = [at |-> "loop"] /\ cb = "none"
        \/ pc' = [at |-> "req_end"] /\ cb = "read"
    BY <1>2, <2>1
  <2>4. ~PrPausing'
    BY <2>3 DEF PrPausing
  <2>5. PrHandling' <=> PrHandling
    BY <1>1, <1>2, <2>1, <2>3, <2>4 DEF PrHandling, PrPausing
  <2>6. PrPlace'
    BY <1>1, <1>2, <2>2, <2>3 DEF PrPlace
  <2>7. PrTouches'
    BY <2>2, <2>4 DEF PrTouches, PrPausing
  <2>8. PrThread'
    BY <1>1, <2>2, PrSameThread
  <2> QED
    BY <1>1, <2>2, <2>5, <2>6, <2>7, <2>8 DEF PrInv
<1> QED
  BY <1>3, <1>4

\* The pipe of the system is closed, when nobody reads from it any more.
LEMMA PrClosePipeInv == PrInv /\ Pr!ClosePipe => PrInv'
<1> SUFFICES ASSUME PrInv, Pr!ClosePipe PROVE PrInv'
  OBVIOUS
<1>1. /\ pc.at = "close_pipe" /\ h' = [h EXCEPT !.handle = FALSE]
      /\ pc' = [at |-> IF cb = "none" THEN "loop" ELSE "req_end"]
      /\ UNCHANGED <<kernel, pending, cb, hist>> /\ PrHandle(h)
  BY DEF Pr!ClosePipe, PrInv
<1>2. cb \in {"none", "read"} /\ "CLOSING" \in h.flags /\ "CLOSED" \notin h.flags /\ ~PrPausing
  BY <1>1 DEF PrInv, PrPlace, PrPausing
<1>3. /\ PrHandle(h') /\ h'.flags = h.flags /\ h'.reqs_pending = h.reqs_pending
      /\ h'.mutex = h.mutex /\ h'.readfile_thread = h.readfile_thread
  <2>1. IsHandle(h) /\ IsRecord(h, PrFields)
    BY <1>1 DEF PrHandle
  <2>2. /\ IsHandle(h') /\ IsRecord(h', PrFields) /\ h'.handle = FALSE
        /\ h'.flags = h.flags /\ h'.activecnt = h.activecnt /\ h'.reqs_pending = h.reqs_pending
        /\ h'.active_handles = h.active_handles /\ h'.mutex = h.mutex
        /\ h'.readfile_thread = h.readfile_thread
    BY <1>1, <2>1 DEF IsHandle, IsRecord, BaseFields, PrFields
  <2>3. Active(h') <=> Active(h)
    BY <2>2 DEF Active
  <2> QED
    BY <1>1, <1>2, <2>2, <2>3 DEF PrHandle
<1>4. \/ pc' = [at |-> "loop"] /\ cb = "none"
      \/ pc' = [at |-> "req_end"] /\ cb = "read"
  BY <1>1, <1>2
<1>5. ~PrPausing' /\ (PrHandling' <=> PrHandling)
  BY <1>1, <1>2, <1>4 DEF PrPausing, PrHandling
<1>6. PrPlace'
  BY <1>1, <1>2, <1>3, <1>4 DEF PrPlace
<1>7. PrTouches'
  BY <1>2, <1>3, <1>4, <1>5 DEF PrTouches, PrInv, PrPausing
<1>8. PrThread'
  BY <1>1, <1>3, PrSameThread
<1> QED
  BY <1>1, <1>3, <1>5, <1>6, <1>7, <1>8 DEF PrInv, Bit

\* uv_shutdown of a pipe that is not read from.
LEMMA PrShutdownInv == ShutsDownReading = FALSE /\ PrInv /\ Pr!uv_shutdown => PrInv'
<1> SUFFICES ASSUME ShutsDownReading = FALSE, PrInv, Pr!uv_shutdown PROVE PrInv'
  OBVIOUS
<1>1. /\ "CLOSING" \notin h.flags /\ UNCHANGED cb /\ PrHandle(h) /\ "CLOSED" \notin h.flags
  BY PrUser DEF Pr!uv_shutdown
<1>2. /\ h.flags \cap {"READING", "READ_PENDING"} = {} /\ h' = Set(h, {"ENDGAME_QUEUED"})
      /\ UNCHANGED <<kernel, pending, pc, hist>>
  BY PrOperators DEF Pr!uv_shutdown
<1>3. IsHandle(h') /\ Changes(h, h', {"flags"}) /\ h'.flags = h.flags \cup {"ENDGAME_QUEUED"}
  BY <1>1, <1>2, Setting DEF PrHandle
<1>4. /\ h'.reqs_pending = h.reqs_pending /\ h'.activecnt = h.activecnt
      /\ h'.active_handles = h.active_handles /\ Changes(h, h', BaseFields)
  BY <1>1, <1>3 DEF PrHandle, IsHandle, IsRecord, BaseFields, Changes
<1>5. {"READING", "READ_PENDING", "CLOSING", "CLOSED"} \cap h'.flags = {} /\ (Active(h') <=> Active(h))
  BY <1>1, <1>2, <1>3 DEF Active
<1>6. h.activecnt = 0 /\ ~Active(h) /\ h.active_handles = 0
  BY <1>1, <1>2 DEF PrHandle, Bit
<1>7. PrHandle(h') /\ h'.mutex = h.mutex /\ h'.handle = h.handle
      /\ h'.readfile_thread = h.readfile_thread
  BY <1>1, <1>3, <1>4, <1>5, <1>6, PrFlags DEF Bit
<1>8. PrHandling' <=> PrHandling
  BY <1>1, <1>2 DEF PrHandling, PrPausing
<1>9. PrPlace'
  BY <1>1, <1>2, <1>3, <1>5 DEF PrPlace, PrInv, PrPausing
<1>10. PrTouches'
  BY <1>2, <1>3, <1>7 DEF PrTouches, PrInv, PrPausing
<1>11. PrThread'
  BY <1>2, <1>3, <1>7, PrSameThread
<1>12. "READ_PENDING" \in h'.flags <=> "READ_PENDING" \in h.flags
  BY <1>3
<1> QED
  BY <1>2, <1>4, <1>7, <1>8, <1>9, <1>10, <1>11, <1>12 DEF PrInv, Bit


\* uv_process_pipe_read_req: the read is back, and the handler begins.
LEMMA PrProcessInv == PrInv /\ Pr!uv_process_pipe_read_req => PrInv'
<1> SUFFICES ASSUME PrInv, Pr!uv_process_pipe_read_req PROVE PrInv'
  OBVIOUS
<1>1. /\ cb = "none" /\ pc.at = "loop" /\ pending # <<>> /\ pending' = Tail(pending)
      /\ h' = Clear(h, {"READ_PENDING"}) /\ UNCHANGED kernel /\ pc' = [at |-> "req_end"]
      /\ cb' \in {"none", "read"} /\ PrHandle(h)
  BY PrOperators DEF Pr!uv_process_pipe_read_req, Pr!At, PrInv
<1>2. hist' = [data |-> hist'.data, arrived |-> hist'.arrived, dead |-> hist'.dead] /\ hist'.dead = FALSE
  <2>1. PICK d : hist' = [hist EXCEPT !.data = d]
    BY DEF Pr!uv_process_pipe_read_req
  <2>2. hist = [data |-> hist.data, arrived |-> hist.arrived, dead |-> hist.dead] /\ hist.dead = FALSE
    BY DEF PrInv
  <2>3. hist' = [data |-> d, arrived |-> hist.arrived, dead |-> hist.dead]
    BY ONLY <2>1, <2>2
  <2> QED
    BY <2>2, <2>3
<1>3. /\ pending' \in Seq({"read"}) /\ Len(pending) \in Nat /\ Len(pending) > 0
      /\ Len(pending') = Len(pending) - 1
  BY <1>1, HeadTailProperties, LenProperties, EmptySeq DEF PrInv, PrThread
<1>4. "READ_PENDING" \in h.flags /\ kernel.at = "none" /\ Len(pending') = 0
  BY <1>3 DEF PrInv, PrThread, Bit
<1>5. IsHandle(h') /\ Changes(h, h', {"flags"}) /\ h'.flags = h.flags \ {"READ_PENDING"}
  BY <1>1, Clearing DEF PrHandle
<1>6. /\ h'.reqs_pending = h.reqs_pending /\ h'.activecnt = h.activecnt
      /\ h'.active_handles = h.active_handles /\ Changes(h, h', BaseFields)
  BY <1>1, <1>5 DEF PrHandle, IsHandle, IsRecord, BaseFields, Changes
<1>7. /\ {"ENDGAME_QUEUED", "CLOSING", "CLOSED"} \cap h'.flags = {} /\ (Active(h') <=> Active(h))
      /\ "PIPE_READ_CANCELABLE" \in h'.flags
  BY <1>1, <1>4, <1>5 DEF Active, PrHandle
<1>8. {"ENDGAME_QUEUED", "CLOSING", "CLOSED"} \cap h.flags = {} /\ "PIPE_READ_CANCELABLE" \in h.flags
  BY <1>5, <1>7
<1>9. /\ Active(h') <=> "READING" \in h'.flags
      /\ h'.activecnt = Bit("READING" \in h'.flags)
      /\ h'.active_handles = Bit((Active(h') \/ "CLOSING" \in h'.flags) /\ "CLOSED" \notin h'.flags)
  BY <1>1, <1>5, <1>6, <1>7, <1>8 DEF PrHandle, Bit
<1>10. PrHandle(h') /\ h'.mutex = h.mutex /\ h'.handle = h.handle
      /\ h'.readfile_thread = h.readfile_thread
  BY <1>1, <1>5, <1>6, <1>7, <1>8, <1>9, PrFlags
<1>11. PrHandling' /\ ~PrHandling /\ ~PrPausing /\ ~PrPausing'
  BY <1>1 DEF PrHandling, PrPausing
<1>12. PrPlace'
  BY <1>1, <1>7 DEF PrPlace
<1>13. PrTouches'
  BY <1>1, <1>10, <1>11 DEF PrTouches, PrInv, PrPausing
<1>14. PrThread'
  BY <1>1, <1>3, <1>4, <1>5, <1>10 DEF PrThread, PrInv, Bit
<1>15. h'.reqs_pending = Bit("READ_PENDING" \in h'.flags) + Bit(PrHandling')
  <2>1. h.reqs_pending = 1
    BY <1>4, <1>11 DEF PrInv, Bit
  <2>2. "READ_PENDING" \notin h'.flags
    BY <1>5
  <2> QED
    BY <1>6, <1>11, <2>1, <2>2 DEF Bit
<1> QED
  BY <1>2, <1>10, <1>12, <1>13, <1>14, <1>15 DEF PrInv

\* The end of the handler: a pipe that is read from reads on, one that closes
\* waits for the endgame.
LEMMA PrReqEndInv == PrInv /\ Pr!ReqEnd => PrInv'
<1> SUFFICES ASSUME PrInv, Pr!ReqEnd PROVE PrInv'
  OBVIOUS
<1>1. /\ cb = "none" /\ pc.at = "req_end" /\ pc' = [at |-> "loop"]
      /\ UNCHANGED <<pending, cb, hist>> /\ PrHandle(h)
  BY DEF Pr!ReqEnd, Pr!At, PrInv
<1>2. PrHandling /\ ~PrHandling' /\ ~PrPausing /\ ~PrPausing'
  BY <1>1 DEF PrHandling, PrPausing
<1>3. PICK p : p = DECREASE_PENDING_REQ_COUNT(h)
  OBVIOUS
<1>4. IF "READING" \in h.flags /\ "READ_PENDING" \notin h.flags THEN Pr!QueueRead(p)
      ELSE h' = p /\ UNCHANGED kernel
  BY <1>3, PrOperators DEF Pr!ReqEnd
<1>5. /\ IsHandle(p) /\ Changes(h, p, {"flags", "reqs_pending"})
      /\ p.reqs_pending = h.reqs_pending - 1
      /\ p.flags = IF "CLOSING" \in h.flags /\ h.reqs_pending = 1
                   THEN h.flags \cup {"ENDGAME_QUEUED"} ELSE h.flags
  BY <1>1, <1>3, PendingDown DEF PrHandle
<1>6. p.activecnt = h.activecnt /\ p.active_handles = h.active_handles /\ Changes(h, p, BaseFields)
  BY <1>1, <1>5 DEF PrHandle, IsHandle, IsRecord, BaseFields, Changes
<1>7. "CLOSED" \notin h.flags
  BY <1>1 DEF PrInv, PrPlace
<1>8. \/ p.flags = h.flags
      \/ p.flags = h.flags \cup {"ENDGAME_QUEUED"} /\ "CLOSING" \in h.flags
  BY <1>5
<1>9. /\ Active(p) <=> Active(h)
      /\ \A f \in {"READING", "READ_PENDING", "CLOSING", "CLOSED", "PIPE_READ_CANCELABLE"} :
           f \in p.flags <=> f \in h.flags
  BY <1>8 DEF Active
<1>10. PrHandle(p) /\ p.mutex = h.mutex /\ p.handle = h.handle
       /\ p.readfile_thread = h.readfile_thread
  <2>1. /\ p.activecnt = Bit("READING" \in p.flags) /\ (Active(p) <=> "READING" \in p.flags)
        /\ p.active_handles = Bit((Active(p) \/ "CLOSING" \in p.flags) /\ "CLOSED" \notin p.flags)
    BY <1>1, <1>6, <1>9 DEF PrHandle, Bit
  <2>2. p.flags \cap {"READING", "READ_PENDING"} # {} =>
          "PIPE_READ_CANCELABLE" \in p.flags /\ p.flags \cap {"ENDGAME_QUEUED", "CLOSING"} = {}
    BY <1>1, <1>8, <1>9 DEF PrHandle
  <2> QED
    BY <1>1, <1>5, <1>6, <1>7, <1>9, <2>1, <2>2, PrFlags
<1>11. p.reqs_pending = Bit("READ_PENDING" \in p.flags)
  <2>1. h.reqs_pending = Bit("READ_PENDING" \in h.flags) + 1
    BY <1>2 DEF PrInv, Bit
  <2>2. Bit("READ_PENDING" \in h.flags) \in Int /\ Bit("READ_PENDING" \in p.flags) = Bit("READ_PENDING" \in h.flags)
    BY <1>9 DEF Bit
  <2> QED
    BY ONLY <1>5, <2>1, <2>2
<1>12. CASE ~("READING" \in h.flags /\ "READ_PENDING" \notin h.flags)
  <2>1. h' = p /\ UNCHANGED kernel
    BY <1>4, <1>12
  <2>2. PrThread'
    BY <1>1, <1>9, <1>10, <2>1, PrSameThread
  <2>3. PrPlace'
    BY <1>1, <1>7, <1>9, <2>1 DEF PrPlace
  <2>4. PrTouches'
    BY <1>1, <1>2, <1>10, <2>1 DEF PrTouches, PrInv, PrPausing
  <2>5. h'.reqs_pending = Bit("READ_PENDING" \in h'.flags) + Bit(PrHandling')
    BY <1>2, <1>11, <2>1 DEF Bit
  <2> QED
    BY <1>1, <1>10, <2>1, <2>2, <2>3, <2>4, <2>5 DEF PrInv
<1>13. CASE "READING" \in h.flags /\ "READ_PENDING" \notin h.flags
  <2>1. h' = Set(INCREASE_PENDING(p), {"READ_PENDING"}) /\ kernel' = [at |-> "queued", hThread |-> FALSE]
    BY <1>4, <1>13, PrOperators DEF Pr!QueueRead
  <2>2. /\ PrHandle(h') /\ h'.flags = p.flags \cup {"READ_PENDING"}
        /\ h'.reqs_pending = p.reqs_pending + 1 /\ h'.mutex = p.mutex
        /\ h'.readfile_thread = p.readfile_thread
    BY <1>9, <1>10, <1>13, <2>1, PrQueues
  <2>3. kernel.at = "none" /\ Len(pending) = 0 /\ h.readfile_thread = FALSE
    BY <1>13, PrNobodyReads
  <2>4. PrThread'
    BY <1>1, <1>10, <2>1, <2>2, <2>3 DEF PrThread, PrInv, Bit
  <2>5. PrPlace'
    BY <1>1, <1>7, <1>9, <2>2 DEF PrPlace
  <2>6. PrTouches'
    BY <1>1, <1>2, <1>10, <2>2 DEF PrTouches, PrInv, PrPausing
  <2>7. h'.reqs_pending = Bit("READ_PENDING" \in h'.flags) + Bit(PrHandling')
    BY <1>2, <1>9, <1>11, <1>13, <2>2 DEF Bit
  <2> QED
    BY <1>1, <2>2, <2>4, <2>5, <2>6, <2>7 DEF PrInv
<1> QED
  BY <1>12, <1>13

\* uv_pipe_endgame: the mutex goes, when nobody reads.
LEMMA PrEndgameInv == PrInv /\ Pr!uv_pipe_endgame => PrInv'
<1> SUFFICES ASSUME PrInv, Pr!uv_pipe_endgame PROVE PrInv'
  OBVIOUS
<1>1. /\ cb = "none" /\ pc.at = "loop" /\ "ENDGAME_QUEUED" \in h.flags /\ PrHandle(h)
      /\ UNCHANGED <<kernel, pending, pc, hist>>
  BY PrOperators DEF Pr!uv_pipe_endgame, Pr!At, PrInv
<1>2. PICK c : c = Clear(h, {"ENDGAME_QUEUED", "PIPE_READ_CANCELABLE"})
  OBVIOUS
<1>3. PICK p : p = [c EXCEPT !.mutex = "destroyed"]
  OBVIOUS
<1>4. /\ h' = IF "CLOSING" \in p.flags /\ p.reqs_pending = 0 THEN uv__handle_close(p) ELSE p
      /\ cb' = IF "CLOSING" \in p.flags /\ p.reqs_pending = 0 THEN "close" ELSE "none"
  BY <1>2, <1>3, PrOperators DEF Pr!uv_pipe_endgame
<1>5. IsHandle(h) /\ IsRecord(h, PrFields)
  BY <1>1 DEF PrHandle
<1>6. /\ IsHandle(c) /\ Changes(h, c, {"flags"})
      /\ c.flags = h.flags \ {"ENDGAME_QUEUED", "PIPE_READ_CANCELABLE"}
  BY <1>2, <1>5, Clearing
<1>7. /\ IsRecord(c, PrFields) /\ c.activecnt = h.activecnt /\ c.reqs_pending = h.reqs_pending
      /\ c.active_handles = h.active_handles /\ c.handle = h.handle
      /\ c.readfile_thread = h.readfile_thread
  BY <1>5, <1>6 DEF IsHandle, IsRecord, BaseFields, PrFields, Changes
<1>8. /\ IsHandle(p) /\ IsRecord(p, PrFields) /\ p.flags = c.flags /\ p.mutex = "destroyed"
      /\ p.activecnt = h.activecnt /\ p.reqs_pending = h.reqs_pending
      /\ p.active_handles = h.active_handles /\ p.handle = h.handle
      /\ p.readfile_thread = h.readfile_thread
  BY <1>3, <1>6, <1>7 DEF IsHandle, IsRecord, BaseFields, PrFields
<1>9. {"READING", "READ_PENDING", "CLOSED"} \cap h.flags = {}
  BY <1>1 DEF PrHandle
<1>10. h.activecnt = 0 /\ ~Active(h) /\ h.active_handles = Bit("CLOSING" \in h.flags)
  BY <1>1, <1>9 DEF PrHandle, Bit
<1>11. /\ {"READING", "READ_PENDING", "CLOSED", "ENDGAME_QUEUED", "PIPE_READ_CANCELABLE"} \cap p.flags = {}
       /\ ~Active(p) /\ ("CLOSING" \in p.flags <=> "CLOSING" \in h.flags)
  BY <1>6, <1>8, <1>9, <1>10 DEF Active
<1>12. PrHandle(p)
  BY <1>1, <1>8, <1>10, <1>11 DEF PrHandle, Bit
<1>13. ~PrHandling /\ ~PrPausing /\ ~PrHandling' /\ ~PrPausing'
  BY <1>1 DEF PrHandling, PrPausing
<1>14. pc = [at |-> "loop"]
  BY <1>1, <1>13 DEF PrInv, PrPlace
<1>15. h.reqs_pending = 0
  BY <1>9, <1>13 DEF PrInv, Bit
<1>16. CASE "CLOSING" \in p.flags /\ p.reqs_pending = 0
  <2>1. h' = uv__handle_close(p) /\ cb' = "close"
    BY <1>4, <1>16
  <2>2. /\ IsHandle(h') /\ Changes(p, h', {"flags", "active_handles"})
        /\ h'.flags = p.flags \cup {"CLOSED"} /\ h'.active_handles = p.active_handles - 1
    BY <1>8, <2>1, Closed
  <2>3. /\ h'.activecnt = 0 /\ h'.active_handles = 0 /\ h'.reqs_pending = 0
        /\ Changes(p, h', BaseFields)
    BY <1>8, <1>10, <1>11, <1>15, <1>16, <2>2 DEF IsHandle, IsRecord, BaseFields, Changes, Bit
  <2>4. /\ {"CLOSING", "CLOSED"} \subseteq h'.flags /\ ~Active(h')
        /\ {"READING", "READ_PENDING", "ENDGAME_QUEUED", "PIPE_READ_CANCELABLE"} \cap h'.flags = {}
    BY <1>11, <1>16, <2>2 DEF Active
  <2>5. PrHandle(h') /\ h'.mutex = "destroyed" /\ h'.readfile_thread = h.readfile_thread
    <3>1. PrHandle(h') /\ h'.mutex = p.mutex /\ h'.handle = p.handle
          /\ h'.readfile_thread = p.readfile_thread
      BY <1>11, <1>12, <2>2, <2>3, <2>4, PrFlags DEF Bit
    <3> QED
      BY <1>8, <3>1
  <2>6. PrThread'
    BY <1>1, <1>9, <2>4, <2>5, PrSameThread
  <2>7. PrPlace'
    BY <1>1, <1>14, <2>1, <2>4 DEF PrPlace
  <2>8. PrTouches'
    BY <1>1, <1>13, <2>5, <1>14 DEF PrTouches, PrPausing
  <2> QED
    BY <1>1, <1>13, <2>3, <2>4, <2>5, <2>6, <2>7, <2>8 DEF PrInv, Bit
<1>17. CASE ~("CLOSING" \in p.flags /\ p.reqs_pending = 0)
  <2>1. h' = p /\ cb' = "none"
    BY <1>4, <1>17
  <2>2. PrThread'
    BY <1>1, <1>8, <1>9, <1>11, <2>1, PrSameThread
  <2>3. PrPlace'
    BY <1>1, <1>11, <1>14, <2>1 DEF PrPlace
  <2>4. PrTouches'
    BY <1>1, <1>8, <1>13, <1>14, <2>1 DEF PrTouches, PrPausing
  <2> QED
    BY <1>1, <1>8, <1>11, <1>12, <1>13, <1>15, <2>1, <2>2, <2>3, <2>4 DEF PrInv, Bit
<1> QED
  BY <1>16, <1>17

\* A callback returns; data arrive.
LEMMA PrOthersInv == PrInv /\ (Pr!CallbackReturns \/ Pr!DataArrive) => PrInv'
<1> SUFFICES ASSUME PrInv, Pr!CallbackReturns \/ Pr!DataArrive PROVE PrInv'
  OBVIOUS
<1>1. UNCHANGED <<h, kernel, pending, pc>>
  BY DEF Pr!CallbackReturns, Pr!DataArrive
<1>2. PrThread' /\ PrHandle(h')
  BY <1>1 DEF PrThread, PrInv
<1>3. PrTouches'
  BY <1>1 DEF PrTouches, PrInv, PrPausing
<1>4. CASE Pr!CallbackReturns
  <2>1. cb' = "none" /\ UNCHANGED hist /\ pc.at \in {"loop", "req_end"}
    BY <1>4 DEF Pr!CallbackReturns
  <2>2. PrPlace'
    BY <1>1, <2>1 DEF PrPlace, PrInv, PrPausing
  <2>3. PrHandling' <=> PrHandling
    BY <1>1, <2>1 DEF PrHandling, PrPausing
  <2> QED
    BY <1>1, <1>2, <1>3, <2>1, <2>2, <2>3 DEF PrInv, Bit
<1>5. CASE Pr!DataArrive
  <2>1. UNCHANGED cb
    BY <1>5 DEF Pr!DataArrive
  <2>2. PrPlace' /\ (PrHandling' <=> PrHandling)
    BY <1>1, <2>1 DEF PrPlace, PrInv, PrPausing, PrHandling
  <2>3. hist' = [data |-> hist'.data, arrived |-> hist'.arrived, dead |-> hist'.dead] /\ hist'.dead = FALSE
    <3>1. PICK n, d : hist' = [hist EXCEPT !.arrived = n, !.data = d]
      BY <1>5 DEF Pr!DataArrive
    <3>2. hist = [data |-> hist.data, arrived |-> hist.arrived, dead |-> hist.dead] /\ hist.dead = FALSE
      BY DEF PrInv
    <3>3. PICK x : x = [hist EXCEPT !.arrived = n]
      OBVIOUS
    <3>4. hist' = [x EXCEPT !.data = d]
      BY <3>1, <3>3
    <3>5. x = [data |-> hist.data, arrived |-> n, dead |-> hist.dead]
      BY ONLY <3>2, <3>3
    <3>6. hist' = [data |-> d, arrived |-> n, dead |-> hist.dead]
      BY ONLY <3>4, <3>5
    <3> QED
      BY <3>2, <3>6
  <2> QED
    BY <1>1, <1>2, <1>3, <2>1, <2>2, <2>3 DEF PrInv, Bit
<1> QED
  BY <1>4, <1>5

\* Every step keeps the invariant, in a program that does not shut down or
\* close what it reads from, while the thread's handle can be duplicated.
LEMMA PrNext ==
  ASSUME ShutsDownReading = FALSE, ClosesReading = FALSE, DupFails = FALSE, PrInv,
         [Pr!Next]_(Pr!vars)
  PROVE  PrInv'
<1>1. CASE UNCHANGED Pr!vars
  BY <1>1 DEF Pr!vars, PrInv, PrPlace, PrTouches, PrThread, PrHandling, PrPausing
<1>2. CASE Pr!ThreadStep \/ Pr!ReadFileReturns
  BY <1>2, PrStartsInv, PrEntersInv, PrReturnsInv, PrAbortedInv, PrResumesInv, PrClearsInv,
     PrClosesThreadInv, PrPostsInv DEF Pr!ThreadStep
<1>3. CASE Pr!UserCall
  BY <1>3, PrStartInv, PrStopInv, PrCloseInv, PrShutdownInv DEF Pr!UserCall
<1>4. CASE Pr!LoopStep
  BY <1>4, PrCancelInv, PrUnpauseInv, PrClosePipeInv, PrReqEndInv, PrOthersInv DEF Pr!LoopStep
<1> QED
  BY <1>1, <1>2, <1>3, <1>4, PrEndgameInv, PrProcessInv, PrOthersInv DEF Pr!Next

\* What the runs check of it follows.
LEMMA PrFollows == PrInv => Pr!PendingExact /\ Pr!ActiveExact /\ Pr!Armed
<1> SUFFICES ASSUME PrInv PROVE Pr!PendingExact /\ Pr!ActiveExact /\ Pr!Armed
  OBVIOUS
<1>1. PrHandle(h)
  BY DEF PrInv
<1>2. h.flags \cap {"ACTIVE", "CLOSING"} # {} <=> Active(h) \/ "CLOSING" \in h.flags
  BY DEF Active
<1>3. h.reqs_pending >= 0 /\ h.activecnt >= 0
  BY <1>1 DEF PrInv, PrHandle, Bit
<1>4. Pr!LoopKnows(h)
  BY <1>1, <1>2, <1>3, PrOperators DEF PrHandle, Pr!LoopKnows, Bit
<1>5. Pr!ActiveExact
  BY <1>1, <1>4, PrOperators DEF Pr!ActiveExact, PrHandle
<1>6. PrHandling <=> \/ pc.at = "req_end" \/ ("back" \in DOMAIN pc /\ pc.back = "req_end")
                     \/ (pc.at = "close_pipe" /\ cb = "read")
  BY DEF PrHandling, PrInv, PrPlace, PrPausing
<1>7. Len(pending) \in Nat /\ Bit(kernel.at # "none") + Len(pending) = Bit("READ_PENDING" \in h.flags)
  BY LenProperties DEF PrInv, PrThread
<1>8. "READ_PENDING" \in h.flags <=> kernel.at # "none" \/ pending # <<>>
  <2>1. pending # <<>> <=> Len(pending) # 0
    BY EmptySeq, LenProperties DEF PrInv, PrThread
  <2> QED
    BY <1>7, <2>1 DEF Bit
<1>9. h.reqs_pending = Bit(kernel.at # "none") + Len(pending) + Bit(PrHandling)
  BY <1>7 DEF PrInv, Bit
<1>10. Pr!PendingExact
  BY <1>6, <1>8, <1>9, PrOperators DEF Pr!PendingExact, Bit
<1>11. Pr!Armed
  BY <1>1 DEF Pr!Armed, PrInv, PrTouches, PrThread
<1> QED
  BY <1>5, <1>10, <1>11

-----------------------------------------------------------------------------
(* File system requests.                                                   *)

\* A step that fails releases all that the steps before it have got.
FrReleases(op) ==
  /\ op = [steps |-> op.steps, end |-> op.end, ptr |-> op.ptr]
  /\ Len(op.steps) \in Nat /\ DOMAIN op.steps = 1..Len(op.steps)
  /\ \A i, j \in 1..Len(op.steps) : j < i => op.steps[j].gets \subseteq op.steps[i].releases

\* What the operation has got in the end and not released.
FrKeeps(op, names) == (UNION {op.steps[i].gets : i \in DOMAIN op.steps}) \ op.end = names

\* So nothing is left of one that fails.
LEMMA FrNothingLeft ==
  ASSUME NEW op, FrReleases(op), NEW p \in 1..Len(op.steps)
  PROVE  Fr!Left(op, p) = {}
<1>1. p # 0 /\ p \in Int
  BY DEF FrReleases
<1>2. ASSUME NEW i \in 1..p - 1 PROVE op.steps[i].gets \subseteq op.steps[p].releases
  <2>1. i \in 1..Len(op.steps) /\ i < p
    BY <1>1 DEF FrReleases
  <2> QED
    BY <2>1 DEF FrReleases
<1>3. UNION {op.steps[i].gets : i \in 1..p - 1} \subseteq op.steps[p].releases
  BY <1>2
<1> QED
  BY <1>1, <1>3 DEF Fr!Left

LEMMA FrWithHandle ==
  ASSUME NEW ptr, NEW op, op = Fr!WithHandle(ptr)
  PROVE  FrReleases(op) /\ FrKeeps(op, {})
<1>1. op.steps =
        <<Fr!S({"handle"}, {}), Fr!S({}, {"handle"})>>
  BY DEF Fr!WithHandle, Fr!Op
<1>2. op = [steps |-> op.steps, end |-> op.end, ptr |-> op.ptr] /\ op.end = {"handle"}
  BY DEF Fr!WithHandle, Fr!Op
<1>3. Len(op.steps) = 2 /\ DOMAIN op.steps = 1..2
  BY <1>1
<1>4. /\ op.steps[1].gets = {"handle"} /\ op.steps[2].gets = {}
  BY <1>1 DEF Fr!S
<1>5. /\ op.steps[1].releases = {} /\ op.steps[2].releases = {"handle"}
  BY <1>1 DEF Fr!S
<1>6. ASSUME NEW i \in 1..2, NEW j \in 1..2, j < i
      PROVE  op.steps[j].gets \subseteq op.steps[i].releases
  <2>1. i \in {2} /\ j \in {1}
    BY ONLY <1>6
  <2> QED
    BY <1>4, <1>5, <1>6, <2>1
<1>7. FrReleases(op)
  BY <1>2, <1>3, <1>6 DEF FrReleases
<1>8. UNION {op.steps[i].gets : i \in 1..2} = {"handle"}
  BY <1>4
<1> QED
  BY <1>2, <1>3, <1>7, <1>8 DEF FrKeeps

LEMMA FrOpen ==
  ASSUME NEW op, op = Fr!fs__open
  PROVE  FrReleases(op) /\ FrKeeps(op, {"file"})
<1>1. op.steps =
        <<Fr!S({}, {}), Fr!S({"file"}, {}), Fr!S({}, {"file"})>>
  BY DEF Fr!fs__open, Fr!Op
<1>2. op = [steps |-> op.steps, end |-> op.end, ptr |-> op.ptr] /\ op.end = {}
  BY DEF Fr!fs__open, Fr!Op
<1>3. Len(op.steps) = 3 /\ DOMAIN op.steps = 1..3
  BY <1>1
<1>4. /\ op.steps[1].gets = {} /\ op.steps[2].gets = {"file"} /\ op.steps[3].gets = {}
  BY <1>1 DEF Fr!S
<1>5. /\ op.steps[1].releases = {} /\ op.steps[2].releases = {} /\ op.steps[3].releases = {"file"}
  BY <1>1 DEF Fr!S
<1>6. ASSUME NEW i \in 1..3, NEW j \in 1..3, j < i
      PROVE  op.steps[j].gets \subseteq op.steps[i].releases
  <2>1. i \in {2, 3} /\ j \in {1, 2}
    BY ONLY <1>6
  <2> QED
    BY <1>4, <1>5, <1>6, <2>1
<1>7. FrReleases(op)
  BY <1>2, <1>3, <1>6 DEF FrReleases
<1>8. UNION {op.steps[i].gets : i \in 1..3} = {"file"}
  BY <1>4
<1> QED
  BY <1>2, <1>3, <1>7, <1>8 DEF FrKeeps

LEMMA FrUnlink ==
  ASSUME NEW op, op = Fr!fs__unlink, FsFaults = {}
  PROVE  FrReleases(op) /\ FrKeeps(op, {})
<1>1. op.steps =
        <<Fr!S({"handle"}, {}), Fr!S({}, {"handle"}), Fr!S({}, {"handle"}), Fr!S({},
        {"handle"}), Fr!S({}, {"handle"}), Fr!S({}, {"handle"})>>
  BY DEF Fr!fs__unlink, Fr!Op
<1>2. op = [steps |-> op.steps, end |-> op.end, ptr |-> op.ptr] /\ op.end = {"handle", "cleared_readonly"}
  BY DEF Fr!fs__unlink, Fr!Op
<1>3. Len(op.steps) = 6 /\ DOMAIN op.steps = 1..6
  BY <1>1
<1>4. /\ op.steps[1].gets = {"handle"} /\ op.steps[2].gets = {} /\ op.steps[3].gets = {}
      /\ op.steps[4].gets = {} /\ op.steps[5].gets = {} /\ op.steps[6].gets = {}
  BY <1>1 DEF Fr!S
<1>5. /\ op.steps[1].releases = {} /\ op.steps[2].releases = {"handle"}
      /\ op.steps[3].releases = {"handle"} /\ op.steps[4].releases = {"handle"}
      /\ op.steps[5].releases = {"handle"} /\ op.steps[6].releases = {"handle"}
  BY <1>1 DEF Fr!S
<1>6. ASSUME NEW i \in 1..6, NEW j \in 1..6, j < i
      PROVE  op.steps[j].gets \subseteq op.steps[i].releases
  <2>1. i \in {2, 3, 4, 5, 6} /\ j \in {1, 2, 3, 4, 5}
    BY ONLY <1>6
  <2> QED
    BY <1>4, <1>5, <1>6, <2>1
<1>7. FrReleases(op)
  BY <1>2, <1>3, <1>6 DEF FrReleases
<1>8. UNION {op.steps[i].gets : i \in 1..6} = {"handle"}
  BY <1>4
<1> QED
  BY <1>2, <1>3, <1>7, <1>8 DEF FrKeeps

LEMMA FrMkdtemp ==
  ASSUME NEW op, op = Fr!fs__mkdtemp
  PROVE  FrReleases(op) /\ FrKeeps(op, {})
<1>1. op.steps =
        <<Fr!S({}, {}), Fr!S({"crypt"}, {}), Fr!S({}, {"crypt"}), Fr!S({}, {"crypt"})>>
  BY DEF Fr!fs__mkdtemp, Fr!Op
<1>2. op = [steps |-> op.steps, end |-> op.end, ptr |-> op.ptr] /\ op.end = {"crypt"}
  BY DEF Fr!fs__mkdtemp, Fr!Op
<1>3. Len(op.steps) = 4 /\ DOMAIN op.steps = 1..4
  BY <1>1
<1>4. /\ op.steps[1].gets = {} /\ op.steps[2].gets = {"crypt"} /\ op.steps[3].gets = {}
      /\ op.steps[4].gets = {}
  BY <1>1 DEF Fr!S
<1>5. /\ op.steps[1].releases = {} /\ op.steps[2].releases = {}
      /\ op.steps[3].releases = {"crypt"} /\ op.steps[4].releases = {"crypt"}
  BY <1>1 DEF Fr!S
<1>6. ASSUME NEW i \in 1..4, NEW j \in 1..4, j < i
      PROVE  op.steps[j].gets \subseteq op.steps[i].releases
  <2>1. i \in {2, 3, 4} /\ j \in {1, 2, 3}
    BY ONLY <1>6
  <2> QED
    BY <1>4, <1>5, <1>6, <2>1
<1>7. FrReleases(op)
  BY <1>2, <1>3, <1>6 DEF FrReleases
<1>8. UNION {op.steps[i].gets : i \in 1..4} = {"crypt"}
  BY <1>4
<1> QED
  BY <1>2, <1>3, <1>7, <1>8 DEF FrKeeps

LEMMA FrScandir ==
  ASSUME NEW op, op = Fr!fs__scandir
  PROVE  FrReleases(op) /\ FrKeeps(op, {"dents", "entries"})
<1>1. op.steps =
        <<Fr!S({"handle"}, {}), Fr!S({}, {"handle"}), Fr!S({"dents"}, {"handle"}),
        Fr!S({"entries"}, {"handle", "dents"}), Fr!S({}, {"handle", "dents",
        "entries"})>>
  BY DEF Fr!fs__scandir, Fr!Op
<1>2. op = [steps |-> op.steps, end |-> op.end, ptr |-> op.ptr] /\ op.end = {"handle"}
  BY DEF Fr!fs__scandir, Fr!Op
<1>3. Len(op.steps) = 5 /\ DOMAIN op.steps = 1..5
  BY <1>1
<1>4. /\ op.steps[1].gets = {"handle"} /\ op.steps[2].gets = {} /\ op.steps[3].gets = {"dents"}
      /\ op.steps[4].gets = {"entries"} /\ op.steps[5].gets = {}
  BY <1>1 DEF Fr!S
<1>5. /\ op.steps[1].releases = {} /\ op.steps[2].releases = {"handle"}
      /\ op.steps[3].releases = {"handle"} /\ op.steps[4].releases = {"handle", "dents"}
      /\ op.steps[5].releases = {"handle", "dents", "entries"}
  BY <1>1 DEF Fr!S
<1>6. ASSUME NEW i \in 1..5, NEW j \in 1..5, j < i
      PROVE  op.steps[j].gets \subseteq op.steps[i].releases
  <2>1. i \in {2, 3, 4, 5} /\ j \in {1, 2, 3, 4}
    BY ONLY <1>6
  <2> QED
    BY <1>4, <1>5, <1>6, <2>1
<1>7. FrReleases(op)
  BY <1>2, <1>3, <1>6 DEF FrReleases
<1>8. UNION {op.steps[i].gets : i \in 1..5} = {"handle", "dents", "entries"}
  BY <1>4
<1> QED
  BY <1>2, <1>3, <1>7, <1>8 DEF FrKeeps

LEMMA FrLstat ==
  ASSUME NEW op, op = Fr!fs__lstat
  PROVE  FrReleases(op) /\ FrKeeps(op, {})
<1>1. op.steps =
        <<Fr!S({"handle"}, {}), Fr!S({}, {"handle"}), Fr!S({"second"}, {"handle"}),
        Fr!S({}, {"handle", "second"})>>
  BY DEF Fr!fs__lstat, Fr!Op
<1>2. op = [steps |-> op.steps, end |-> op.end, ptr |-> op.ptr] /\ op.end = {"handle", "second"}
  BY DEF Fr!fs__lstat, Fr!Op
<1>3. Len(op.steps) = 4 /\ DOMAIN op.steps = 1..4
  BY <1>1
<1>4. /\ op.steps[1].gets = {"handle"} /\ op.steps[2].gets = {} /\ op.steps[3].gets = {"second"}
      /\ op.steps[4].gets = {}
  BY <1>1 DEF Fr!S
<1>5. /\ op.steps[1].releases = {} /\ op.steps[2].releases = {"handle"}
      /\ op.steps[3].releases = {"handle"} /\ op.steps[4].releases = {"handle", "second"}
  BY <1>1 DEF Fr!S
<1>6. ASSUME NEW i \in 1..4, NEW j \in 1..4, j < i
      PROVE  op.steps[j].gets \subseteq op.steps[i].releases
  <2>1. i \in {2, 3, 4} /\ j \in {1, 2, 3}
    BY ONLY <1>6
  <2> QED
    BY <1>4, <1>5, <1>6, <2>1
<1>7. FrReleases(op)
  BY <1>2, <1>3, <1>6 DEF FrReleases
<1>8. UNION {op.steps[i].gets : i \in 1..4} = {"handle", "second"}
  BY <1>4
<1> QED
  BY <1>2, <1>3, <1>7, <1>8 DEF FrKeeps

LEMMA FrSendfile ==
  ASSUME NEW op, op = Fr!fs__sendfile
  PROVE  FrReleases(op) /\ FrKeeps(op, {})
<1>1. op.steps =
        <<Fr!S({"buf"}, {}), Fr!S({}, {"buf"}), Fr!S({}, {"buf"})>>
  BY DEF Fr!fs__sendfile, Fr!Op
<1>2. op = [steps |-> op.steps, end |-> op.end, ptr |-> op.ptr] /\ op.end = {"buf"}
  BY DEF Fr!fs__sendfile, Fr!Op
<1>3. Len(op.steps) = 3 /\ DOMAIN op.steps = 1..3
  BY <1>1
<1>4. /\ op.steps[1].gets = {"buf"} /\ op.steps[2].gets = {} /\ op.steps[3].gets = {}
  BY <1>1 DEF Fr!S
<1>5. /\ op.steps[1].releases = {} /\ op.steps[2].releases = {"buf"}
      /\ op.steps[3].releases = {"buf"}
  BY <1>1 DEF Fr!S
<1>6. ASSUME NEW i \in 1..3, NEW j \in 1..3, j < i
      PROVE  op.steps[j].gets \subseteq op.steps[i].releases
  <2>1. i \in {2, 3} /\ j \in {1, 2}
    BY ONLY <1>6
  <2> QED
    BY <1>4, <1>5, <1>6, <2>1
<1>7. FrReleases(op)
  BY <1>2, <1>3, <1>6 DEF FrReleases
<1>8. UNION {op.steps[i].gets : i \in 1..3} = {"buf"}
  BY <1>4
<1> QED
  BY <1>2, <1>3, <1>7, <1>8 DEF FrKeeps

LEMMA FrJunction ==
  ASSUME NEW op, op = Fr!fs__create_junction
  PROVE  FrReleases(op) /\ FrKeeps(op, {})
<1>1. op.steps =
        <<Fr!S({}, {}), Fr!S({"buffer"}, {}), Fr!S({"new_dir"}, {"buffer"}),
        Fr!S({"handle"}, {"buffer", "new_dir"}), Fr!S({}, {"buffer", "new_dir",
        "handle"})>>
  BY DEF Fr!fs__create_junction, Fr!Op
<1>2. op = [steps |-> op.steps, end |-> op.end, ptr |-> op.ptr] /\ op.end = {"buffer", "handle", "new_dir"}
  BY DEF Fr!fs__create_junction, Fr!Op
<1>3. Len(op.steps) = 5 /\ DOMAIN op.steps = 1..5
  BY <1>1
<1>4. /\ op.steps[1].gets = {} /\ op.steps[2].gets = {"buffer"} /\ op.steps[3].gets = {"new_dir"}
      /\ op.steps[4].gets = {"handle"} /\ op.steps[5].gets = {}
  BY <1>1 DEF Fr!S
<1>5. /\ op.steps[1].releases = {} /\ op.steps[2].releases = {}
      /\ op.steps[3].releases = {"buffer"} /\ op.steps[4].releases = {"buffer", "new_dir"}
      /\ op.steps[5].releases = {"buffer", "new_dir", "handle"}
  BY <1>1 DEF Fr!S
<1>6. ASSUME NEW i \in 1..5, NEW j \in 1..5, j < i
      PROVE  op.steps[j].gets \subseteq op.steps[i].releases
  <2>1. i \in {2, 3, 4, 5} /\ j \in {1, 2, 3, 4}
    BY ONLY <1>6
  <2> QED
    BY <1>4, <1>5, <1>6, <2>1
<1>7. FrReleases(op)
  BY <1>2, <1>3, <1>6 DEF FrReleases
<1>8. UNION {op.steps[i].gets : i \in 1..5} = {"handle", "buffer", "new_dir"}
  BY <1>4
<1> QED
  BY <1>2, <1>3, <1>7, <1>8 DEF FrKeeps

LEMMA FrReadlink ==
  ASSUME NEW op, op = Fr!fs__readlink
  PROVE  FrReleases(op) /\ FrKeeps(op, {"heap"})
<1>0. op.steps =
        <<Fr!S({"handle"}, {}), Fr!S({}, {"handle"})>> \o <<Fr!S({}, {"handle"}),
        Fr!S({"heap"}, {"handle"}), Fr!S({}, {"handle", "heap"})>>
  BY DEF Fr!fs__readlink, Fr!Op, Fr!fs__wide_to_utf8
<1>1. /\ op.steps[1] = Fr!S({"handle"}, {}) /\ op.steps[2] = Fr!S({}, {"handle"})
      /\ op.steps[3] = Fr!S({}, {"handle"}) /\ op.steps[4] = Fr!S({"heap"}, {"handle"})
      /\ op.steps[5] = Fr!S({}, {"handle", "heap"})
  BY <1>0
<1>2. op = [steps |-> op.steps, end |-> op.end, ptr |-> op.ptr] /\ op.end = {"handle"}
  BY DEF Fr!fs__readlink, Fr!Op
<1>3. Len(op.steps) = 5 /\ DOMAIN op.steps = 1..5
  BY <1>0
<1>4. /\ op.steps[1].gets = {"handle"} /\ op.steps[2].gets = {} /\ op.steps[3].gets = {}
      /\ op.steps[4].gets = {"heap"} /\ op.steps[5].gets = {}
  BY <1>1 DEF Fr!S
<1>5. /\ op.steps[1].releases = {} /\ op.steps[2].releases = {"handle"}
      /\ op.steps[3].releases = {"handle"} /\ op.steps[4].releases = {"handle"}
      /\ op.steps[5].releases = {"handle", "heap"}
  BY <1>1 DEF Fr!S
<1>6. ASSUME NEW i \in 1..5, NEW j \in 1..5, j < i
      PROVE  op.steps[j].gets \subseteq op.steps[i].releases
  <2>1. i \in {2, 3, 4, 5} /\ j \in {1, 2, 3, 4}
    BY ONLY <1>6
  <2> QED
    BY <1>4, <1>5, <1>6, <2>1
<1>7. FrReleases(op)
  BY <1>2, <1>3, <1>6 DEF FrReleases
<1>8. UNION {op.steps[i].gets : i \in 1..5} = {"handle", "heap"}
  BY <1>4
<1> QED
  BY <1>2, <1>3, <1>7, <1>8 DEF FrKeeps

LEMMA FrRealpath ==
  ASSUME NEW op, op = Fr!fs__realpath
  PROVE  FrReleases(op) /\ FrKeeps(op, {"heap"})
<1>0. op.steps =
        <<Fr!S({}, {}), Fr!S({"handle"}, {}), Fr!S({}, {"handle"}), Fr!S({"w_realpath"},
        {"handle"}), Fr!S({}, {"handle", "w_realpath"})>> \o <<Fr!S({}, {"handle",
        "w_realpath"}), Fr!S({"heap"}, {"handle", "w_realpath"}), Fr!S({}, {"handle",
        "w_realpath", "heap"})>>
  BY DEF Fr!fs__realpath, Fr!Op, Fr!fs__wide_to_utf8
<1>1. /\ op.steps[1] = Fr!S({}, {}) /\ op.steps[2] = Fr!S({"handle"}, {})
      /\ op.steps[3] = Fr!S({}, {"handle"}) /\ op.steps[4] = Fr!S({"w_realpath"}, {"handle"})
      /\ op.steps[5] = Fr!S({}, {"handle", "w_realpath"})
      /\ op.steps[6] = Fr!S({}, {"handle", "w_realpath"})
      /\ op.steps[7] = Fr!S({"heap"}, {"handle", "w_realpath"})
      /\ op.steps[8] = Fr!S({}, {"handle", "w_realpath", "heap"})
  BY <1>0
<1>2. op = [steps |-> op.steps, end |-> op.end, ptr |-> op.ptr] /\ op.end = {"handle", "w_realpath"}
  BY DEF Fr!fs__realpath, Fr!Op
<1>3. Len(op.steps) = 8 /\ DOMAIN op.steps = 1..8
  BY <1>0
<1>4. /\ op.steps[1].gets = {} /\ op.steps[2].gets = {"handle"} /\ op.steps[3].gets = {}
      /\ op.steps[4].gets = {"w_realpath"} /\ op.steps[5].gets = {} /\ op.steps[6].gets = {}
      /\ op.steps[7].gets = {"heap"} /\ op.steps[8].gets = {}
  BY <1>1 DEF Fr!S
<1>5. /\ op.steps[1].releases = {} /\ op.steps[2].releases = {}
      /\ op.steps[3].releases = {"handle"} /\ op.steps[4].releases = {"handle"}
      /\ op.steps[5].releases = {"handle", "w_realpath"}
      /\ op.steps[6].releases = {"handle", "w_realpath"}
      /\ op.steps[7].releases = {"handle", "w_realpath"}
      /\ op.steps[8].releases = {"handle", "w_realpath", "heap"}
  BY <1>1 DEF Fr!S
<1>6. ASSUME NEW i \in 1..8, NEW j \in 1..8, j < i
      PROVE  op.steps[j].gets \subseteq op.steps[i].releases
  <2>1. i \in {2, 3, 4, 5, 6, 7, 8} /\ j \in {1, 2, 3, 4, 5, 6, 7}
    BY ONLY <1>6
  <2> QED
    BY <1>4, <1>5, <1>6, <2>1
<1>7. FrReleases(op)
  BY <1>2, <1>3, <1>6 DEF FrReleases
<1>8. UNION {op.steps[i].gets : i \in 1..8} = {"handle", "w_realpath", "heap"}
  BY <1>4
<1> QED
  BY <1>2, <1>3, <1>7, <1>8 DEF FrKeeps

\* A call that gets nothing leaves nothing.
LEMMA FrGetsNothing ==
  ASSUME NEW op, op = [steps |-> op.steps, end |-> op.end, ptr |-> op.ptr],
         Len(op.steps) \in Nat, DOMAIN op.steps = 1..Len(op.steps),
         \A i \in DOMAIN op.steps : op.steps[i].gets = {}
  PROVE  FrReleases(op) /\ FrKeeps(op, {})
<1>1. FrReleases(op)
  BY DEF FrReleases
<1>2. UNION {op.steps[i].gets : i \in DOMAIN op.steps} = {}
  OBVIOUS
<1> QED
  BY <1>1, <1>2 DEF FrKeeps

LEMMA FrCalls ==
  ASSUME NEW op,
         op \in {Fr!OneCall, Fr!OnDescriptor, Fr!fs__close, Fr!fs__fstat, Fr!fs__sync_impl,
                 Fr!fs__ftruncate, Fr!fs__access, Fr!fs__chown}
  PROVE  FrReleases(op) /\ FrKeeps(op, {}) /\ op.ptr \in {"null", "statbuf"}
<1>1. op = [steps |-> op.steps, end |-> op.end, ptr |-> op.ptr] /\ op.ptr \in {"null", "statbuf"}
  BY DEF Fr!OneCall, Fr!OnDescriptor, Fr!fs__close, Fr!fs__fstat, Fr!fs__sync_impl,
     Fr!fs__ftruncate, Fr!fs__access, Fr!fs__chown, Fr!Op
<1> DEFINE s == Fr!S({}, {})
<1>2. op.steps \in {<<>>, <<s>>, <<s, s>>, <<s, s, s>>}
  BY DEF Fr!OneCall, Fr!OnDescriptor, Fr!fs__close, Fr!fs__fstat, Fr!fs__sync_impl,
     Fr!fs__ftruncate, Fr!fs__access, Fr!fs__chown, Fr!Op
<1>3. s.gets = {}
  BY DEF Fr!S
<1> HIDE DEF s
<1>4. /\ Len(op.steps) \in Nat /\ DOMAIN op.steps = 1..Len(op.steps)
      /\ \A i \in DOMAIN op.steps : op.steps[i].gets = {}
  <2>1. CASE op.steps = <<>>
    BY <2>1
  <2>2. CASE op.steps = <<s>>
    BY <2>2, <1>3
  <2>3. CASE op.steps = <<s, s>>
    BY <2>3, <1>3
  <2>4. CASE op.steps = <<s, s, s>>
    BY <2>4, <1>3
  <2> QED
    BY <1>2, <2>1, <2>2, <2>3, <2>4
<1> QED
  BY <1>1, <1>4, FrGetsNothing

\* The operation of each request: what it keeps is what req->ptr is to be, or
\* the descriptor of a file; fs__scandir keeps the entries and their array.
FrOperation(q) ==
  /\ FrReleases(q.op) /\ q.op.ptr \in {"null", "statbuf", "heap", "dents"}
  /\ q.op.ptr = "dents" <=> q.type = "scandir"
  /\ \E names : /\ FrKeeps(q.op, names)
                /\ names \ {"file", "entries"} = {q.op.ptr} \cap {"heap", "dents"}

LEMMA FrOperations ==
  ASSUME FsFaults = {}, NEW q \in Fr!Requests
  PROVE  /\ q = [type |-> q.type, op |-> q.op, paths |-> q.paths, bufs |-> q.bufs]
         /\ q.paths \in {0, 1, 2} /\ q.bufs \in {0, 1, 5}
         /\ q.type = "access" => q.paths = 1
         /\ FrOperation(q)
<1>1. /\ q = [type |-> q.type, op |-> q.op, paths |-> q.paths, bufs |-> q.bufs]
      /\ q.paths \in {0, 1, 2} /\ q.bufs \in {0, 1, 5}
      /\ q.type = "access" => q.paths = 1
  BY DEF Fr!Requests, Fr!uv_fs_open, Fr!uv_fs_close, Fr!uv_fs_read, Fr!uv_fs_write,
     Fr!uv_fs_unlink, Fr!uv_fs_mkdir, Fr!uv_fs_mkdtemp, Fr!uv_fs_rmdir, Fr!uv_fs_scandir,
     Fr!uv_fs_link, Fr!uv_fs_symlink, Fr!uv_fs_readlink, Fr!uv_fs_realpath, Fr!uv_fs_chown,
     Fr!uv_fs_fchown, Fr!uv_fs_stat, Fr!uv_fs_lstat, Fr!uv_fs_fstat, Fr!uv_fs_rename,
     Fr!uv_fs_fsync, Fr!uv_fs_fdatasync, Fr!uv_fs_ftruncate, Fr!uv_fs_sendfile, Fr!uv_fs_access,
     Fr!uv_fs_chmod, Fr!uv_fs_fchmod, Fr!uv_fs_utime, Fr!uv_fs_futime, Fr!ByPath, Fr!ByFd, Fr!Req
<1>2. \/ q.op = Fr!fs__scandir /\ q.type = "scandir"
      \/ /\ q.type # "scandir"
         /\ q.op \in {Fr!fs__open, Fr!fs__close, Fr!fs__read, Fr!fs__write, Fr!fs__unlink,
                      Fr!fs__mkdir, Fr!fs__mkdtemp, Fr!fs__rmdir, Fr!fs__link,
                      Fr!fs__create_junction, Fr!fs__symlink, Fr!fs__readlink, Fr!fs__realpath,
                      Fr!fs__chown, Fr!fs__stat_impl, Fr!fs__lstat, Fr!fs__fstat, Fr!fs__rename,
                      Fr!fs__sync_impl, Fr!fs__ftruncate, Fr!fs__sendfile, Fr!fs__access,
                      Fr!fs__chmod, Fr!fs__fchmod, Fr!fs__utime, Fr!fs__futime}
  BY DEF Fr!Requests, Fr!uv_fs_open, Fr!uv_fs_close, Fr!uv_fs_read, Fr!uv_fs_write,
     Fr!uv_fs_unlink, Fr!uv_fs_mkdir, Fr!uv_fs_mkdtemp, Fr!uv_fs_rmdir, Fr!uv_fs_scandir,
     Fr!uv_fs_link, Fr!uv_fs_symlink, Fr!uv_fs_readlink, Fr!uv_fs_realpath, Fr!uv_fs_chown,
     Fr!uv_fs_fchown, Fr!uv_fs_stat, Fr!uv_fs_lstat, Fr!uv_fs_fstat, Fr!uv_fs_rename,
     Fr!uv_fs_fsync, Fr!uv_fs_fdatasync, Fr!uv_fs_ftruncate, Fr!uv_fs_sendfile, Fr!uv_fs_access,
     Fr!uv_fs_chmod, Fr!uv_fs_fchmod, Fr!uv_fs_utime, Fr!uv_fs_futime, Fr!ByPath, Fr!ByFd, Fr!Req
<1>3. CASE q.op = Fr!fs__scandir /\ q.type = "scandir"
  <2>1. q.op.ptr = "dents"
    BY <1>3 DEF Fr!fs__scandir, Fr!Op
  <2> QED
    BY <1>1, <1>3, <2>1, FrScandir DEF FrOperation
<1>4. CASE /\ q.type # "scandir"
           /\ q.op \in {Fr!OneCall, Fr!OnDescriptor, Fr!fs__close, Fr!fs__fstat,
                        Fr!fs__sync_impl, Fr!fs__ftruncate, Fr!fs__access, Fr!fs__chown}
  <2>1. FrReleases(q.op) /\ FrKeeps(q.op, {}) /\ q.op.ptr \in {"null", "statbuf"}
    BY ONLY <1>4, FrCalls
  <2> QED
    BY <1>1, <1>4, <2>1 DEF FrOperation
<1>5. CASE q.type # "scandir" /\ \E ptr \in {"null", "statbuf"} : q.op = Fr!WithHandle(ptr)
  <2>1. PICK ptr \in {"null", "statbuf"} : q.op = Fr!WithHandle(ptr)
    BY <1>5
  <2>2. q.op.ptr = ptr
    BY <2>1 DEF Fr!WithHandle, Fr!Op
  <2> QED
    BY <1>1, <1>5, <2>1, <2>2, FrWithHandle DEF FrOperation
<1>6. CASE q.type # "scandir" /\ q.op = Fr!fs__open
  <2>1. q.op.ptr = "null"
    BY <1>6 DEF Fr!fs__open, Fr!Op
  <2> QED
    BY <1>1, <1>6, <2>1, FrOpen DEF FrOperation
<1>7. CASE q.type # "scandir" /\ q.op \in {Fr!fs__unlink, Fr!fs__mkdtemp, Fr!fs__lstat,
                                           Fr!fs__sendfile, Fr!fs__create_junction}
  <2>1. q.op.ptr \in {"null", "statbuf"}
    BY <1>7 DEF Fr!fs__unlink, Fr!fs__mkdtemp, Fr!fs__lstat, Fr!fs__sendfile,
       Fr!fs__create_junction, Fr!Op
  <2>2. FrReleases(q.op) /\ FrKeeps(q.op, {})
    BY <1>7, FrUnlink, FrMkdtemp, FrLstat, FrSendfile, FrJunction
  <2> QED
    BY <1>1, <1>7, <2>1, <2>2 DEF FrOperation
<1>8. CASE q.type # "scandir" /\ q.op \in {Fr!fs__readlink, Fr!fs__realpath}
  <2>1. q.op.ptr = "heap"
    BY <1>8 DEF Fr!fs__readlink, Fr!fs__realpath, Fr!Op
  <2>2. FrReleases(q.op) /\ FrKeeps(q.op, {"heap"})
    BY <1>8, FrReadlink, FrRealpath
  <2> QED
    BY <1>1, <1>8, <2>1, <2>2 DEF FrOperation
<1>9. ASSUME q.type # "scandir"
      PROVE  \/ q.op \in {Fr!OneCall, Fr!OnDescriptor, Fr!fs__close, Fr!fs__fstat,
                          Fr!fs__sync_impl, Fr!fs__ftruncate, Fr!fs__access, Fr!fs__chown}
             \/ \E ptr \in {"null", "statbuf"} : q.op = Fr!WithHandle(ptr)
             \/ q.op \in {Fr!fs__open, Fr!fs__unlink, Fr!fs__mkdtemp, Fr!fs__lstat,
                          Fr!fs__sendfile, Fr!fs__create_junction, Fr!fs__readlink,
                          Fr!fs__realpath}
  BY <1>2, <1>9 DEF Fr!fs__read, Fr!fs__write, Fr!fs__mkdir, Fr!fs__rmdir, Fr!fs__link,
     Fr!fs__symlink, Fr!fs__stat_impl, Fr!fs__rename, Fr!fs__chmod, Fr!fs__fchmod,
     Fr!fs__utime, Fr!fs__futime
<1>10. CASE q.type = "scandir"
  BY <1>2, <1>3, <1>10
<1>11. CASE q.type # "scandir"
  BY <1>4, <1>5, <1>6, <1>7, <1>8, <1>9, <1>11
<1> QED
  BY <1>10, <1>11

LEMMA FrLeft ==
  ASSUME FsFaults = {}, NEW q \in Fr!Requests
  PROVE  /\ 0 \in Fr!FailsAt(q)
         /\ \A p \in Fr!FailsAt(q) : p # 0 => Fr!Left(q.op, p) = {}
         /\ Fr!Left(q.op, 0) \ {"file", "entries"} = {q.op.ptr} \cap {"heap", "dents"}
<1>1. FrOperation(q)
  BY FrOperations
<1>2. Len(q.op.steps) \in Nat
  BY <1>1 DEF FrOperation, FrReleases
<1>3. Fr!FailsAt(q) = 0..Len(q.op.steps)
  BY DEF Fr!FailsAt
<1>4. ASSUME NEW p \in Fr!FailsAt(q), p # 0 PROVE Fr!Left(q.op, p) = {}
  <2>1. p \in 1..Len(q.op.steps)
    BY <1>2, <1>3, <1>4
  <2> QED
    BY <1>1, <2>1, FrNothingLeft DEF FrOperation
<1>5. PICK names : /\ FrKeeps(q.op, names)
                   /\ names \ {"file", "entries"} = {q.op.ptr} \cap {"heap", "dents"}
  BY <1>1 DEF FrOperation
<1>6. Fr!Left(q.op, 0) = names
  BY <1>5 DEF FrKeeps, Fr!Left
<1> QED
  BY <1>2, <1>3, <1>4, <1>5, <1>6

-----------------------------------------------------------------------------
(* The request: what it refers to is what is allocated.                    *)

FrRequest(r) ==
  /\ r = [q |-> r.q, flags |-> r.flags, result |-> r.result, ptr |-> r.ptr, pathw |-> r.pathw,
          bufs |-> r.bufs, nbufs |-> r.nbufs, async |-> r.async, registered |-> r.registered]
  /\ r.result \in -2..MaxEntries /\ r.nbufs \in Nat
  /\ r.ptr \in {"null", "statbuf", "heap", "dents"} /\ r.bufs \in {"null", "sml", "heap"}
  /\ r.pathw \in BOOLEAN /\ r.async \in BOOLEAN /\ r.registered \in BOOLEAN

\* What a request refers to: its paths, its copy of the buffers, its results.
FrOwned(r) ==
  (IF r.pathw THEN {"paths"} ELSE {}) \cup (IF r.bufs = "heap" THEN {"bufs"} ELSE {})
    \cup ({r.ptr} \cap {"heap", "dents"})

FrEntries(r) == {i \in 1..MaxEntries : r.ptr = "dents" /\ i >= r.nbufs /\ i <= r.result}

\* The flags tell cleanup what there is to free.
FrFlags(r) ==
  /\ "CLEANEDUP" \in r.flags => r.pathw = FALSE /\ r.bufs = "null" /\ r.ptr = "null"
  /\ "CLEANEDUP" \notin r.flags => r.q \in Fr!Requests /\ ("FREE_PATHS" \in r.flags <=> r.pathw = TRUE)
  /\ r.ptr \in {"heap", "dents"} => "FREE_PTR" \in r.flags
  /\ "FREE_PTR" \in r.flags => r.ptr # "statbuf"

\* The entries of a directory are there until the last of them is passed.
FrResults(r) ==
  /\ r.result < 0 => r.ptr = "null"
  /\ r.q.type = "scandir" => r.ptr \in {"null", "dents"}
  /\ r.ptr = "dents" => r.q.type = "scandir" /\ r.result > 0 /\ r.nbufs <= r.result
  /\ r.result > 0 /\ r.nbufs = 0 /\ "CLEANEDUP" \notin r.flags => r.ptr = "dents"

\* A request before its operation.
FrFresh(r) == r.result = 0 /\ r.ptr = "null" /\ r.nbufs = 0 /\ r.flags \subseteq {"FREE_PATHS"}

FrHolds(r, k) ==
  /\ k = [live |-> k.live, dents |-> k.dents, bad |-> k.bad] /\ k.bad = FALSE
  /\ k.live \ {"file"} = FrOwned(r) /\ k.dents = FrEntries(r)

FrInv ==
  /\ FrRequest(h) /\ FrFlags(h) /\ FrResults(h) /\ FrHolds(h, kernel)
  /\ hist = [ran |-> hist.ran, called |-> hist.called] /\ hist.called \in {0, 1}
  /\ pc = [at |-> "loop"]
  /\ pending \in {"none", "queued", "done", "cancelled"}
  /\ h.registered = TRUE <=> pending # "none"
  /\ pending # "none" => "CLEANEDUP" \notin h.flags /\ h.async = TRUE /\ hist.called = 0
  /\ pending \in {"queued", "cancelled"} => FrFresh(h) /\ hist.ran = FALSE
  /\ h.async = FALSE => hist.called = 0
  /\ h.result = -2 => hist.ran = FALSE

LEMMA FrInit == Fr!Init => FrInv
<1> SUFFICES ASSUME Fr!Init PROVE FrInv
  OBVIOUS
<1>1. h = [q |-> Fr!NoReq, flags |-> {"CLEANEDUP"}, result |-> 0, ptr |-> "null", pathw |-> FALSE,
           bufs |-> "null", nbufs |-> 0, async |-> FALSE, registered |-> FALSE]
  BY DEF Fr!Init, Fr!uv_fs_req_init
<1>2. /\ kernel = [live |-> {}, dents |-> {}, bad |-> FALSE] /\ pending = "none"
      /\ pc = [at |-> "loop"] /\ hist = [ran |-> FALSE, called |-> 0]
  BY DEF Fr!Init
<1>3. FrRequest(h) /\ FrFlags(h) /\ FrResults(h)
  BY <1>1, EntriesAssumption DEF FrRequest, FrFlags, FrResults
<1>4. FrHolds(h, kernel)
  BY <1>1, <1>2 DEF FrHolds, FrOwned, FrEntries
<1> QED
  BY <1>1, <1>2, <1>3, <1>4 DEF FrInv

\* What is there when the operation has ended is what the request says.
LEMMA FrDone ==
  ASSUME FsFaults = {}, NEW r, FrRequest(r), FrFlags(r), FrFresh(r), r.q \in Fr!Requests,
         NEW k, FrHolds(r, k), NEW p \in Fr!FailsAt(r.q), NEW n \in Fr!Entries(r.q, p),
         NEW v, v = Fr!Result(r, p, n), NEW w, w = Fr!After(r, k, p, n)
  PROVE  /\ FrRequest(v) /\ FrFlags(v) /\ FrResults(v) /\ FrHolds(v, w)
         /\ "CLEANEDUP" \notin v.flags /\ v.result # -2
         /\ v.async = r.async /\ v.registered = r.registered
<1>1. /\ n \in 0..MaxEntries /\ (p # 0 \/ r.q.type # "scandir" => n = 0)
  BY EntriesAssumption DEF Fr!Entries
<1>2. FrOperation(r.q)
  BY FrOperations
<1> DEFINE res == IF p # 0 THEN -1 ELSE IF r.q.type = "scandir" THEN n ELSE 0
           ptr == IF p # 0 \/ (r.q.op.ptr = "dents" /\ n = 0) THEN "null" ELSE r.q.op.ptr
           flags == IF p = 0 /\ (r.q.op.ptr = "heap" \/ (r.q.op.ptr = "dents" /\ n > 0))
                    THEN r.flags \cup {"FREE_PTR"} ELSE r.flags
<1>3. v = [q |-> r.q, flags |-> flags, result |-> res, ptr |-> ptr, pathw |-> r.pathw,
           bufs |-> r.bufs, nbufs |-> r.nbufs, async |-> r.async, registered |-> r.registered]
  BY DEF Fr!Result, FrRequest
<1>4. /\ v.q = r.q /\ v.flags = flags /\ v.result = res /\ v.ptr = ptr /\ v.pathw = r.pathw
      /\ v.bufs = r.bufs /\ v.nbufs = 0 /\ v.async = r.async /\ v.registered = r.registered
      /\ v = [q |-> v.q, flags |-> v.flags, result |-> v.result, ptr |-> v.ptr, pathw |-> v.pathw,
              bufs |-> v.bufs, nbufs |-> v.nbufs, async |-> v.async, registered |-> v.registered]
  BY <1>3 DEF FrFresh
<1>5. /\ w.live = (k.live \cup Fr!Left(r.q.op, p))
                    \ ({"entries"} \cup (IF n = 0 THEN {"dents"} ELSE {})
                       \cup (IF p = 0 /\ r.q.type = "close" THEN {"file"} ELSE {}))
      /\ w.dents = (IF p = 0 /\ r.q.type = "scandir" THEN 1..n ELSE k.dents)
      /\ w.bad = FALSE /\ w = [live |-> w.live, dents |-> w.dents, bad |-> w.bad]
  BY DEF Fr!After, FrHolds
<1>6. ptr \in {"null", "statbuf", "heap", "dents"} /\ res \in -1..MaxEntries
  BY <1>1, <1>2, EntriesAssumption DEF FrOperation
<1>7. FrRequest(v)
  BY <1>4, <1>6 DEF FrRequest
<1>8. ptr = "dents" <=> p = 0 /\ r.q.type = "scandir" /\ n > 0
  BY <1>1, <1>2 DEF FrOperation
<1>9. "CLEANEDUP" \notin v.flags
  BY <1>4 DEF FrFresh
<1>10. FrFlags(v)
  <2>1. /\ "CLEANEDUP" \notin r.flags /\ "FREE_PTR" \notin r.flags
        /\ "FREE_PATHS" \in r.flags <=> r.pathw = TRUE
    BY DEF FrFlags, FrFresh
  <2>2. "FREE_PATHS" \in v.flags <=> r.pathw = TRUE
    BY <1>4, <2>1
  <2>3. "FREE_PTR" \in v.flags <=> ptr \in {"heap", "dents"}
    BY <1>1, <1>2, <1>4, <1>8, <2>1 DEF FrOperation
  <2> HIDE DEF ptr
  <2> QED
    BY <1>4, <1>9, <2>2, <2>3 DEF FrFlags
<1>11. FrResults(v)
  BY <1>1, <1>2, <1>4, <1>8 DEF FrResults, FrOperation
<1>12. w.dents = FrEntries(v)
  <2>1. k.dents = {}
    BY DEF FrHolds, FrEntries, FrFresh
  <2>2. CASE p = 0 /\ r.q.type = "scandir"
    <3>1. w.dents = 1..n /\ v.result = n /\ v.nbufs = 0 /\ (v.ptr = "dents" <=> n > 0)
      BY <1>4, <1>5, <1>8, <2>2, <1>1
    <3> QED
      BY <3>1, <1>1, EntriesAssumption DEF FrEntries
  <2>3. CASE ~(p = 0 /\ r.q.type = "scandir")
    BY <1>4, <1>5, <1>8, <2>1, <2>3 DEF FrEntries
  <2> QED
    BY <2>2, <2>3
<1>13. w.live \ {"file"} = FrOwned(v)
  <2>1. k.live \ {"file"} = FrOwned(r) /\ FrOwned(r) \cap {"heap", "dents", "entries"} = {}
    BY DEF FrHolds, FrOwned, FrFresh
  <2>2. FrOwned(v) = FrOwned(r) \cup ({ptr} \cap {"heap", "dents"})
    BY <1>4 DEF FrOwned, FrFresh
  <2>3. CASE p # 0
    <3>1. Fr!Left(r.q.op, p) = {} /\ ptr = "null" /\ n = 0
      BY <2>3, <1>1, FrLeft
    <3> QED
      BY <1>5, <2>1, <2>2, <2>3, <3>1
  <2>4. CASE p = 0
    <3>1. Fr!Left(r.q.op, p) \ {"file", "entries"} = {r.q.op.ptr} \cap {"heap", "dents"}
      BY <2>4, FrLeft
    <3>2. CASE r.q.op.ptr = "dents" /\ n = 0
      BY <1>5, <2>1, <2>2, <2>4, <3>1, <3>2
    <3>3. CASE r.q.op.ptr = "dents" /\ n # 0
      BY <1>1, <1>2, <1>5, <2>1, <2>2, <2>4, <3>1, <3>3 DEF FrOperation
    <3>4. CASE r.q.op.ptr # "dents"
      BY <1>1, <1>2, <1>5, <2>1, <2>2, <2>4, <3>1, <3>4 DEF FrOperation
    <3> QED
      BY <3>2, <3>3, <3>4
  <2> QED
    BY <2>3, <2>4
<1>14. v.result # -2
  BY <1>1, <1>4, EntriesAssumption
<1> QED
  BY <1>4, <1>5, <1>7, <1>9, <1>10, <1>11, <1>12, <1>13, <1>14 DEF FrHolds

-----------------------------------------------------------------------------
(* The steps.                                                              *)

\* A request that was cleaned up, or that never was, holds nothing.
LEMMA FrClean ==
  ASSUME FrInv, "CLEANEDUP" \in h.flags
  PROVE  kernel.live \ {"file"} = {} /\ kernel.dents = {} /\ pending = "none"
BY DEF FrInv, FrFlags, FrHolds, FrOwned, FrEntries

\* INIT and the arguments: the request before it is queued or runs.
FrGiven(q, async) ==
  [Fr!fs__capture_path(Fr!uv_fs_req_init(q), q) EXCEPT !.bufs = Fr!Bufs(q), !.async = async]

FrFlagged(r, fs) == [r EXCEPT !.flags = fs]

FrTakes(k, r) ==
  [k EXCEPT !.live = @ \cup (IF r.pathw THEN {"paths"} ELSE {})
                       \cup (IF r.bufs = "heap" THEN {"bufs"} ELSE {})]

FrHoldsNothing(k) ==
  /\ k = [live |-> k.live, dents |-> k.dents, bad |-> k.bad] /\ k.bad = FALSE
  /\ k.live \ {"file"} = {} /\ k.dents = {}

\* s has its arguments, which are allocated in k, and nothing else.
FrReady(q, async, s, k) ==
  /\ FrRequest(s) /\ FrFlags(s) /\ FrFresh(s) /\ FrResults(s) /\ FrHolds(s, k)
  /\ s.q = q /\ s.async = async /\ s.registered = FALSE

LEMMA FrArguments ==
  ASSUME FsFaults = {}, NEW q \in Fr!Requests, NEW async \in BOOLEAN, NEW k,
         FrHoldsNothing(k), NEW r, r = FrGiven(q, async), NEW fs \in Fr!ArgumentFlags(r, q),
         NEW s, s = FrFlagged(r, fs), NEW l, l = FrTakes(k, r)
  PROVE  FrReady(q, async, s, l)
<1>1. q.paths \in {0, 1, 2} /\ (q.type = "access" => q.paths = 1)
  BY FrOperations
<1> DEFINE base == Fr!fs__capture_path(Fr!uv_fs_req_init(q), q)
<1>2. Fr!uv_fs_req_init(q) =
        [q |-> q, flags |-> {}, result |-> 0, ptr |-> "null", pathw |-> FALSE, bufs |-> "null",
         nbufs |-> 0, async |-> FALSE, registered |-> FALSE]
  BY DEF Fr!uv_fs_req_init
<1>3. PICK fl, pw :
        /\ base = [q |-> q, flags |-> fl, result |-> 0, ptr |-> "null", pathw |-> pw,
                   bufs |-> "null", nbufs |-> 0, async |-> FALSE, registered |-> FALSE]
        /\ fl = (IF q.paths = 0 THEN {} ELSE {"FREE_PATHS"}) /\ pw \in BOOLEAN
        /\ (pw = TRUE) <=> q.paths # 0
  <2>1. CASE q.paths = 0
    BY <1>2, <2>1 DEF Fr!fs__capture_path
  <2>2. CASE q.paths # 0
    <3>1. PICK i : i = Fr!uv_fs_req_init(q)
      OBVIOUS
    <3>2. base = [i EXCEPT !.pathw = TRUE, !.flags = @ \cup {"FREE_PATHS"}]
      BY <2>2, <3>1 DEF Fr!fs__capture_path
    <3>3. i = [q |-> q, flags |-> {}, result |-> 0, ptr |-> "null", pathw |-> FALSE,
               bufs |-> "null", nbufs |-> 0, async |-> FALSE, registered |-> FALSE]
      BY <1>2, <3>1
    <3>4. {} \cup {"FREE_PATHS"} = {"FREE_PATHS"}
      OBVIOUS
    <3> HIDE DEF base
    <3>5. base = [q |-> q, flags |-> {"FREE_PATHS"}, result |-> 0, ptr |-> "null", pathw |-> TRUE,
                  bufs |-> "null", nbufs |-> 0, async |-> FALSE, registered |-> FALSE]
      BY ONLY <3>2, <3>3, <3>4
    <3> QED
      BY <2>2, <3>5
  <2> QED
    BY <2>1, <2>2
<1>4. r = [base EXCEPT !.bufs = Fr!Bufs(q), !.async = async]
  BY DEF FrGiven
<1> HIDE DEF base
<1>5. r = [q |-> q, flags |-> fl, result |-> 0, ptr |-> "null", pathw |-> pw, bufs |-> Fr!Bufs(q),
           nbufs |-> 0, async |-> async, registered |-> FALSE]
  BY ONLY <1>3, <1>4
<1>6. r.flags = fl /\ r.pathw = pw /\ r.bufs = Fr!Bufs(q)
  BY ONLY <1>5
<1>7. fs = fl
  BY <1>1, <1>3, <1>6 DEF Fr!ArgumentFlags
<1>8. /\ s = [q |-> q, flags |-> fl, result |-> 0, ptr |-> "null", pathw |-> pw,
              bufs |-> Fr!Bufs(q), nbufs |-> 0, async |-> async, registered |-> FALSE]
      /\ s.q = q /\ s.flags = fl /\ s.result = 0 /\ s.ptr = "null" /\ s.pathw = pw
      /\ s.bufs = Fr!Bufs(q) /\ s.nbufs = 0 /\ s.async = async /\ s.registered = FALSE
  <2>1. s = [q |-> q, flags |-> fl, result |-> 0, ptr |-> "null", pathw |-> pw,
             bufs |-> Fr!Bufs(q), nbufs |-> 0, async |-> async, registered |-> FALSE]
    <3>1. s = [r EXCEPT !.flags = fl]
      BY <1>7 DEF FrFlagged
    <3> QED
      BY ONLY <1>5, <3>1
  <2> QED
    BY ONLY <2>1
<1>9. /\ Fr!Bufs(q) \in {"null", "sml", "heap"} /\ fl \subseteq {"FREE_PATHS"}
      /\ "FREE_PATHS" \in fl <=> pw = TRUE
      /\ async \in BOOLEAN /\ 0 \in -2..MaxEntries /\ 0 \in Nat
  BY <1>3, EntriesAssumption DEF Fr!Bufs
<1>10. FrRequest(s)
  BY ONLY <1>3, <1>8, <1>9 DEF FrRequest
<1>11. FrFlags(s) /\ FrFresh(s) /\ FrResults(s)
  BY <1>3, <1>8, <1>9 DEF FrFlags, FrFresh, FrResults
<1>12. FrHolds(s, l)
  <2>1. /\ l = [live |-> l.live, dents |-> l.dents, bad |-> l.bad] /\ l.bad = FALSE /\ l.dents = {}
        /\ l.live = k.live \cup (IF pw THEN {"paths"} ELSE {})
                           \cup (IF Fr!Bufs(q) = "heap" THEN {"bufs"} ELSE {})
    BY <1>6 DEF FrTakes, FrHoldsNothing
  <2>2. FrEntries(s) = {}
    BY <1>8 DEF FrEntries
  <2>3. FrOwned(s) = (IF pw THEN {"paths"} ELSE {})
                       \cup (IF Fr!Bufs(q) = "heap" THEN {"bufs"} ELSE {})
    BY <1>8 DEF FrOwned
  <2> QED
    BY <2>1, <2>2, <2>3 DEF FrHolds, FrHoldsNothing
<1> QED
  BY <1>8, <1>10, <1>11, <1>12 DEF FrReady


LEMMA FrSubmitInv ==
  ASSUME FsFaults = {}, FrInv, NEW q \in Fr!Requests, NEW async \in BOOLEAN, Fr!Submit(q, async)
  PROVE  FrInv'
<1>1. /\ "CLEANEDUP" \in h.flags /\ pending = "none" /\ UNCHANGED <<pc, cb>>
  BY DEF Fr!Submit
<1>2. /\ kernel.live \ {"file"} = {} /\ kernel.dents = {}
      /\ kernel = [live |-> kernel.live, dents |-> kernel.dents, bad |-> kernel.bad]
      /\ kernel.bad = FALSE /\ pc = [at |-> "loop"]
  BY <1>1, FrClean DEF FrInv, FrHolds
<1>3. CASE /\ h' = Fr!uv_fs_req_init(q) /\ hist' = [ran |-> FALSE, called |-> 0]
           /\ UNCHANGED <<kernel, pending>>
  <2>1. h' = [q |-> q, flags |-> {}, result |-> 0, ptr |-> "null", pathw |-> FALSE,
              bufs |-> "null", nbufs |-> 0, async |-> FALSE, registered |-> FALSE]
    BY <1>3 DEF Fr!uv_fs_req_init
  <2>2. FrRequest(h')
    BY <2>1, EntriesAssumption DEF FrRequest
  <2>3. FrFlags(h')
    BY <2>1 DEF FrFlags
  <2>4. h'.result = 0 /\ h'.ptr = "null" /\ h'.registered = FALSE /\ h'.async = FALSE
    BY <2>1
  <2>5. FrHolds(h', kernel')
    BY <1>2, <1>3, <2>1 DEF FrHolds, FrOwned, FrEntries
  <2>6. FrResults(h')
    BY <2>4 DEF FrResults
  <2> QED
    BY <1>1, <1>2, <1>3, <2>2, <2>3, <2>4, <2>5, <2>6 DEF FrInv
<1>4. CASE LET r == [Fr!fs__capture_path(Fr!uv_fs_req_init(q), q)
                       EXCEPT !.bufs = Fr!Bufs(q), !.async = async]
               k == [kernel EXCEPT !.live = @ \cup (IF r.pathw THEN {"paths"} ELSE {})
                                              \cup (IF r.bufs = "heap" THEN {"bufs"} ELSE {})]
           IN  \E fs \in Fr!ArgumentFlags(r, q) :
                 LET s == [r EXCEPT !.flags = fs]
                 IN  \/ /\ async
                        /\ h' = [s EXCEPT !.registered = TRUE]
                        /\ kernel' = k /\ pending' = "queued"
                        /\ hist' = [ran |-> FALSE, called |-> 0]
                     \/ /\ ~async
                        /\ \E p \in Fr!FailsAt(q) : \E n \in Fr!Entries(q, p) :
                             h' = Fr!Result(s, p, n) /\ kernel' = Fr!After(s, k, p, n)
                        /\ hist' = [ran |-> TRUE, called |-> 0]
                        /\ UNCHANGED pending
  <2> DEFINE r == [Fr!fs__capture_path(Fr!uv_fs_req_init(q), q)
                     EXCEPT !.bufs = Fr!Bufs(q), !.async = async]
             k == [kernel EXCEPT !.live = @ \cup (IF r.pathw THEN {"paths"} ELSE {})
                                            \cup (IF r.bufs = "heap" THEN {"bufs"} ELSE {})]
  <2>1. PICK fs \in Fr!ArgumentFlags(r, q) :
          LET s == [r EXCEPT !.flags = fs]
          IN  \/ /\ async
                 /\ h' = [s EXCEPT !.registered = TRUE]
                 /\ kernel' = k /\ pending' = "queued"
                 /\ hist' = [ran |-> FALSE, called |-> 0]
              \/ /\ ~async
                 /\ \E p \in Fr!FailsAt(q) : \E n \in Fr!Entries(q, p) :
                      h' = Fr!Result(s, p, n) /\ kernel' = Fr!After(s, k, p, n)
                 /\ hist' = [ran |-> TRUE, called |-> 0]
                 /\ UNCHANGED pending
    BY <1>4
  <2> DEFINE s == [r EXCEPT !.flags = fs]
  <2>5. r = FrGiven(q, async) /\ s = FrFlagged(r, fs) /\ k = FrTakes(kernel, r)
    BY DEF FrGiven, FrFlagged, FrTakes
  <2>6. fs \in Fr!ArgumentFlags(r, q)
    BY <2>1
  <2> HIDE DEF r, k, s
  <2>2. /\ FrRequest(s) /\ FrFlags(s) /\ FrFresh(s) /\ FrResults(s) /\ FrHolds(s, k)
        /\ s.q = q /\ s.async = async /\ s.registered = FALSE
    <3>1. FrHoldsNothing(kernel) /\ FsFaults = {}
      BY <1>2 DEF FrHoldsNothing
    <3>2. FrReady(q, async, s, k)
      BY ONLY <2>5, <2>6, <3>1, FrArguments, q \in Fr!Requests, async \in BOOLEAN
    <3> QED
      BY <3>2 DEF FrReady
  <2>3. CASE /\ async /\ h' = [s EXCEPT !.registered = TRUE] /\ kernel' = k /\ pending' = "queued"
             /\ hist' = [ran |-> FALSE, called |-> 0]
    <3>1. h' = [q |-> s.q, flags |-> s.flags, result |-> s.result, ptr |-> s.ptr,
                pathw |-> s.pathw, bufs |-> s.bufs, nbufs |-> s.nbufs, async |-> s.async,
                registered |-> TRUE]
      BY <2>2, <2>3 DEF FrRequest
    <3>2. /\ h'.q = s.q /\ h'.flags = s.flags /\ h'.result = s.result /\ h'.ptr = s.ptr
          /\ h'.pathw = s.pathw /\ h'.bufs = s.bufs /\ h'.nbufs = s.nbufs /\ h'.async = TRUE
          /\ h'.registered = TRUE
      BY <2>2, <2>3, <3>1
    <3>3. FrRequest(h')
      BY <2>2, <3>1, <3>2 DEF FrRequest
    <3>4. FrFlags(h') /\ FrFresh(h') /\ FrResults(h')
      BY <2>2, <3>2 DEF FrFlags, FrFresh, FrResults
    <3>5. FrHolds(h', kernel')
      BY <2>2, <2>3, <3>2 DEF FrHolds, FrOwned, FrEntries
    <3> QED
      BY <1>1, <1>2, <2>3, <3>2, <3>3, <3>4, <3>5 DEF FrInv, FrFresh
  <2>4. CASE /\ ~async
             /\ \E p \in Fr!FailsAt(q) : \E n \in Fr!Entries(q, p) :
                  h' = Fr!Result(s, p, n) /\ kernel' = Fr!After(s, k, p, n)
             /\ hist' = [ran |-> TRUE, called |-> 0]
             /\ UNCHANGED pending
    <3>0. PICK p \in Fr!FailsAt(q) : \E n \in Fr!Entries(q, p) :
            h' = Fr!Result(s, p, n) /\ kernel' = Fr!After(s, k, p, n)
      BY <2>4
    <3>1. PICK n \in Fr!Entries(q, p) : h' = Fr!Result(s, p, n) /\ kernel' = Fr!After(s, k, p, n)
      BY <3>0
    <3>2. /\ FrRequest(h') /\ FrFlags(h') /\ FrResults(h') /\ FrHolds(h', kernel')
          /\ "CLEANEDUP" \notin h'.flags /\ h'.result # -2
          /\ h'.async = FALSE /\ h'.registered = FALSE
      BY <2>2, <2>4, <3>1, FrDone
    <3> QED
      BY <1>1, <1>2, <2>4, <3>2 DEF FrInv
  <2> QED
    BY <2>1, <2>3, <2>4 DEF s
<1> QED
  BY <1>3, <1>4 DEF Fr!Submit

LEMMA FrWorkInv == ASSUME FsFaults = {}, FrInv, Fr!uv__fs_work PROVE FrInv'
<1>1. /\ pending = "queued" /\ pending' = "done" /\ hist' = [hist EXCEPT !.ran = TRUE]
      /\ UNCHANGED <<pc, cb>>
  BY DEF Fr!uv__fs_work
<1>2. PICK p \in Fr!FailsAt(h.q) : \E n \in Fr!Entries(h.q, p) :
        h' = Fr!Result(h, p, n) /\ kernel' = Fr!After(h, kernel, p, n)
  BY DEF Fr!uv__fs_work
<1>3. PICK n \in Fr!Entries(h.q, p) : h' = Fr!Result(h, p, n) /\ kernel' = Fr!After(h, kernel, p, n)
  BY <1>2
<1>4. /\ FrRequest(h) /\ FrFlags(h) /\ FrFresh(h) /\ h.q \in Fr!Requests /\ FrHolds(h, kernel)
      /\ h.registered = TRUE /\ h.async = TRUE /\ hist.called = 0
  BY <1>1 DEF FrInv, FrFlags
<1>5. /\ FrRequest(h') /\ FrFlags(h') /\ FrResults(h') /\ FrHolds(h', kernel')
      /\ "CLEANEDUP" \notin h'.flags /\ h'.result # -2
      /\ h'.async = h.async /\ h'.registered = h.registered
  BY <1>3, <1>4, FrDone
<1>6. hist' = [ran |-> TRUE, called |-> 0]
  BY <1>1, <1>4 DEF FrInv
<1> QED
  BY <1>1, <1>4, <1>5, <1>6 DEF FrInv

LEMMA FrCancelInv == ASSUME FrInv, Fr!uv_cancel PROVE FrInv'
BY DEF FrInv, Fr!uv_cancel

LEMMA FrCallbackInv == ASSUME FrInv, Fr!CallbackReturns PROVE FrInv'
BY DEF FrInv, Fr!CallbackReturns

\* The callback: a cancelled request was not begun, so its result is free.
LEMMA FrDoneInv == ASSUME FrInv, Fr!uv__fs_done PROVE FrInv'
<1> DEFINE res == IF pending = "cancelled" THEN -2 ELSE h.result
<1>1. pending \in {"done", "cancelled"} /\ pending' = "none" /\ UNCHANGED kernel
  BY DEF Fr!uv__fs_done
<1>2. ~(pending = "cancelled" /\ h.result # 0)
  BY DEF FrInv, FrFresh
<1>3. /\ h' = [h EXCEPT !.registered = FALSE, !.result = res]
      /\ hist' = [hist EXCEPT !.called = @ + 1] /\ UNCHANGED pc
  BY <1>2 DEF Fr!uv__fs_done
<1>4. h' = [q |-> h.q, flags |-> h.flags, result |-> res, ptr |-> h.ptr, pathw |-> h.pathw,
            bufs |-> h.bufs, nbufs |-> h.nbufs, async |-> h.async, registered |-> FALSE]
  BY <1>3 DEF FrInv, FrRequest
<1>5. /\ h'.q = h.q /\ h'.flags = h.flags /\ h'.result = res /\ h'.ptr = h.ptr
      /\ h'.pathw = h.pathw /\ h'.bufs = h.bufs /\ h'.nbufs = h.nbufs /\ h'.async = h.async
      /\ h'.registered = FALSE
  BY <1>4
<1>6. hist' = [ran |-> hist.ran, called |-> 1] /\ h.async = TRUE
  BY <1>1, <1>3 DEF FrInv
<1>7. pending = "cancelled" => h.ptr = "null" /\ hist.ran = FALSE /\ FrFresh(h)
  BY DEF FrInv, FrFresh
<1>8. res \in -2..MaxEntries
  BY EntriesAssumption DEF FrInv, FrRequest
<1>9. FrRequest(h')
  BY <1>4, <1>5, <1>8 DEF FrInv, FrRequest
<1>10. FrFlags(h') /\ FrResults(h')
  BY <1>5, <1>7 DEF FrInv, FrFlags, FrResults, FrFresh
<1>11. FrHolds(h', kernel')
  <2>1. FrOwned(h') = FrOwned(h)
    BY <1>5 DEF FrOwned
  <2>2. FrEntries(h') = FrEntries(h)
    BY <1>5, <1>7 DEF FrEntries
  <2> QED
    BY <1>1, <2>1, <2>2 DEF FrInv, FrHolds
<1>12. h'.result = -2 => hist'.ran = FALSE
  BY <1>5, <1>6, <1>7 DEF FrInv
<1> QED
  BY <1>1, <1>3, <1>5, <1>6, <1>9, <1>10, <1>11, <1>12 DEF FrInv

\* Cleanup frees exactly what is there: the program goes over the entries of
\* a directory to the end or frees the rest.
LEMMA FrCleanupInv == ASSUME FsFaults = {}, FrInv, Fr!uv_fs_req_cleanup PROVE FrInv'
<1> DEFINE paths == IF "FREE_PATHS" \in h.flags THEN {"paths"} ELSE {}
           ptr == IF "FREE_PTR" \in h.flags /\ h.ptr # "null" THEN {h.ptr} ELSE {}
           dents == IF "FREE_PTR" \in h.flags /\ h.ptr = "dents"
                    THEN Fr!CleanupFrom(h)..h.result ELSE {}
           bufs == IF h.bufs = "heap" THEN {"bufs"} ELSE {}
<1>1. /\ pending = "none" /\ "CLEANEDUP" \notin h.flags /\ ~(h.ptr = "dents" /\ h.nbufs = h.result)
      /\ kernel' = Fr!Freed(kernel, paths \cup ptr \cup bufs, dents)
      /\ h' = [h EXCEPT !.pathw = FALSE, !.bufs = "null", !.ptr = "null",
                        !.flags = @ \cup {"CLEANEDUP"}]
      /\ UNCHANGED <<pending, pc, cb, hist>>
  BY DEF Fr!uv_fs_req_cleanup
<1>2. /\ FrRequest(h) /\ FrFlags(h) /\ FrResults(h) /\ FrHolds(h, kernel)
  BY DEF FrInv
<1>3. paths = (IF h.pathw THEN {"paths"} ELSE {}) /\ ptr = {h.ptr} \cap {"heap", "dents"}
  BY <1>1, <1>2 DEF FrFlags, FrRequest
<1>4. paths \cup ptr \cup bufs = FrOwned(h)
  BY <1>3 DEF FrOwned
<1>5. dents = FrEntries(h)
  <2>1. CASE h.ptr = "dents"
    <3>1. "FREE_PTR" \in h.flags /\ h.nbufs < h.result /\ h.result \in 1..MaxEntries /\ h.nbufs \in Nat
      BY <1>1, <1>2, <2>1, EntriesAssumption DEF FrFlags, FrResults, FrRequest
    <3>2. Fr!CleanupFrom(h) = IF h.nbufs > 0 THEN h.nbufs ELSE 1
      BY <3>1 DEF Fr!CleanupFrom
    <3>3. dents = Fr!CleanupFrom(h)..h.result
      BY <2>1, <3>1
    <3>4. FrEntries(h) = {i \in 1..MaxEntries : i >= h.nbufs /\ i <= h.result}
      BY <2>1 DEF FrEntries
    <3> HIDE DEF dents
    <3>5. CASE h.nbufs > 0
      BY <3>1, <3>2, <3>3, <3>4, <3>5, EntriesAssumption
    <3>6. CASE h.nbufs = 0
      BY <3>1, <3>2, <3>3, <3>4, <3>6, EntriesAssumption
    <3> QED
      BY <3>1, <3>5, <3>6
  <2>2. CASE h.ptr # "dents"
    BY <2>2 DEF FrEntries
  <2> QED
    BY <2>1, <2>2
<1> HIDE DEF paths, ptr, dents, bufs
<1>6. /\ kernel' = [live |-> kernel'.live, dents |-> kernel'.dents, bad |-> kernel'.bad]
      /\ kernel'.live \ {"file"} = {} /\ kernel'.dents = {} /\ kernel'.bad = FALSE
  BY <1>1, <1>2, <1>4, <1>5 DEF Fr!Freed, FrHolds
<1>7. h' = [q |-> h.q, flags |-> h.flags \cup {"CLEANEDUP"}, result |-> h.result, ptr |-> "null",
            pathw |-> FALSE, bufs |-> "null", nbufs |-> h.nbufs, async |-> h.async,
            registered |-> h.registered]
  BY <1>1, <1>2 DEF FrRequest
<1>8. /\ h'.flags = h.flags \cup {"CLEANEDUP"} /\ h'.result = h.result /\ h'.ptr = "null"
      /\ h'.pathw = FALSE /\ h'.bufs = "null" /\ h'.nbufs = h.nbufs /\ h'.async = h.async
      /\ h'.registered = h.registered
  BY <1>7
<1>9. FrRequest(h')
  BY <1>2, <1>7, <1>8 DEF FrRequest
<1>10. FrFlags(h') /\ FrResults(h')
  BY <1>8 DEF FrFlags, FrResults
<1>11. FrHolds(h', kernel')
  BY <1>6, <1>8 DEF FrHolds, FrOwned, FrEntries
<1> QED
  BY <1>1, <1>8, <1>9, <1>10, <1>11 DEF FrInv

\* uv_fs_scandir_next frees the entry it returned before, and the array after
\* the last.
LEMMA FrNextInv == ASSUME FsFaults = {}, FrInv, Fr!uv_fs_scandir_next PROVE FrInv'
<1> DEFINE prev == IF h.nbufs > 0 THEN {h.nbufs} ELSE {}
           end == h.nbufs = h.result
<1>1. /\ pending = "none" /\ "CLEANEDUP" \notin h.flags /\ h.q.type = "scandir"
      /\ h.result >= 0 /\ (h.ptr = "dents" \/ h.nbufs = 0)
      /\ UNCHANGED <<pending, cb, hist>>
  BY DEF Fr!uv_fs_scandir_next
<1>2. /\ FrRequest(h) /\ FrFlags(h) /\ FrResults(h) /\ FrHolds(h, kernel)
  BY DEF FrInv
<1>3. ~(h.ptr = "null" /\ (h.nbufs > 0 \/ h.result # 0))
  BY <1>1, <1>2 DEF FrRequest, FrResults
<1>4. /\ kernel' = Fr!Freed(kernel, IF end /\ h.ptr = "dents" THEN {"dents"} ELSE {}, prev)
      /\ h' = IF end THEN [h EXCEPT !.ptr = "null"] ELSE [h EXCEPT !.nbufs = @ + 1]
      /\ UNCHANGED pc
  BY <1>3 DEF Fr!uv_fs_scandir_next
<1>5. h.result \in Int /\ h.nbufs \in Nat /\ h.result <= MaxEntries
  BY <1>2, EntriesAssumption DEF FrRequest
<1>6. CASE h.ptr = "dents"
  <2>1. h.result > 0 /\ h.nbufs <= h.result /\ kernel.dents = FrEntries(h) /\ "dents" \in kernel.live
    BY <1>2, <1>6 DEF FrResults, FrHolds, FrOwned
  <2>2. prev \subseteq kernel.dents
    BY <1>5, <1>6, <2>1, EntriesAssumption DEF FrEntries
  <2>3. CASE end
    <3>1. h' = [q |-> h.q, flags |-> h.flags, result |-> h.result, ptr |-> "null",
                pathw |-> h.pathw, bufs |-> h.bufs, nbufs |-> h.nbufs, async |-> h.async,
                registered |-> h.registered]
      BY <1>2, <1>4, <2>3 DEF FrRequest
    <3>2. /\ h'.q = h.q /\ h'.flags = h.flags /\ h'.result = h.result /\ h'.ptr = "null"
          /\ h'.pathw = h.pathw /\ h'.bufs = h.bufs /\ h'.nbufs = h.nbufs /\ h'.async = h.async
          /\ h'.registered = h.registered
      BY <3>1
    <3>3. FrRequest(h')
      BY <1>2, <3>1, <3>2 DEF FrRequest
    <3>4. FrFlags(h') /\ FrResults(h')
      BY <1>1, <1>2, <2>1, <2>3, <3>2 DEF FrFlags, FrResults
    <3>5. /\ kernel' = [live |-> kernel'.live, dents |-> kernel'.dents, bad |-> kernel'.bad]
          /\ kernel'.live = kernel.live \ {"dents"} /\ kernel'.dents = kernel.dents \ {h.nbufs}
          /\ kernel'.bad = FALSE
      BY <1>2, <1>4, <1>6, <2>1, <2>2, <2>3 DEF Fr!Freed, FrHolds
    <3>6. kernel'.dents = {}
      BY <1>5, <2>1, <2>3, <3>5 DEF FrEntries
    <3>7. FrOwned(h') = FrOwned(h) \ {"dents"} /\ FrEntries(h') = {}
      BY <1>6, <3>2 DEF FrOwned, FrEntries
    <3>8. FrHolds(h', kernel')
      BY <1>2, <3>5, <3>6, <3>7 DEF FrHolds
    <3> QED
      BY <1>1, <1>4, <3>2, <3>3, <3>4, <3>8 DEF FrInv
  <2>4. CASE ~end
    <3>1. h' = [q |-> h.q, flags |-> h.flags, result |-> h.result, ptr |-> h.ptr,
                pathw |-> h.pathw, bufs |-> h.bufs, nbufs |-> h.nbufs + 1, async |-> h.async,
                registered |-> h.registered]
      BY <1>2, <1>4, <2>4 DEF FrRequest
    <3>2. /\ h'.q = h.q /\ h'.flags = h.flags /\ h'.result = h.result /\ h'.ptr = h.ptr
          /\ h'.pathw = h.pathw /\ h'.bufs = h.bufs /\ h'.nbufs = h.nbufs + 1
          /\ h'.async = h.async /\ h'.registered = h.registered
      BY <3>1
    <3>3. FrRequest(h')
      BY <1>2, <1>5, <3>1, <3>2 DEF FrRequest
    <3>4. FrFlags(h') /\ FrResults(h')
      BY <1>1, <1>2, <1>5, <1>6, <2>1, <2>4, <3>2 DEF FrFlags, FrResults
    <3>5. /\ kernel' = [live |-> kernel'.live, dents |-> kernel'.dents, bad |-> kernel'.bad]
          /\ kernel'.live = kernel.live /\ kernel'.dents = kernel.dents \ prev
          /\ kernel'.bad = FALSE
      BY <1>2, <1>4, <2>2, <2>4 DEF Fr!Freed, FrHolds
    <3>6. kernel'.dents = FrEntries(h')
      BY <1>5, <1>6, <2>1, <3>2, <3>5, EntriesAssumption DEF FrEntries
    <3>7. FrOwned(h') = FrOwned(h)
      BY <3>2 DEF FrOwned
    <3>8. FrHolds(h', kernel')
      BY <1>2, <3>5, <3>6, <3>7 DEF FrHolds
    <3> QED
      BY <1>1, <1>4, <3>2, <3>3, <3>4, <3>8 DEF FrInv
  <2> QED
    BY <2>3, <2>4
<1>7. CASE h.ptr # "dents"
  <2>1. h.nbufs = 0 /\ h.result = 0
    BY <1>1, <1>2, <1>5, <1>7 DEF FrResults
  <2>2. kernel' = Fr!Freed(kernel, {}, {}) /\ h' = [h EXCEPT !.ptr = "null"]
    BY <1>4, <1>7, <2>1
  <2>3. h.ptr = "null"
    BY <1>1, <1>2, <1>7 DEF FrResults
  <2>4. kernel' = kernel /\ h' = h
    BY <1>2, <2>2, <2>3 DEF Fr!Freed, FrHolds, FrRequest
  <2> QED
    BY <1>1, <1>4, <2>4 DEF FrInv
<1> QED
  BY <1>6, <1>7

LEMMA FrNext ==
  ASSUME FsFaults = {}, FrInv, [Fr!Next]_(Fr!vars)
  PROVE  FrInv'
<1>1. CASE UNCHANGED Fr!vars
  BY <1>1 DEF Fr!vars, FrInv
<1>2. CASE \E q \in Fr!Requests : \E async \in BOOLEAN : Fr!Submit(q, async)
  BY <1>2, FrSubmitInv
<1>3. CASE Fr!uv_cancel \/ Fr!uv_fs_req_cleanup \/ Fr!uv_fs_scandir_next
  BY <1>3, FrCancelInv, FrCleanupInv, FrNextInv
<1>4. CASE Fr!CallbackReturns \/ Fr!uv__fs_done \/ Fr!uv__fs_work
  BY <1>4, FrCallbackInv, FrDoneInv, FrWorkInv
<1> QED
  BY <1>1, <1>2, <1>3, <1>4 DEF Fr!Next, Fr!UserCall

\* What the runs check of it follows.
LEMMA FrFollows == FrInv => Fr!PendingExact /\ Fr!ActiveExact /\ Fr!Sane
<1> SUFFICES ASSUME FrInv PROVE Fr!PendingExact /\ Fr!ActiveExact /\ Fr!Sane
  OBVIOUS
<1>1. FrRequest(h) /\ FrFlags(h) /\ FrResults(h) /\ FrHolds(h, kernel)
  BY DEF FrInv
<1>2. h.pathw = TRUE => "FREE_PATHS" \in h.flags
  BY <1>1 DEF FrFlags
<1>3. kernel.live \ {"file"} =
        {x \in {"paths"} : "FREE_PATHS" \in h.flags /\ h.pathw}
          \cup {x \in {"bufs"} : h.bufs = "heap"}
          \cup {x \in {"heap", "dents"} : h.ptr = x}
  BY <1>1, <1>2 DEF FrHolds, FrOwned, FrRequest
<1>4. kernel.dents = {i \in 1..MaxEntries : h.ptr = "dents" /\ i >= h.nbufs /\ i <= h.result}
  BY <1>1 DEF FrHolds, FrEntries
<1>5. kernel.bad = FALSE /\ pc.at = "loop"
  BY <1>1 DEF FrInv, FrHolds
<1>6. Fr!PendingExact
  BY <1>3, <1>4, <1>5 DEF Fr!PendingExact
<1>7. Fr!ActiveExact
  BY <1>1 DEF Fr!ActiveExact, FrInv, FrRequest
<1>8. h.result = -2 => kernel.live \subseteq {"paths", "bufs", "file"}
  BY <1>1 DEF FrHolds, FrOwned, FrResults
<1>9. Fr!Sane
  BY <1>1, <1>8 DEF Fr!Sane, FrInv, FrResults
<1> QED
  BY <1>6, <1>7, <1>9
=============================================================================
