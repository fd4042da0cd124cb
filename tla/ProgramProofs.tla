--------------------------- MODULE ProgramProofs ---------------------------
(***************************************************************************)
(* What is proved of the Unix backend and of the programs over the         *)
(* library: an inductive invariant for each, and what Components asks of   *)
(* it as a consequence.                                                    *)
(*                                                                         *)
(*  - UnixIo: the loop's table holds exactly the watchers that want        *)
(*    something, and what a watcher believes that epoll knows is what      *)
(*    epoll knows; so after the queue is empty nobody waits unheard.       *)
(*  - UnixSelect: the thread that selects and the loop hand the events     *)
(*    over in turn, and a close finds the thread wherever it is.           *)
(*  - SockServer: the list of clients is that of the clients alive.        *)
(*  - SockClient: the write mutex is free, or held by the thread that has  *)
(*    just locked it or by the one write that is in flight.                *)
(*  - SocksSession: every state of a session waits for one thing that is   *)
(*    in flight; a session that ends has one finalizer to come for each    *)
(*    close that has not ended.                                            *)
(*  - LogQueue: one setting is on its way at most, and what was wanted     *)
(*    gets through by the settings of now or by those ahead of it.         *)
(***************************************************************************)
EXTENDS Integers, FiniteSetTheorems, SequenceTheorems, TLAPS

CONSTANTS
  Watchers, PollWatchers, Fds, MaxOpens, MaxIoCalls, MaxIoReady, PollCount,
  IoFaults, MaxSelectCalls, MaxReady,
  MaxClients, MaxServerSends, MaxServerStarts, SockFaults,
  Senders, MaxClientData, ClientFaults,
  MaxRelays, SessionFaults, MaxMethods, MaxName, ParseFaults,
  LogThreads, MaxLogs, MaxSets, QueueLimit, FreeLimit, LogFaults

VARIABLES h, kernel, pending, pc, cb, calls, hist

Ui == INSTANCE UnixIo
Ul == INSTANCE UnixSelect
As == INSTANCE SockServer
Ac == INSTANCE SockClient
Ax == INSTANCE SocksSession
Lq == INSTANCE LogQueue

\* Descriptors are finitely many numbers; no watcher is called as no watcher.
ASSUME IoAssumption ==
  /\ Fds \subseteq Nat /\ IsFiniteSet(Fds)
  /\ "none" \notin Watchers
  /\ PollCount \in Int

\* A bound of the model.
ASSUME MaxClientsAssumption == MaxClients \in Nat

\* The threads that send are neither the one that connects nor the loop's.
ASSUME SendersAssumption == Senders \cap {"main", "loop", "nobody"} = {}

\* The threads that log are neither the one that starts the manager nor the
\* one that writes.
ASSUME LogThreadsAssumption == LogThreads \cap {"main", "log"} = {}

-----------------------------------------------------------------------------
(* UnixIo: watchers and the Linux poller.                                  *)

IoMasks == {"IN", "OUT"}

\* A watcher.
IoWatcher(x) ==
  /\ x = [kind |-> x.kind, fd |-> x.fd, pevents |-> x.pevents, events |-> x.events, queued |-> x.queued]
  /\ x.fd \in Fds \cup {-1} /\ x.pevents \subseteq IoMasks /\ x.events \subseteq IoMasks
  /\ x.queued \in BOOLEAN

\* What a watcher remembers fits together, and fits what epoll knows of its
\* descriptor: a change is queued to be told, and what is wanted has a
\* descriptor.
IoKnows(x, epoll) ==
  /\ x.pevents # {} => x.fd # -1
  /\ x.events # x.pevents => x.queued
  /\ x.queued => x.pevents # {}
  /\ x.events # {} => x.fd # -1 /\ epoll[x.fd] = x.events

\* The entries of the table that hold a watcher.
IoEntries(f) == {fd \in Fds : f[fd] # "none"}

\* The table holds exactly the watchers that want something, each at its
\* descriptor, and counts them.
IoTable(s) ==
  /\ s = [w |-> s.w, watchers |-> s.watchers, nfds |-> s.nfds]
  /\ s.w = [w \in Watchers |-> s.w[w]] /\ \A w \in Watchers : IoWatcher(s.w[w])
  /\ s.watchers \in [Fds -> Watchers \cup {"none"}]
  /\ \A w, v \in Watchers : w # v /\ s.w[w].fd # -1 => s.w[w].fd # s.w[v].fd
  /\ \A w \in Watchers : \A fd \in Fds :
       s.watchers[fd] = w <=> s.w[w].fd = fd /\ s.w[w].pevents # {}
  /\ s.nfds = Cardinality(IoEntries(s.watchers))

\* A descriptor with a watcher, one that epoll knows and one in the batch is
\* open; an event of the batch is for the file it was reported for.
IoKernel(k) ==
  /\ k = [open |-> k.open, ready |-> k.ready, epoll |-> k.epoll, opens |-> k.opens, changes |-> k.changes]
  /\ k.open \in [Fds -> Nat] /\ k.epoll = [fd \in Fds |-> k.epoll[fd]] /\ k.opens \in Nat
  /\ \A fd \in Fds : k.epoll[fd] # {} => k.open[fd] # 0

IoOpen(s, k) == \A w \in Watchers : s.w[w].fd # -1 => k.open[s.w[w].fd] # 0

IoEvent(e, open) ==
  /\ e = [fd |-> e.fd, ev |-> e.ev, gen |-> e.gen] /\ e.fd \in Fds \cup {-1}
  /\ "stops_in_batch" \notin IoFaults /\ e.fd # -1 => open[e.fd] # 0 /\ e.gen = open[e.fd]

IoBatch(b, open) == /\ b = [i \in 1..Len(b) |-> b[i]] /\ Len(b) \in Nat
                    /\ \A i \in 1..Len(b) : IoEvent(b[i], open)

IoPlace ==
  /\ pc = [at |-> pc.at, batch |-> pc.batch, n |-> pc.n, nfds |-> pc.nfds, count |-> pc.count]
  /\ pc.at \in {"loop", "pending", "wait", "events"}
  /\ pc.at = "wait" => cb = "none"
  /\ pc.at # "events" => pc.batch = <<>>
  /\ pc.at \in {"wait", "events"} => pc.count \in Int /\ pc.count <= PollCount
  /\ pc.at = "events" => pc.n \in Nat /\ (cb # "none" => pc.n # 0)
  /\ IoBatch(pc.batch, kernel.open)

\* Only streams are fed, and only while they have a descriptor.
IoFed ==
  /\ pending = [fed |-> pending.fed, pq |-> pending.pq]
  /\ pending.fed \subseteq Watchers /\ pending.pq \subseteq Watchers
  /\ \A w \in pending.fed \cup pending.pq : h.w[w].fd # -1 /\ h.w[w].kind = "stream"

\* What epoll was told before the loop began to wait, and still knows while
\* nothing of the batch was for anybody.
IoTold ==
  (pc.at = "wait" \/ (pc.at = "events" /\ pc.n = 0)) /\ pc.count = PollCount =>
    \A w \in Watchers : h.w[w].pevents # {} => kernel.epoll[h.w[w].fd] = h.w[w].pevents

IoInv ==
  /\ IoTable(h) /\ IoKernel(kernel) /\ IoOpen(h, kernel)
  /\ \A w \in Watchers : IoKnows(h.w[w], kernel.epoll)
  /\ IoPlace /\ IoFed /\ IoTold
  /\ "stops_in_batch" \notin IoFaults => hist = FALSE

\* Cardinality of the instance is that of the library.
LEMMA IoCardinality == \A S : Ui!Cardinality(S) = Cardinality(S)
BY Zenon DEF Ui!Cardinality, Cardinality

\* What one entry of the table counts.
IoCounts(entry) == IF entry = "none" THEN 0 ELSE 1

\* One entry of the table changes, and the number of entries with it.
LEMMA IoCount ==
  ASSUME NEW f, NEW g, NEW fd \in Fds, \A d \in Fds \ {fd} : f[d] = g[d]
  PROVE  Cardinality(IoEntries(g)) =
           Cardinality(IoEntries(f)) + IoCounts(g[fd]) - IoCounts(f[fd])
<1> USE DEF IoEntries
<1> DEFINE D == IoEntries(f)
           E == IoEntries(g)
           C == {d \in Fds \ {fd} : f[d] # "none"}
<1>1. IsFiniteSet(C) /\ Cardinality(C) \in Nat /\ fd \notin C
  BY IoAssumption, FS_Subset, FS_CardinalityType
<1>2. Cardinality(D) = Cardinality(C) + IoCounts(f[fd])
  <2>1. CASE f[fd] = "none"
    <3>1. D = C
      BY <2>1
    <3> QED
      BY <1>1, <2>1, <3>1 DEF IoCounts
  <2>2. CASE f[fd] # "none"
    <3>1. D = C \cup {fd}
      BY <2>2
    <3>2. Cardinality(D) = Cardinality(C) + 1
      BY <1>1, <3>1, FS_AddElement
    <3> QED
      BY <2>2, <3>2 DEF IoCounts
  <2> QED
    BY <2>1, <2>2
<1>3. Cardinality(E) = Cardinality(C) + IoCounts(g[fd])
  <2>1. CASE g[fd] = "none"
    <3>1. E = C /\ IoCounts(g[fd]) = 0
      BY <2>1 DEF IoCounts
    <3> HIDE DEF E, C
    <3> QED
      BY <1>1, <3>1
  <2>2. CASE g[fd] # "none"
    <3>1. E = C \cup {fd}
      BY <2>2
    <3>2. Cardinality(E) = Cardinality(C) + 1
      BY <1>1, <3>1, FS_AddElement
    <3> QED
      BY <2>2, <3>2 DEF IoCounts
  <2> QED
    BY <2>1, <2>2
<1> HIDE DEF D, E, C
<1>4. IoCounts(f[fd]) \in Int /\ IoCounts(g[fd]) \in Int
  BY DEF IoCounts
<1>5. Cardinality(E) = Cardinality(D) + IoCounts(g[fd]) - IoCounts(f[fd])
  BY <1>1, <1>2, <1>3, <1>4
<1> QED
  BY <1>5 DEF D, E

IoState(s) ==
  /\ s = [w |-> s.w, watchers |-> s.watchers, nfds |-> s.nfds]
  /\ s.w = [w \in Watchers |-> s.w[w]]
  /\ s.watchers = [d \in Fds |-> s.watchers[d]]

\* A watcher's wishes change, and its entry in the table with them.
LEMMA IoChange ==
  ASSUME NEW s, IoTable(s), NEW w \in Watchers, NEW fd, fd = s.w[w].fd, fd # -1,
         NEW t, IoState(t), IoWatcher(t.w[w]), t.w[w].fd = fd,
         \A v \in Watchers \ {w} : t.w[v] = s.w[v],
         \A d \in Fds \ {fd} : t.watchers[d] = s.watchers[d],
         t.watchers[fd] = IF t.w[w].pevents # {} THEN w ELSE "none",
         t.nfds = s.nfds + IoCounts(t.watchers[fd]) - IoCounts(s.watchers[fd])
  PROVE  IoTable(t) /\ \A v \in Watchers : t.w[v].fd = s.w[v].fd
<1>2. \A v \in Watchers : t.w[v].fd = s.w[v].fd
  OBVIOUS
<1>3. fd \in Fds
  BY DEF IoWatcher, IoTable
<1>5. t.watchers \in [Fds -> Watchers \cup {"none"}]
  <2>1. \A d \in Fds : t.watchers[d] \in Watchers \cup {"none"}
    BY DEF IoTable
  <2> QED
    BY <2>1 DEF IoState
<1>6. ASSUME NEW v \in Watchers, NEW d \in Fds
      PROVE t.watchers[d] = v <=> t.w[v].fd = d /\ t.w[v].pevents # {}
  <2>0. s.watchers[d] = v <=> s.w[v].fd = d /\ s.w[v].pevents # {}
    BY DEF IoTable
  <2>1. CASE d = fd /\ v = w
    BY <2>1, IoAssumption
  <2>2. CASE d = fd /\ v # w
    <3>1. t.w[v].fd # fd
      BY <2>2 DEF IoTable
    <3> QED
      BY <2>2, <3>1, IoAssumption
  <2>3. CASE d # fd /\ v = w
    BY <2>0, <2>3
  <2>4. CASE d # fd /\ v # w
    BY <2>0, <2>4
  <2> QED
    BY <2>1, <2>2, <2>3, <2>4
<1>7. t.nfds = Cardinality(IoEntries(t.watchers))
  <2>1. s.nfds = Cardinality(IoEntries(s.watchers))
    BY DEF IoTable
  <2>2. Cardinality(IoEntries(t.watchers)) =
          Cardinality(IoEntries(s.watchers)) + IoCounts(t.watchers[fd]) - IoCounts(s.watchers[fd])
    <3>1. PICK f, g : f = s.watchers /\ g = t.watchers
      OBVIOUS
    <3>2. \A d \in Fds \ {fd} : f[d] = g[d]
      BY <3>1
    <3>3. Cardinality(IoEntries(g)) =
            Cardinality(IoEntries(f)) + IoCounts(g[fd]) - IoCounts(f[fd])
      BY ONLY <3>2, <1>3, IoCount
    <3> QED
      BY ONLY <3>1, <3>3
  <2> QED
    BY <2>1, <2>2
<1>8. \A v, y \in Watchers : v # y /\ t.w[v].fd # -1 => t.w[v].fd # t.w[y].fd
  BY <1>2 DEF IoTable
<1>9. \A v \in Watchers : IoWatcher(t.w[v])
  BY DEF IoTable
<1> QED
  BY <1>2, <1>5, <1>6, <1>7, <1>8, <1>9 DEF IoTable, IoState

\* uv__io_start: the watcher is queued unless epoll knows its mask.
LEMMA IoStarted ==
  ASSUME NEW s, IoTable(s), NEW epoll, \A v \in Watchers : IoKnows(s.w[v], epoll),
         NEW w \in Watchers, s.w[w].fd # -1, NEW ev \in SUBSET IoMasks, ev # {},
         NEW t, t = Ui!Started(s, w, ev)
  PROVE  /\ IoTable(t) /\ \A v \in Watchers : IoKnows(t.w[v], epoll)
         /\ \A v \in Watchers : t.w[v].fd = s.w[v].fd /\ t.w[v].kind = s.w[v].kind
<1>0. PICK x, fd, p : x = s.w[w] /\ fd = x.fd /\ p = x.pevents \cup ev
  OBVIOUS
<1>1. IoWatcher(x) /\ IoKnows(x, epoll) /\ fd \in Fds /\ s.watchers[fd] \in {w, "none"}
      /\ (s.watchers[fd] = w <=> x.pevents # {}) /\ p # {} /\ p \subseteq IoMasks
  BY <1>0 DEF IoTable, IoWatcher
<1>2. PICK same \in BOOLEAN : same = (x.events = p)
  OBVIOUS
<1>3. PICK new \in BOOLEAN : new = (~same /\ s.watchers[fd] = "none")
  OBVIOUS
<1>4. new = (s.watchers[fd] = "none")
  BY <1>1, <1>2, <1>3, IoAssumption DEF IoKnows
<1>5. t = [s EXCEPT !.w[w].pevents = p,
                    !.w[w].queued = IF same THEN @ ELSE TRUE,
                    !.watchers[fd] = IF new THEN w ELSE @,
                    !.nfds = IF new THEN @ + 1 ELSE @]
  BY <1>0, <1>2, <1>3 DEF Ui!Started, Ui!None
<1>6. IoState(s)
  BY DEF IoTable, IoState
<1>7. /\ t.w = [s.w EXCEPT ![w].pevents = p, ![w].queued = IF same THEN @ ELSE TRUE]
      /\ t.watchers = [s.watchers EXCEPT ![fd] = IF new THEN w ELSE @]
      /\ t.nfds = IF new THEN s.nfds + 1 ELSE s.nfds
      /\ t = [w |-> t.w, watchers |-> t.watchers, nfds |-> t.nfds]
  BY <1>5, <1>6 DEF IoState
<1>8. /\ t.w[w] = [x EXCEPT !.pevents = p, !.queued = IF same THEN @ ELSE TRUE]
      /\ t.w = [v \in Watchers |-> t.w[v]] /\ \A v \in Watchers \ {w} : t.w[v] = s.w[v]
  BY <1>0, <1>6, <1>7 DEF IoState
<1>9. /\ t.watchers = [d \in Fds |-> t.watchers[d]] /\ \A d \in Fds \ {fd} : t.watchers[d] = s.watchers[d]
      /\ t.watchers[fd] = w
  BY <1>1, <1>4, <1>6, <1>7 DEF IoState
<1>10. t.w[w] = [kind |-> x.kind, fd |-> fd, pevents |-> p, events |-> x.events,
                 queued |-> IF same THEN x.queued ELSE TRUE]
  BY <1>0, <1>1, <1>8 DEF IoWatcher
<1>11. IoState(t)
  BY <1>7, <1>8, <1>9 DEF IoState
<1>12. IoWatcher(t.w[w]) /\ t.w[w].fd = fd
  <2>1. PICK y, q : y = t.w[w] /\ q = IF same THEN x.queued ELSE TRUE
    OBVIOUS
  <2>2. y = [kind |-> x.kind, fd |-> fd, pevents |-> p, events |-> x.events, queued |-> q]
    BY <1>10, <2>1
  <2>3. q \in BOOLEAN
    BY <1>1, <1>2, <2>1 DEF IoWatcher
  <2>4. IoWatcher(y) /\ y.fd = fd
    BY <1>1, <2>2, <2>3 DEF IoWatcher
  <2> QED
    BY <2>1, <2>4
<1>13. t.nfds = s.nfds + IoCounts(t.watchers[fd]) - IoCounts(s.watchers[fd])
  <2>1. s.nfds \in Nat
    BY IoAssumption, FS_Subset, FS_CardinalityType DEF IoTable, IoEntries
  <2>2. CASE new
    <3>1. IoCounts(t.watchers[fd]) = 1 /\ IoCounts(s.watchers[fd]) = 0
      BY <2>2, <1>4, <1>9, IoAssumption DEF IoCounts
    <3>2. t.nfds = s.nfds + 1
      BY <2>2, <1>7
    <3> QED
      BY ONLY <2>1, <3>1, <3>2
  <2>3. CASE ~new
    BY <2>1, <2>3, <1>1, <1>4, <1>7, <1>9, IoAssumption DEF IoCounts
  <2> QED
    BY <2>2, <2>3
<1>14. IoTable(t) /\ \A v \in Watchers : t.w[v].fd = s.w[v].fd
  BY <1>0, <1>1, <1>8, <1>9, <1>10, <1>11, <1>12, <1>13, IoChange
<1>15. IoKnows(t.w[w], epoll)
  <2>1. /\ t.w[w].pevents = p /\ t.w[w].fd = fd /\ t.w[w].events = x.events
        /\ t.w[w].queued = IF same THEN x.queued ELSE TRUE
    BY <1>10
  <2>2. IoKnows(x, epoll) /\ fd # -1 /\ p # {} /\ (same <=> x.events = p)
    BY <1>0, <1>1, <1>2
  <2> QED
    BY ONLY <1>0, <2>1, <2>2 DEF IoKnows
<1> QED
  BY <1>0, <1>8, <1>10, <1>14, <1>15

\* uv__io_stop: a watcher that wants nothing more leaves the table, and what
\* epoll knows of it is forgotten with it.
LEMMA IoStopped ==
  ASSUME NEW s, IoTable(s), NEW epoll, \A v \in Watchers : IoKnows(s.w[v], epoll),
         NEW w \in Watchers, s.w[w].fd # -1, NEW ev \in SUBSET IoMasks,
         NEW t, t = Ui!Stopped(s, w, ev)
  PROVE  /\ IoTable(t) /\ \A v \in Watchers : IoKnows(t.w[v], epoll)
         /\ \A v \in Watchers : t.w[v].fd = s.w[v].fd /\ t.w[v].kind = s.w[v].kind
         /\ \A v \in Watchers \ {w} : t.w[v] = s.w[v]
         /\ t.w[w].pevents = s.w[w].pevents \ ev
<1>0. PICK x, fd, p : x = s.w[w] /\ fd = x.fd /\ p = x.pevents \ ev
  OBVIOUS
<1>1. IoWatcher(x) /\ IoKnows(x, epoll) /\ fd \in Fds /\ s.watchers[fd] \in {w, "none"}
      /\ (s.watchers[fd] = w <=> x.pevents # {}) /\ p \subseteq IoMasks
  BY <1>0 DEF IoTable, IoWatcher
<1>2. PICK gone \in BOOLEAN : gone = (p = {} /\ s.watchers[fd] # "none")
  OBVIOUS
<1>3. gone <=> p = {} /\ x.pevents # {}
  BY <1>1, <1>2, IoAssumption
<1>5. t = [s EXCEPT !.w[w].pevents = p,
                    !.w[w].queued = (p # {}),
                    !.w[w].events = IF gone THEN {} ELSE @,
                    !.watchers[fd] = IF p = {} THEN "none" ELSE @,
                    !.nfds = IF gone THEN @ - 1 ELSE @]
  BY <1>0, <1>2 DEF Ui!Stopped, Ui!None
<1>6. IoState(s)
  BY DEF IoTable, IoState
<1>7. /\ t.w = [s.w EXCEPT ![w].pevents = p, ![w].queued = (p # {}), ![w].events = IF gone THEN {} ELSE @]
      /\ t.watchers = [s.watchers EXCEPT ![fd] = IF p = {} THEN "none" ELSE @]
      /\ t.nfds = IF gone THEN s.nfds - 1 ELSE s.nfds
      /\ t = [w |-> t.w, watchers |-> t.watchers, nfds |-> t.nfds]
  BY <1>5, <1>6 DEF IoState
<1>8. /\ t.w[w] = [x EXCEPT !.pevents = p, !.queued = (p # {}), !.events = IF gone THEN {} ELSE @]
      /\ t.w = [v \in Watchers |-> t.w[v]] /\ \A v \in Watchers \ {w} : t.w[v] = s.w[v]
  BY <1>0, <1>6, <1>7 DEF IoState
<1>9. /\ t.watchers = [d \in Fds |-> t.watchers[d]] /\ \A d \in Fds \ {fd} : t.watchers[d] = s.watchers[d]
      /\ t.watchers[fd] = IF p = {} THEN "none" ELSE w
  BY <1>0, <1>1, <1>6, <1>7 DEF IoState
<1>10. t.w[w] = [kind |-> x.kind, fd |-> fd, pevents |-> p, events |-> IF gone THEN {} ELSE x.events,
                 queued |-> (p # {})]
  BY <1>0, <1>1, <1>8 DEF IoWatcher
<1>11. IoState(t)
  BY <1>7, <1>8, <1>9 DEF IoState
<1>12. IoWatcher(t.w[w]) /\ t.w[w].fd = fd /\ t.w[w].pevents = p /\ IoKnows(t.w[w], epoll)
  <2>1. PICK y, e, q : y = t.w[w] /\ e = (IF gone THEN {} ELSE x.events) /\ q = (p # {})
    OBVIOUS
  <2>2. y = [kind |-> x.kind, fd |-> fd, pevents |-> p, events |-> e, queued |-> q]
    BY <1>10, <2>1
  <2>3. q \in BOOLEAN /\ e \subseteq IoMasks
    BY <1>1, <2>1 DEF IoWatcher
  <2>4. IoWatcher(y) /\ y.fd = fd /\ y.pevents = p
    BY <1>1, <2>2, <2>3 DEF IoWatcher
  <2>5. y.events = e /\ y.queued = q /\ fd # -1
    BY <1>0, <2>2
  <2>6. p = {} => e = {}
    BY <1>1, <1>3, <2>1 DEF IoKnows
  <2>7. IoKnows(y, epoll)
    <3>1. e # {} => epoll[fd] = e
      BY <1>0, <1>1, <2>1 DEF IoKnows
    <3>2. e # p => q = TRUE
      BY <2>1, <2>6
    <3> QED
      BY ONLY <2>1, <2>4, <2>5, <3>1, <3>2 DEF IoKnows
  <2> QED
    BY <2>1, <2>4, <2>7
<1>13. t.nfds = s.nfds + IoCounts(t.watchers[fd]) - IoCounts(s.watchers[fd])
  <2>1. s.nfds \in Nat
    BY IoAssumption, FS_Subset, FS_CardinalityType DEF IoTable, IoEntries
  <2>2. CASE gone
    <3>1. IoCounts(t.watchers[fd]) = 0 /\ IoCounts(s.watchers[fd]) = 1
      BY <2>2, <1>2, <1>3, <1>9 DEF IoCounts
    <3>2. t.nfds = s.nfds - 1
      BY <2>2, <1>7
    <3> QED
      BY ONLY <2>1, <3>1, <3>2
  <2>3. CASE ~gone
    <3>1. IoCounts(t.watchers[fd]) = IoCounts(s.watchers[fd]) /\ IoCounts(s.watchers[fd]) \in Nat
      BY <2>3, <1>0, <1>1, <1>2, <1>9 DEF IoCounts
    <3>2. t.nfds = s.nfds
      BY <2>3, <1>7
    <3> QED
      BY ONLY <2>1, <3>1, <3>2
  <2> QED
    BY <2>2, <2>3
<1>14. IoTable(t) /\ \A v \in Watchers : t.w[v].fd = s.w[v].fd
  <2>1. t.watchers[fd] = IF t.w[w].pevents # {} THEN w ELSE "none"
    BY <1>9, <1>12
  <2>2. fd = s.w[w].fd /\ fd # -1
    BY <1>0
  <2>3. IoWatcher(t.w[w]) /\ t.w[w].fd = fd
    BY <1>12
  <2>4. \A v \in Watchers \ {w} : t.w[v] = s.w[v]
    BY <1>8
  <2>5. \A d \in Fds \ {fd} : t.watchers[d] = s.watchers[d]
    BY <1>9
  <2> QED
    BY ONLY IoTable(s), w \in Watchers, <2>1, <2>2, <2>3, <2>4, <2>5, <1>11, <1>13, IoChange
<1> QED
  BY <1>0, <1>8, <1>10, <1>12, <1>14

\* A watcher that wants nothing is given another record.
LEMMA IoReplaced ==
  ASSUME NEW s, IoTable(s), NEW w \in Watchers, s.w[w].pevents = {},
         NEW x, IoWatcher(x), x.pevents = {},
         x.fd = -1 \/ \A v \in Watchers \ {w} : s.w[v].fd # x.fd,
         NEW t, IoState(t), t.watchers = s.watchers, t.nfds = s.nfds, t.w[w] = x,
         \A v \in Watchers \ {w} : t.w[v] = s.w[v]
  PROVE  IoTable(t)
<1>1. ASSUME NEW v \in Watchers, NEW d \in Fds
      PROVE t.watchers[d] = v <=> t.w[v].fd = d /\ t.w[v].pevents # {}
  <2>1. s.watchers[d] = v <=> s.w[v].fd = d /\ s.w[v].pevents # {}
    BY DEF IoTable
  <2> QED
    BY <2>1
<1>2. \A v \in Watchers : IoWatcher(t.w[v])
  BY DEF IoTable
<1>3. ASSUME NEW v \in Watchers, NEW y \in Watchers, v # y, t.w[v].fd # -1 PROVE t.w[v].fd # t.w[y].fd
  <2>1. CASE v = w
    BY <1>3, <2>1
  <2>2. CASE y = w
    BY <1>3, <2>2
  <2>3. CASE v # w /\ y # w
    BY <1>3, <2>3 DEF IoTable
  <2> QED
    BY <2>1, <2>2, <2>3
<1>4. t.nfds = Cardinality(IoEntries(t.watchers)) /\ t.watchers \in [Fds -> Watchers \cup {"none"}]
  BY DEF IoTable
<1> QED
  BY <1>1, <1>2, <1>3, <1>4 DEF IoTable, IoState

IoCloses(k, fd) == [k EXCEPT !.epoll[fd] = {}, !.open[fd] = 0, !.ready[fd] = {}]

\* A descriptor is closed: epoll forgets it.
LEMMA IoClosed ==
  ASSUME NEW k, IoKernel(k), NEW fd \in Fds,
         NEW l, l = IoCloses(k, fd)
  PROVE  /\ IoKernel(l) /\ l.epoll[fd] = {} /\ l.open[fd] = 0
         /\ \A d \in Fds \ {fd} : l.epoll[d] = k.epoll[d] /\ l.open[d] = k.open[d]
<1>1. /\ l.epoll = [k.epoll EXCEPT ![fd] = {}] /\ l.open = [k.open EXCEPT ![fd] = 0]
      /\ l = [open |-> l.open, ready |-> l.ready, epoll |-> l.epoll, opens |-> k.opens, changes |-> k.changes]
  BY DEF IoKernel, IoCloses
<1> QED
  BY <1>1 DEF IoKernel, IoCloses

\* What both ways to close a watcher do to it and to its descriptor.
LEMMA IoGone ==
  ASSUME IoTable(h), IoKernel(kernel), IoOpen(h, kernel), \A v \in Watchers : IoKnows(h.w[v], kernel.epoll),
         NEW w \in Watchers, NEW fd, fd = h.w[w].fd, fd # -1,
         h' = [Ui!Stopped(h, w, IoMasks) EXCEPT !.w[w].fd = -1],
         kernel' = [kernel EXCEPT !.epoll[fd] = {}, !.open[fd] = 0, !.ready[fd] = {}]
  PROVE  /\ IoTable(h)' /\ IoKernel(kernel)' /\ IoOpen(h, kernel)'
         /\ \A v \in Watchers : IoKnows(h'.w[v], kernel'.epoll)
         /\ fd \in Fds /\ \A d \in Fds \ {fd} : kernel'.open[d] = kernel.open[d]
         /\ \A v \in Watchers \ {w} : h'.w[v].fd = h.w[v].fd /\ h'.w[v].kind = h.w[v].kind
<1>1. PICK s : s = Ui!Stopped(h, w, IoMasks)
  OBVIOUS
<1>2. /\ IoTable(s) /\ \A v \in Watchers : IoKnows(s.w[v], kernel.epoll)
      /\ \A v \in Watchers : s.w[v].fd = h.w[v].fd /\ s.w[v].kind = h.w[v].kind
      /\ s.w[w].pevents = h.w[w].pevents \ IoMasks
  BY <1>1, IoStopped DEF IoMasks
<1>3. s.w[w].pevents = {} /\ fd \in Fds
  BY <1>2 DEF IoTable, IoWatcher
<1>4. s.w[w].events = {} /\ s.w[w].queued = FALSE
  BY <1>2, <1>3 DEF IoKnows, IoTable, IoWatcher
<1>5. PICK t : t = h'
  OBVIOUS
<1>6. t = [s EXCEPT !.w[w].fd = -1]
  BY <1>1, <1>5
<1>7. /\ t.w = [s.w EXCEPT ![w].fd = -1] /\ t.watchers = s.watchers /\ t.nfds = s.nfds
      /\ t = [w |-> t.w, watchers |-> t.watchers, nfds |-> t.nfds]
  BY <1>2, <1>6 DEF IoTable
<1>8. /\ t.w[w] = [s.w[w] EXCEPT !.fd = -1] /\ \A v \in Watchers \ {w} : t.w[v] = s.w[v]
      /\ t.w = [v \in Watchers |-> t.w[v]] /\ t.watchers = [d \in Fds |-> t.watchers[d]]
  <2>1. s.w = [v \in Watchers |-> s.w[v]] /\ s.watchers = [d \in Fds |-> s.watchers[d]]
    BY <1>2 DEF IoTable
  <2>2. PICK f : f = s.w
    OBVIOUS
  <2>3. t.w = [f EXCEPT ![w].fd = -1] /\ f = [v \in Watchers |-> f[v]]
    BY <1>7, <2>1, <2>2
  <2>4. /\ t.w[w] = [f[w] EXCEPT !.fd = -1] /\ \A v \in Watchers \ {w} : t.w[v] = f[v]
        /\ t.w = [v \in Watchers |-> t.w[v]]
    BY <2>3
  <2> QED
    BY <1>7, <2>1, <2>2, <2>4
<1>9. IoWatcher(s.w[w])
  BY <1>2 DEF IoTable
<1>10. /\ IoWatcher(t.w[w]) /\ t.w[w].fd = -1 /\ t.w[w].pevents = {} /\ t.w[w].events = {}
       /\ t.w[w].queued = FALSE
  BY <1>3, <1>4, <1>8, <1>9 DEF IoWatcher
<1>11. IoState(t)
  BY <1>7, <1>8 DEF IoState
<1>12. IoTable(t)
  <2>1. IoTable(s) /\ s.w[w].pevents = {}
    BY <1>2, <1>3
  <2>2. t.watchers = s.watchers /\ t.nfds = s.nfds /\ \A v \in Watchers \ {w} : t.w[v] = s.w[v]
    BY <1>7, <1>8
  <2> QED
    BY ONLY w \in Watchers, <2>1, <2>2, <1>10, <1>11, IoReplaced
<1>13. /\ IoKernel(kernel') /\ kernel'.epoll[fd] = {} /\ kernel'.open[fd] = 0
       /\ \A d \in Fds \ {fd} : kernel'.epoll[d] = kernel.epoll[d] /\ kernel'.open[d] = kernel.open[d]
  <2>1. PICK k, l : k = kernel /\ l = kernel'
    OBVIOUS
  <2>2. IoKernel(k) /\ l = IoCloses(k, fd)
    BY <2>1 DEF IoCloses
  <2>3. /\ IoKernel(l) /\ l.epoll[fd] = {} /\ l.open[fd] = 0
        /\ \A d \in Fds \ {fd} : l.epoll[d] = k.epoll[d] /\ l.open[d] = k.open[d]
    BY ONLY <1>3, <2>2, IoClosed
  <2> QED
    BY <2>1, <2>3
<1>14. ASSUME NEW v \in Watchers, v # w, t.w[v].fd # -1
       PROVE  t.w[v].fd \in Fds \ {fd} /\ kernel'.open[t.w[v].fd] # 0
  <2>1. t.w[v].fd = h.w[v].fd
    BY <1>2, <1>8, <1>14
  <2>2. t.w[v].fd \in Fds \ {fd}
    <3>1. h.w[v].fd \in Fds \cup {-1}
      BY DEF IoTable, IoWatcher
    <3>2. h.w[w].fd # h.w[v].fd
      BY <1>14 DEF IoTable
    <3> QED
      BY <1>14, <2>1, <3>1, <3>2
  <2> QED
    BY <1>13, <1>14, <2>1, <2>2 DEF IoOpen
<1>15. ASSUME NEW v \in Watchers PROVE IoKnows(t.w[v], kernel'.epoll)
  <2>1. CASE v = w
    BY <2>1, <1>10 DEF IoKnows
  <2>2. CASE v # w
    BY <2>2, <1>2, <1>8, <1>13, <1>14 DEF IoKnows
  <2> QED
    BY <2>1, <2>2
<1>16. IoOpen(t, kernel')
  BY <1>10, <1>14 DEF IoOpen
<1>17. \A v \in Watchers \ {w} : t.w[v].fd = h.w[v].fd /\ t.w[v].kind = h.w[v].kind
  BY <1>2, <1>8
<1> QED
  BY <1>3, <1>5, <1>12, <1>13, <1>15, <1>16, <1>17

\* What the user may do while no events are being waited for.
LEMMA IoUser ==
  ASSUME IoInv, Ui!User
  PROVE  /\ IoTable(h) /\ IoKernel(kernel) /\ IoOpen(h, kernel) /\ IoPlace /\ IoFed
         /\ \A w \in Watchers : IoKnows(h.w[w], kernel.epoll)
         /\ pc.at # "wait" /\ ~(pc.at = "events" /\ pc.n = 0)
         /\ ("stops_in_batch" \notin IoFaults => hist = FALSE)
BY DEF IoInv, IoPlace, Ui!User, Ui!None

\* uv__io_start keeps the invariant.
LEMMA IoStart ==
  ASSUME IoInv, NEW w \in Watchers, NEW ev \in Ui!Masks, Ui!uv__io_start(w, ev)
  PROVE  IoInv'
<1>1. Ui!User /\ h.w[w].fd # -1 /\ h' = Ui!Started(h, w, ev) /\ UNCHANGED <<kernel, pending, pc, cb, hist>>
  BY DEF Ui!uv__io_start, Ui!Call
<1>2. ev \in SUBSET IoMasks /\ ev # {}
  BY DEF Ui!Masks, IoMasks
<1>3. PICK s, t, epoll : s = h /\ t = h' /\ epoll = kernel.epoll
  OBVIOUS
<1>4. IoTable(s) /\ (\A v \in Watchers : IoKnows(s.w[v], epoll)) /\ s.w[w].fd # -1 /\ t = Ui!Started(s, w, ev)
  BY <1>1, <1>3, IoUser
<1>5. /\ IoTable(t) /\ \A v \in Watchers : IoKnows(t.w[v], epoll)
      /\ \A v \in Watchers : t.w[v].fd = s.w[v].fd /\ t.w[v].kind = s.w[v].kind
  BY ONLY w \in Watchers, <1>2, <1>4, IoStarted
<1>6. IoPlace'
  BY <1>1, IoUser DEF IoPlace
<1>7. IoFed'
  BY <1>1, <1>3, <1>5, IoUser DEF IoFed
<1>8. IoOpen(t, kernel')
  BY <1>1, <1>3, <1>5, IoUser DEF IoOpen
<1> QED
  BY <1>1, <1>3, <1>5, <1>6, <1>7, <1>8, IoUser DEF IoInv, IoTold

\* uv__io_stop keeps the invariant.
LEMMA IoStop ==
  ASSUME IoInv, NEW w \in Watchers, NEW ev \in Ui!Masks, Ui!uv__io_stop(w, ev)
  PROVE  IoInv'
<1>1. Ui!User /\ h.w[w].fd # -1 /\ h' = Ui!Stopped(h, w, ev) /\ UNCHANGED <<kernel, pending, pc, cb, hist>>
  BY DEF Ui!uv__io_stop, Ui!Call
<1>2. ev \in SUBSET IoMasks
  BY DEF Ui!Masks, IoMasks
<1>3. PICK s, t, epoll : s = h /\ t = h' /\ epoll = kernel.epoll
  OBVIOUS
<1>4. IoTable(s) /\ (\A v \in Watchers : IoKnows(s.w[v], epoll)) /\ s.w[w].fd # -1 /\ t = Ui!Stopped(s, w, ev)
  BY <1>1, <1>3, IoUser
<1>5. /\ IoTable(t) /\ \A v \in Watchers : IoKnows(t.w[v], epoll)
      /\ \A v \in Watchers : t.w[v].fd = s.w[v].fd /\ t.w[v].kind = s.w[v].kind
  BY ONLY w \in Watchers, <1>2, <1>4, IoStopped
<1>6. IoPlace'
  BY <1>1, IoUser DEF IoPlace
<1>7. IoFed'
  BY <1>1, <1>3, <1>5, IoUser DEF IoFed
<1>8. IoOpen(t, kernel')
  BY <1>1, <1>3, <1>5, IoUser DEF IoOpen
<1> QED
  BY <1>1, <1>3, <1>5, <1>6, <1>7, <1>8, IoUser DEF IoInv, IoTold

\* uv__io_feed keeps the invariant.
LEMMA IoFeed ==
  ASSUME IoInv, NEW w \in Watchers, Ui!uv__io_feed(w)
  PROVE  IoInv'
<1>1. /\ Ui!User /\ h.w[w].fd # -1 /\ h.w[w].kind = "stream" /\ UNCHANGED <<h, kernel, pc, cb, hist>>
      /\ pending' = [pending EXCEPT !.fed = IF w \in pending.pq THEN @ ELSE @ \cup {w}]
  BY DEF Ui!uv__io_feed, Ui!Call
<1>2. pending' = [fed |-> pending'.fed, pq |-> pending.pq] /\ pending'.fed \in {pending.fed, pending.fed \cup {w}}
  BY <1>1, IoUser DEF IoFed
<1>3. IoFed'
  BY <1>1, <1>2, IoUser DEF IoFed
<1> QED
  BY <1>1, <1>3, IoUser DEF IoInv, IoTold, IoPlace

\* A batch with the events of a closed descriptor invalidated.
LEMMA IoInvalidated ==
  ASSUME NEW b, NEW open, IoBatch(b, open), NEW fd, fd # -1, NEW new, \A d \in Fds \ {fd} : new[d] = open[d]
  PROVE  IoBatch(Ui!Invalidated(b, fd), new)
<1>1. PICK c : c = Ui!Invalidated(b, fd)
  OBVIOUS
<1>2. DOMAIN b = 1..Len(b) /\ Len(b) \in Nat
  BY DEF IoBatch
<1>3. c = [i \in 1..Len(b) |-> IF b[i].fd = fd THEN [b[i] EXCEPT !.fd = -1] ELSE b[i]]
  BY <1>1, <1>2 DEF Ui!Invalidated
<1>4. Len(c) = Len(b)
  BY <1>2, <1>3
<1>5. ASSUME NEW i \in 1..Len(b) PROVE IoEvent(c[i], new)
  <2>1. IoEvent(b[i], open)
    BY DEF IoBatch
  <2>2. CASE b[i].fd = fd
    BY <1>3, <2>1, <2>2 DEF IoEvent
  <2>3. CASE b[i].fd # fd
    BY <1>3, <2>1, <2>3 DEF IoEvent
  <2> QED
    BY <2>2, <2>3
<1>6. c = [i \in 1..Len(c) |-> c[i]]
  BY <1>3, <1>4
<1> QED
  BY <1>1, <1>2, <1>4, <1>5, <1>6 DEF IoBatch

\* uv__io_close keeps the invariant.
LEMMA IoClose ==
  ASSUME IoInv, NEW w \in Watchers, Ui!uv__io_close(w)
  PROVE  IoInv'
<1>1. PICK fd : fd = h.w[w].fd
  OBVIOUS
<1>2. /\ Ui!User /\ fd # -1 /\ h.w[w].kind = "stream" /\ UNCHANGED <<cb, hist>>
      /\ h' = [Ui!Stopped(h, w, {"IN", "OUT"}) EXCEPT !.w[w].fd = -1]
      /\ pc' = [pc EXCEPT !.batch = Ui!Invalidated(@, fd)]
      /\ kernel' = [kernel EXCEPT !.epoll[fd] = {}, !.open[fd] = 0, !.ready[fd] = {}]
      /\ pending' = [fed |-> pending.fed \ {w}, pq |-> pending.pq \ {w}]
  BY <1>1 DEF Ui!uv__io_close
<1>3. /\ IoTable(h)' /\ IoKernel(kernel)' /\ IoOpen(h, kernel)'
      /\ \A v \in Watchers : IoKnows(h'.w[v], kernel'.epoll)
      /\ fd \in Fds /\ \A d \in Fds \ {fd} : kernel'.open[d] = kernel.open[d]
      /\ \A v \in Watchers \ {w} : h'.w[v].fd = h.w[v].fd /\ h'.w[v].kind = h.w[v].kind
  BY <1>1, <1>2, IoUser, IoGone DEF IoMasks
<1>4. IoPlace'
  <2>1. PICK b : b = Ui!Invalidated(pc.batch, fd)
    OBVIOUS
  <2>2. pc' = [at |-> pc.at, batch |-> b, n |-> pc.n, nfds |-> pc.nfds, count |-> pc.count]
    BY <1>2, <2>1, IoUser DEF IoPlace
  <2>3. IoBatch(b, kernel'.open)
    <3>1. PICK c, o, n : c = pc.batch /\ o = kernel.open /\ n = kernel'.open
      OBVIOUS
    <3>2. IoBatch(c, o) /\ \A d \in Fds \ {fd} : n[d] = o[d]
      BY <1>2, <1>3, <3>1, IoUser DEF IoPlace
    <3>3. IoBatch(Ui!Invalidated(c, fd), n)
      BY ONLY <1>2, <3>2, IoInvalidated
    <3> QED
      BY <2>1, <3>1, <3>3
  <2>4. pc.batch = <<>> => b = <<>>
    BY <2>1 DEF Ui!Invalidated
  <2> QED
    BY <1>2, <2>2, <2>3, <2>4, IoUser DEF IoPlace
<1>5. IoFed'
  BY <1>2, <1>3, IoUser DEF IoFed
<1> QED
  BY <1>2, <1>3, <1>4, <1>5, IoUser DEF IoInv, IoTold, IoPlace

\* uv_poll_stop keeps the invariant.
LEMMA IoPollStop ==
  ASSUME IoInv, NEW w \in Watchers, Ui!uv__poll_stop(w)
  PROVE  IoInv'
<1>1. PICK fd : fd = h.w[w].fd
  OBVIOUS
<1>2. /\ Ui!User /\ fd # -1 /\ h.w[w].kind = "poll" /\ UNCHANGED <<pending, pc, cb, hist>>
      /\ pc.batch = <<>> \/ "stops_in_batch" \in IoFaults
      /\ h' = [Ui!Stopped(h, w, {"IN", "OUT"}) EXCEPT !.w[w].fd = -1]
      /\ kernel' = [kernel EXCEPT !.epoll[fd] = {}, !.open[fd] = 0, !.ready[fd] = {}]
  BY <1>1 DEF Ui!uv__poll_stop
<1>3. /\ IoTable(h)' /\ IoKernel(kernel)' /\ IoOpen(h, kernel)'
      /\ \A v \in Watchers : IoKnows(h'.w[v], kernel'.epoll)
      /\ fd \in Fds /\ \A d \in Fds \ {fd} : kernel'.open[d] = kernel.open[d]
      /\ \A v \in Watchers \ {w} : h'.w[v].fd = h.w[v].fd /\ h'.w[v].kind = h.w[v].kind
  BY <1>1, <1>2, IoUser, IoGone DEF IoMasks
<1>4. IoBatch(pc.batch, kernel'.open)
  BY <1>2, IoUser DEF IoPlace, IoBatch, IoEvent
<1>5. IoPlace'
  BY <1>2, <1>4, IoUser DEF IoPlace
<1>6. IoFed'
  <2>1. w \notin pending.fed \cup pending.pq
    BY <1>2, IoUser DEF IoFed
  <2> QED
    BY <1>2, <1>3, <2>1, IoUser DEF IoFed
<1> QED
  BY <1>2, <1>3, <1>5, <1>6, IoUser DEF IoInv, IoTold, IoPlace

\* A new descriptor gets a watcher.
LEMMA IoOpens ==
  ASSUME IoInv, NEW w \in Watchers, NEW fd \in Fds, Ui!Open(w, fd)
  PROVE  IoInv'
<1>1. /\ Ui!User /\ h.w[w].fd = -1 /\ kernel.open[fd] = 0 /\ UNCHANGED <<pending, pc, cb, hist>>
      /\ kernel' = [kernel EXCEPT !.opens = @ + 1, !.open[fd] = kernel.opens + 1, !.ready[fd] = {},
                                  !.epoll[fd] = {}]
      /\ h' = [h EXCEPT !.w[w] = Ui!uv__io_init(IF w \in PollWatchers THEN "poll" ELSE "stream", fd)]
  BY DEF Ui!Open
<1>2. PICK t, k, kind : t = h' /\ k = kernel' /\ kind = IF w \in PollWatchers THEN "poll" ELSE "stream"
  OBVIOUS
<1>3. PICK x : x = [kind |-> kind, fd |-> fd, pevents |-> {}, events |-> {}, queued |-> FALSE]
  OBVIOUS
<1>4. t = [h EXCEPT !.w[w] = x]
  BY <1>1, <1>2, <1>3 DEF Ui!uv__io_init
<1>5. IoWatcher(x) /\ x.pevents = {} /\ x.events = {} /\ x.queued = FALSE /\ x.fd = fd
  BY <1>3 DEF IoWatcher
<1>6. /\ t.w = [h.w EXCEPT ![w] = x] /\ t.watchers = h.watchers /\ t.nfds = h.nfds
      /\ t = [w |-> t.w, watchers |-> t.watchers, nfds |-> t.nfds]
  BY <1>1, <1>4, IoUser DEF IoTable
<1>7. t.w[w] = x /\ (\A v \in Watchers \ {w} : t.w[v] = h.w[v]) /\ IoState(t)
  BY <1>1, <1>6, IoUser DEF IoTable, IoState
<1>8. h.w[w].pevents = {}
  BY <1>1, IoUser DEF IoKnows
<1>9. \A v \in Watchers : h.w[v].fd # fd
  BY <1>1, IoUser, IoAssumption DEF IoOpen
<1>10. IoTable(t)
  <2>1. PICK s : s = h
    OBVIOUS
  <2>2. IoTable(s) /\ s.w[w].pevents = {} /\ (\A v \in Watchers \ {w} : s.w[v].fd # x.fd)
        /\ t.watchers = s.watchers /\ t.nfds = s.nfds /\ \A v \in Watchers \ {w} : t.w[v] = s.w[v]
    BY <1>1, <1>5, <1>6, <1>7, <1>8, <1>9, <2>1, IoUser
  <2> QED
    BY ONLY w \in Watchers, <1>5, <1>7, <2>2, IoReplaced
<1>11. /\ k.epoll = [kernel.epoll EXCEPT ![fd] = {}] /\ k.open = [kernel.open EXCEPT ![fd] = kernel.opens + 1]
       /\ k.opens = kernel.opens + 1
       /\ k = [open |-> k.open, ready |-> k.ready, epoll |-> k.epoll, opens |-> k.opens, changes |-> k.changes]
  BY <1>1, <1>2, IoUser DEF IoKernel
<1>12. IoKernel(k) /\ k.open[fd] # 0 /\ \A d \in Fds \ {fd} : k.open[d] = kernel.open[d] /\ k.epoll[d] = kernel.epoll[d]
  <2>1. PICK o, f, n : o = kernel.open /\ f = kernel.epoll /\ n = kernel.opens
    OBVIOUS
  <2>2. /\ o \in [Fds -> Nat] /\ f = [d \in Fds |-> f[d]] /\ n \in Nat /\ fd \in Fds
        /\ \A d \in Fds : f[d] # {} => o[d] # 0
    BY <1>1, <2>1, IoUser DEF IoKernel
  <2>3. k.epoll = [f EXCEPT ![fd] = {}] /\ k.open = [o EXCEPT ![fd] = n + 1] /\ k.opens = n + 1
    BY <1>11, <2>1
  <2>4. /\ k.open \in [Fds -> Nat] /\ k.epoll = [d \in Fds |-> k.epoll[d]] /\ k.opens \in Nat
        /\ k.open[fd] # 0 /\ k.epoll[fd] = {}
        /\ \A d \in Fds \ {fd} : k.open[d] = o[d] /\ k.epoll[d] = f[d]
    BY ONLY fd \in Fds, <2>2, <2>3
  <2> QED
    BY <1>11, <2>1, <2>2, <2>4 DEF IoKernel
<1>13. IoOpen(t, k)
  <2> SUFFICES ASSUME NEW v \in Watchers, t.w[v].fd # -1 PROVE k.open[t.w[v].fd] # 0
    BY DEF IoOpen
  <2>1. t.w[v].fd \in Fds
    BY <1>10 DEF IoTable, IoWatcher
  <2>2. CASE v = w
    BY <2>2, <1>5, <1>7, <1>12
  <2>3. CASE v # w
    BY <2>1, <2>3, <1>1, <1>7, <1>9, <1>12, IoUser DEF IoOpen
  <2> QED
    BY <2>2, <2>3
<1>14. ASSUME NEW v \in Watchers PROVE IoKnows(t.w[v], k.epoll)
  <2>1. CASE v = w
    BY <2>1, <1>5, <1>7 DEF IoKnows
  <2>2. CASE v # w
    <3>1. IoKnows(h.w[v], kernel.epoll) /\ h.w[v].fd \in Fds \cup {-1}
      BY <1>1, IoUser DEF IoTable, IoWatcher
    <3> QED
      BY <2>2, <3>1, <1>7, <1>9, <1>12 DEF IoKnows
  <2> QED
    BY <2>1, <2>2
<1>15. IoBatch(pc.batch, k.open)
  <2> SUFFICES ASSUME NEW i \in 1..Len(pc.batch), IoEvent(pc.batch[i], kernel.open)
               PROVE  IoEvent(pc.batch[i], k.open)
    BY <1>1, IoUser DEF IoPlace, IoBatch
  <2> QED
    BY <1>1, <1>12 DEF IoEvent
<1>16. IoPlace'
  BY <1>1, <1>2, <1>15, IoUser DEF IoPlace
<1>17. IoFed'
  <2>1. w \notin pending.fed \cup pending.pq
    BY <1>1, IoUser DEF IoFed
  <2> QED
    BY <1>1, <1>2, <1>7, <2>1, IoUser DEF IoFed
<1> QED
  BY <1>1, <1>2, <1>10, <1>12, <1>13, <1>14, <1>16, <1>17, IoUser DEF IoInv, IoTold

\* The loop runs what was fed, a callback returns, a descriptor becomes ready.
LEMMA IoRuns ==
  ASSUME IoInv, Ui!RunsPending \/ Ui!uv__run_pending \/ Ui!CallbackReturns \/ Ui!Becomes
  PROVE  IoInv'
<1> USE DEF IoInv
<1>1. CASE Ui!RunsPending
  <2>1. pc.at = "loop" /\ UNCHANGED <<h, kernel, cb, hist>> /\ pending' = [fed |-> {}, pq |-> pending.fed]
        /\ pc' = [at |-> "pending", batch |-> <<>>, n |-> 0, nfds |-> 0, count |-> 0]
    BY <1>1 DEF Ui!RunsPending, Ui!Idle, Ui!At
  <2>2. IoPlace'
    BY <2>1 DEF IoPlace, IoBatch
  <2>3. IoFed'
    BY <2>1 DEF IoFed
  <2> QED
    BY <2>1, <2>2, <2>3 DEF IoTold
<1>2. CASE Ui!uv__run_pending
  <2>1. pc.at = "pending" /\ UNCHANGED <<h, kernel, hist>>
        /\ \/ pc' = [at |-> "loop", batch |-> <<>>, n |-> 0, nfds |-> 0, count |-> 0] /\ UNCHANGED pending
           \/ UNCHANGED pc /\ \E w : pending' = [pending EXCEPT !.pq = @ \ {w}]
    BY <1>2 DEF Ui!uv__run_pending, Ui!At
  <2>2. IoPlace'
    BY <2>1 DEF IoPlace, IoBatch
  <2>3. IoFed'
    BY <2>1 DEF IoFed
  <2> QED
    BY <2>1, <2>2, <2>3 DEF IoTold
<1>3. CASE Ui!CallbackReturns
  <2>1. cb # "none" /\ cb' = "none" /\ UNCHANGED <<h, kernel, pending, pc, hist>>
    BY <1>3 DEF Ui!CallbackReturns, Ui!None
  <2>2. IoPlace'
    BY <2>1 DEF IoPlace
  <2> QED
    BY <2>1, <2>2 DEF IoTold, IoFed
<1>4. CASE Ui!Becomes
  <2>1. PICK fd, e : /\ UNCHANGED <<h, pending, pc, cb, hist>>
                     /\ kernel' = [kernel EXCEPT !.changes = @ + 1, !.ready[fd] = @ \cup {e}]
    BY <1>4 DEF Ui!Becomes
  <2>2. PICK k : k = kernel'
    OBVIOUS
  <2>3. k.open = kernel.open /\ k.epoll = kernel.epoll /\ k.opens = kernel.opens
        /\ k = [open |-> k.open, ready |-> k.ready, epoll |-> k.epoll, opens |-> k.opens, changes |-> k.changes]
    BY <2>1, <2>2 DEF IoKernel
  <2>4. IoKernel(k)
    BY <2>3 DEF IoKernel
  <2>5. IoPlace'
    BY <2>1, <2>2, <2>3 DEF IoPlace
  <2> QED
    BY <2>1, <2>2, <2>3, <2>4, <2>5 DEF IoTold, IoFed, IoOpen
<1> QED
  BY <1>1, <1>2, <1>3, <1>4

\* The first part of uv__io_poll: no call of epoll_ctl fails, and afterwards
\* epoll watches what is wanted.
LEMMA IoTells ==
  ASSUME IoInv, Ui!Tell
  PROVE  IoInv'
<1> DEFINE q == {w \in Watchers : h.w[w].queued}
           News(w) == [h.w[w] EXCEPT !.events = h.w[w].pevents, !.queued = FALSE]
           EpollOf(fd) == IF \E w \in q : h.w[w].fd = fd
                          THEN h.w[CHOOSE w \in q : h.w[w].fd = fd].pevents ELSE kernel.epoll[fd]
<1>0. /\ IoTable(h) /\ IoKernel(kernel) /\ IoOpen(h, kernel) /\ IoPlace /\ IoFed
      /\ \A w \in Watchers : IoKnows(h.w[w], kernel.epoll)
      /\ ("stops_in_batch" \notin IoFaults => hist = FALSE)
  BY DEF IoInv
<1>1. pc.at = "loop" /\ cb = "none" /\ UNCHANGED <<pending, cb, hist>>
  BY DEF Ui!Tell, Ui!Idle, Ui!None
<1>2. ASSUME NEW w \in q
      PROVE  /\ h.w[w].pevents # {} /\ h.w[w].fd \in Fds /\ h.w[w].fd # -1 /\ h.watchers[h.w[w].fd] = w
             /\ h.w[w].events # {} => kernel.epoll[h.w[w].fd] # {}
  <2>1. IoKnows(h.w[w], kernel.epoll) /\ IoWatcher(h.w[w]) /\ h.w[w].queued
    BY <1>0 DEF IoTable
  <2>2. h.w[w].pevents # {} /\ h.w[w].fd # -1 /\ (h.w[w].events # {} => kernel.epoll[h.w[w].fd] = h.w[w].events)
    BY <2>1 DEF IoKnows
  <2>3. h.w[w].fd \in Fds
    BY <2>1, <2>2 DEF IoWatcher
  <2> QED
    BY <1>0, <2>2, <2>3 DEF IoTable
<1>3. h.nfds = 0 => q = {}
  <2> SUFFICES ASSUME NEW w \in q PROVE h.nfds # 0
    OBVIOUS
  <2>1. h.w[w].fd \in IoEntries(h.watchers)
    BY <1>2, IoAssumption DEF IoEntries
  <2>2. IsFiniteSet(IoEntries(h.watchers))
    BY IoAssumption, FS_Subset DEF IoEntries
  <2> QED
    BY <1>0, <2>1, <2>2, FS_EmptySet DEF IoTable
<1>4. /\ h' = [h EXCEPT !.w = [w \in Watchers |-> IF w \in q THEN [@[w] EXCEPT !.events = h.w[w].pevents, !.queued = FALSE]
                                                 ELSE @[w]]]
      /\ kernel' = [kernel EXCEPT !.epoll = [fd \in Fds |->
                              IF \E w \in q : h.w[w].fd = fd
                              THEN h.w[CHOOSE w \in q : h.w[w].fd = fd].pevents ELSE @[fd]]]
      /\ pc' = [Ui!At("wait") EXCEPT !.count = PollCount]
  BY <1>2, <1>3 DEF Ui!Tell
<1>5. PICK t, k : t = h' /\ k = kernel'
  OBVIOUS
<1>6. /\ t = [w |-> t.w, watchers |-> h.watchers, nfds |-> h.nfds]
      /\ t.w = [w \in Watchers |-> IF w \in q THEN News(w) ELSE h.w[w]]
  BY <1>0, <1>4, <1>5 DEF IoTable
<1>7. ASSUME NEW w \in Watchers
      PROVE  /\ IoWatcher(t.w[w]) /\ t.w[w].fd = h.w[w].fd /\ t.w[w].pevents = h.w[w].pevents
             /\ t.w[w].kind = h.w[w].kind /\ t.w[w].queued = FALSE /\ t.w[w].events = t.w[w].pevents
  <2>1. IoWatcher(h.w[w]) /\ IoKnows(h.w[w], kernel.epoll)
    BY <1>0 DEF IoTable
  <2>2. CASE w \in q
    <3>1. PICK x, y : x = h.w[w] /\ y = t.w[w]
      OBVIOUS
    <3>2. y = [x EXCEPT !.events = x.pevents, !.queued = FALSE]
      BY <1>6, <2>2, <3>1
    <3>3. y = [kind |-> x.kind, fd |-> x.fd, pevents |-> x.pevents, events |-> x.pevents, queued |-> FALSE]
      BY <2>1, <3>1, <3>2 DEF IoWatcher
    <3> QED
      BY <2>1, <3>1, <3>3 DEF IoWatcher
  <2>3. CASE w \notin q
    BY <1>6, <2>1, <2>3 DEF IoKnows, IoWatcher
  <2> QED
    BY <2>2, <2>3
<1>8. t.watchers = h.watchers /\ t.nfds = h.nfds
      /\ t = [w |-> t.w, watchers |-> t.watchers, nfds |-> t.nfds] /\ t.w = [w \in Watchers |-> t.w[w]]
  <2>1. PICK tw : tw = t.w
    OBVIOUS
  <2>2. t = [w |-> tw, watchers |-> h.watchers, nfds |-> h.nfds]
    BY <1>6, <2>1
  <2>3. t.w = [w \in Watchers |-> t.w[w]]
    BY <1>6
  <2> QED
    BY ONLY <2>1, <2>2, <2>3
<1>9. IoTable(t)
  <2>1. ASSUME NEW w \in Watchers, NEW fd \in Fds
        PROVE t.watchers[fd] = w <=> t.w[w].fd = fd /\ t.w[w].pevents # {}
    <3>1. h.watchers[fd] = w <=> h.w[w].fd = fd /\ h.w[w].pevents # {}
      BY <1>0 DEF IoTable
    <3>2. t.w[w].fd = h.w[w].fd /\ t.w[w].pevents = h.w[w].pevents
      BY <1>7
    <3>3. t.watchers = h.watchers
      BY <1>8
    <3> QED
      BY ONLY <3>1, <3>2, <3>3
  <2>2. ASSUME NEW w \in Watchers, NEW v \in Watchers, w # v, t.w[w].fd # -1
        PROVE t.w[w].fd # t.w[v].fd
    <3>1. h.w[w].fd # -1 => h.w[w].fd # h.w[v].fd
      BY <1>0, <2>2 DEF IoTable
    <3>2. t.w[w].fd = h.w[w].fd /\ t.w[v].fd = h.w[v].fd
      BY <1>7
    <3> QED
      BY ONLY <2>2, <3>1, <3>2
  <2>3. t.watchers \in [Fds -> Watchers \cup {"none"}] /\ t.nfds = Cardinality(IoEntries(t.watchers))
    BY <1>0, <1>8 DEF IoTable
  <2> QED
    BY ONLY <1>7, <1>8, <2>1, <2>2, <2>3 DEF IoTable
<1>10. /\ k.open = kernel.open /\ k.opens = kernel.opens /\ k.epoll = [fd \in Fds |-> EpollOf(fd)]
       /\ k = [open |-> k.open, ready |-> k.ready, epoll |-> k.epoll, opens |-> k.opens, changes |-> k.changes]
  BY <1>0, <1>4, <1>5 DEF IoKernel
<1>11. ASSUME NEW w \in q PROVE k.epoll[h.w[w].fd] = h.w[w].pevents
  <2>1. PICK fd : fd = h.w[w].fd
    OBVIOUS
  <2>2. (CHOOSE v \in q : h.w[v].fd = fd) \in q /\ h.w[CHOOSE v \in q : h.w[v].fd = fd].fd = fd
    BY <2>1
  <2>3. (CHOOSE v \in q : h.w[v].fd = fd) = w
    BY <1>0, <1>2, <2>1, <2>2 DEF IoTable
  <2> QED
    BY <1>2, <1>10, <2>1, <2>3
<1>12. ASSUME NEW fd \in Fds, \A w \in q : h.w[w].fd # fd PROVE k.epoll[fd] = kernel.epoll[fd]
  BY <1>10, <1>12
<1>13. IoKernel(k)
  <2> SUFFICES ASSUME NEW fd \in Fds, k.epoll[fd] # {} PROVE kernel.open[fd] # 0
    BY <1>0, <1>10 DEF IoKernel
  <2>1. CASE \E w \in q : h.w[w].fd = fd
    BY <1>0, <1>2, <2>1 DEF IoOpen
  <2>2. CASE \A w \in q : h.w[w].fd # fd
    BY <1>0, <1>12, <2>2 DEF IoKernel
  <2> QED
    BY <2>1, <2>2
<1>14. ASSUME NEW w \in Watchers, t.w[w].pevents # {} PROVE t.w[w].fd # -1 /\ k.epoll[t.w[w].fd] = t.w[w].pevents
  <2>1. CASE w \in q
    BY <1>2, <1>7, <1>11, <2>1
  <2>2. CASE w \notin q
    <3>1. IoKnows(h.w[w], kernel.epoll) /\ IoWatcher(h.w[w]) /\ ~h.w[w].queued
      BY <1>0, <2>2 DEF IoTable, IoWatcher
    <3>2. h.w[w].events = h.w[w].pevents /\ h.w[w].fd # -1 /\ h.w[w].fd \in Fds
          /\ kernel.epoll[h.w[w].fd] = h.w[w].pevents
      BY <1>7, <1>14, <3>1 DEF IoKnows, IoWatcher
    <3>3. \A v \in q : h.w[v].fd # h.w[w].fd
      BY <1>0, <1>2, <2>2, <3>2 DEF IoTable
    <3> QED
      BY <1>7, <1>12, <3>2, <3>3
  <2> QED
    BY <2>1, <2>2
<1>15. \A w \in Watchers : IoKnows(t.w[w], k.epoll)
  BY <1>7, <1>14 DEF IoKnows
<1>16. IoOpen(t, k)
  BY <1>0, <1>7, <1>10 DEF IoOpen
<1>17. pc' = [at |-> "wait", batch |-> <<>>, n |-> 0, nfds |-> 0, count |-> PollCount]
  BY <1>4 DEF Ui!At
<1>18. IoPlace'
  BY <1>1, <1>17, IoAssumption DEF IoPlace, IoBatch
<1>19. IoFed'
  BY <1>0, <1>1, <1>5, <1>7 DEF IoFed
<1>20. IoTold'
  BY <1>5, <1>14 DEF IoTold
<1> QED
  BY <1>0, <1>1, <1>5, <1>9, <1>13, <1>15, <1>16, <1>18, <1>19, <1>20 DEF IoInv

\* epoll_wait returns events of open descriptors.
LEMMA IoWaits ==
  ASSUME IoInv, Ui!uv__epoll_wait
  PROVE  IoInv'
<1> USE DEF IoInv
<1> DEFINE ready == {fd \in Fds : Ui!Reported(fd) # {}}
<1>1. pc.at = "wait" /\ cb = "none" /\ UNCHANGED <<h, kernel, pending, cb, hist>>
  BY DEF Ui!uv__epoll_wait, IoPlace
<1>2. CASE ready = {}
  <2>1. pc' = [at |-> "loop", batch |-> <<>>, n |-> 0, nfds |-> 0, count |-> 0]
    BY <1>2 DEF Ui!uv__epoll_wait, Ui!At
  <2>2. IoPlace'
    BY <1>1, <2>1 DEF IoPlace, IoBatch
  <2> QED
    BY <1>1, <2>1, <2>2 DEF IoTold, IoFed
<1>3. CASE ready # {}
  <2>1. PICK order \in Ui!SetToSeqs(ready) :
          pc' = [pc EXCEPT !.at = "events", !.n = 0, !.nfds = Len(order),
                           !.batch = [i \in DOMAIN order |->
                              [fd |-> order[i], ev |-> Ui!Reported(order[i]), gen |-> kernel.open[order[i]]]]]
    BY <1>3 DEF Ui!uv__epoll_wait
  <2>2. order \in [1..Cardinality(ready) -> ready] /\ Cardinality(ready) \in Nat
    BY IoAssumption, FS_Subset, FS_CardinalityType, IoCardinality DEF Ui!SetToSeqs
  <2>3. PICK b : b = [i \in 1..Cardinality(ready) |->
                       [fd |-> order[i], ev |-> Ui!Reported(order[i]), gen |-> kernel.open[order[i]]]]
    OBVIOUS
  <2>4. pc' = [at |-> "events", batch |-> b, n |-> 0, nfds |-> Len(order), count |-> pc.count]
    BY <2>1, <2>2, <2>3 DEF IoPlace
  <2>5. Len(b) = Cardinality(ready)
    BY <2>2, <2>3
  <2>6. ASSUME NEW i \in 1..Len(b) PROVE IoEvent(b[i], kernel.open)
    <3>1. order[i] \in Fds /\ Ui!Reported(order[i]) # {}
      BY <2>2, <2>5
    <3>2. kernel.epoll[order[i]] # {}
      BY <3>1 DEF Ui!Reported
    <3>3. b[i] = [fd |-> order[i], ev |-> Ui!Reported(order[i]), gen |-> kernel.open[order[i]]]
      BY <2>3, <2>5
    <3> QED
      BY <3>1, <3>2, <3>3 DEF IoEvent, IoKernel
  <2>7. IoBatch(b, kernel.open)
    BY <2>2, <2>3, <2>5, <2>6 DEF IoBatch
  <2>8. IoPlace'
    BY <1>1, <2>4, <2>7 DEF IoPlace
  <2> QED
    BY <1>1, <2>4, <2>8 DEF IoTold, IoFed
<1> QED
  BY <1>2, <1>3

\* An event of the batch goes to whom it is for, or to nobody.
LEMMA IoDispatch ==
  ASSUME IoInv, Ui!Dispatch
  PROVE  IoInv'
<1> USE DEF IoInv
<1>1. PICK e, w, ev :
        /\ e = Head(pc.batch) /\ w = (IF e.fd = -1 THEN "none" ELSE h.watchers[e.fd])
        /\ ev = (IF w = "none" THEN {} ELSE Ui!Wanted(w, e.ev))
  OBVIOUS
<1>2. /\ pc.at = "events" /\ pc.batch # <<>> /\ UNCHANGED <<h, pending>>
      /\ cb' = IF ev = {} THEN "none" ELSE w
      /\ pc' = [pc EXCEPT !.batch = Tail(@), !.n = IF ev = {} THEN @ ELSE @ + 1]
      /\ hist' = (hist \/ (ev # {} /\ (kernel.open[e.fd] # e.gen \/ ~(ev \subseteq h.w[w].pevents \cup {"HUP"}))))
      /\ kernel' = IF e.fd # -1 /\ w = "none" THEN [kernel EXCEPT !.epoll[e.fd] = {}]
                   ELSE IF ev # {} THEN [kernel EXCEPT !.ready[e.fd] = @ \ ev] ELSE kernel
  BY <1>1 DEF Ui!Dispatch, Ui!None
<1>3. PICK b : b = pc.batch
  OBVIOUS
<1>4. IoBatch(b, kernel.open) /\ b # <<>> /\ e = b[1] /\ Len(b) >= 1
  <2>1. IoBatch(b, kernel.open) /\ b # <<>>
    BY <1>2, <1>3 DEF IoPlace
  <2>2. Len(b) # 0
    BY <2>1 DEF IoBatch
  <2> QED
    BY <1>1, <1>3, <2>1, <2>2 DEF IoBatch
<1>5. IoEvent(e, kernel.open)
  BY <1>4 DEF IoBatch
<1>6. PICK k : k = kernel'
  OBVIOUS
<1>7. /\ k.open = kernel.open /\ k.opens = kernel.opens /\ k.epoll = [fd \in Fds |-> k.epoll[fd]]
      /\ k = [open |-> k.open, ready |-> k.ready, epoll |-> k.epoll, opens |-> k.opens, changes |-> k.changes]
      /\ \A fd \in Fds : k.epoll[fd] # kernel.epoll[fd] => k.epoll[fd] = {} /\ h.watchers[fd] = "none"
  <2>1. CASE e.fd # -1 /\ w = "none"
    <3>1. /\ k.epoll = [kernel.epoll EXCEPT ![e.fd] = {}] /\ k.open = kernel.open /\ k.opens = kernel.opens
          /\ k = [open |-> k.open, ready |-> k.ready, epoll |-> k.epoll, opens |-> k.opens, changes |-> k.changes]
      BY <1>2, <1>6, <2>1 DEF IoKernel
    <3> QED
      BY <1>1, <2>1, <3>1 DEF IoKernel
  <2>2. CASE ~(e.fd # -1 /\ w = "none")
    BY <1>2, <1>6, <2>2 DEF IoKernel
  <2> QED
    BY <2>1, <2>2
<1>8. IoKernel(k)
  BY <1>7 DEF IoKernel
<1>9. ASSUME NEW v \in Watchers PROVE IoKnows(h.w[v], k.epoll)
  <2>1. IoKnows(h.w[v], kernel.epoll)
    OBVIOUS
  <2>2. ASSUME h.w[v].events # {} PROVE k.epoll[h.w[v].fd] = kernel.epoll[h.w[v].fd]
    <3>1. h.w[v].pevents # {}
      BY <2>1, <2>2 DEF IoKnows
    <3>2. h.w[v].fd \in Fds
      BY <2>1, <3>1 DEF IoKnows, IoTable, IoWatcher
    <3>3. h.watchers[h.w[v].fd] = v
      BY <3>1, <3>2 DEF IoTable
    <3> QED
      BY <1>7, <3>2, <3>3, IoAssumption
  <2> QED
    BY <2>1, <2>2 DEF IoKnows
<1>10. IoPlace'
  <2>1. PICK c : c = Tail(b)
    OBVIOUS
  <2>2. Len(c) = Len(b) - 1 /\ c = [i \in 1..Len(c) |-> c[i]] /\ \A i \in 1..Len(c) : c[i] = b[i + 1]
    <3>1. PICK S : S = {b[i] : i \in 1..Len(b)}
      OBVIOUS
    <3>2. PICK m : m = Len(b)
      OBVIOUS
    <3>3. b = [i \in 1..m |-> b[i]] /\ m \in Nat /\ m # 0
      BY <1>4, <3>2 DEF IoBatch
    <3>4. b \in Seq(S)
      <4>1. \A i \in 1..m : b[i] \in S
        BY <3>1, <3>2
      <4>2. b \in [1..m -> S]
        BY ONLY <3>3, <4>1
      <4> QED
        BY ONLY <3>3, <4>2
    <3>5. c = Tail(b) /\ b # <<>>
      BY <2>1, <1>4
    <3>6. c \in Seq(S) /\ Len(c) = Len(b) - 1 /\ \A i \in 1..Len(c) : c[i] = b[i + 1]
      BY ONLY <3>4, <3>5
    <3>7. c = [i \in 1..Len(c) |-> c[i]]
      BY ONLY <3>6
    <3> QED
      BY <3>6, <3>7
  <2>3. IoBatch(c, k.open)
    <3>1. Len(c) \in Nat /\ \A i \in 1..Len(c) : i + 1 \in 1..Len(b)
      BY <1>4, <2>2 DEF IoBatch
    <3> QED
      BY <1>4, <1>7, <2>2, <3>1 DEF IoBatch
  <2>4. pc'.batch = c /\ pc'.at = "events" /\ pc'.count = pc.count
        /\ pc' = [at |-> pc'.at, batch |-> pc'.batch, n |-> pc'.n, nfds |-> pc'.nfds, count |-> pc'.count]
        /\ pc'.n = IF ev = {} THEN pc.n ELSE pc.n + 1
    BY <1>2, <1>3, <2>1 DEF IoPlace
  <2>5. pc.n \in Nat
    BY <1>2 DEF IoPlace
  <2>6. pc'.n \in Nat /\ (cb' # "none" => pc'.n # 0)
    BY <1>2, <2>4, <2>5
  <2>7. k.open = kernel'.open
    BY <1>6
  <2> QED
    BY <1>2, <2>3, <2>4, <2>6, <2>7 DEF IoPlace
<1>11. ASSUME "stops_in_batch" \notin IoFaults PROVE hist' = FALSE
  <2>1. CASE ev = {}
    BY <1>2, <1>11, <2>1
  <2>2. CASE ev # {}
    <3>1. w # "none" /\ ev = Ui!Wanted(w, e.ev)
      BY <1>1, <2>2
    <3>2. ev \subseteq h.w[w].pevents \cup {"HUP"}
      BY <3>1 DEF Ui!Wanted
    <3>3. e.fd # -1
      BY <1>1, <3>1
    <3>4. e.gen = kernel.open[e.fd]
      BY <1>5, <1>11, <3>3 DEF IoEvent
    <3> QED
      BY <1>2, <1>11, <3>2, <3>4
  <2> QED
    BY <2>1, <2>2
<1>12. pc'.at = "events"
  BY <1>2 DEF IoPlace
<1>13. IoOpen(h, k) /\ IoFed' /\ IoTold'
  <2>1. IoOpen(h, k)
    BY <1>7 DEF IoOpen
  <2>2. IoFed'
    BY <1>2 DEF IoFed
  <2>3. IoTold'
    <3>1. PICK q : q = pc'
      OBVIOUS
    <3>2. q.at = "events" /\ q.count = pc.count /\ (q.n = 0 => ev = {} /\ pc.n = 0)
      <4>1. q.n = (IF ev = {} THEN pc.n ELSE pc.n + 1) /\ q.count = pc.count /\ q.at = "events"
        BY <1>2, <1>12, <3>1 DEF IoPlace
      <4>2. pc.n \in Nat
        BY <1>2 DEF IoPlace
      <4> QED
        BY <4>1, <4>2
    <3>3. ASSUME q.n = 0, q.count = PollCount, NEW v \in Watchers, h.w[v].pevents # {}
          PROVE  k.epoll[h.w[v].fd] = h.w[v].pevents
      <4>1. kernel.epoll[h.w[v].fd] = h.w[v].pevents
        BY <1>2, <3>2, <3>3 DEF IoTold
      <4>2. h.w[v].fd \in Fds
        BY <3>3 DEF IoKnows, IoTable, IoWatcher
      <4>3. h.watchers[h.w[v].fd] = v
        BY <3>3, <4>2 DEF IoTable
      <4> QED
        BY <1>7, <4>1, <4>2, <4>3, IoAssumption
    <3>4. h' = h /\ kernel' = k
      BY <1>2, <1>6
    <3> QED
      BY <3>1, <3>2, <3>3, <3>4 DEF IoTold
  <2> QED
    BY <2>1, <2>2, <2>3
<1>14. IoTable(h') /\ IoKernel(kernel') /\ IoOpen(h', kernel')
  BY <1>2, <1>6, <1>8, <1>13
<1>15. \A v \in Watchers : IoKnows(h'.w[v], kernel'.epoll)
  BY <1>2, <1>6, <1>9
<1> QED
  BY <1>10, <1>11, <1>13, <1>14, <1>15

\* After the batch the loop goes on, or polls again without telling epoll.
LEMMA IoBatchEnds ==
  ASSUME IoInv, Ui!BatchEnds(Ui!EventsSize)
  PROVE  IoInv'
<1> USE DEF IoInv
<1>1. pc.at = "events" /\ cb = "none" /\ UNCHANGED <<h, kernel, pending, cb, hist>>
      /\ \/ pc' = [at |-> "wait", batch |-> <<>>, n |-> 0, nfds |-> 0, count |-> pc.count - 1]
         \/ /\ pc' = [at |-> "wait", batch |-> <<>>, n |-> 0, nfds |-> 0, count |-> PollCount]
            /\ pc.n = 0 /\ pc.count = PollCount
         \/ pc' = [at |-> "loop", batch |-> <<>>, n |-> 0, nfds |-> 0, count |-> 0]
  BY DEF Ui!BatchEnds, Ui!At, Ui!None
<1>2. pc.count \in Int /\ pc.count <= PollCount /\ PollCount \in Int
  BY <1>1, IoAssumption DEF IoPlace
<1>3. IoPlace'
  <2>1. CASE pc' = [at |-> "wait", batch |-> <<>>, n |-> 0, nfds |-> 0, count |-> pc.count - 1]
    BY <1>1, <1>2, <2>1 DEF IoPlace, IoBatch
  <2>2. CASE pc' = [at |-> "loop", batch |-> <<>>, n |-> 0, nfds |-> 0, count |-> 0]
    BY <1>1, <1>2, <2>2 DEF IoPlace, IoBatch
  <2>3. CASE pc' = [at |-> "wait", batch |-> <<>>, n |-> 0, nfds |-> 0, count |-> PollCount]
    BY <1>1, <1>2, <2>3 DEF IoPlace, IoBatch
  <2> QED
    BY <1>1, <2>1, <2>2, <2>3
<1>4. IoTold'
  BY <1>1, <1>2 DEF IoTold
<1> QED
  BY <1>1, <1>3, <1>4 DEF IoFed

\* Nothing is open at first.
LEMMA IoInit == Ui!Init => IoInv
<1> SUFFICES ASSUME Ui!Init PROVE IoInv
  OBVIOUS
<1> DEFINE x == [kind |-> "stream", fd |-> -1, pevents |-> {}, events |-> {}, queued |-> FALSE]
<1>1. /\ h = [w |-> [w \in Watchers |-> x], watchers |-> [fd \in Fds |-> "none"], nfds |-> 0]
      /\ kernel = [open |-> [fd \in Fds |-> 0], ready |-> [fd \in Fds |-> {}],
                   epoll |-> [fd \in Fds |-> {}], opens |-> 0, changes |-> 0]
      /\ pending = [fed |-> {}, pq |-> {}] /\ cb = "none" /\ hist = FALSE
      /\ pc = [at |-> "loop", batch |-> <<>>, n |-> 0, nfds |-> 0, count |-> 0]
  BY DEF Ui!Init, Ui!uv__io_init, Ui!None, Ui!At
<1>2. IoWatcher(x) /\ x.fd = -1 /\ x.pevents = {} /\ x.events = {} /\ x.queued = FALSE
  BY DEF IoWatcher
<1> HIDE DEF x
<1>3. \A w \in Watchers : h.w[w] = x
  BY <1>1
<1>4. IoEntries(h.watchers) = {}
  BY <1>1 DEF IoEntries
<1>5. IoTable(h)
  <2>1. ASSUME NEW w \in Watchers, NEW fd \in Fds
        PROVE h.watchers[fd] = w <=> h.w[w].fd = fd /\ h.w[w].pevents # {}
    BY <1>1, <1>2, <1>3, IoAssumption
  <2> QED
    BY <1>1, <1>2, <1>3, <1>4, <2>1, FS_EmptySet DEF IoTable
<1>6. IoKernel(kernel)
  BY <1>1 DEF IoKernel
<1>7. IoPlace
  BY <1>1 DEF IoPlace, IoBatch
<1> QED
  BY <1>1, <1>2, <1>3, <1>5, <1>6, <1>7 DEF IoInv, IoFed, IoTold, IoKnows, IoOpen

\* Every step keeps the invariant.
LEMMA IoNext == IoInv /\ [Ui!Next]_(Ui!vars) => IoInv'
<1> SUFFICES ASSUME IoInv, [Ui!Next]_(Ui!vars) PROVE IoInv'
  OBVIOUS
<1>1. ASSUME Ui!UserCall PROVE IoInv'
  BY <1>1, IoStart, IoStop, IoFeed, IoClose, IoPollStop, IoOpens DEF Ui!UserCall
<1>2. ASSUME Ui!HandlerStep PROVE IoInv'
  BY <1>2, IoRuns, IoDispatch, IoBatchEnds, IoWaits DEF Ui!HandlerStep
<1>3. CASE UNCHANGED Ui!vars
  BY <1>3 DEF Ui!vars, IoInv, IoPlace, IoFed, IoTold
<1> QED
  BY <1>1, <1>2, <1>3, IoRuns, IoTells DEF Ui!Next, Ui!RunPending, Ui!PollStep

\* What the runs check follows; an event reaches nobody it is not for unless
\* poll handles are closed while events are handed out.
LEMMA IoFollows ==
  IoInv => /\ Ui!PendingExact /\ Ui!Armed
           /\ "stops_in_batch" \notin IoFaults => Ui!Sane
<1> SUFFICES ASSUME IoInv
             PROVE  /\ Ui!PendingExact /\ Ui!Armed
                    /\ "stops_in_batch" \notin IoFaults => Ui!Sane
  OBVIOUS
<1>1. /\ IoTable(h) /\ IoPlace /\ IoFed /\ IoTold
      /\ \A w \in Watchers : IoKnows(h.w[w], kernel.epoll)
  BY DEF IoInv
<1>2. ASSUME NEW w \in Watchers
      PROVE  /\ h.w[w].pevents # {} <=> \E fd \in Fds : h.watchers[fd] = w
             /\ h.w[w].pevents # {} => h.watchers[h.w[w].fd] = w
  <2>1. h.w[w].pevents # {} => h.w[w].fd \in Fds
    BY <1>1 DEF IoTable, IoWatcher, IoKnows
  <2> QED
    BY <1>1, <2>1 DEF IoTable
<1>3. h.nfds = Ui!Cardinality({fd \in Fds : h.watchers[fd] # "none"})
  BY <1>1, IoCardinality DEF IoTable, IoEntries
<1>4. Ui!PendingExact
  BY <1>1, <1>2, <1>3 DEF Ui!PendingExact, Ui!None, IoPlace, IoKnows
<1>5. Ui!Armed
  BY <1>1 DEF Ui!Armed, IoTold, IoFed
<1> QED
  BY <1>4, <1>5 DEF Ui!Sane, IoInv

-----------------------------------------------------------------------------
(* UnixSelect: the handover between the loop and the thread that selects,  *)
(* for any number of changes and of events.                                *)

UlFields ==
  /\ h = [closing |-> h.closing, pevents |-> h.pevents, made |-> h.made]
  /\ pc = [loop |-> pc.loop, thr |-> pc.thr]
  /\ hist = [events |-> hist.events, close_sem |-> hist.close_sem, async_sem |-> hist.async_sem,
             watched |-> hist.watched, found |-> hist.found]
  /\ hist.close_sem \in Int /\ hist.async_sem \in Int

\* Nothing is handed over.
UlQuiet == pc.loop = "idle" /\ ~pending /\ hist.events = {} /\ hist.async_sem = 0

\* The handover goes around: the thread finds something, gives it to the loop
\* and waits, the loop takes it, and lets the thread go on.
UlHandover ==
  /\ h.made = Ul!Made /\ hist.close_sem = 0
  /\ \/ pc.thr \in {"top", "select"} /\ UlQuiet
     \/ pc.thr = "send" /\ UlQuiet /\ hist.found # {}
     \/ /\ pc.thr = "wait" /\ pc.loop = "idle"
        /\ \/ pending /\ hist.events # {} /\ hist.async_sem = 0
           \/ ~pending /\ hist.events = {} /\ hist.async_sem = 1
     \/ /\ pc.thr = "wait" /\ pc.loop \in {"events", "callback"}
        /\ ~pending /\ hist.events = {} /\ hist.async_sem = 0

\* The loop waits for the thread, which will see that it has to end; then
\* nothing is left.
UlClosing ==
  \/ /\ pc.loop \in {"join", "join_in_callback"} /\ h.made = Ul!Made
     /\ \/ pc.thr \in {"top", "select", "send", "wait"} /\ hist.close_sem = 1
        \/ pc.thr = "exit"
  \/ pc.loop \in {"events", "callback", "ended"} /\ h.made = {} /\ pc.thr = "exit"

\* What could not be made.
UlFailed ==
  /\ pc.loop = "failed" /\ pc.thr = "none" /\ h.made = {} /\ ~pending /\ hist.async_sem = 0

UlInv ==
  /\ UlFields
  /\ \/ h.closing = TRUE /\ UlClosing
     \/ h.closing = FALSE /\ (UlHandover \/ UlFailed)

\* uv__stream_try_select makes everything or leaves nothing.
LEMMA UlTries == \A fails \in 0..6 : Ul!TrySelect(fails) = IF fails = 0 THEN Ul!Made ELSE {}
<1> SUFFICES ASSUME NEW fails \in 0..6, fails # 0 PROVE Ul!TrySelect(fails) = {}
  BY DEF Ul!TrySelect
<1>1. \A i \in 1..fails - 1 : Ul!Order[i] \in Ul!Made /\ (Ul!Order[i] \in {"async", "select"} => fails > 2)
                              /\ Ul!Order[i] # "thread" /\ (Ul!Order[i] = "async" => fails > 3)
  BY DEF Ul!Order, Ul!Made
<1> QED
  BY <1>1 DEF Ul!TrySelect, Ul!Made

\* Everything is made, or nothing is.
LEMMA UlInit == Ul!Init => UlInv
<1> SUFFICES ASSUME Ul!Init PROVE UlInv
  OBVIOUS
<1>1. PICK fails \in 0..6 :
        /\ h = [closing |-> FALSE, pevents |-> {}, made |-> Ul!TrySelect(fails)]
        /\ pc = [loop |-> IF fails = 0 THEN "idle" ELSE "failed", thr |-> IF fails = 0 THEN "top" ELSE "none"]
  BY DEF Ul!Init
<1>2. ~pending /\ hist = [events |-> {}, close_sem |-> 0, async_sem |-> 0, watched |-> {}, found |-> {}]
  BY DEF Ul!Init
<1>3. Ul!TrySelect(fails) = IF fails = 0 THEN Ul!Made ELSE {}
  BY UlTries
<1> QED
  BY <1>1, <1>2, <1>3 DEF UlInv, UlFields, UlHandover, UlFailed, UlQuiet

\* Every step of the loop and of the thread keeps the invariant.
LEMMA UlNext == UlInv /\ [Ul!Next]_(Ul!vars) => UlInv'
<1> SUFFICES ASSUME UlInv, [Ul!Next]_(Ul!vars) PROVE UlInv'
  OBVIOUS
<1> USE DEF UlInv, UlFields, UlHandover, UlClosing, UlFailed, UlQuiet
<1>1. CASE Ul!Top
  <2>1. CASE hist.close_sem > 0
    BY <1>1, <2>1 DEF Ul!Top
  <2>2. CASE ~(hist.close_sem > 0)
    BY <1>1, <2>2 DEF Ul!Top
  <2> QED
    BY <2>1, <2>2
<1>2. CASE Ul!Select
  <2>1. UNCHANGED <<h, pending, cb, calls>> /\ pc.thr = "select"
        /\ hist' = [hist EXCEPT !.found = hist.watched \cap kernel.ready]
    BY <1>2 DEF Ul!Select
  <2>2. CASE hist'.found = {} /\ pc' = [pc EXCEPT !.thr = "top"]
    BY <2>1, <2>2
  <2>3. CASE hist'.found # {} /\ pc' = [pc EXCEPT !.thr = "send"]
    BY <2>1, <2>3
  <2> QED
    BY <1>2, <2>2, <2>3 DEF Ul!Select
<1>3. CASE Ul!Send
  BY <1>3 DEF Ul!Send
<1>4. CASE Ul!Wait
  <2>1. hist.events = {} \/ h.closing
    BY <1>4 DEF Ul!Wait
  <2>2. UNCHANGED <<h, pending, cb, calls>> /\ pc.thr = "wait" /\ hist.async_sem > 0
        /\ hist' = [hist EXCEPT !.async_sem = @ - 1] /\ pc' = [pc EXCEPT !.thr = "top"]
    BY <1>4, <2>1 DEF Ul!Wait
  <2> QED
    BY <2>2
<1>5. CASE Ul!Watch
  <2>1. PICK ev : h' = [h EXCEPT !.pevents = ev]
    BY <1>5 DEF Ul!Watch
  <2> QED
    BY <1>5, <2>1 DEF Ul!Watch
<1>6. CASE Ul!uv__stream_osx_select_cb
  <2>1. hist.events # {}
    BY <1>6 DEF Ul!uv__stream_osx_select_cb
  <2> QED
    BY <1>6, <2>1 DEF Ul!uv__stream_osx_select_cb
<1>7. ASSUME NEW e \in Ul!Events, Ul!StreamIo(e) PROVE UlInv'
  <2>1. CASE e \in h.pevents
    BY <1>7, <2>1 DEF Ul!StreamIo
  <2>2. CASE e \notin h.pevents
    BY <1>7, <2>2 DEF Ul!StreamIo
  <2> QED
    BY <2>1, <2>2
<1>8. CASE Ul!CallbackReturns
  BY <1>8 DEF Ul!CallbackReturns
<1>9. CASE Ul!EventsDone
  <2>1. CASE h.closing
    BY <1>9, <2>1 DEF Ul!EventsDone
  <2>2. CASE ~h.closing
    BY <1>9, <2>2 DEF Ul!EventsDone
  <2> QED
    BY <2>1, <2>2
<1>10. CASE Ul!uv__stream_close
  <2>1. /\ Ul!User /\ ~h.closing /\ h' = [h EXCEPT !.closing = TRUE] /\ UNCHANGED pending
        /\ pc' = [pc EXCEPT !.loop = IF @ = "idle" THEN "join" ELSE "join_in_callback"]
    BY <1>10 DEF Ul!uv__stream_close
  <2>2. hist' = [events |-> hist.events, close_sem |-> hist.close_sem + 1,
                 async_sem |-> hist.async_sem + 1, watched |-> hist.watched, found |-> hist.found]
    <3>1. PICK hi : hi = hist
      OBVIOUS
    <3>2. hi = [events |-> hi.events, close_sem |-> hi.close_sem, async_sem |-> hi.async_sem,
                watched |-> hi.watched, found |-> hi.found]
      BY <3>1
    <3>3. hist' = [hi EXCEPT !.close_sem = @ + 1, !.async_sem = @ + 1]
      BY <1>10, <3>1 DEF Ul!uv__stream_close
    <3> HIDE DEF UlInv, UlFields
    <3> QED
      BY ONLY <3>1, <3>2, <3>3
  <2>3. h.made = Ul!Made /\ hist.close_sem = 0 /\ pc.thr \in {"top", "select", "send", "wait"}
    BY <2>1 DEF Ul!User
  <2>4. hist'.close_sem = 1 /\ hist'.async_sem \in Int
    BY ONLY <2>2, <2>3, UlInv DEF UlInv, UlFields
  <2>5. h' = [closing |-> TRUE, pevents |-> h.pevents, made |-> Ul!Made]
    BY <2>1, <2>3
  <2>6. pc'.loop \in {"join", "join_in_callback"} /\ pc' = [loop |-> pc'.loop, thr |-> pc.thr]
    BY <2>1
  <2>7. UlClosing'
    BY ONLY <2>3, <2>4, <2>5, <2>6 DEF UlClosing
  <2>8. UlFields'
    BY ONLY <2>2, <2>4, <2>5, <2>6 DEF UlFields
  <2>9. h'.closing = TRUE
    BY ONLY <2>5
  <2> QED
    BY ONLY <2>7, <2>8, <2>9 DEF UlInv
<1>11. CASE Ul!Join
  <2>1. /\ pc.loop \in {"join", "join_in_callback"} /\ pc.thr = "exit" /\ UNCHANGED hist
        /\ pc' = [pc EXCEPT !.loop = IF @ = "join" THEN "ended" ELSE "callback"]
    BY <1>11 DEF Ul!Join
  <2>2. PICK hi : hi = [h EXCEPT !.pevents = {}]
    OBVIOUS
  <2>3. h' = [hi EXCEPT !.made = {}]
    BY <1>11, <2>2 DEF Ul!Join
  <2> QED
    BY <2>1, <2>2, <2>3
<1>12. CASE Ul!Becomes
  BY <1>12 DEF Ul!Becomes
<1>13. CASE UNCHANGED Ul!vars
  BY <1>13 DEF Ul!vars
<1> QED
  BY <1>1, <1>2, <1>3, <1>4, <1>5, <1>6, <1>7, <1>8, <1>9, <1>10, <1>11, <1>12, <1>13
     DEF Ul!Next, Ul!UserCall, Ul!HandlerStep, Ul!RunPending, Ul!SystemStep, Ul!uv__stream_osx_select

\* What the runs check follows.
LEMMA UlFollows == UlInv => Ul!PendingExact /\ Ul!Armed
BY DEF UlInv, UlFields, UlHandover, UlClosing, UlFailed, UlQuiet, Ul!PendingExact, Ul!Armed, Ul!Made

-----------------------------------------------------------------------------
(* The server: kernel counts the connections, pending says of each client  *)
(* whether its CSockData is alive.                                         *)

AsStates == {"none", "alive", "closing", "freed"}

AsTypes ==
  /\ h \in [isinit: BOOLEAN, server: {"none", "open", "listening", "closing", "closed"},
            list: SUBSET As!Ids, reading: SUBSET As!Ids]
  /\ kernel \in [waiting: Nat, id: Nat] /\ kernel.waiting + kernel.id <= MaxClients
  /\ pending \in [As!Ids -> AsStates]
  /\ pc \in [loop: {"user", "runs"}, user: As!Ids \cup {0}]
  /\ cb \in [name: {"none", "newconcb", "recvcb"}, id: As!Ids \cup {0}]
  /\ cb.name = "newconcb" => cb.id # 0
  /\ hist = [inflight |-> hist.inflight, wrong |-> hist.wrong]
  /\ hist.inflight \in [As!Ids -> Nat]

\* The list is that of the clients that are alive; an id that is still to come
\* is nobody's.
AsInv ==
  /\ AsTypes
  /\ \A i \in As!Ids : i \in h.list <=> pending[i] = "alive"
  /\ \A i \in As!Ids : i > kernel.id => pending[i] = "none"
  /\ h.reading \subseteq h.list

\* The constructor makes a server that satisfies the invariant.
LEMMA AsInit == As!Init => AsInv
<1> SUFFICES ASSUME As!Init PROVE AsInv
  OBVIOUS
<1>1. AsTypes
  BY MaxClientsAssumption DEF As!Init, AsTypes, AsStates, As!NoCb
<1> QED
  BY <1>1 DEF As!Init, AsInv, As!Ids

\* The object after close: no client is left.
LEMMA AsClosed ==
  ASSUME AsInv, NEW s, s = As!closed(h)
  PROVE  /\ s \in [isinit: BOOLEAN, server: {"none", "open", "listening", "closing", "closed"},
                   list: SUBSET As!Ids, reading: SUBSET As!Ids]
         /\ s.list = {} /\ s.reading = {} /\ ~s.isinit
         /\ s.server = IF h.isinit THEN "closing" ELSE h.server
         /\ As!ClosedAll \in [As!Ids -> AsStates]
         /\ \A i \in As!Ids : /\ As!ClosedAll[i] # "alive"
                              /\ i > kernel.id => As!ClosedAll[i] = "none"
<1>1. /\ h \in [isinit: BOOLEAN, server: {"none", "open", "listening", "closing", "closed"},
                list: SUBSET As!Ids, reading: SUBSET As!Ids]
      /\ h.reading \subseteq h.list /\ pending \in [As!Ids -> AsStates]
  BY DEF AsInv, AsTypes
<1>2. /\ s \in [isinit: BOOLEAN, server: {"none", "open", "listening", "closing", "closed"},
                list: SUBSET As!Ids, reading: SUBSET As!Ids]
      /\ s.list = {} /\ s.reading = {} /\ ~s.isinit
      /\ s.server = IF h.isinit THEN "closing" ELSE h.server
  BY <1>1 DEF As!closed
<1>3. As!ClosedAll \in [As!Ids -> AsStates]
  BY <1>1 DEF As!ClosedAll, AsStates
<1>4. \A i \in As!Ids : /\ As!ClosedAll[i] # "alive"
                        /\ i > kernel.id => As!ClosedAll[i] = "none"
  BY DEF AsInv, As!ClosedAll
<1> QED
  BY <1>2, <1>3, <1>4

\* Start.
LEMMA AsStartInv == AsInv /\ As!Start => AsInv'
<1> SUFFICES ASSUME AsInv, As!Start PROVE AsInv'
  OBVIOUS
<1>1. PICK c, n : c = As!closed(h) /\ n = As!init(c)
  OBVIOUS
<1>2. PICK s \in As!Bound(n) :
        /\ h' = s
        /\ pc' = IF s.server = "listening" THEN [pc EXCEPT !.loop = "runs"] ELSE pc
  BY <1>1 DEF As!Start
<1>3. /\ pending' = As!ClosedAll /\ UNCHANGED <<kernel, cb>>
      /\ \E w : hist' = [hist EXCEPT !.wrong = w]
  BY DEF As!Start
<1>4. /\ c \in [isinit: BOOLEAN, server: {"none", "open", "listening", "closing", "closed"},
                list: SUBSET As!Ids, reading: SUBSET As!Ids]
      /\ c.list = {} /\ c.reading = {}
      /\ pending' \in [As!Ids -> AsStates]
      /\ \A i \in As!Ids : pending'[i] # "alive" /\ (i > kernel.id => pending'[i] = "none")
  BY <1>1, <1>3, AsClosed
<1>5. /\ n \in [isinit: BOOLEAN, server: {"none", "open", "listening", "closing", "closed"},
                list: SUBSET As!Ids, reading: SUBSET As!Ids]
      /\ n.list = {} /\ n.reading = {}
  BY <1>1, <1>4 DEF As!init
<1>6. /\ h' \in [isinit: BOOLEAN, server: {"none", "open", "listening", "closing", "closed"},
                 list: SUBSET As!Ids, reading: SUBSET As!Ids]
      /\ h'.list = {} /\ h'.reading = {}
  BY <1>2, <1>5 DEF As!Bound
<1>7. pc' \in [loop: {"user", "runs"}, user: As!Ids \cup {0}]
  BY <1>2 DEF AsInv, AsTypes
<1>8. hist' = [inflight |-> hist'.inflight, wrong |-> hist'.wrong] /\ hist'.inflight = hist.inflight
  BY <1>3 DEF AsInv, AsTypes
<1> QED
  BY <1>3, <1>4, <1>6, <1>7, <1>8 DEF AsInv, AsTypes

\* close.
LEMMA AsCloseInv == AsInv /\ As!close => AsInv'
<1> SUFFICES ASSUME AsInv, As!close PROVE AsInv'
  OBVIOUS
<1>1. h' = As!closed(h) /\ pending' = As!ClosedAll /\ UNCHANGED <<kernel, pc, cb, hist>>
  BY DEF As!close
<1>2. /\ h' \in [isinit: BOOLEAN, server: {"none", "open", "listening", "closing", "closed"},
                 list: SUBSET As!Ids, reading: SUBSET As!Ids]
      /\ h'.list = {} /\ h'.reading = {} /\ pending' \in [As!Ids -> AsStates]
      /\ \A i \in As!Ids : pending'[i] # "alive" /\ (i > kernel.id => pending'[i] = "none")
  BY <1>1, AsClosed
<1> QED
  BY <1>1, <1>2 DEF AsInv, AsTypes

\* The loop starts or ends; nothing of the clients changes.
LEMMA AsLoopInv ==
  AsInv /\ (As!RunAgain \/ As!RunEnds \/ \E id \in As!Ids : As!ThreadFinds(id)) => AsInv'
<1> SUFFICES ASSUME AsInv, As!RunAgain \/ As!RunEnds \/ \E id \in As!Ids : As!ThreadFinds(id)
             PROVE  AsInv'
  OBVIOUS
<1>1. UNCHANGED <<h, kernel, pending, cb, hist>>
  BY DEF As!RunAgain, As!RunEnds, As!ThreadFinds
<1>2. pc' \in [loop: {"user", "runs"}, user: As!Ids \cup {0}]
  BY DEF As!RunAgain, As!RunEnds, As!ThreadFinds, AsInv, AsTypes
<1> QED
  BY <1>1, <1>2 DEF AsInv, AsTypes

\* acceptConnection, up to the user's callback.
LEMMA AsAcceptInv == AsInv /\ As!acceptConnection => AsInv'
<1> SUFFICES ASSUME AsInv, As!acceptConnection PROVE AsInv'
  OBVIOUS
<1>1. PICK id : id = kernel.id + 1
  OBVIOUS
<1>2. /\ kernel.waiting > 0 /\ kernel' = [waiting |-> kernel.waiting - 1, id |-> id]
      /\ \/ /\ pending' = [pending EXCEPT ![id] = "alive"] /\ h' = [h EXCEPT !.list = @ \cup {id}]
            /\ cb' = As!Cb("newconcb", id) /\ hist' = hist
         \/ /\ pending' = [pending EXCEPT ![id] = "freed"] /\ UNCHANGED <<h, cb>>
            /\ hist' = [hist EXCEPT !.wrong = @ \cup {"freed_while_closing"}]
      /\ pc' = pc
  BY <1>1 DEF As!acceptConnection
<1>3. AsTypes /\ kernel.id \in Nat /\ kernel.waiting \in Nat
  BY DEF AsInv, AsTypes
<1>4. id \in As!Ids /\ id # 0 /\ pending[id] = "none" /\ id \notin h.list
  BY <1>1, <1>2, <1>3, MaxClientsAssumption DEF AsInv, AsTypes, As!Ids
<1>5. kernel' \in [waiting: Nat, id: Nat] /\ kernel'.waiting + kernel'.id <= MaxClients /\ kernel'.id = id
  BY <1>1, <1>2, <1>3 DEF AsTypes
<1>6. \A i \in As!Ids : i > id => i > kernel.id /\ i # id
  BY <1>1, <1>3 DEF As!Ids
<1>7. CASE pending' = [pending EXCEPT ![id] = "alive"] /\ h' = [h EXCEPT !.list = @ \cup {id}]
           /\ cb' = As!Cb("newconcb", id) /\ hist' = hist
  <2>1. h' \in [isinit: BOOLEAN, server: {"none", "open", "listening", "closing", "closed"},
                list: SUBSET As!Ids, reading: SUBSET As!Ids]
        /\ h'.list = h.list \cup {id} /\ h'.reading = h.reading
    BY <1>3, <1>4, <1>7 DEF AsTypes
  <2>2. cb' \in [name: {"none", "newconcb", "recvcb"}, id: As!Ids \cup {0}] /\ cb'.id # 0
    BY <1>4, <1>7 DEF As!Cb
  <2>3. pending' \in [As!Ids -> AsStates] /\ pending'[id] = "alive"
        /\ \A i \in As!Ids : i # id => pending'[i] = pending[i]
    BY <1>3, <1>4, <1>7 DEF AsTypes, AsStates
  <2>4. AsTypes'
    BY <1>2, <1>3, <1>5, <1>7, <2>1, <2>2, <2>3 DEF AsTypes
  <2> QED
    BY <1>5, <1>6, <2>1, <2>3, <2>4 DEF AsInv
<1>8. CASE pending' = [pending EXCEPT ![id] = "freed"] /\ UNCHANGED <<h, cb>>
           /\ hist' = [hist EXCEPT !.wrong = @ \cup {"freed_while_closing"}]
  <2>1. pending' \in [As!Ids -> AsStates] /\ pending'[id] = "freed"
        /\ \A i \in As!Ids : i # id => pending'[i] = pending[i]
    BY <1>3, <1>4, <1>8 DEF AsTypes, AsStates
  <2>2. AsTypes'
    BY <1>2, <1>3, <1>5, <1>8, <2>1 DEF AsTypes
  <2> QED
    BY <1>4, <1>5, <1>6, <1>8, <2>1, <2>2 DEF AsInv
<1> QED
  BY <1>2, <1>7, <1>8

\* The user's callbacks return.
LEMMA AsReturnsInv == AsInv /\ (As!NewconcbReturns \/ As!RecvcbReturns) => AsInv'
<1> SUFFICES ASSUME AsInv, As!NewconcbReturns \/ As!RecvcbReturns PROVE AsInv'
  OBVIOUS
<1>1. cb' = As!NoCb /\ UNCHANGED <<kernel, pending, pc, hist>>
  BY DEF As!NewconcbReturns, As!RecvcbReturns
<1>2. cb' \in [name: {"none", "newconcb", "recvcb"}, id: As!Ids \cup {0}] /\ cb'.name = "none"
  BY <1>1 DEF As!NoCb
<1>3. /\ h' \in [isinit: BOOLEAN, server: {"none", "open", "listening", "closing", "closed"},
                 list: SUBSET As!Ids, reading: SUBSET As!Ids]
      /\ h'.list = h.list /\ h'.reading \subseteq h'.list
  <2>1. CASE h' = h
    BY <2>1 DEF AsInv, AsTypes
  <2>2. CASE h' # h
    <3>1. /\ cb.name = "newconcb" /\ pending[cb.id] = "alive"
          /\ h' = [h EXCEPT !.reading = @ \cup {cb.id}]
      BY <2>2 DEF As!NewconcbReturns, As!RecvcbReturns
    <3>2. cb.id \in As!Ids /\ cb.id \in h.list
      BY <3>1 DEF AsInv, AsTypes
    <3> QED
      BY <3>1, <3>2 DEF AsInv, AsTypes
  <2> QED
    BY <2>1, <2>2
<1> QED
  BY <1>1, <1>2, <1>3 DEF AsInv, AsTypes

\* AfterServerRecv.
LEMMA AsRecvInv == \A id \in As!Ids : AsInv /\ As!AfterServerRecv(id) => AsInv'
<1> SUFFICES ASSUME NEW id \in As!Ids, AsInv, As!AfterServerRecv(id) PROVE AsInv'
  OBVIOUS
<1>1. UNCHANGED <<kernel, pc, hist>> /\ id \in h.reading /\ AsTypes
  BY DEF As!AfterServerRecv, AsInv
<1>2. CASE cb' = As!Cb("recvcb", id) /\ UNCHANGED <<h, pending>>
  <2>1. cb' \in [name: {"none", "newconcb", "recvcb"}, id: As!Ids \cup {0}] /\ cb'.name = "recvcb"
    BY <1>2 DEF As!Cb
  <2> QED
    BY <1>1, <1>2, <2>1 DEF AsInv, AsTypes
<1>3. CASE As!DeleteClient(id) /\ pending' = [pending EXCEPT ![id] = "closing"] /\ UNCHANGED cb
  <2>1. /\ h' \in [isinit: BOOLEAN, server: {"none", "open", "listening", "closing", "closed"},
                   list: SUBSET As!Ids, reading: SUBSET As!Ids]
        /\ h'.list = h.list \ {id} /\ h'.reading = h.reading \ {id}
    BY <1>1, <1>3 DEF AsTypes, As!DeleteClient
  <2>2. /\ pending' \in [As!Ids -> AsStates] /\ pending'[id] = "closing"
        /\ \A i \in As!Ids : i # id => pending'[i] = pending[i]
    BY <1>1, <1>3 DEF AsTypes, AsStates
  <2>3. id \in h.list /\ pending[id] = "alive"
    BY <1>1 DEF AsInv
  <2>4. AsTypes'
    BY <1>1, <1>3, <2>1, <2>2 DEF AsTypes
  <2> QED
    BY <1>1, <2>1, <2>2, <2>3, <2>4 DEF AsInv
<1> QED
  BY <1>2, <1>3 DEF As!AfterServerRecv

\* The close callbacks of the server and of a client.
LEMMA AsClosesInv ==
  AsInv /\ (As!AfterServerClose \/ \E id \in As!Ids : As!AfterClientClose(id)) => AsInv'
<1> SUFFICES ASSUME AsInv, As!AfterServerClose \/ \E id \in As!Ids : As!AfterClientClose(id)
             PROVE  AsInv'
  OBVIOUS
<1>1. AsTypes
  BY DEF AsInv
<1>2. CASE As!AfterServerClose
  <2>1. h' = [h EXCEPT !.server = "closed"] /\ UNCHANGED <<kernel, pending, pc, cb, hist>>
    BY <1>2 DEF As!AfterServerClose
  <2>2. /\ h' \in [isinit: BOOLEAN, server: {"none", "open", "listening", "closing", "closed"},
                   list: SUBSET As!Ids, reading: SUBSET As!Ids]
        /\ h'.list = h.list /\ h'.reading = h.reading
    BY <1>1, <2>1 DEF AsTypes
  <2> QED
    BY <2>1, <2>2 DEF AsInv, AsTypes
<1>3. ASSUME NEW id \in As!Ids, As!AfterClientClose(id) PROVE AsInv'
  <2>1. /\ pending' = [pending EXCEPT ![id] = "freed"] /\ UNCHANGED <<h, kernel, pc, cb, hist>>
        /\ pending[id] = "closing"
    BY <1>3 DEF As!AfterClientClose, As!ClosesLast
  <2>2. /\ pending' \in [As!Ids -> AsStates] /\ pending'[id] = "freed"
        /\ \A i \in As!Ids : i # id => pending'[i] = pending[i]
    BY <1>1, <2>1 DEF AsTypes, AsStates
  <2> QED
    BY <2>1, <2>2 DEF AsInv, AsTypes
<1> QED
  BY <1>2, <1>3

\* A write begins or ends.
LEMMA AsWrites ==
  ASSUME AsInv, NEW id \in As!Ids,
         hist' = As!Written(id) \/ (As!AfterSend(id) /\ hist' = [hist EXCEPT !.inflight[id] = @ - 1])
  PROVE  /\ hist' = [inflight |-> hist'.inflight, wrong |-> hist'.wrong]
         /\ hist'.inflight \in [As!Ids -> Nat]
<1>1. hist = [inflight |-> hist.inflight, wrong |-> hist.wrong] /\ hist.inflight \in [As!Ids -> Nat]
  BY DEF AsInv, AsTypes
<1>2. PICK f, w, n : /\ hist' = [inflight |-> f, wrong |-> w] /\ f = [hist.inflight EXCEPT ![id] = n]
                     /\ n \in Nat
  <2>1. CASE hist' = As!Written(id)
    <3>1. PICK n : n = IF pending[id] = "alive" THEN hist.inflight[id] + 1 ELSE hist.inflight[id]
      OBVIOUS
    <3>2. n \in Nat
      BY <1>1, <3>1
    <3>3. \E w : hist' = [inflight |-> [hist.inflight EXCEPT ![id] = n], wrong |-> w]
      BY <1>1, <2>1, <3>1 DEF As!Written
    <3> QED
      BY <3>2, <3>3
  <2>2. CASE As!AfterSend(id) /\ hist' = [hist EXCEPT !.inflight[id] = @ - 1]
    <3>1. hist.inflight[id] > 0 /\ hist.inflight[id] - 1 \in Nat
      BY <1>1, <2>2 DEF As!AfterSend
    <3>2. hist' = [inflight |-> [hist.inflight EXCEPT ![id] = hist.inflight[id] - 1], wrong |-> hist.wrong]
      BY <1>1, <2>2
    <3> QED
      BY <3>1, <3>2
  <2> QED
    BY <2>1, <2>2
<1> QED
  BY <1>1, <1>2

\* send, of the loop or of another thread, and AfterSend.
LEMMA AsSendInv ==
  AsInv /\ (As!ThreadWrites \/ \E id \in As!Ids : As!send(id) \/ As!AfterSend(id)) => AsInv'
<1> SUFFICES ASSUME AsInv, As!ThreadWrites \/ \E id \in As!Ids : As!send(id) \/ As!AfterSend(id)
             PROVE  AsInv'
  OBVIOUS
<1>1. UNCHANGED <<h, kernel, pending, cb>>
  BY DEF As!ThreadWrites, As!send, As!AfterSend
<1>2. pc' \in [loop: {"user", "runs"}, user: As!Ids \cup {0}]
  BY DEF As!ThreadWrites, As!send, As!AfterSend, AsInv, AsTypes
<1>3. /\ hist' = [inflight |-> hist'.inflight, wrong |-> hist'.wrong]
      /\ hist'.inflight \in [As!Ids -> Nat]
  <2>1. CASE As!ThreadWrites
    <3>1. pc.user \in As!Ids /\ hist' = As!Written(pc.user)
      BY <2>1 DEF As!ThreadWrites, AsInv, AsTypes
    <3> QED
      BY <3>1, AsWrites
  <2>2. ASSUME NEW id \in As!Ids, As!send(id) \/ As!AfterSend(id)
        PROVE  /\ hist' = [inflight |-> hist'.inflight, wrong |-> hist'.wrong]
               /\ hist'.inflight \in [As!Ids -> Nat]
    <3>1. hist' = As!Written(id) \/ (As!AfterSend(id) /\ hist' = [hist EXCEPT !.inflight[id] = @ - 1])
      BY <2>2 DEF As!send, As!AfterSend
    <3> QED
      BY <3>1, AsWrites
  <2> QED
    BY <2>1, <2>2
<1> QED
  BY <1>1, <1>2, <1>3 DEF AsInv, AsTypes

\* A peer connects.
LEMMA AsConnectsInv == AsInv /\ As!ClientConnects => AsInv'
<1> SUFFICES ASSUME AsInv, As!ClientConnects PROVE AsInv'
  OBVIOUS
<1>1. /\ kernel' \in [waiting: Nat, id: Nat] /\ kernel'.waiting + kernel'.id <= MaxClients
      /\ kernel'.id = kernel.id
  BY MaxClientsAssumption DEF As!ClientConnects, AsInv, AsTypes
<1> QED
  BY <1>1 DEF As!ClientConnects, AsInv, AsTypes

\* Every step keeps the list of clients.
LEMMA AsNext == AsInv /\ [As!Next]_(As!vars) => AsInv'
<1> SUFFICES ASSUME AsInv, [As!Next]_(As!vars) PROVE AsInv'
  OBVIOUS
<1>1. CASE UNCHANGED As!vars
  BY <1>1 DEF As!vars, AsInv, AsTypes
<1> QED
  BY <1>1, AsStartInv, AsCloseInv, AsLoopInv, AsAcceptInv, AsReturnsInv, AsRecvInv, AsClosesInv,
     AsSendInv, AsConnectsInv
     DEF As!Next, As!UserCall, As!HandlerStep, As!ProcessReq, As!Network

\* What the runs check of the list follows.
LEMMA AsCounters == AsInv => As!PendingExact
BY DEF AsInv, AsTypes, As!PendingExact

\* Of a program that does none of what SockFaults lists: a thread of the user
\* that has found a client has nothing in flight, and no callback runs, until
\* it has written.  Only a server that listens has clients.
AsSaneRest ==
  /\ hist.wrong = {}
  /\ h.isinit <=> h.server \in {"open", "listening"}
  /\ h.server # "listening" => h.list = {}
  /\ pc.user # 0 =>
       /\ pc.user \in h.list /\ hist.inflight[pc.user] = 0
       /\ cb = As!NoCb /\ pc.loop = "runs"

\* Nothing has gone wrong at the start.
LEMMA AsSaneInit == As!Init => AsSaneRest
BY DEF As!Init, AsSaneRest

\* What a start and a close leave of the object.
LEMMA AsSaneClosed ==
  ASSUME AsInv, AsSaneRest, NEW s, s = As!closed(h)
  PROVE  s.list = {} /\ ~s.isinit /\ s.server \notin {"open", "listening"}
         /\ (s.server = "closing" => h.server \in {"open", "listening", "closing"})
<1>1. s.list = {} /\ ~s.isinit /\ s.server = IF h.isinit THEN "closing" ELSE h.server
  BY AsClosed
<1> QED
  BY <1>1 DEF AsSaneRest

\* start and close of a program that does none of SockFaults do nothing wrong.
LEMMA AsSaneUser ==
  AsInv /\ AsSaneRest /\ SockFaults = {} /\ (As!Start \/ As!close) => AsSaneRest'
<1> SUFFICES ASSUME AsInv, AsSaneRest, SockFaults = {}, As!Start \/ As!close PROVE AsSaneRest'
  OBVIOUS
<1>1. PICK c : c = As!closed(h)
  OBVIOUS
<1>2. /\ c.list = {} /\ ~c.isinit /\ c.server \notin {"open", "listening"}
      /\ c.server = "closing" => h.server \in {"open", "listening", "closing"}
      /\ c \in [isinit: BOOLEAN, server: {"none", "open", "listening", "closing", "closed"},
                list: SUBSET As!Ids, reading: SUBSET As!Ids]
  BY <1>1, AsSaneClosed, AsClosed
<1>3. AsTypes
  BY DEF AsInv
<1>4. CASE As!Start
  <2>1. /\ pc.loop = "user" /\ h.server \in {"none", "closed"}
        /\ hist' = [hist EXCEPT !.wrong = @ \cup As!Wrong(c.server = "closing", "init_while_closing")]
    BY <1>1, <1>4 DEF As!Start, As!May
  <2>2. hist'.wrong = {}
    BY <1>2, <1>3, <2>1 DEF As!Wrong, AsSaneRest, AsTypes
  <2>3. PICK n, s : /\ n = As!init(c) /\ s \in As!Bound(n) /\ h' = s
                    /\ pc' = IF s.server = "listening" THEN [pc EXCEPT !.loop = "runs"] ELSE pc
    BY <1>1, <1>4 DEF As!Start
  <2>4. /\ n \in [isinit: BOOLEAN, server: {"none", "open", "listening", "closing", "closed"},
                  list: SUBSET As!Ids, reading: SUBSET As!Ids]
        /\ n.isinit /\ n.server = "open" /\ n.list = {}
    BY <1>2, <2>3 DEF As!init
  <2>5. h'.isinit /\ h'.server \in {"open", "listening"} /\ h'.list = {}
    BY <2>3, <2>4 DEF As!Bound
  <2>6. pc.user = 0 /\ pc'.user = 0
    BY <1>3, <2>1, <2>3 DEF AsSaneRest, AsTypes
  <2> QED
    BY <2>2, <2>5, <2>6 DEF AsSaneRest
<1>5. CASE As!close
  <2>1. h' = c /\ pc.user = 0 /\ UNCHANGED <<pc, hist>>
    BY <1>1, <1>5 DEF As!close
  <2> QED
    BY <1>2, <2>1 DEF AsSaneRest
<1> QED
  BY <1>4, <1>5

\* The steps of the loop: none while a thread of the user writes.
LEMMA AsSaneLoop ==
  ASSUME AsInv, AsSaneRest, SockFaults = {},
         \/ As!RunAgain \/ As!RunEnds \/ As!acceptConnection \/ As!NewconcbReturns
         \/ As!RecvcbReturns \/ As!AfterServerClose \/ As!ClientConnects
         \/ \E id \in As!Ids : As!AfterServerRecv(id) \/ As!AfterClientClose(id) \/ As!AfterSend(id)
  PROVE  AsSaneRest'
<1>1. AsTypes /\ As!May("thread_sends") = FALSE /\ As!May("accept_fails") = FALSE
  BY DEF AsInv, As!May
<1>2. CASE As!RunAgain \/ As!RunEnds
  <2>1. UNCHANGED <<h, cb, hist>> /\ pc'.user = pc.user
    BY <1>1, <1>2 DEF As!RunAgain, As!RunEnds, AsTypes
  <2>2. pc.user # 0 => As!RunAgain
    BY <1>1, <1>2 DEF As!RunEnds, AsSaneRest
  <2>3. pc.user = 0
    BY <2>2 DEF As!RunAgain, AsSaneRest
  <2> QED
    BY <2>1, <2>3 DEF AsSaneRest
<1>3. CASE As!acceptConnection
  <2>1. /\ pc.user = 0 /\ h.server = "listening" /\ UNCHANGED <<pc, hist>>
        /\ h' = [h EXCEPT !.list = @ \cup {kernel.id + 1}]
    BY <1>1, <1>3 DEF As!acceptConnection, As!Runs
  <2>2. h'.server = h.server /\ h'.isinit = h.isinit
    BY <1>1, <2>1 DEF AsTypes
  <2> QED
    BY <2>1, <2>2 DEF AsSaneRest
<1>4. CASE As!NewconcbReturns \/ As!RecvcbReturns
  <2>1. /\ UNCHANGED <<pc, hist>>
        /\ h' = h \/ h' = [h EXCEPT !.reading = @ \cup {cb.id}]
    BY <1>4 DEF As!NewconcbReturns, As!RecvcbReturns
  <2>2. h'.server = h.server /\ h'.isinit = h.isinit /\ h'.list = h.list
    BY <1>1, <2>1 DEF AsTypes
  <2>3. pc.user = 0
    BY <1>4 DEF As!NewconcbReturns, As!RecvcbReturns, AsSaneRest, As!NoCb
  <2> QED
    BY <2>1, <2>2, <2>3 DEF AsSaneRest
<1>5. CASE As!AfterServerClose
  <2>1. pc.user = 0 /\ UNCHANGED <<pc, hist>> /\ h.server = "closing" /\ h' = [h EXCEPT !.server = "closed"]
    BY <1>1, <1>5 DEF As!AfterServerClose, As!Runs
  <2>2. h'.server = "closed" /\ h'.isinit = h.isinit /\ h'.list = h.list
    BY <1>1, <2>1 DEF AsTypes
  <2> QED
    BY <2>1, <2>2 DEF AsSaneRest
<1>6. CASE As!ClientConnects
  BY <1>6 DEF As!ClientConnects, AsSaneRest
<1>7. ASSUME NEW id \in As!Ids, As!AfterServerRecv(id) PROVE AsSaneRest'
  <2>1. pc.user = 0 /\ UNCHANGED <<pc, hist>>
    BY <1>1, <1>7 DEF As!AfterServerRecv, As!Runs
  <2>2. h'.server = h.server /\ h'.isinit = h.isinit /\ h'.list \subseteq h.list
    <3>1. h' = h \/ As!DeleteClient(id)
      BY <1>7 DEF As!AfterServerRecv
    <3>2. CASE h' = h
      BY <3>2
    <3>3. CASE As!DeleteClient(id)
      BY <1>1, <3>3 DEF As!DeleteClient, AsTypes
    <3> QED
      BY <3>1, <3>2, <3>3
  <2> QED
    BY <2>1, <2>2 DEF AsSaneRest
<1>8. ASSUME NEW id \in As!Ids, As!AfterClientClose(id) \/ As!AfterSend(id) PROVE AsSaneRest'
  <2>1. pc.user = 0 /\ UNCHANGED <<h, pc>>
    BY <1>1, <1>8 DEF As!AfterClientClose, As!AfterSend, As!ClosesLast, As!Runs
  <2>2. hist'.wrong = hist.wrong
    BY <1>1, <1>8 DEF As!AfterClientClose, As!AfterSend, AsTypes
  <2> QED
    BY <2>1, <2>2 DEF AsSaneRest
<1> QED
  BY <1>2, <1>3, <1>4, <1>5, <1>6, <1>7, <1>8

\* A write begins with nothing in flight, for a client that is alive.
LEMMA AsSaneWritten ==
  ASSUME AsInv, AsSaneRest, NEW id \in As!Ids, id \in h.list, hist.inflight[id] = 0,
         hist' = As!Written(id)
  PROVE  hist'.wrong = {}
<1>1. pending[id] = "alive" /\ hist = [inflight |-> hist.inflight, wrong |-> hist.wrong]
  BY DEF AsInv, AsTypes
<1> QED
  BY <1>1 DEF As!Written, As!Wrong, AsSaneRest

\* Nor does send.
LEMMA AsSaneSends ==
  ASSUME AsInv, AsSaneRest, SockFaults = {},
         As!ThreadWrites \/ \E id \in As!Ids : As!send(id) \/ As!ThreadFinds(id)
  PROVE  AsSaneRest'
<1>1. AsTypes
  BY DEF AsInv
<1>2. CASE As!ThreadWrites
  <2>1. /\ pc.user # 0 /\ hist' = As!Written(pc.user) /\ UNCHANGED <<h, cb>>
        /\ pc' = [pc EXCEPT !.user = 0]
    BY <1>2 DEF As!ThreadWrites
  <2>2. pc.user \in As!Ids /\ pc.user \in h.list /\ hist.inflight[pc.user] = 0
    BY <1>1, <2>1 DEF AsSaneRest, AsTypes
  <2>3. hist'.wrong = {} /\ pc'.user = 0
    BY <1>1, <2>1, <2>2, AsSaneWritten DEF AsTypes
  <2> QED
    BY <2>1, <2>3 DEF AsSaneRest
<1>3. ASSUME NEW id \in As!Ids, As!send(id) PROVE AsSaneRest'
  <2>1. /\ cb # As!NoCb /\ id \in h.list /\ hist.inflight[id] = 0 /\ hist' = As!Written(id)
        /\ UNCHANGED <<h, pc, cb>>
    BY <1>3 DEF As!send, As!May
  <2>2. hist'.wrong = {} /\ pc.user = 0
    BY <2>1, AsSaneWritten DEF AsSaneRest
  <2> QED
    BY <2>1, <2>2 DEF AsSaneRest
<1>4. ASSUME NEW id \in As!Ids, As!ThreadFinds(id) PROVE AsSaneRest'
  <2>1. /\ id \in h.list /\ pc.loop = "runs" /\ cb = As!NoCb /\ hist.inflight[id] = 0
        /\ pc' = [pc EXCEPT !.user = id] /\ UNCHANGED <<h, cb, hist>>
    BY <1>4 DEF As!ThreadFinds
  <2>2. pc'.user = id /\ pc'.loop = "runs"
    BY <1>1, <2>1 DEF AsTypes
  <2> QED
    BY <2>1, <2>2 DEF AsSaneRest
<1> QED
  BY <1>2, <1>3, <1>4

\* Nothing goes wrong in any step.
LEMMA AsSaneNext == AsInv /\ AsSaneRest /\ SockFaults = {} /\ [As!Next]_(As!vars) => AsSaneRest'
<1> SUFFICES ASSUME AsInv, AsSaneRest, SockFaults = {}, [As!Next]_(As!vars) PROVE AsSaneRest'
  OBVIOUS
<1>1. CASE UNCHANGED As!vars
  BY <1>1 DEF As!vars, AsSaneRest
<1> QED
  BY <1>1, AsSaneUser, AsSaneLoop, AsSaneSends
     DEF As!Next, As!UserCall, As!HandlerStep, As!ProcessReq, As!Network

\* What the runs check of the server follows.
LEMMA AsSane == AsSaneRest => As!Sane
BY DEF AsSaneRest, As!Sane

-----------------------------------------------------------------------------
(* The client: pending is the writes in flight.                            *)

AcThreads == Senders \cup {"main", "loop"}
AcSenders == Senders \cup {"loop"}

AcTypes ==
  /\ h \in [isinit: BOOLEAN, status: {"DIS", "FINISH", "ERROR"},
            handle: {"none", "open", "closing", "closed"}, reading: BOOLEAN,
            mutex: {"none", "alive"}, owner: AcSenders \cup {"nobody"}, depth: {0, 1},
            ret: {"none", "true", "false"}]
  /\ kernel \in [state: {"none", "connecting", "connected", "failed", "closed"}, data: Int,
                 eof: BOOLEAN]
  /\ pc \in [AcThreads -> {"none", "starts", "runs", "ended", "idle", "waits", "locked", "blocked"}]
  /\ \A t \in Senders : pc[t] \in {"idle", "locked", "blocked"}
  /\ pc["main"] \in {"idle", "waits"}
  /\ calls \in [AcSenders -> {0, 1}]

\* The mutex is free, or held by the one thread that has locked it or whose
\* write is in flight.
AcMutex ==
  IF h.owner = "nobody"
  THEN h.depth = 0 /\ pending = {} /\ \A t \in AcThreads : pc[t] # "locked"
  ELSE /\ h.depth = 1 /\ h.isinit
       /\ \A t \in AcThreads : pc[t] = "locked" => t = h.owner
       /\ pending = IF pc[h.owner] = "locked" THEN {} ELSE {<<h.owner, 1>>}

\* A thread sends once; the mutex lives while anybody sends.
AcSends ==
  /\ h.isinit <=> h.mutex = "alive"
  /\ h.isinit => h.handle # "none"
  /\ \A t \in AcThreads : pc[t] \in {"locked", "blocked"} => h.isinit /\ calls[t] = 1
  /\ \A t \in AcSenders : calls[t] = 0 \/ pc[t] = "blocked" => h.owner # t

\* The object connects once, and reads from then on until it closes.
AcConnects ==
  /\ h.ret = "none" /\ pc["main"] = "idle" =>
       /\ ~h.isinit /\ h.handle = "none" /\ h.status = "DIS" /\ pc["loop"] = "none"
       /\ kernel.state = "none"
  /\ kernel.state = "connecting" \/ pc["loop"] = "starts" => h.status = "DIS"
  /\ h.ret # "none" => h.status # "DIS"
  /\ h.ret = "true" => h.status = "FINISH"
  /\ h.status = "FINISH" /\ h.handle = "open" => h.reading

AcInv == AcTypes /\ AcMutex /\ AcSends /\ AcConnects /\ hist = {}

\* The fields of the object and where its threads are.
LEMMA AcFields ==
  AcInv => /\ h = [isinit |-> h.isinit, status |-> h.status, handle |-> h.handle,
                   reading |-> h.reading, mutex |-> h.mutex, owner |-> h.owner,
                   depth |-> h.depth, ret |-> h.ret]
           /\ kernel = [state |-> kernel.state, data |-> kernel.data, eof |-> kernel.eof]
           /\ pc = [t \in AcThreads |-> pc[t]] /\ calls = [t \in AcSenders |-> calls[t]]
           /\ "main" \in AcThreads /\ "loop" \in AcThreads /\ "loop" \in AcSenders
           /\ AcSenders \subseteq AcThreads /\ "main" \notin AcSenders /\ "nobody" \notin AcThreads
           /\ "loop" \notin Senders /\ "main" \notin Senders
BY SendersAssumption DEF AcInv, AcTypes, AcThreads, AcSenders

\* The constructor makes a client that satisfies the invariant.
LEMMA AcInit == Ac!Init => AcInv
<1> SUFFICES ASSUME Ac!Init PROVE AcInv
  OBVIOUS
<1> USE DEF Ac!Init, Ac!Free
<1>1. AcTypes
  BY SendersAssumption DEF AcTypes, AcThreads, AcSenders
<1>2. AcMutex
  BY DEF AcMutex, AcThreads
<1>3. AcSends
  BY SendersAssumption DEF AcSends, AcThreads, AcSenders
<1>4. AcConnects
  BY DEF AcConnects
<1> QED
  BY <1>1, <1>2, <1>3, <1>4 DEF AcInv

\* Steps that leave the mutex, the writes and the senders as they are: what is
\* left to show is about the connection.
LEMMA AcQuiet ==
  ASSUME AcInv, h'.owner = h.owner, h'.depth = h.depth, h'.isinit = h.isinit, h'.mutex = h.mutex,
         UNCHANGED <<pending, calls, hist>>, AcTypes', AcConnects',
         h'.isinit => h'.handle # "none",
         \A t \in AcThreads : pc[t] \in {"locked", "blocked"} \/ pc'[t] \in {"locked", "blocked"}
                                => pc'[t] = pc[t]
  PROVE  AcInv'
<1>1. AcMutex'
  <2>1. CASE h.owner = "nobody"
    BY <2>1 DEF AcInv, AcMutex
  <2>2. CASE h.owner # "nobody"
    <3>1. h.owner \in AcThreads
      BY <2>2, AcFields DEF AcInv, AcTypes
    <3>2. pc'[h.owner] = "locked" <=> pc[h.owner] = "locked"
      BY <3>1
    <3> QED
      BY <2>2, <3>2 DEF AcInv, AcMutex
  <2> QED
    BY <2>1, <2>2
<1>2. AcSends'
  BY AcFields DEF AcInv, AcSends
<1> QED
  BY <1>1, <1>2 DEF AcInv

\* Only one connect, and an object that is new.
LEMMA AcConnectInv == AcInv /\ ClientFaults = {} /\ Ac!connect => AcInv'
<1> SUFFICES ASSUME AcInv, ClientFaults = {}, Ac!connect PROVE AcInv'
  OBVIOUS
<1>1. /\ pc["main"] = "idle" /\ h.ret = "none" /\ h' = Ac!init(Ac!closed(h))
      /\ hist' = hist \cup Ac!CloseFaults
                   \cup (IF Ac!closed(h).handle = "closing" THEN {"init_while_closing"} ELSE {})
      /\ pc' = [pc EXCEPT !["main"] = "waits", !["loop"] = "starts"]
      /\ kernel' = [kernel EXCEPT !.state = "none", !.eof = FALSE]
      /\ UNCHANGED <<pending, calls>>
  BY DEF Ac!connect, Ac!May
<1>2. ~h.isinit /\ h.handle = "none" /\ h.status = "DIS" /\ pc["loop"] = "none" /\ kernel.state = "none"
  BY <1>1 DEF AcInv, AcConnects
<1>3. Ac!closed(h) = h /\ Ac!CloseFaults = {}
  BY <1>2 DEF Ac!closed, Ac!CloseFaults
<1>4. hist' = {} /\ h' = [h EXCEPT !.isinit = TRUE, !.handle = "open", !.mutex = "alive",
                                   !.owner = "nobody", !.depth = 0, !.reading = FALSE]
  BY <1>1, <1>2, <1>3 DEF Ac!init, Ac!Free, AcInv
<1>5. /\ h' = [isinit |-> TRUE, status |-> "DIS", handle |-> "open", reading |-> FALSE,
               mutex |-> "alive", owner |-> "nobody", depth |-> 0, ret |-> "none"]
  BY <1>1, <1>2, <1>4, AcFields
<1>6. /\ pc' = [t \in AcThreads |-> IF t = "main" THEN "waits" ELSE IF t = "loop" THEN "starts" ELSE pc[t]]
  BY <1>1, AcFields
<1>7. kernel' = [state |-> "none", data |-> kernel.data, eof |-> FALSE]
  BY <1>1, AcFields
<1>8. /\ \A t \in AcThreads : pc[t] \notin {"locked", "blocked"}
      /\ h.owner = "nobody"
  BY <1>2, AcFields DEF AcInv, AcTypes, AcSends, AcMutex
<1>9. pc'["main"] = "waits" /\ pc'["loop"] = "starts"
      /\ \A t \in Senders : pc'[t] = pc[t]
  BY <1>6, AcFields DEF AcThreads
<1>10. \A t \in AcThreads : pc'[t] \notin {"locked", "blocked"}
  BY <1>6, <1>8
<1>11. AcTypes'
  <2>1. pc' \in [AcThreads -> {"none", "starts", "runs", "ended", "idle", "waits", "locked", "blocked"}]
    BY <1>6 DEF AcInv, AcTypes
  <2>2. \A t \in Senders : pc'[t] \in {"idle", "locked", "blocked"}
    BY <1>9 DEF AcInv, AcTypes
  <2>3. calls' \in [AcSenders -> {0, 1}] /\ kernel.data \in Int
    BY <1>1 DEF AcInv, AcTypes
  <2> QED
    BY <1>5, <1>7, <1>9, <2>1, <2>2, <2>3 DEF AcTypes
<1>12. pending = {}
  BY <1>8 DEF AcInv, AcMutex
<1>13. AcMutex'
  <2>1. h'.owner = "nobody" /\ h'.depth = 0 /\ pending' = {}
    BY <1>1, <1>5, <1>12
  <2> QED
    BY <1>10, <2>1 DEF AcMutex
<1>14. AcSends'
  BY <1>1, <1>5, <1>10, AcFields DEF AcSends
<1>15. AcConnects'
  BY <1>5, <1>7, <1>9 DEF AcConnects
<1> QED
  BY <1>4, <1>11, <1>13, <1>14, <1>15 DEF AcInv

\* ConnectThread.
LEMMA AcThreadInv == AcInv /\ ClientFaults = {} /\ Ac!ConnectThread => AcInv'
<1> SUFFICES ASSUME AcInv, ClientFaults = {}, Ac!ConnectThread PROVE AcInv'
  OBVIOUS
<1>1. /\ pc["loop"] = "starts" /\ pc' = [pc EXCEPT !["loop"] = "runs"]
      /\ kernel' = [kernel EXCEPT !.state = "connecting"] /\ UNCHANGED <<h, pending, calls, hist>>
  BY DEF Ac!ConnectThread, Ac!May
<1>2. /\ \A t \in AcThreads : t # "loop" => pc'[t] = pc[t]
      /\ pc'["loop"] = "runs" /\ pc' = [t \in AcThreads |-> pc'[t]]
  BY <1>1, AcFields
<1>3. kernel' = [state |-> "connecting", data |-> kernel.data, eof |-> kernel.eof]
  BY <1>1, AcFields
<1>4. AcTypes'
  BY <1>1, <1>2, <1>3, AcFields DEF AcInv, AcTypes, AcThreads
<1>5. AcConnects'
  BY <1>1, <1>2, <1>3, AcFields DEF AcInv, AcConnects
<1>6. \A t \in AcThreads : pc[t] \in {"locked", "blocked"} \/ pc'[t] \in {"locked", "blocked"}
                             => pc'[t] = pc[t]
  BY <1>1, <1>2
<1> QED
  BY <1>1, <1>4, <1>5, <1>6, AcQuiet DEF AcInv, AcSends

\* connect returns.
LEMMA AcReturnsInv == AcInv /\ Ac!ConnectReturns => AcInv'
<1> SUFFICES ASSUME AcInv, Ac!ConnectReturns PROVE AcInv'
  OBVIOUS
<1>1. /\ pc["main"] = "waits" /\ h.status # "DIS" /\ pc' = [pc EXCEPT !["main"] = "idle"]
      /\ h' = [h EXCEPT !.ret = IF h.status = "FINISH" THEN "true" ELSE "false"]
      /\ UNCHANGED <<kernel, pending, calls, hist>>
  BY DEF Ac!ConnectReturns
<1>2. /\ \A t \in AcThreads : t # "main" => pc'[t] = pc[t]
      /\ pc'["main"] = "idle" /\ pc' = [t \in AcThreads |-> pc'[t]]
  BY <1>1, AcFields
<1>3. h' = [isinit |-> h.isinit, status |-> h.status, handle |-> h.handle,
            reading |-> h.reading, mutex |-> h.mutex, owner |-> h.owner,
            depth |-> h.depth, ret |-> IF h.status = "FINISH" THEN "true" ELSE "false"]
  BY <1>1, AcFields
<1>4. AcTypes'
  BY <1>1, <1>2, <1>3, AcFields DEF AcInv, AcTypes, AcThreads
<1>5. AcConnects'
  BY <1>1, <1>2, <1>3, AcFields DEF AcInv, AcConnects
<1>6. \A t \in AcThreads : pc[t] \in {"locked", "blocked"} \/ pc'[t] \in {"locked", "blocked"}
                             => pc'[t] = pc[t]
  BY <1>1, <1>2
<1> QED
  BY <1>1, <1>3, <1>4, <1>5, <1>6, AcQuiet DEF AcInv, AcSends

\* close.
LEMMA AcCloseInv == AcInv /\ ClientFaults = {} /\ Ac!close => AcInv'
<1> SUFFICES ASSUME AcInv, ClientFaults = {}, Ac!close PROVE AcInv'
  OBVIOUS
<1>1. /\ pc["main"] = "idle" /\ h.isinit /\ h.handle = "open" /\ pending = {}
      /\ \A t \in AcSenders : pc[t] \notin {"locked", "blocked"}
      /\ h' = Ac!closed(h) /\ hist' = hist \cup Ac!CloseFaults
      /\ kernel' = [kernel EXCEPT !.state = "closed"] /\ UNCHANGED <<pending, pc, calls>>
  BY DEF Ac!close, Ac!May, Ac!Sending, AcSenders
<1>2. Ac!CloseFaults = {}
  BY <1>1 DEF Ac!CloseFaults, Ac!Sending, AcSenders
<1>3. h' = [isinit |-> FALSE, status |-> h.status, handle |-> "closing", reading |-> FALSE,
            mutex |-> "none", owner |-> h.owner, depth |-> h.depth, ret |-> h.ret]
  BY <1>1, AcFields DEF Ac!closed
<1>4. kernel' = [state |-> "closed", data |-> kernel.data, eof |-> kernel.eof]
  BY <1>1, AcFields
<1>5. h.owner = "nobody"
  <2>1. h.owner \in AcSenders \cup {"nobody"}
    BY DEF AcInv, AcTypes
  <2>2. h.owner # "nobody" => pc[h.owner] = "locked" \/ pending # {}
    BY DEF AcInv, AcMutex
  <2> QED
    BY <1>1, <2>1, <2>2
<1>6. \A t \in AcThreads : pc[t] \notin {"locked", "blocked"}
  BY <1>1, AcFields DEF AcInv, AcTypes, AcThreads, AcSenders
<1>7. h.ret # "none"
  BY <1>1 DEF AcInv, AcConnects
<1>8. AcTypes'
  BY <1>1, <1>3, <1>4 DEF AcInv, AcTypes
<1>9. AcMutex'
  BY <1>1, <1>3, <1>5, <1>6 DEF AcInv, AcMutex
<1>10. AcSends'
  BY <1>1, <1>3, <1>6, AcFields DEF AcInv, AcSends
<1>11. AcConnects'
  BY <1>1, <1>3, <1>4, <1>7 DEF AcInv, AcConnects
<1> QED
  BY <1>1, <1>2, <1>8, <1>9, <1>10, <1>11 DEF AcInv

\* The mutex is taken by a thread that has not sent yet, or waits for it.
LEMMA AcEnters ==
  ASSUME AcInv, NEW t \in AcSenders, Ac!MayEnter(t), h.isinit, calls[t] = 0 \/ pc[t] = "blocked",
         NEW s, s = Ac!Entered(h, t)
  PROVE  /\ h.owner = "nobody" /\ h.depth = 0 /\ pending = {} /\ \A u \in AcThreads : pc[u] # "locked"
         /\ s = [isinit |-> h.isinit, status |-> h.status, handle |-> h.handle,
                 reading |-> h.reading, mutex |-> h.mutex, owner |-> t, depth |-> 1, ret |-> h.ret]
<1>1. h.owner # t
  BY DEF AcInv, AcSends
<1>2. h.owner = "nobody"
  BY <1>1 DEF Ac!MayEnter, Ac!Free
<1>3. h.depth = 0 /\ pending = {} /\ \A u \in AcThreads : pc[u] # "locked"
  BY <1>2 DEF AcInv, AcMutex
<1>4. h = [isinit |-> h.isinit, status |-> h.status, handle |-> h.handle, reading |-> h.reading,
           mutex |-> h.mutex, owner |-> h.owner, depth |-> 0, ret |-> h.ret]
  BY <1>3, AcFields
<1>5. PICK i, st, hd, rd, mu, ow, re :
        /\ h = [isinit |-> i, status |-> st, handle |-> hd, reading |-> rd, mutex |-> mu,
                owner |-> ow, depth |-> 0, ret |-> re]
        /\ i = h.isinit /\ st = h.status /\ hd = h.handle /\ rd = h.reading /\ mu = h.mutex /\ re = h.ret
  <2> WITNESS h.isinit, h.status, h.handle, h.reading, h.mutex, h.owner, h.ret
  <2> QED
    BY <1>4
<1>6. s = [isinit |-> i, status |-> st, handle |-> hd, reading |-> rd, mutex |-> mu,
           owner |-> t, depth |-> 1, ret |-> re]
  <2>1. PICK r : r = [h EXCEPT !.owner = t]
    OBVIOUS
  <2>2. r = [isinit |-> i, status |-> st, handle |-> hd, reading |-> rd, mutex |-> mu,
             owner |-> t, depth |-> 0, ret |-> re]
    BY <1>5, <2>1
  <2>3. s = [r EXCEPT !.depth = r.depth + 1]
    BY <2>1 DEF Ac!Entered
  <2> QED
    BY <2>2, <2>3
<1> QED
  BY <1>2, <1>3, <1>5, <1>6

\* t has asked for the mutex: it has it, or waits.
LEMMA AcAsks ==
  ASSUME AcInv, NEW t \in AcSenders, h.isinit, calls[t] = 0 \/ pc[t] = "blocked",
         calls' = [calls EXCEPT ![t] = 1], UNCHANGED <<kernel, pending, hist>>,
         IF Ac!MayEnter(t) THEN h' = Ac!Entered(h, t) /\ pc' = [pc EXCEPT ![t] = "locked"]
         ELSE pc' = [pc EXCEPT ![t] = "blocked"] /\ h' = h,
         pc[t] \in {"idle", "blocked", "runs"}
  PROVE  AcInv'
<1>1. /\ t \in AcThreads /\ t # "main" /\ calls' = [u \in AcSenders |-> IF u = t THEN 1 ELSE calls[u]]
      /\ calls' \in [AcSenders -> {0, 1}]
  BY AcFields DEF AcInv, AcTypes
<1>2. /\ h'.isinit = h.isinit /\ h'.status = h.status /\ h'.handle = h.handle
      /\ h'.reading = h.reading /\ h'.mutex = h.mutex /\ h'.ret = h.ret
      /\ h' = [isinit |-> h.isinit, status |-> h.status, handle |-> h.handle, reading |-> h.reading,
               mutex |-> h.mutex, owner |-> h'.owner, depth |-> h'.depth, ret |-> h.ret]
      /\ IF Ac!MayEnter(t)
         THEN h'.owner = t /\ h'.depth = 1 /\ pending = {} /\ \A u \in AcThreads : pc[u] # "locked"
         ELSE h'.owner = h.owner /\ h'.depth = h.depth
  <2>1. CASE Ac!MayEnter(t)
    <3>1. PICK s : s = h' /\ s = Ac!Entered(h, t)
      BY <2>1
    <3>2. /\ pending = {} /\ \A u \in AcThreads : pc[u] # "locked"
          /\ s = [isinit |-> h.isinit, status |-> h.status, handle |-> h.handle,
                  reading |-> h.reading, mutex |-> h.mutex, owner |-> t, depth |-> 1, ret |-> h.ret]
      BY <2>1, <3>1, AcEnters
    <3> QED
      BY <2>1, <3>1, <3>2
  <2>2. CASE ~Ac!MayEnter(t)
    BY <2>2, AcFields
  <2> QED
    BY <2>1, <2>2
<1>3. PICK p \in {"locked", "blocked"} :
        /\ pc' = [u \in AcThreads |-> IF u = t THEN p ELSE pc[u]]
        /\ p = IF Ac!MayEnter(t) THEN "locked" ELSE "blocked"
  BY AcFields
<1>4. AcTypes'
  <2>1. /\ pc' \in [AcThreads -> {"none", "starts", "runs", "ended", "idle", "waits", "locked", "blocked"}]
        /\ pc'["main"] = pc["main"] /\ \A u \in Senders : pc'[u] \in {"idle", "locked", "blocked"}
    BY <1>1, <1>3, AcFields DEF AcInv, AcTypes, AcSenders
  <2>2. h'.owner \in AcSenders \cup {"nobody"} /\ h'.depth \in {0, 1}
    BY <1>2 DEF AcInv, AcTypes
  <2>3. AcTypes
    BY DEF AcInv
  <2> QED
    BY <1>1, <1>2, <2>1, <2>2, <2>3 DEF AcTypes
<1>5. AcMutex'
  <2>1. CASE Ac!MayEnter(t)
    <3>1. h'.owner = t /\ h'.depth = 1 /\ h'.isinit /\ pending' = {} /\ pc'[t] = "locked"
          /\ \A u \in AcThreads : pc'[u] = "locked" => u = t
      BY <1>1, <1>2, <1>3, <2>1
    <3>2. t # "nobody"
      BY <1>1, AcFields
    <3> QED
      BY <3>1, <3>2 DEF AcMutex
  <2>2. CASE ~Ac!MayEnter(t)
    <3>1. /\ h.owner # "nobody" /\ h.owner # t /\ h.owner \in AcThreads
      BY <2>2, AcFields DEF Ac!MayEnter, Ac!Free, AcInv, AcTypes
    <3>2. /\ \A u \in AcThreads : pc'[u] = "locked" => pc[u] = "locked"
          /\ pc'[h.owner] = pc[h.owner]
      BY <1>1, <1>3, <2>2, <3>1
    <3> QED
      BY <1>2, <2>2, <3>1, <3>2 DEF AcInv, AcMutex
  <2> QED
    BY <2>1, <2>2
<1>6. AcSends'
  <2>1. \A u \in AcThreads : pc'[u] \in {"locked", "blocked"} => h'.isinit /\ calls'[u] = 1
    BY <1>1, <1>2, <1>3 DEF AcInv, AcSends
  <2>2. \A u \in AcSenders : calls'[u] = 0 \/ pc'[u] = "blocked" => h'.owner # u
    <3> SUFFICES ASSUME NEW u \in AcSenders, calls'[u] = 0 \/ pc'[u] = "blocked" PROVE h'.owner # u
      OBVIOUS
    <3>1. CASE u = t
      <4>1. ~Ac!MayEnter(t)
        BY <1>1, <1>3, <3>1
      <4> QED
        BY <1>2, <3>1, <4>1 DEF Ac!MayEnter
    <3>2. CASE u # t
      <4>1. calls[u] = 0 \/ pc[u] = "blocked"
        BY <1>1, <1>3, <3>2, AcFields
      <4> QED
        BY <1>2, <3>2, <4>1 DEF AcInv, AcSends
    <3> QED
      BY <3>1, <3>2
  <2> QED
    BY <1>2, <2>1, <2>2 DEF AcInv, AcSends
<1>7. AcConnects'
  BY <1>1, <1>2, <1>3, AcFields DEF AcInv, AcConnects
<1> QED
  BY <1>4, <1>5, <1>6, <1>7 DEF AcInv

\* send, of a thread or in the callback.
LEMMA AcSendInv ==
  AcInv /\ ClientFaults = {} /\ ((\E t \in Senders : Ac!send(t)) \/ Ac!RecvcbSends) => AcInv'
<1> SUFFICES ASSUME AcInv, ClientFaults = {}, (\E t \in Senders : Ac!send(t)) \/ Ac!RecvcbSends
             PROVE  AcInv'
  OBVIOUS
<1>1. ASSUME NEW t \in Senders, Ac!send(t) PROVE AcInv'
  <2>1. /\ t \in AcSenders /\ pc[t] = "idle" /\ h.isinit /\ calls[t] = 0
        /\ calls' = [calls EXCEPT ![t] = 1] /\ UNCHANGED <<kernel, pending, hist>>
        /\ IF Ac!MayEnter(t) THEN h' = Ac!Entered(h, t) /\ pc' = [pc EXCEPT ![t] = "locked"]
           ELSE pc' = [pc EXCEPT ![t] = "blocked"] /\ h' = h
    BY <1>1, AcFields DEF Ac!send, Ac!SendLocks, Ac!May, AcSenders
  <2> QED
    BY <2>1, AcAsks
<1>2. CASE Ac!RecvcbSends
  <2>1. PICK t : t = "loop"
    OBVIOUS
  <2>2. /\ t \in AcSenders /\ pc[t] = "runs" /\ h.isinit /\ calls[t] = 0
        /\ calls' = [calls EXCEPT ![t] = 1] /\ UNCHANGED <<kernel, pending, hist>>
        /\ IF Ac!MayEnter(t) THEN h' = Ac!Entered(h, t) /\ pc' = [pc EXCEPT ![t] = "locked"]
           ELSE pc' = [pc EXCEPT ![t] = "blocked"] /\ h' = h
    BY <1>2, <2>1, AcFields DEF Ac!RecvcbSends
  <2> QED
    BY <2>2, AcAsks
<1> QED
  BY <1>1, <1>2

\* A thread that waited gets the mutex.
LEMMA AcTakenInv == \A t \in AcSenders : AcInv /\ Ac!LockTaken(t) => AcInv'
<1> SUFFICES ASSUME NEW t \in AcSenders, AcInv, Ac!LockTaken(t) PROVE AcInv'
  OBVIOUS
<1>1. /\ pc[t] = "blocked" /\ Ac!MayEnter(t) /\ h' = Ac!Entered(h, t)
      /\ pc' = [pc EXCEPT ![t] = "locked"] /\ UNCHANGED <<kernel, pending, calls, hist>>
  BY DEF Ac!LockTaken
<1>2. t \in AcThreads /\ h.isinit /\ calls[t] = 1
  BY <1>1, AcFields DEF AcInv, AcSends
<1>3. calls' = [calls EXCEPT ![t] = 1]
  BY <1>1, <1>2, AcFields
<1> QED
  BY <1>1, <1>2, <1>3, AcAsks

\* Who holds the mutex leaves it.
LEMMA AcLeaves ==
  ASSUME AcInv, h.owner # "nobody", NEW s, s = Ac!uv_mutex_unlock(h)
  PROVE  s = [isinit |-> h.isinit, status |-> h.status, handle |-> h.handle, reading |-> h.reading,
              mutex |-> h.mutex, owner |-> "nobody", depth |-> 0, ret |-> h.ret]
<1>1. h.depth = 1
  BY DEF AcInv, AcMutex
<1>2. PICK r : r = [h EXCEPT !.depth = 0]
  OBVIOUS
<1>3. r = [isinit |-> h.isinit, status |-> h.status, handle |-> h.handle, reading |-> h.reading,
           mutex |-> h.mutex, owner |-> h.owner, depth |-> 0, ret |-> h.ret]
  BY <1>2, AcFields
<1>4. s = [h EXCEPT !.depth = 0, !.owner = "nobody"]
  BY <1>1 DEF Ac!uv_mutex_unlock, Ac!Free
<1>5. s = [r EXCEPT !.owner = "nobody"]
  BY <1>2, <1>4
<1> QED
  BY <1>3, <1>5

\* The write that t asks for is the only one; one that fails leaves the mutex.
LEMMA AcWriteInv == \A t \in AcSenders : AcInv /\ Ac!uv_write(t) => AcInv'
<1> SUFFICES ASSUME NEW t \in AcSenders, AcInv, Ac!uv_write(t) PROVE AcInv'
  OBVIOUS
<1>1. /\ pc[t] = "locked" /\ UNCHANGED <<kernel, calls>>
      /\ pc' = [pc EXCEPT ![t] = IF t = "loop" THEN "runs" ELSE "idle"]
  BY DEF Ac!uv_write
<1>2. t \in AcThreads /\ t # "main" /\ t # "nobody" /\ (t = "loop" \/ t \in Senders)
  BY AcFields DEF AcSenders
<1>3. h.isinit /\ calls[t] = 1 /\ h.owner = t /\ h.depth = 1 /\ pending = {} /\ hist = {}
  <2>1. h.isinit /\ calls[t] = 1 /\ hist = {}
    BY <1>1, <1>2 DEF AcInv, AcSends
  <2>2. h.owner # "nobody"
    BY <1>1, <1>2 DEF AcInv, AcMutex
  <2>3. h.owner = t
    BY <1>1, <1>2, <2>2 DEF AcInv, AcMutex
  <2> QED
    BY <1>1, <2>1, <2>2, <2>3 DEF AcInv, AcMutex
<1>4. PICK p \in {"runs", "idle"} :
        /\ pc' = [u \in AcThreads |-> IF u = t THEN p ELSE pc[u]]
        /\ p = IF t = "loop" THEN "runs" ELSE "idle"
  BY <1>1, AcFields
<1>5. /\ pc'[t] = p /\ \A u \in AcThreads : u # t => pc'[u] = pc[u]
      /\ pc'["main"] = pc["main"] /\ \A u \in AcThreads : pc'[u] # "locked"
      /\ \A u \in AcThreads : pc'[u] = "blocked" => pc[u] = "blocked"
  <2>1. \A u \in AcThreads : pc[u] = "locked" => u = t
    BY <1>2, <1>3 DEF AcInv, AcMutex
  <2> QED
    BY <1>2, <1>4, <2>1, AcFields
<1>6. PICK o \in {t, "nobody"}, d \in {0, 1} :
        /\ h' = [isinit |-> h.isinit, status |-> h.status, handle |-> h.handle, reading |-> h.reading,
                 mutex |-> h.mutex, owner |-> o, depth |-> d, ret |-> h.ret]
        /\ hist' = {}
        /\ \/ o = t /\ d = 1 /\ pending' = {<<t, 1>>}
           \/ o = "nobody" /\ d = 0 /\ pending' = {}
  <2>1. CASE h.handle = "open" /\ kernel.state = "connected"
    <3>1. h' = h /\ hist' = {} /\ pending' = {<<t, 1>>}
      BY <1>3, <2>1 DEF Ac!uv_write
    <3> QED
      BY <1>3, <3>1, AcFields
  <2>2. CASE ~(h.handle = "open" /\ kernel.state = "connected")
    <3>1. PICK s : s = h' /\ s = Ac!uv_mutex_unlock(h)
      BY <2>2 DEF Ac!uv_write
    <3>2. pending' = {} /\ hist' = {}
      BY <1>3, <2>2 DEF Ac!uv_write
    <3> QED
      BY <1>2, <1>3, <3>1, <3>2, AcLeaves
  <2> QED
    BY <2>1, <2>2
<1>7. AcTypes'
  <2>1. pc' \in [AcThreads -> {"none", "starts", "runs", "ended", "idle", "waits", "locked", "blocked"}]
    BY <1>4 DEF AcInv, AcTypes
  <2>2. \A u \in Senders : pc'[u] \in {"idle", "locked", "blocked"}
    BY <1>4, AcFields DEF AcInv, AcTypes, AcSenders
  <2>3. o \in AcSenders \cup {"nobody"} /\ AcTypes
    BY DEF AcInv
  <2> QED
    BY <1>1, <1>5, <1>6, <2>1, <2>2, <2>3 DEF AcTypes
<1>8. AcMutex'
  BY <1>2, <1>3, <1>5, <1>6 DEF AcMutex
<1>9. AcSends'
  <2>1. \A u \in AcThreads : pc'[u] \in {"locked", "blocked"} => h'.isinit /\ calls'[u] = 1
    BY <1>1, <1>5, <1>6 DEF AcInv, AcSends
  <2>2. \A u \in AcSenders : calls'[u] = 0 \/ pc'[u] = "blocked" => h'.owner # u
    BY <1>1, <1>2, <1>3, <1>5, <1>6, AcFields DEF AcInv, AcSends
  <2> QED
    BY <1>6, <2>1, <2>2 DEF AcInv, AcSends
<1>10. AcConnects'
  BY <1>1, <1>3, <1>4, <1>5, <1>6, AcFields DEF AcInv, AcConnects
<1> QED
  BY <1>6, <1>7, <1>8, <1>9, <1>10 DEF AcInv

\* connect's callback: the client reads, or the connect has failed.
LEMMA AcConnectedInv == AcInv /\ Ac!AfterConnect => AcInv'
<1> SUFFICES ASSUME AcInv, Ac!AfterConnect PROVE AcInv'
  OBVIOUS
<1>1. /\ pc["loop"] = "runs" /\ kernel.state = "connecting" /\ UNCHANGED <<pending, pc, calls, hist>>
  BY DEF Ac!AfterConnect, Ac!Runs
<1>2. PICK ok \in BOOLEAN, reads \in BOOLEAN :
        /\ h' = [h EXCEPT !.status = IF ok /\ reads THEN "FINISH" ELSE "ERROR", !.reading = ok /\ reads]
        /\ kernel' = [kernel EXCEPT !.state = IF ok THEN "connected" ELSE "failed"]
  BY DEF Ac!AfterConnect
<1>3. PICK st \in {"FINISH", "ERROR"}, rd \in BOOLEAN, ks \in {"connected", "failed"} :
        /\ h' = [h EXCEPT !.status = st, !.reading = rd] /\ (st = "FINISH" => rd)
        /\ kernel' = [kernel EXCEPT !.state = ks]
  BY <1>2
<1>4. h' = [isinit |-> h.isinit, status |-> st, handle |-> h.handle, reading |-> rd,
            mutex |-> h.mutex, owner |-> h.owner, depth |-> h.depth, ret |-> h.ret]
  <2>1. PICK r : r = [h EXCEPT !.status = st]
    OBVIOUS
  <2>2. r = [isinit |-> h.isinit, status |-> st, handle |-> h.handle, reading |-> h.reading,
             mutex |-> h.mutex, owner |-> h.owner, depth |-> h.depth, ret |-> h.ret]
    BY <2>1, AcFields
  <2>3. h' = [r EXCEPT !.reading = rd]
    BY <1>3, <2>1
  <2> QED
    BY <2>2, <2>3
<1>5. kernel' = [state |-> ks, data |-> kernel.data, eof |-> kernel.eof]
  BY <1>3, AcFields
<1>6. h.status = "DIS" /\ h.ret = "none"
  BY <1>1 DEF AcInv, AcConnects
<1>7. AcTypes'
  BY <1>1, <1>4, <1>5 DEF AcInv, AcTypes
<1>8. AcConnects'
  BY <1>1, <1>3, <1>4, <1>5, <1>6 DEF AcInv, AcConnects
<1> QED
  BY <1>1, <1>4, <1>7, <1>8, AcQuiet DEF AcInv, AcSends

\* AfterClientRecv.
LEMMA AcRecvInv == AcInv /\ Ac!AfterClientRecv => AcInv'
<1> SUFFICES ASSUME AcInv, Ac!AfterClientRecv PROVE AcInv'
  OBVIOUS
<1>1. /\ pc["loop"] = "runs" /\ h.handle = "open" /\ UNCHANGED <<pending, pc, calls, hist>>
  BY DEF Ac!AfterClientRecv, Ac!Runs
<1>2. /\ h' = [isinit |-> h.isinit, status |-> h.status, handle |-> h'.handle, reading |-> h'.reading,
               mutex |-> h.mutex, owner |-> h.owner, depth |-> h.depth, ret |-> h.ret]
      /\ h'.handle \in {"open", "closing"} /\ h'.reading \in BOOLEAN
      /\ h'.handle = "open" => h'.reading = h.reading
  <2>1. CASE h' = h
    BY <1>1, <2>1, AcFields DEF AcInv, AcTypes
  <2>2. CASE h' = [h EXCEPT !.handle = "closing", !.reading = FALSE]
    <3>1. PICK r : r = [h EXCEPT !.handle = "closing"]
      OBVIOUS
    <3>2. r = [isinit |-> h.isinit, status |-> h.status, handle |-> "closing", reading |-> h.reading,
               mutex |-> h.mutex, owner |-> h.owner, depth |-> h.depth, ret |-> h.ret]
      BY <3>1, AcFields
    <3>3. h' = [r EXCEPT !.reading = FALSE]
      BY <2>2, <3>1
    <3>4. h' = [isinit |-> h.isinit, status |-> h.status, handle |-> "closing", reading |-> FALSE,
                mutex |-> h.mutex, owner |-> h.owner, depth |-> h.depth, ret |-> h.ret]
      BY <3>2, <3>3
    <3> QED
      BY <3>4
  <2> QED
    BY <2>1, <2>2 DEF Ac!AfterClientRecv
<1>3. PICK n \in Int, e \in BOOLEAN : kernel' = [state |-> kernel.state, data |-> n, eof |-> e]
  <2>1. CASE kernel' = [kernel EXCEPT !.data = @ + 1]
    BY <2>1, AcFields DEF AcInv, AcTypes
  <2>2. CASE kernel' = [kernel EXCEPT !.eof = TRUE]
    BY <2>2, AcFields DEF AcInv, AcTypes
  <2> QED
    BY <2>1, <2>2 DEF Ac!AfterClientRecv
<1>4. AcTypes'
  BY <1>1, <1>2, <1>3 DEF AcInv, AcTypes
<1>5. AcConnects'
  BY <1>1, <1>2, <1>3 DEF AcInv, AcConnects
<1> QED
  BY <1>1, <1>2, <1>4, <1>5, AcQuiet DEF AcInv, AcSends

\* The write's callback leaves the mutex, whoever took it.
LEMMA AcSentInv == AcInv /\ Ac!AfterSend => AcInv'
<1> SUFFICES ASSUME AcInv, Ac!AfterSend PROVE AcInv'
  OBVIOUS
<1>1. pending # {} /\ UNCHANGED <<kernel, pc, calls>>
  BY DEF Ac!AfterSend
<1>2. /\ h.owner # "nobody" /\ h.isinit /\ h.mutex = "alive" /\ pending = {<<h.owner, 1>>}
      /\ \A u \in AcThreads : pc[u] # "locked"
  <2>1. h.owner # "nobody"
    BY <1>1 DEF AcInv, AcMutex
  <2>2. pc[h.owner] # "locked"
    BY <1>1, <2>1 DEF AcInv, AcMutex
  <2> QED
    BY <2>1, <2>2 DEF AcInv, AcMutex, AcSends
<1>3. pending' = {} /\ hist' = {}
  BY <1>2 DEF Ac!AfterSend, AcInv
<1>4. PICK s : s = h' /\ s = Ac!uv_mutex_unlock(h)
  BY <1>2 DEF Ac!AfterSend
<1>5. h' = [isinit |-> h.isinit, status |-> h.status, handle |-> h.handle, reading |-> h.reading,
            mutex |-> h.mutex, owner |-> "nobody", depth |-> 0, ret |-> h.ret]
  BY <1>2, <1>4, AcLeaves
<1>6. AcTypes'
  BY <1>1, <1>5 DEF AcInv, AcTypes
<1>7. AcMutex'
  BY <1>1, <1>2, <1>3, <1>5 DEF AcMutex
<1>8. AcSends'
  BY <1>1, <1>5, AcFields DEF AcInv, AcSends
<1>9. AcConnects'
  BY <1>1, <1>5 DEF AcInv, AcConnects
<1> QED
  BY <1>3, <1>6, <1>7, <1>8, <1>9 DEF AcInv

\* The loop's thread ends: the handle is closed, or nothing is active.
LEMMA AcEndsInv == AcInv /\ (Ac!AfterClose \/ Ac!RunEnds) => AcInv'
<1> SUFFICES ASSUME AcInv, Ac!AfterClose \/ Ac!RunEnds PROVE AcInv'
  OBVIOUS
<1>1. /\ pc["loop"] = "runs" /\ pc' = [pc EXCEPT !["loop"] = "ended"]
      /\ UNCHANGED <<kernel, pending, calls, hist>>
  BY DEF Ac!AfterClose, Ac!RunEnds, Ac!Runs
<1>2. PICK hd \in {"none", "open", "closing", "closed"} :
        /\ h' = [isinit |-> h.isinit, status |-> h.status, handle |-> hd, reading |-> h.reading,
                 mutex |-> h.mutex, owner |-> h.owner, depth |-> h.depth, ret |-> h.ret]
        /\ hd = h.handle \/ hd = "closed"
  <2>1. CASE h' = h
    BY <2>1, AcFields DEF AcInv, AcTypes
  <2>2. CASE h' = [h EXCEPT !.handle = "closed"]
    BY <2>2, AcFields
  <2> QED
    BY <2>1, <2>2 DEF Ac!AfterClose, Ac!RunEnds
<1>3. /\ \A t \in AcThreads : t # "loop" => pc'[t] = pc[t]
      /\ pc'["loop"] = "ended" /\ pc' = [t \in AcThreads |-> pc'[t]]
  BY <1>1, AcFields
<1>4. AcTypes'
  <2>1. pc' \in [AcThreads -> {"none", "starts", "runs", "ended", "idle", "waits", "locked", "blocked"}]
    BY <1>1 DEF AcInv, AcTypes
  <2>2. pc'["main"] = pc["main"] /\ \A t \in Senders : pc'[t] = pc[t]
    BY <1>3, AcFields DEF AcThreads
  <2> QED
    BY <1>1, <1>2, <2>1, <2>2 DEF AcInv, AcTypes
<1>5. AcConnects'
  BY <1>1, <1>2, <1>3, AcFields DEF AcInv, AcConnects
<1>6. \A t \in AcThreads : pc[t] \in {"locked", "blocked"} \/ pc'[t] \in {"locked", "blocked"}
                             => pc'[t] = pc[t]
  BY <1>1, <1>3
<1> QED
  BY <1>1, <1>2, <1>4, <1>5, <1>6, AcQuiet DEF AcInv, AcSends

\* Every step keeps the invariant of the client.
LEMMA AcNext == AcInv /\ ClientFaults = {} /\ [Ac!Next]_(Ac!vars) => AcInv'
<1> SUFFICES ASSUME AcInv, ClientFaults = {}, [Ac!Next]_(Ac!vars) PROVE AcInv'
  OBVIOUS
<1>1. CASE UNCHANGED <<h, kernel, pending, pc, calls, hist>>
  BY <1>1 DEF AcInv, AcTypes, AcMutex, AcSends, AcConnects
<1>2. CASE Ac!RecvcbReturns \/ UNCHANGED Ac!vars
  BY <1>1, <1>2 DEF Ac!RecvcbReturns, Ac!vars
<1>3. CASE Ac!UserCall
  BY <1>3, AcConnectInv, AcCloseInv, AcSendInv DEF Ac!UserCall
<1>4. CASE Ac!HandlerStep
  BY <1>2, <1>4, AcThreadInv, AcConnectedInv, AcSentInv, AcEndsInv, AcTakenInv, AcWriteInv
     DEF Ac!HandlerStep, AcSenders
<1>5. CASE Ac!SenderStep
  BY <1>5, AcTakenInv, AcWriteInv DEF Ac!SenderStep, AcSenders
<1> QED
  BY <1>2, <1>3, <1>4, <1>5, AcReturnsInv, AcRecvInv, AcSendInv DEF Ac!Next, Ac!SystemStep

\* What the runs check of the client follows.
LEMMA AcCardinality == \A S : Ac!Cardinality(S) = Cardinality(S)
BY Zenon DEF Ac!Cardinality, Cardinality

\* What the runs check of the client follows: one write, and the mutex.
LEMMA AcCounters == AcInv => Ac!PendingExact
<1> SUFFICES ASSUME AcInv PROVE Ac!PendingExact
  OBVIOUS
<1>1. DOMAIN pc = AcThreads /\ hist = {}
  BY DEF AcInv, AcTypes
<1>2. PICK locked : locked = {t \in DOMAIN pc : pc[t] = "locked"}
  OBVIOUS
<1>3. (\E t \in DOMAIN pc : pc[t] = "locked") <=> locked # {}
  BY <1>2
<1>4. (h.mutex = "alive" /\ h.depth > 0) <=> (pending # {} \/ locked # {})
  <2>1. CASE h.owner = "nobody"
    BY <1>1, <1>2, <2>1 DEF AcInv, AcMutex
  <2>2. CASE h.owner # "nobody"
    <3>1. h.owner \in AcThreads
      BY <2>2, AcFields DEF AcInv, AcTypes
    <3>2. h.mutex = "alive" /\ h.depth = 1
      BY <2>2 DEF AcInv, AcMutex, AcSends
    <3>3. pc[h.owner] = "locked" => h.owner \in locked
      BY <1>1, <1>2, <3>1
    <3>4. pc[h.owner] # "locked" => pending = {<<h.owner, 1>>}
      BY <2>2 DEF AcInv, AcMutex
    <3>5. pending # {} \/ locked # {}
      BY <3>3, <3>4
    <3> QED
      BY <3>2, <3>5
  <2> QED
    BY <2>1, <2>2
<1>5. \/ pending = {} /\ locked = {}
      \/ pending = {} /\ locked = {h.owner}
      \/ pending = {<<h.owner, 1>>} /\ locked = {}
  BY <1>1, <1>2 DEF AcInv, AcMutex
<1>6. Cardinality(pending) + Cardinality(locked) <= 1
  <2>1. Cardinality({}) = 0 /\ Cardinality({h.owner}) = 1 /\ Cardinality({<<h.owner, 1>>}) = 1
    BY FS_EmptySet, FS_Singleton
  <2>2. /\ Cardinality(pending) = 0 \/ Cardinality(pending) = 1
        /\ Cardinality(locked) = 0 \/ Cardinality(locked) = 1
        /\ Cardinality(pending) = 0 \/ Cardinality(locked) = 0
    BY <1>5, <2>1
  <2> QED
    BY <2>2
<1>7. "request_reused" \notin hist
  BY <1>1
<1>8. (h.mutex = "alive" /\ h.depth > 0) <=> (pending # {} \/ \E t \in DOMAIN pc : pc[t] = "locked")
  BY <1>3, <1>4
<1>9. Cardinality(pending) + Cardinality({t \in DOMAIN pc : pc[t] = "locked"}) <= 1
  BY <1>2, <1>6
<1> QED
  BY <1>7, <1>8, <1>9, AcCardinality, Zenon DEF Ac!PendingExact

\* A client that is connected reads.
LEMMA AcArmed == AcInv => Ac!Armed
BY DEF AcInv, AcConnects, Ac!Armed

\* Nothing has gone wrong.
LEMMA AcSane == AcInv => Ac!Sane
BY DEF AcInv, Ac!Sane

-----------------------------------------------------------------------------
(* SocksSession: a session of the proxy.                                   *)

AxConn(x) == x = [rd |-> x.rd, wr |-> x.wr, result |-> x.result, timer |-> x.timer]

AxSession(s) ==
  /\ s = [state |-> s.state, fin |-> s.fin, incoming |-> s.incoming, outgoing |-> s.outgoing,
          addr |-> s.addr, p |-> s.p]
  /\ AxConn(s.incoming) /\ AxConn(s.outgoing)

\* t is s but for its connections and what is in flight.
AxSame(s, t) ==
  AxSession(t) /\ t.state = s.state /\ t.fin = s.fin /\ t.addr = s.addr

AxUpdate(s, c, x) == [s EXCEPT ![c] = x]

\* One connection changes.
LEMMA AxPut ==
  ASSUME NEW s, AxSession(s), NEW c \in Ax!Conns, NEW x, AxConn(x),
         NEW t, t = AxUpdate(s, c, x)
  PROVE  AxSame(s, t) /\ t[c] = x /\ t[Ax!Other(c)] = s[Ax!Other(c)] /\ t.p = s.p
<1>1. CASE c = "incoming"
  BY <1>1 DEF AxSession, AxSame, AxUpdate, Ax!Other
<1>2. CASE c = "outgoing"
  BY <1>2 DEF AxSession, AxSame, AxUpdate, Ax!Other
<1> QED
  BY <1>1, <1>2 DEF Ax!Conns

\* What is in flight changes.
LEMMA AxFly ==
  ASSUME NEW s, AxSession(s), NEW q, NEW t, t = [s EXCEPT !.p = q]
  PROVE  AxSame(s, t) /\ \A c \in Ax!Conns : t[c] = s[c] /\ t.p = q
BY DEF AxSession, AxSame, Ax!Conns

\* A connection of a session is one.
LEMMA AxOne == ASSUME NEW s, AxSession(s), NEW c \in Ax!Conns PROVE AxConn(s[c]) /\ Ax!Other(c) \in Ax!Conns \ {c}
BY DEF AxSession, Ax!Conns, Ax!Other

\* conn_timer_reset.
LEMMA AxTimer ==
  ASSUME NEW s, AxSession(s), NEW c \in Ax!Conns, NEW t, t = Ax!conn_timer_reset(s, c)
  PROVE  /\ AxSame(s, t) /\ t[Ax!Other(c)] = s[Ax!Other(c)] /\ t.p = s.p
         /\ t[c] = [rd |-> s[c].rd, wr |-> s[c].wr, result |-> s[c].result, timer |-> TRUE]
<1>1. PICK x : x = [rd |-> s[c].rd, wr |-> s[c].wr, result |-> s[c].result, timer |-> TRUE]
  OBVIOUS
<1>0. AxSession(s) /\ c \in Ax!Conns /\ AxConn(s[c])
  BY AxOne
<1>2. AxConn(x)
  BY <1>1 DEF AxConn
<1>3. x = [s[c] EXCEPT !.timer = TRUE]
  <2>1. PICK y : y = s[c]
    OBVIOUS
  <2>2. y = [rd |-> y.rd, wr |-> y.wr, result |-> y.result, timer |-> y.timer]
    BY <1>0, <2>1 DEF AxConn
  <2>3. PICK b : b = TRUE
    OBVIOUS
  <2>4. x = [rd |-> y.rd, wr |-> y.wr, result |-> y.result, timer |-> b]
    BY <1>1, <2>1, <2>3
  <2>5. x = [y EXCEPT !.timer = b]
    BY ONLY <2>2, <2>4
  <2> QED
    BY <2>1, <2>3, <2>5
<1>4. t = AxUpdate(s, c, x)
  BY <1>3 DEF Ax!conn_timer_reset, AxUpdate
<1>5. AxSame(s, t) /\ t[c] = x /\ t[Ax!Other(c)] = s[Ax!Other(c)] /\ t.p = s.p
  BY ONLY <1>0, <1>2, <1>4, AxPut
<1> QED
  BY ONLY <1>1, <1>5

\* conn_read.
LEMMA AxReads ==
  ASSUME NEW s, AxSession(s), NEW c \in Ax!Conns, s[c].rd = "stop", NEW t, t = Ax!conn_read(s, c)
  PROVE  /\ AxSame(s, t) /\ t[Ax!Other(c)] = s[Ax!Other(c)] /\ t.p = s.p \cup {<<c, "read">>}
         /\ t[c] = [rd |-> "busy", wr |-> s[c].wr, result |-> s[c].result, timer |-> TRUE]
<1>1. PICK x, q : x = [rd |-> "busy", wr |-> s[c].wr, result |-> s[c].result, timer |-> s[c].timer]
                  /\ q = s.p \cup {<<c, "read">>}
  OBVIOUS
<1>0. AxSession(s) /\ c \in Ax!Conns /\ AxConn(s[c])
  BY AxOne
<1>2. AxConn(x) /\ x = [s[c] EXCEPT !.rd = "busy"]
  BY <1>0, <1>1 DEF AxConn
<1>3. PICK u : u = AxUpdate(s, c, x)
  OBVIOUS
<1>4. AxSame(s, u) /\ u[c] = x /\ u[Ax!Other(c)] = s[Ax!Other(c)] /\ u.p = s.p
  BY ONLY <1>0, <1>2, <1>3, AxPut
<1>5. PICK v : v = [u EXCEPT !.p = q]
  OBVIOUS
<1>6. AxSame(u, v) /\ v[c] = u[c] /\ v[Ax!Other(c)] = u[Ax!Other(c)] /\ v.p = q
  BY <1>4, <1>5, AxFly, AxOne DEF AxSame
<1>7. v = [s EXCEPT ![c].rd = "busy", !.p = @ \cup {<<c, "read">>}]
  BY <1>1, <1>2, <1>3, <1>4, <1>5 DEF AxUpdate
<1>8. t = Ax!conn_timer_reset(v, c)
  BY <1>7 DEF Ax!conn_read
<1>9. AxSession(v)
  BY <1>6 DEF AxSame
<1>10. AxSame(v, t) /\ t[Ax!Other(c)] = v[Ax!Other(c)] /\ t.p = v.p
       /\ t[c] = [rd |-> v[c].rd, wr |-> v[c].wr, result |-> v[c].result, timer |-> TRUE]
  BY <1>8, <1>9, AxTimer
<1> QED
  BY <1>1, <1>4, <1>6, <1>10 DEF AxSame

\* conn_write.
LEMMA AxWrites ==
  ASSUME NEW s, AxSession(s), NEW c \in Ax!Conns, s[c].wr \in {"stop", "done"},
         NEW t, t = Ax!conn_write(s, c)
  PROVE  /\ AxSame(s, t) /\ t[Ax!Other(c)] = s[Ax!Other(c)] /\ t.p = s.p \cup {<<c, "write">>}
         /\ t[c] = [rd |-> s[c].rd, wr |-> "busy", result |-> s[c].result, timer |-> TRUE]
<1>1. PICK x, q : x = [rd |-> s[c].rd, wr |-> "busy", result |-> s[c].result, timer |-> s[c].timer]
                  /\ q = s.p \cup {<<c, "write">>}
  OBVIOUS
<1>0. AxSession(s) /\ c \in Ax!Conns /\ AxConn(s[c])
  BY AxOne
<1>2. AxConn(x) /\ x = [s[c] EXCEPT !.wr = "busy"]
  BY <1>0, <1>1 DEF AxConn
<1>3. PICK u : u = AxUpdate(s, c, x)
  OBVIOUS
<1>4. AxSame(s, u) /\ u[c] = x /\ u[Ax!Other(c)] = s[Ax!Other(c)] /\ u.p = s.p
  BY ONLY <1>0, <1>2, <1>3, AxPut
<1>5. PICK v : v = [u EXCEPT !.p = q]
  OBVIOUS
<1>6. AxSame(u, v) /\ v[c] = u[c] /\ v[Ax!Other(c)] = u[Ax!Other(c)] /\ v.p = q
  BY <1>4, <1>5, AxFly, AxOne DEF AxSame
<1>7. v = [s EXCEPT ![c].wr = "busy", !.p = @ \cup {<<c, "write">>}]
  BY <1>1, <1>2, <1>3, <1>4, <1>5 DEF AxUpdate
<1>8. t = Ax!conn_timer_reset(v, c)
  BY <1>7 DEF Ax!conn_write
<1>9. AxSession(v)
  BY <1>6 DEF AxSame
<1>10. AxSame(v, t) /\ t[Ax!Other(c)] = v[Ax!Other(c)] /\ t.p = v.p
       /\ t[c] = [rd |-> v[c].rd, wr |-> v[c].wr, result |-> v[c].result, timer |-> TRUE]
  BY <1>8, <1>9, AxTimer
<1> QED
  BY <1>1, <1>4, <1>6, <1>10 DEF AxSame

\* conn_close.
LEMMA AxCloses ==
  ASSUME NEW s, AxSession(s), NEW c \in Ax!Conns, NEW t, t = Ax!conn_close(s, c)
  PROVE  /\ AxSame(s, t) /\ t[Ax!Other(c)] = s[Ax!Other(c)]
         /\ t.p = (s.p \ {<<c, "read">>}) \cup {<<c, "close">>, <<c, "timer_close">>}
         /\ t[c] = [rd |-> "dead", wr |-> "dead", result |-> s[c].result, timer |-> FALSE]
<1>1. PICK x, q : x = [rd |-> "dead", wr |-> "dead", result |-> s[c].result, timer |-> FALSE]
                  /\ q = (s.p \ {<<c, "read">>}) \cup {<<c, "close">>, <<c, "timer_close">>}
  OBVIOUS
<1>0. AxSession(s) /\ c \in Ax!Conns /\ AxConn(s[c])
  BY AxOne
<1>2. AxConn(x) /\ x = [s[c] EXCEPT !.rd = "dead", !.wr = "dead", !.timer = FALSE]
  <2>1. PICK y : y = s[c]
    OBVIOUS
  <2>2. y = [rd |-> y.rd, wr |-> y.wr, result |-> y.result, timer |-> y.timer]
    BY <1>0, <2>1 DEF AxConn
  <2>3. PICK b : b = FALSE
    OBVIOUS
  <2>4. x = [rd |-> "dead", wr |-> "dead", result |-> y.result, timer |-> b]
    BY <1>1, <2>1, <2>3
  <2>5. x = [y EXCEPT !.rd = "dead", !.wr = "dead", !.timer = b]
    <3>1. PICK y1, y2 : /\ y1 = [rd |-> "dead", wr |-> y.wr, result |-> y.result, timer |-> y.timer]
                        /\ y2 = [rd |-> "dead", wr |-> "dead", result |-> y.result, timer |-> y.timer]
      OBVIOUS
    <3>2. y1 = [y EXCEPT !.rd = "dead"]
      BY ONLY <2>2, <3>1
    <3>3. y2 = [y1 EXCEPT !.wr = "dead"]
      BY ONLY <3>1
    <3>4. x = [y2 EXCEPT !.timer = b]
      BY ONLY <2>4, <3>1
    <3> QED
      BY ONLY <3>2, <3>3, <3>4
  <2>6. AxConn(x)
    BY <1>1 DEF AxConn
  <2> QED
    BY <2>1, <2>3, <2>5, <2>6
<1>3. PICK u : u = AxUpdate(s, c, x)
  OBVIOUS
<1>4. AxSame(s, u) /\ u[c] = x /\ u[Ax!Other(c)] = s[Ax!Other(c)] /\ u.p = s.p
  BY ONLY <1>0, <1>2, <1>3, AxPut
<1>5. PICK v : v = [u EXCEPT !.p = q]
  OBVIOUS
<1>6. AxSame(u, v) /\ v[c] = u[c] /\ v[Ax!Other(c)] = u[Ax!Other(c)] /\ v.p = q
  BY <1>4, <1>5, AxFly, AxOne DEF AxSame
<1>7. v = t
  BY <1>1, <1>2, <1>3, <1>4, <1>5 DEF Ax!conn_close, AxUpdate
<1> QED
  BY <1>1, <1>4, <1>6, <1>7 DEF AxSame

AxRdTo(s, c, v) == [s EXCEPT ![c].rd = v]
AxWrTo(s, c, v) == [s EXCEPT ![c].wr = v]

\* What a connection reads or writes changes.
LEMMA AxRds ==
  ASSUME NEW s, AxSession(s), NEW c \in Ax!Conns, NEW v, NEW t, t = AxRdTo(s, c, v)
  PROVE  /\ AxSame(s, t) /\ t[Ax!Other(c)] = s[Ax!Other(c)] /\ t.p = s.p
         /\ t[c] = [rd |-> v, wr |-> s[c].wr, result |-> s[c].result, timer |-> s[c].timer]
<1>0. AxSession(s) /\ c \in Ax!Conns /\ AxConn(s[c])
  BY AxOne
<1>1. PICK x : x = [rd |-> v, wr |-> s[c].wr, result |-> s[c].result, timer |-> s[c].timer]
  OBVIOUS
<1>2. AxConn(x) /\ x = [s[c] EXCEPT !.rd = v]
  BY <1>0, <1>1 DEF AxConn
<1>3. t = AxUpdate(s, c, x)
  BY <1>2 DEF AxRdTo, AxUpdate
<1>4. AxSame(s, t) /\ t[c] = x /\ t[Ax!Other(c)] = s[Ax!Other(c)] /\ t.p = s.p
  BY ONLY <1>0, <1>2, <1>3, AxPut
<1> QED
  BY <1>1, <1>4

LEMMA AxWrs ==
  ASSUME NEW s, AxSession(s), NEW c \in Ax!Conns, NEW v, NEW t, t = AxWrTo(s, c, v)
  PROVE  /\ AxSame(s, t) /\ t[Ax!Other(c)] = s[Ax!Other(c)] /\ t.p = s.p
         /\ t[c] = [rd |-> s[c].rd, wr |-> v, result |-> s[c].result, timer |-> s[c].timer]
<1>0. AxSession(s) /\ c \in Ax!Conns /\ AxConn(s[c])
  BY AxOne
<1>1. PICK x : x = [rd |-> s[c].rd, wr |-> v, result |-> s[c].result, timer |-> s[c].timer]
  OBVIOUS
<1>2. AxConn(x) /\ x = [s[c] EXCEPT !.wr = v]
  BY <1>0, <1>1 DEF AxConn
<1>3. t = AxUpdate(s, c, x)
  BY <1>2 DEF AxWrTo, AxUpdate
<1>4. AxSame(s, t) /\ t[c] = x /\ t[Ax!Other(c)] = s[Ax!Other(c)] /\ t.p = s.p
  BY ONLY <1>0, <1>2, <1>3, AxPut
<1> QED
  BY <1>1, <1>4

\* The state of a session that no assertion has stopped.
LEMMA AxTo ==
  ASSUME NEW s, AxSession(s), s.state # "aborted", NEW state, NEW t, t = Ax!To(s, state)
  PROVE  /\ AxSession(t) /\ t.state = state /\ t.fin = s.fin /\ t.addr = s.addr /\ t.p = s.p
         /\ t.incoming = s.incoming /\ t.outgoing = s.outgoing
<1>1. t = [s EXCEPT !.state = state]
  BY DEF Ax!To
<1>2. t = [state |-> state, fin |-> s.fin, incoming |-> s.incoming, outgoing |-> s.outgoing,
           addr |-> s.addr, p |-> s.p]
  BY <1>1 DEF AxSession
<1> QED
  BY <1>2 DEF AxSession

-----------------------------------------------------------------------------

AxAt(x, rd, wr) == x.rd = rd /\ x.wr = wr

\* The data of b goes to a: one end of it is busy.
AxFlow(s, a) ==
  LET b == Ax!Other(a) IN
  \/ /\ s[a].wr = "stop" /\ s[b].rd = "busy"
     /\ <<a, "write">> \notin s.p /\ <<b, "read">> \in s.p
  \/ /\ s[a].wr = "busy" /\ s[b].rd = "stop"
     /\ <<a, "write">> \in s.p /\ <<b, "read">> \notin s.p

AxRelays == Ax!Conns \X {"read", "write"}
AxLast == Ax!Conns \X {"write", "connect", "close", "timer_close"}
AxToCome(p, x) == IF x \in p THEN 1 ELSE 0

\* Both connections are being closed: fin counts the four closes, and a
\* request is there no longer than its handle.
AxDying(s) ==
  /\ s.state = "almost_dead" /\ s.p \subseteq AxLast
  /\ AxAt(s.incoming, "dead", "dead") /\ s.incoming.timer = FALSE
  /\ AxAt(s.outgoing, "dead", "dead") /\ s.outgoing.timer = FALSE
  /\ \A c \in Ax!Conns :
       <<c, "write">> \in s.p \/ <<c, "connect">> \in s.p => <<c, "close">> \in s.p
  /\ s.fin = 5 - AxToCome(s.p, <<"incoming", "close">>) - AxToCome(s.p, <<"incoming", "timer_close">>)
               - AxToCome(s.p, <<"outgoing", "close">>) - AxToCome(s.p, <<"outgoing", "timer_close">>)
  /\ s.fin <= 4

AxDead(s) ==
  s.state = "dead" /\ s.p = {} /\ s.incoming.timer = FALSE /\ s.outgoing.timer = FALSE

\* What each state waits for.
AxWaits(s) ==
  \/ /\ s.state \in {"handshake", "req_parse"} /\ s.p = {<<"incoming", "read">>}
     /\ AxAt(s.incoming, "busy", "stop") /\ AxAt(s.outgoing, "stop", "stop")
  \/ /\ s.state \in {"req_start", "proxy_start", "kill"} /\ s.p = {<<"incoming", "write">>}
     /\ AxAt(s.incoming, "stop", "busy") /\ AxAt(s.outgoing, "stop", "stop")
  \/ /\ \/ s.state = "req_lookup" /\ s.p = {<<"outgoing", "lookup">>}
        \/ s.state = "req_connect" /\ s.p = {<<"outgoing", "connect">>}
     /\ AxAt(s.incoming, "stop", "stop") /\ AxAt(s.outgoing, "stop", "stop")
  \/ s.state = "proxy" /\ s.p \subseteq AxRelays /\ \A a \in Ax!Conns : AxFlow(s, a)

AxRest(s) ==
  /\ AxSession(s)
  /\ \/ s.incoming.timer = TRUE /\ AxWaits(s)
     \/ AxDying(s)
     \/ AxDead(s)

\* A result has come, and nothing else is in flight.
AxGot(s, rd, wr) ==
  /\ AxSession(s) /\ s.p = {} /\ s.incoming.timer = TRUE /\ s.state \notin {"aborted", "almost_dead"}
  /\ AxAt(s.incoming, rd, wr) /\ AxAt(s.outgoing, "stop", "stop")

\* do_kill.
LEMMA AxKills ==
  ASSUME NEW s, AxSession(s), s.state \notin {"almost_dead", "req_lookup"},
         s.p \subseteq Ax!Conns \X {"read", "write", "connect"}, NEW t, t = Ax!do_kill(s)
  PROVE  AxRest(t)
<1>1. PICK u : u = Ax!conn_close(s, "incoming")
  OBVIOUS
<1>2. "incoming" \in Ax!Conns /\ "outgoing" \in Ax!Conns
      /\ Ax!Other("incoming") = "outgoing" /\ Ax!Other("outgoing") = "incoming"
  BY DEF Ax!Conns, Ax!Other
<1>3. /\ AxSame(s, u) /\ u.outgoing = s.outgoing
      /\ u.p = (s.p \ {<<"incoming", "read">>}) \cup {<<"incoming", "close">>, <<"incoming", "timer_close">>}
      /\ u.incoming = [rd |-> "dead", wr |-> "dead", result |-> s.incoming.result, timer |-> FALSE]
  BY <1>1, <1>2, AxCloses
<1>4. AxSession(u) /\ u.state = s.state
  BY <1>3 DEF AxSame
<1>5. PICK v : v = Ax!conn_close(u, "outgoing")
  OBVIOUS
<1>6. /\ AxSame(u, v) /\ v.incoming = u.incoming
      /\ v.p = (u.p \ {<<"outgoing", "read">>}) \cup {<<"outgoing", "close">>, <<"outgoing", "timer_close">>}
      /\ v.outgoing = [rd |-> "dead", wr |-> "dead", result |-> u.outgoing.result, timer |-> FALSE]
  BY <1>2, <1>4, <1>5, AxCloses
<1>7. t = [v EXCEPT !.state = "almost_dead", !.fin = Ax!FirstFinalizer(s)]
  BY <1>1, <1>5 DEF Ax!do_kill
<1>8. Ax!FirstFinalizer(s) = 1
  BY DEF Ax!FirstFinalizer
<1>9. t = [state |-> "almost_dead", fin |-> 1, incoming |-> v.incoming, outgoing |-> v.outgoing,
           addr |-> v.addr, p |-> v.p]
  BY <1>6, <1>7, <1>8 DEF AxSame, AxSession
<1>10. AxSession(t)
  BY <1>6, <1>9 DEF AxSame, AxSession
<1>11. t.p \subseteq AxLast /\ \A c \in Ax!Conns : <<c, "close">> \in t.p /\ <<c, "timer_close">> \in t.p
  <2>1. t.p = (s.p \ {<<"incoming", "read">>, <<"outgoing", "read">>}) \cup
              {<<"incoming", "close">>, <<"incoming", "timer_close">>, <<"outgoing", "close">>, <<"outgoing", "timer_close">>}
    BY <1>3, <1>6, <1>9
  <2> QED
    BY <2>1 DEF AxLast, Ax!Conns
<1>12. t.fin = 1 /\ t.state = "almost_dead"
  BY <1>9
<1>13. /\ AxAt(t.incoming, "dead", "dead") /\ t.incoming.timer = FALSE
       /\ AxAt(t.outgoing, "dead", "dead") /\ t.outgoing.timer = FALSE
  BY <1>3, <1>6, <1>9 DEF AxAt
<1>14. /\ AxToCome(t.p, <<"incoming", "close">>) = 1 /\ AxToCome(t.p, <<"incoming", "timer_close">>) = 1
       /\ AxToCome(t.p, <<"outgoing", "close">>) = 1 /\ AxToCome(t.p, <<"outgoing", "timer_close">>) = 1
  BY <1>2, <1>11 DEF AxToCome
<1>15. /\ t.fin = 5 - AxToCome(t.p, <<"incoming", "close">>) - AxToCome(t.p, <<"incoming", "timer_close">>)
                    - AxToCome(t.p, <<"outgoing", "close">>) - AxToCome(t.p, <<"outgoing", "timer_close">>)
       /\ t.fin <= 4
  BY ONLY <1>12, <1>14
<1>16. AxDying(t)
  BY ONLY <1>11, <1>12, <1>13, <1>15 DEF AxDying
<1> QED
  BY <1>10, <1>16 DEF AxRest

\* An answer is written to the client.
LEMMA AxAnswers ==
  ASSUME NEW s, AxGot(s, "stop", "stop"), NEW state \in {"req_start", "proxy_start", "kill"},
         NEW t, t = Ax!To(Ax!conn_write(s, "incoming"), state)
  PROVE  AxRest(t)
<1>1. PICK u : u = Ax!conn_write(s, "incoming")
  OBVIOUS
<1>2. "incoming" \in Ax!Conns /\ Ax!Other("incoming") = "outgoing"
  BY DEF Ax!Conns, Ax!Other
<1>3. AxSession(s) /\ s.incoming.wr \in {"stop", "done"} /\ s.p = {} /\ s.state # "aborted"
  BY DEF AxGot, AxAt
<1>4. /\ AxSame(s, u) /\ u.outgoing = s.outgoing /\ u.p = {<<"incoming", "write">>}
      /\ u.incoming = [rd |-> s.incoming.rd, wr |-> "busy", result |-> s.incoming.result, timer |-> TRUE]
  BY <1>1, <1>2, <1>3, AxWrites
<1>5. AxSession(u) /\ u.state # "aborted"
  BY <1>3, <1>4 DEF AxSame
<1>6. AxSession(t) /\ t.state = state /\ t.p = u.p /\ t.incoming = u.incoming /\ t.outgoing = u.outgoing
  BY <1>1, <1>5, AxTo
<1> QED
  BY <1>4, <1>6 DEF AxRest, AxWaits, AxAt, AxGot

\* The client is read from.
LEMMA AxListens ==
  ASSUME NEW s, AxGot(s, "stop", "stop"), NEW state \in {"handshake", "req_parse"},
         NEW t, t = Ax!To(Ax!conn_read(s, "incoming"), state)
  PROVE  AxRest(t)
<1>1. PICK u : u = Ax!conn_read(s, "incoming")
  OBVIOUS
<1>2. "incoming" \in Ax!Conns /\ Ax!Other("incoming") = "outgoing"
  BY DEF Ax!Conns, Ax!Other
<1>3. AxSession(s) /\ s.incoming.rd = "stop" /\ s.p = {} /\ s.state # "aborted"
  BY DEF AxGot, AxAt
<1>4. /\ AxSame(s, u) /\ u.outgoing = s.outgoing /\ u.p = {<<"incoming", "read">>}
      /\ u.incoming = [rd |-> "busy", wr |-> s.incoming.wr, result |-> s.incoming.result, timer |-> TRUE]
  BY <1>1, <1>2, <1>3, AxReads
<1>5. AxSession(u) /\ u.state # "aborted"
  BY <1>3, <1>4 DEF AxSame
<1>6. AxSession(t) /\ t.state = state /\ t.p = u.p /\ t.incoming = u.incoming /\ t.outgoing = u.outgoing
  BY <1>1, <1>5, AxTo
<1> QED
  BY <1>4, <1>6 DEF AxRest, AxWaits, AxAt, AxGot

-----------------------------------------------------------------------------
(* The states of a session, each given the result that it waited for.      *)

\* The read is over.
LEMMA AxReadOver ==
  ASSUME NEW s, AxGot(s, "done", "stop"), NEW t, t = [s EXCEPT !.incoming.rd = "stop"]
  PROVE  AxGot(t, "stop", "stop") /\ t.state = s.state
<1>1. t = AxRdTo(s, "incoming", "stop") /\ "incoming" \in Ax!Conns /\ Ax!Other("incoming") = "outgoing"
  BY DEF AxRdTo, Ax!Conns, Ax!Other
<1>2. AxSession(s)
  BY DEF AxGot
<1>3. /\ AxSame(s, t) /\ t.outgoing = s.outgoing /\ t.p = s.p
      /\ t.incoming = [rd |-> "stop", wr |-> s.incoming.wr, result |-> s.incoming.result, timer |-> s.incoming.timer]
  <2>1. PICK c : c = "incoming"
    OBVIOUS
  <2>2. c \in Ax!Conns /\ Ax!Other(c) = "outgoing" /\ t = AxRdTo(s, c, "stop")
    BY <1>1, <2>1
  <2>3. /\ AxSame(s, t) /\ t[Ax!Other(c)] = s[Ax!Other(c)] /\ t.p = s.p
        /\ t[c] = [rd |-> "stop", wr |-> s[c].wr, result |-> s[c].result, timer |-> s[c].timer]
    BY ONLY <1>2, <2>2, AxRds
  <2> QED
    BY <2>1, <2>2, <2>3
<1> QED
  BY <1>3 DEF AxSame, AxGot, AxAt

\* The write is over.
LEMMA AxWriteOver ==
  ASSUME NEW s, AxGot(s, "stop", "done"), NEW t, t = [s EXCEPT !.incoming.wr = "stop"]
  PROVE  AxGot(t, "stop", "stop") /\ t.state = s.state
<1>1. t = AxWrTo(s, "incoming", "stop") /\ "incoming" \in Ax!Conns /\ Ax!Other("incoming") = "outgoing"
  BY DEF AxWrTo, Ax!Conns, Ax!Other
<1>2. AxSession(s)
  BY DEF AxGot
<1>3. /\ AxSame(s, t) /\ t.outgoing = s.outgoing /\ t.p = s.p
      /\ t.incoming = [rd |-> s.incoming.rd, wr |-> "stop", result |-> s.incoming.result, timer |-> s.incoming.timer]
  <2>1. PICK c : c = "incoming"
    OBVIOUS
  <2>2. c \in Ax!Conns /\ Ax!Other(c) = "outgoing" /\ t = AxWrTo(s, c, "stop")
    BY <1>1, <2>1
  <2>3. /\ AxSame(s, t) /\ t[Ax!Other(c)] = s[Ax!Other(c)] /\ t.p = s.p
        /\ t[c] = [rd |-> s[c].rd, wr |-> "stop", result |-> s[c].result, timer |-> s[c].timer]
    BY ONLY <1>2, <2>2, AxWrs
  <2> QED
    BY <2>1, <2>2, <2>3
<1> QED
  BY <1>3 DEF AxSame, AxGot, AxAt

\* A session that waits for nothing may be torn down.
LEMMA AxMayKill ==
  ASSUME NEW s, NEW rd, NEW wr, AxGot(s, rd, wr), s.state # "req_lookup"
  PROVE  AxRest(Ax!do_kill(s))
BY AxKills DEF AxGot

LEMMA AxHandshake ==
  ASSUME NEW s, AxGot(s, "done", "stop"), s.state = "handshake", NEW x \in Ax!Parses
  PROVE  AxRest(Ax!do_handshake(s, x))
<1>1. PICK t : t = [s EXCEPT !.incoming.rd = "stop"]
  OBVIOUS
<1>2. AxGot(t, "stop", "stop") /\ t.state = "handshake"
  BY <1>1, AxReadOver
<1>3. <<s.incoming.rd, s.incoming.wr>> = Ax!HasRead
  BY DEF AxGot, AxAt, Ax!HasRead
<1>4. CASE Ax!Bad(s.incoming.result) \/ x = "junk"
  <2>1. Ax!do_handshake(s, x) = Ax!do_kill(t)
    BY <1>1, <1>3, <1>4 DEF Ax!do_handshake
  <2> QED
    BY <1>2, <2>1, AxMayKill
<1>5. CASE ~(Ax!Bad(s.incoming.result) \/ x = "junk") /\ x = "more"
  <2>1. Ax!do_handshake(s, x) = Ax!To(Ax!conn_read(t, "incoming"), "handshake")
    BY <1>1, <1>3, <1>5 DEF Ax!do_handshake
  <2> QED
    BY <1>2, <2>1, AxListens
<1>6. CASE ~(Ax!Bad(s.incoming.result) \/ x = "junk") /\ x # "more"
  <2>1. PICK state \in {"req_start", "kill"} :
          Ax!do_handshake(s, x) = Ax!To(Ax!conn_write(t, "incoming"), state)
    BY <1>1, <1>3, <1>6 DEF Ax!do_handshake
  <2> QED
    BY <1>2, <2>1, AxAnswers
<1> QED
  BY <1>4, <1>5, <1>6

LEMMA AxReqStart ==
  ASSUME NEW s, AxGot(s, "stop", "done"), s.state = "req_start"
  PROVE  AxRest(Ax!do_req_start(s))
<1>1. PICK t : t = [s EXCEPT !.incoming.wr = "stop"]
  OBVIOUS
<1>2. AxGot(t, "stop", "stop") /\ t.state = "req_start"
  BY <1>1, AxWriteOver
<1>3. <<s.incoming.rd, s.incoming.wr>> = Ax!HasWritten
  BY DEF AxGot, AxAt, Ax!HasWritten
<1>4. CASE Ax!Bad(s.incoming.result)
  <2>1. Ax!do_req_start(s) = Ax!do_kill(t)
    BY <1>1, <1>3, <1>4 DEF Ax!do_req_start
  <2> QED
    BY <1>2, <2>1, AxMayKill
<1>5. CASE ~Ax!Bad(s.incoming.result)
  <2>1. Ax!do_req_start(s) = Ax!To(Ax!conn_read(t, "incoming"), "req_parse")
    BY <1>1, <1>3, <1>5 DEF Ax!do_req_start
  <2> QED
    BY <1>2, <2>1, AxListens
<1> QED
  BY <1>4, <1>5

\* A request of the outgoing connection is started.
LEMMA AxGoesOut ==
  ASSUME NEW s, AxGot(s, "stop", "stop"), NEW what,
         NEW state, \/ state = "req_lookup" /\ what = "lookup"
                    \/ state = "req_connect" /\ what = "connect",
         NEW t, t = Ax!To(Ax!conn_timer_reset([s EXCEPT !.p = @ \cup {<<"outgoing", what>>}], "outgoing"), state)
  PROVE  AxRest(t)
<1>1. PICK q : q = s.p \cup {<<"outgoing", what>>}
  OBVIOUS
<1>2. PICK u : u = [s EXCEPT !.p = q]
  OBVIOUS
<1>3. PICK v : v = Ax!conn_timer_reset(u, "outgoing")
  OBVIOUS
<1>4. "outgoing" \in Ax!Conns /\ "incoming" \in Ax!Conns /\ Ax!Other("outgoing") = "incoming"
  BY DEF Ax!Conns, Ax!Other
<1>5. AxSession(s) /\ s.p = {} /\ s.state # "aborted" /\ s.incoming.timer = TRUE
      /\ AxAt(s.incoming, "stop", "stop") /\ AxAt(s.outgoing, "stop", "stop")
  BY DEF AxGot
<1>6. AxSame(s, u) /\ u.incoming = s.incoming /\ u.outgoing = s.outgoing /\ u.p = q
  BY <1>2, <1>4, <1>5, AxFly
<1>7. AxSession(u) /\ u.state # "aborted"
  BY <1>5, <1>6 DEF AxSame
<1>8. /\ AxSame(u, v) /\ v.incoming = u.incoming /\ v.p = u.p
      /\ v.outgoing = [rd |-> u.outgoing.rd, wr |-> u.outgoing.wr, result |-> u.outgoing.result, timer |-> TRUE]
  BY <1>3, <1>4, <1>7, AxTimer
<1>9. AxSession(v) /\ v.state # "aborted"
  BY <1>7, <1>8 DEF AxSame
<1>10. t = Ax!To(v, state)
  BY <1>1, <1>2, <1>3
<1>11. AxSession(t) /\ t.state = state /\ t.p = v.p /\ t.incoming = v.incoming /\ t.outgoing = v.outgoing
  BY <1>9, <1>10, AxTo
<1>12. t.p = {<<"outgoing", what>>} /\ t.incoming.timer = TRUE
       /\ AxAt(t.incoming, "stop", "stop") /\ AxAt(t.outgoing, "stop", "stop")
  BY <1>1, <1>5, <1>6, <1>8, <1>11 DEF AxAt
<1> QED
  BY <1>11, <1>12 DEF AxRest, AxWaits

LEMMA AxConnectStart ==
  ASSUME NEW s, AxGot(s, "stop", "stop"), NEW how \in {"forbidden", "starts"}
  PROVE  AxRest(Ax!do_req_connect_start(s, how))
<1>1. Ax!Is(s, Ax!Idle, Ax!Idle)
  BY DEF AxGot, AxAt, Ax!Is, Ax!Idle
<1>2. CASE how = "forbidden"
  <2>1. Ax!do_req_connect_start(s, how) = Ax!To(Ax!conn_write(s, "incoming"), "kill")
    BY <1>1, <1>2 DEF Ax!do_req_connect_start
  <2> QED
    BY <2>1, AxAnswers
<1>3. CASE how = "starts"
  <2>1. Ax!do_req_connect_start(s, how) =
          Ax!To(Ax!conn_timer_reset([s EXCEPT !.p = @ \cup {<<"outgoing", "connect">>}], "outgoing"), "req_connect")
    BY <1>1, <1>3 DEF Ax!do_req_connect_start
  <2> QED
    BY <2>1, AxGoesOut
<1> QED
  BY <1>2, <1>3

LEMMA AxReqParse ==
  ASSUME NEW s, AxGot(s, "done", "stop"), s.state = "req_parse", NEW x \in Ax!Requests,
         NEW how \in {"forbidden", "starts"}
  PROVE  AxRest(Ax!do_req_parse(s, x, how))
<1>1. PICK t : t = [s EXCEPT !.incoming.rd = "stop"]
  OBVIOUS
<1>2. AxGot(t, "stop", "stop") /\ t.state = "req_parse"
  BY <1>1, AxReadOver
<1>3. Ax!Is(s, Ax!HasRead, Ax!Idle)
  BY DEF AxGot, AxAt, Ax!Is, Ax!HasRead, Ax!Idle
<1>4. CASE Ax!Bad(s.incoming.result) \/ x = "unsupported"
  <2>1. Ax!do_req_parse(s, x, how) = Ax!do_kill(t)
    BY <1>1, <1>3, <1>4 DEF Ax!do_req_parse
  <2> QED
    BY <1>2, <2>1, AxMayKill
<1>5. CASE ~Ax!Bad(s.incoming.result) /\ x = "more"
  <2>1. Ax!do_req_parse(s, x, how) = Ax!To(Ax!conn_read(t, "incoming"), "req_parse")
    BY <1>1, <1>3, <1>5 DEF Ax!do_req_parse
  <2> QED
    BY <1>2, <2>1, AxListens
<1>6. CASE ~Ax!Bad(s.incoming.result) /\ x = "host"
  <2>1. Ax!do_req_parse(s, x, how) =
          Ax!To(Ax!conn_timer_reset([t EXCEPT !.p = @ \cup {<<"outgoing", "lookup">>}], "outgoing"), "req_lookup")
    BY <1>1, <1>3, <1>6 DEF Ax!do_req_parse, Ax!conn_getaddrinfo
  <2> QED
    BY <1>2, <2>1, AxGoesOut
<1>7. CASE ~Ax!Bad(s.incoming.result) /\ x = "address"
  <2>1. Ax!do_req_parse(s, x, how) = Ax!do_req_connect_start(t, how)
    BY <1>1, <1>3, <1>7 DEF Ax!do_req_parse
  <2> QED
    BY <1>2, <2>1, AxConnectStart
<1> QED
  BY <1>4, <1>5, <1>6, <1>7 DEF Ax!Requests

LEMMA AxReqLookup ==
  ASSUME NEW s, AxGot(s, "stop", "stop"), s.state = "req_lookup",
         Ax!Bad(s.outgoing.result) \/ s.addr = TRUE, NEW how \in {"forbidden", "starts"}
  PROVE  AxRest(Ax!do_req_lookup(s, how))
<1>1. Ax!Is(s, Ax!Idle, Ax!Idle)
  BY DEF AxGot, AxAt, Ax!Is, Ax!Idle
<1>2. CASE Ax!Bad(s.outgoing.result)
  <2>1. Ax!do_req_lookup(s, how) = Ax!To(Ax!conn_write(s, "incoming"), "kill")
    BY <1>1, <1>2 DEF Ax!do_req_lookup
  <2> QED
    BY <2>1, AxAnswers
<1>3. CASE ~Ax!Bad(s.outgoing.result)
  <2>1. Ax!do_req_lookup(s, how) = Ax!do_req_connect_start(s, how)
    BY <1>1, <1>3 DEF Ax!do_req_lookup
  <2> QED
    BY <2>1, AxConnectStart
<1> QED
  BY <1>2, <1>3

LEMMA AxReqConnect ==
  ASSUME NEW s, AxGot(s, "stop", "stop")
  PROVE  AxRest(Ax!do_req_connect(s))
<1>1. Ax!Is(s, Ax!Idle, Ax!Idle)
  BY DEF AxGot, AxAt, Ax!Is, Ax!Idle
<1>2. PICK state \in {"proxy_start", "kill"} :
        Ax!do_req_connect(s) = Ax!To(Ax!conn_write(s, "incoming"), state)
  BY <1>1 DEF Ax!do_req_connect
<1> QED
  BY <1>2, AxAnswers

\* Both connections are relayed.
LEMMA AxProxyStart ==
  ASSUME NEW s, AxGot(s, "stop", "done"), s.state = "proxy_start"
  PROVE  AxRest(Ax!do_proxy_start(s))
<1>1. PICK t : t = [s EXCEPT !.incoming.wr = "stop"]
  OBVIOUS
<1>2. AxGot(t, "stop", "stop") /\ t.state = "proxy_start"
  BY <1>1, AxWriteOver
<1>3. Ax!Is(s, Ax!HasWritten, Ax!Idle)
  BY DEF AxGot, AxAt, Ax!Is, Ax!HasWritten, Ax!Idle
<1>4. CASE Ax!Bad(s.incoming.result)
  <2>1. Ax!do_proxy_start(s) = Ax!do_kill(t)
    BY <1>1, <1>3, <1>4 DEF Ax!do_proxy_start
  <2> QED
    BY <1>2, <2>1, AxMayKill
<1>5. CASE ~Ax!Bad(s.incoming.result)
  <2>1. PICK u : u = Ax!conn_read(t, "incoming")
    OBVIOUS
  <2>2. PICK v : v = Ax!conn_read(u, "outgoing")
    OBVIOUS
  <2>3. PICK w : w = Ax!To(v, "proxy")
    OBVIOUS
  <2>4. Ax!do_proxy_start(s) = w
    BY <1>1, <1>3, <1>5, <2>1, <2>2, <2>3 DEF Ax!do_proxy_start
  <2>5. "incoming" \in Ax!Conns /\ "outgoing" \in Ax!Conns
        /\ Ax!Other("incoming") = "outgoing" /\ Ax!Other("outgoing") = "incoming"
    BY DEF Ax!Conns, Ax!Other
  <2>6. AxSession(t) /\ t.incoming.rd = "stop" /\ t.incoming.wr = "stop" /\ t.outgoing.rd = "stop"
        /\ t.outgoing.wr = "stop" /\ t.p = {}
    BY <1>2 DEF AxGot, AxAt
  <2>7. /\ AxSame(t, u) /\ u.outgoing = t.outgoing /\ u.p = {<<"incoming", "read">>}
        /\ u.incoming = [rd |-> "busy", wr |-> "stop", result |-> t.incoming.result, timer |-> TRUE]
    BY <2>1, <2>5, <2>6, AxReads
  <2>8. AxSession(u) /\ u.state = "proxy_start" /\ u.outgoing.rd = "stop"
    BY <1>2, <2>6, <2>7 DEF AxSame
  <2>9. /\ AxSame(u, v) /\ v.incoming = u.incoming /\ v.p = {<<"incoming", "read">>, <<"outgoing", "read">>}
        /\ v.outgoing = [rd |-> "busy", wr |-> u.outgoing.wr, result |-> u.outgoing.result, timer |-> TRUE]
    BY <2>2, <2>5, <2>7, <2>8, AxReads
  <2>10. AxSession(v) /\ v.state # "aborted"
    BY <2>8, <2>9 DEF AxSame
  <2>11. AxSession(w) /\ w.state = "proxy" /\ w.p = v.p /\ w.incoming = v.incoming /\ w.outgoing = v.outgoing
    BY <2>3, <2>10, AxTo
  <2>12. \A a \in Ax!Conns : AxFlow(w, a)
    BY <2>6, <2>7, <2>9, <2>11 DEF AxFlow, Ax!Conns, Ax!Other
  <2>13. w.p \subseteq AxRelays /\ w.incoming.timer = TRUE
    BY <2>5, <2>7, <2>9, <2>11 DEF AxRelays
  <2> QED
    BY <2>4, <2>11, <2>12, <2>13 DEF AxRest, AxWaits
<1> QED
  BY <1>4, <1>5

\* One direction, at any moment: its result may have come.
AxLoose(s, a) ==
  LET b == Ax!Other(a) IN
  /\ s[a].wr = "busy" <=> <<a, "write">> \in s.p
  /\ s[b].rd = "busy" <=> <<b, "read">> \in s.p
  /\ \/ s[a].wr = "stop" /\ s[b].rd \in {"busy", "done"}
     \/ s[a].wr \in {"busy", "done"} /\ s[b].rd = "stop"

\* What the other direction has to do with: nothing of it changes.
AxApart(s, t, a) ==
  LET b == Ax!Other(a) IN
  /\ t[a].rd = s[a].rd /\ t[b].wr = s[b].wr
  /\ <<b, "write">> \in t.p <=> <<b, "write">> \in s.p
  /\ <<a, "read">> \in t.p <=> <<a, "read">> \in s.p

AxTimed(s) == s.incoming.timer = TRUE

\* Nothing but a timer starts.
LEMMA AxTimedOn ==
  ASSUME NEW s, NEW t, AxTimed(s), NEW c \in Ax!Conns,
         t[c].timer \in {s[c].timer, TRUE}, t[Ax!Other(c)] = s[Ax!Other(c)]
  PROVE  AxTimed(t)
BY DEF AxTimed, Ax!Conns, Ax!Other

\* conn_cycle: the direction goes on.
LEMMA AxCycle ==
  ASSUME NEW s, AxSession(s), s.p \subseteq AxRelays, AxTimed(s), NEW a \in Ax!Conns, AxLoose(s, a),
         NEW t, t = Ax!Cycle(s, a)
  PROVE  /\ AxSession(t) /\ t.state = s.state /\ t.p \subseteq AxRelays /\ AxTimed(t)
         /\ AxFlow(t, a) /\ AxApart(s, t, a)
<1>0. PICK b : b = Ax!Other(a)
  OBVIOUS
<1>1. b \in Ax!Conns /\ a # b /\ Ax!Other(b) = a
  BY <1>0 DEF Ax!Conns, Ax!Other
<1>2. PICK u : u = IF s[a].wr = "done" THEN AxWrTo(s, a, "stop") ELSE s
  OBVIOUS
<1>3. /\ t = CASE u[a].wr = "stop" /\ u[b].rd = "stop" -> Ax!conn_read(u, b)
               [] u[a].wr = "stop" /\ u[b].rd = "done" -> AxRdTo(Ax!conn_write(u, a), b, "stop")
               [] OTHER -> u
  BY <1>0, <1>2 DEF Ax!Cycle, AxWrTo, AxRdTo
<1>4. /\ AxSession(u) /\ u.state = s.state /\ u.p = s.p /\ AxTimed(u) /\ u[b] = s[b] /\ u[a].rd = s[a].rd
      /\ u[a].wr = IF s[a].wr = "done" THEN "stop" ELSE s[a].wr
  <2>1. CASE s[a].wr = "done"
    <3>1. u = AxWrTo(s, a, "stop") /\ a \in Ax!Conns /\ AxSession(s)
      BY <1>2, <2>1
    <3>2. /\ AxSame(s, u) /\ u[Ax!Other(a)] = s[Ax!Other(a)] /\ u.p = s.p
          /\ u[a] = [rd |-> s[a].rd, wr |-> "stop", result |-> s[a].result, timer |-> s[a].timer]
      BY ONLY <3>1, AxWrs
    <3>3. u[a].timer = s[a].timer
      BY <3>2
    <3>4. AxTimed(u)
      BY <3>2, <3>3, AxTimedOn
    <3> QED
      BY <1>0, <2>1, <3>2, <3>4 DEF AxSame
  <2>2. CASE s[a].wr # "done"
    BY <1>2, <2>2
  <2> QED
    BY <2>1, <2>2
<1>5. /\ s[a].wr = "busy" <=> <<a, "write">> \in s.p
      /\ s[b].rd = "busy" <=> <<b, "read">> \in s.p
      /\ \/ s[a].wr = "stop" /\ s[b].rd \in {"busy", "done"}
         \/ s[a].wr \in {"busy", "done"} /\ s[b].rd = "stop"
  BY <1>0 DEF AxLoose
<1>6. /\ <<a, "write">> \in AxRelays /\ <<b, "read">> \in AxRelays
      /\ <<a, "write">> # <<b, "read">> /\ <<b, "write">> # <<b, "read">> /\ <<a, "read">> # <<b, "read">>
      /\ <<a, "write">> # <<b, "write">> /\ <<a, "write">> # <<a, "read">>
  BY <1>1 DEF AxRelays
<1>7. CASE u[a].wr = "stop" /\ u[b].rd = "stop"
  <2>1. t = Ax!conn_read(u, b) /\ AxSession(u) /\ b \in Ax!Conns /\ u[b].rd = "stop"
    BY <1>1, <1>3, <1>4, <1>7
  <2>2. /\ AxSame(u, t) /\ t[Ax!Other(b)] = u[Ax!Other(b)] /\ t.p = u.p \cup {<<b, "read">>}
        /\ t[b] = [rd |-> "busy", wr |-> u[b].wr, result |-> u[b].result, timer |-> TRUE]
    BY ONLY <2>1, AxReads
  <2>3. t[b].rd = "busy" /\ t[b].wr = s[b].wr /\ t[b].timer = TRUE /\ t[a] = u[a]
    BY <1>1, <1>4, <2>2
  <2>4. AxTimed(t)
    BY <1>1, <1>4, <2>2, <2>3, AxTimedOn
  <2>5. AxFlow(t, a)
    BY <1>0, <1>4, <1>5, <1>6, <1>7, <2>2, <2>3 DEF AxFlow
  <2>6. AxApart(s, t, a)
    BY <1>0, <1>4, <1>6, <2>2, <2>3 DEF AxApart
  <2> QED
    BY <1>4, <1>6, <2>2, <2>4, <2>5, <2>6 DEF AxSame
<1>8. CASE u[a].wr = "stop" /\ u[b].rd = "done"
  <2>1. PICK v : v = Ax!conn_write(u, a)
    OBVIOUS
  <2>2. AxSession(u) /\ a \in Ax!Conns /\ u[a].wr \in {"stop", "done"}
    BY <1>4, <1>8
  <2>3. /\ AxSame(u, v) /\ v[Ax!Other(a)] = u[Ax!Other(a)] /\ v.p = u.p \cup {<<a, "write">>}
        /\ v[a] = [rd |-> u[a].rd, wr |-> "busy", result |-> u[a].result, timer |-> TRUE]
    BY ONLY <2>1, <2>2, AxWrites
  <2>4. t = AxRdTo(v, b, "stop") /\ AxSession(v) /\ b \in Ax!Conns
    BY <1>1, <1>3, <1>8, <2>1, <2>3 DEF AxSame
  <2>5. /\ AxSame(v, t) /\ t[Ax!Other(b)] = v[Ax!Other(b)] /\ t.p = v.p
        /\ t[b] = [rd |-> "stop", wr |-> v[b].wr, result |-> v[b].result, timer |-> v[b].timer]
    BY ONLY <2>4, AxRds
  <2>6. /\ t[a] = v[a] /\ v[b] = u[b] /\ t[b].rd = "stop" /\ t[b].wr = s[b].wr /\ t[b].timer = v[b].timer
        /\ v[a].wr = "busy" /\ v[a].rd = s[a].rd /\ v[a].timer = TRUE
    BY <1>0, <1>1, <1>4, <2>3, <2>5
  <2>7. AxTimed(v)
    BY <1>4, <2>3, <2>6, AxTimedOn
  <2>8. AxTimed(t)
    BY <1>1, <2>5, <2>6, <2>7, AxTimedOn
  <2>9. AxFlow(t, a)
    BY <1>0, <1>4, <1>5, <1>6, <1>8, <2>3, <2>5, <2>6 DEF AxFlow
  <2>10. AxApart(s, t, a)
    BY <1>0, <1>4, <1>6, <2>3, <2>5, <2>6 DEF AxApart
  <2> QED
    BY <1>4, <1>6, <2>3, <2>5, <2>8, <2>9, <2>10 DEF AxSame
<1>9. CASE ~(u[a].wr = "stop" /\ u[b].rd = "stop") /\ ~(u[a].wr = "stop" /\ u[b].rd = "done")
  <2>1. t = u
    BY <1>3, <1>9
  <2>2. AxFlow(t, a)
    BY <1>0, <1>4, <1>5, <1>9, <2>1 DEF AxFlow
  <2> QED
    BY <1>0, <1>4, <2>1, <2>2 DEF AxApart
<1> QED
  BY <1>7, <1>8, <1>9

\* do_proxy: both directions go on, or the session ends.
LEMMA AxProxy ==
  ASSUME NEW s, AxSession(s), s.state = "proxy", s.p \subseteq AxRelays, AxTimed(s),
         Ax!Bad(s.incoming.result) \/ Ax!Bad(s.outgoing.result) \/ \A a \in Ax!Conns : AxLoose(s, a)
  PROVE  AxRest(Ax!do_proxy(s))
<1>1. CASE Ax!Bad(s.incoming.result) \/ Ax!Bad(s.outgoing.result)
  <2>1. Ax!do_proxy(s) = Ax!do_kill(s)
    BY <1>1 DEF Ax!do_proxy
  <2>2. s.p \subseteq Ax!Conns \X {"read", "write", "connect"}
    BY DEF AxRelays
  <2> QED
    BY <2>1, <2>2, AxKills
<1>2. CASE ~(Ax!Bad(s.incoming.result) \/ Ax!Bad(s.outgoing.result))
  <2>1. PICK t : t = Ax!Cycle(s, "incoming")
    OBVIOUS
  <2>2. PICK u : u = Ax!Cycle(t, "outgoing")
    OBVIOUS
  <2>3. Ax!do_proxy(s) = u
    BY <1>2, <2>1, <2>2 DEF Ax!do_proxy
  <2>4. "incoming" \in Ax!Conns /\ "outgoing" \in Ax!Conns
        /\ Ax!Other("incoming") = "outgoing" /\ Ax!Other("outgoing") = "incoming"
    BY DEF Ax!Conns, Ax!Other
  <2>5. /\ AxSession(t) /\ t.state = s.state /\ t.p \subseteq AxRelays /\ AxTimed(t)
        /\ AxFlow(t, "incoming") /\ AxApart(s, t, "incoming")
    BY <1>2, <2>1, <2>4, AxCycle
  <2>6. AxLoose(t, "outgoing")
    BY <1>2, <2>4, <2>5 DEF AxLoose, AxApart
  <2>7. /\ AxSession(u) /\ u.state = t.state /\ u.p \subseteq AxRelays /\ AxTimed(u)
        /\ AxFlow(u, "outgoing") /\ AxApart(t, u, "outgoing")
    BY <2>2, <2>4, <2>5, <2>6, AxCycle
  <2>8. AxFlow(u, "incoming")
    BY <2>4, <2>5, <2>7 DEF AxFlow, AxApart
  <2>9. \A a \in Ax!Conns : AxFlow(u, a)
    BY <2>7, <2>8 DEF Ax!Conns
  <2> QED
    BY <2>3, <2>5, <2>7, <2>9 DEF AxRest, AxWaits, AxTimed
<1> QED
  BY <1>1, <1>2

\* One of the four closes has ended.
AxClosed(s) ==
  /\ AxSession(s) /\ s.state = "almost_dead" /\ s.p \subseteq AxLast
  /\ AxAt(s.incoming, "dead", "dead") /\ s.incoming.timer = FALSE
  /\ AxAt(s.outgoing, "dead", "dead") /\ s.outgoing.timer = FALSE
  /\ \A c \in Ax!Conns :
       <<c, "write">> \in s.p \/ <<c, "connect">> \in s.p => <<c, "close">> \in s.p
  /\ s.fin = 4 - AxToCome(s.p, <<"incoming", "close">>) - AxToCome(s.p, <<"incoming", "timer_close">>)
               - AxToCome(s.p, <<"outgoing", "close">>) - AxToCome(s.p, <<"outgoing", "timer_close">>)

LEMMA AxAlmostDead ==
  ASSUME NEW s, AxClosed(s), NEW t, t = Ax!do_almost_dead(s)
  PROVE  AxRest(t)
<1>0. PICK x, y, z, w :
        /\ x = AxToCome(s.p, <<"incoming", "close">>) /\ y = AxToCome(s.p, <<"incoming", "timer_close">>)
        /\ z = AxToCome(s.p, <<"outgoing", "close">>) /\ w = AxToCome(s.p, <<"outgoing", "timer_close">>)
  OBVIOUS
<1>1. x \in {0, 1} /\ y \in {0, 1} /\ z \in {0, 1} /\ w \in {0, 1}
  BY <1>0 DEF AxToCome
<1>2. s.fin = 4 - x - y - z - w
  BY <1>0 DEF AxClosed
<1>3. AxSession(s) /\ s.state = "almost_dead"
  BY DEF AxClosed
<1>4. PICK state : state = IF s.fin = 4 THEN "dead" ELSE "almost_dead"
  OBVIOUS
<1>5. t = [state |-> state, fin |-> s.fin + 1, incoming |-> s.incoming, outgoing |-> s.outgoing,
           addr |-> s.addr, p |-> s.p]
  BY <1>3, <1>4 DEF Ax!do_almost_dead, AxSession
<1>6. AxSession(t) /\ t.state = state /\ t.fin = s.fin + 1 /\ t.p = s.p
      /\ t.incoming = s.incoming /\ t.outgoing = s.outgoing
  BY <1>3, <1>5 DEF AxSession
<1>7. CASE s.fin = 4
  <2>1. x = 0 /\ y = 0 /\ z = 0 /\ w = 0
    BY ONLY <1>1, <1>2, <1>7
  <2>2. \A c \in Ax!Conns : <<c, "close">> \notin s.p /\ <<c, "timer_close">> \notin s.p
    BY <1>0, <2>1 DEF AxToCome, Ax!Conns
  <2>3. s.p = {}
    <3>1. SUFFICES ASSUME NEW x1 \in s.p PROVE FALSE
      OBVIOUS
    <3>2. PICK c \in Ax!Conns, k \in {"write", "connect", "close", "timer_close"} : x1 = <<c, k>>
      BY DEF AxClosed, AxLast
    <3> QED
      BY <2>2, <3>2 DEF AxClosed
  <2> QED
    BY <1>4, <1>6, <1>7, <2>3 DEF AxRest, AxDead, AxClosed
<1>8. CASE s.fin # 4
  <2>1. t.fin = 5 - x - y - z - w /\ t.fin <= 4
    BY ONLY <1>1, <1>2, <1>6, <1>8
  <2>2. AxDying(t)
    BY <1>0, <1>4, <1>6, <1>8, <2>1 DEF AxDying, AxClosed
  <2> QED
    BY <1>6, <2>2 DEF AxRest
<1> QED
  BY <1>7, <1>8

-----------------------------------------------------------------------------

\* What a callback hands to do_next.
AxCame(s) ==
  \/ AxGot(s, "done", "stop") /\ s.state \in {"handshake", "req_parse"}
  \/ AxGot(s, "stop", "done") /\ s.state \in {"req_start", "proxy_start", "kill"}
  \/ AxGot(s, "stop", "stop") /\ s.state = "req_lookup" /\ (Ax!Bad(s.outgoing.result) \/ s.addr = TRUE)
  \/ AxGot(s, "stop", "stop") /\ s.state = "req_connect"
  \/ /\ AxSession(s) /\ s.state = "proxy" /\ s.p \subseteq AxRelays /\ AxTimed(s)
     /\ Ax!Bad(s.incoming.result) \/ Ax!Bad(s.outgoing.result) \/ \A a \in Ax!Conns : AxLoose(s, a)
  \/ AxSession(s) /\ s.state = "kill" /\ s.p = {<<"incoming", "write">>}
  \/ AxClosed(s)

\* Whatever do_next does with it, the session waits for something again, or
\* it is freed.
LEMMA AxDoNext ==
  ASSUME SessionFaults = {}, NEW s, AxCame(s), NEW t \in Ax!do_next(s)
  PROVE  AxRest(t)
<1>0. Ax!Connects \ (IF Ax!May("connect_fails") THEN {} ELSE {"fails"}) = {"forbidden", "starts"}
  BY DEF Ax!Connects, Ax!May
<1>1. CASE AxGot(s, "done", "stop") /\ s.state = "handshake"
  <2>1. PICK x \in Ax!Parses : t = Ax!do_handshake(s, x)
    BY <1>1 DEF Ax!do_next
  <2> QED
    BY <1>1, <2>1, AxHandshake
<1>2. CASE AxGot(s, "done", "stop") /\ s.state = "req_parse"
  <2>1. PICK x \in Ax!Requests, how \in {"forbidden", "starts"} : t = Ax!do_req_parse(s, x, how)
    BY <1>0, <1>2 DEF Ax!do_next
  <2> QED
    BY <1>2, <2>1, AxReqParse
<1>3. CASE AxGot(s, "stop", "done") /\ s.state = "req_start"
  <2>1. t = Ax!do_req_start(s)
    BY <1>3 DEF Ax!do_next
  <2> QED
    BY <1>3, <2>1, AxReqStart
<1>4. CASE AxGot(s, "stop", "done") /\ s.state = "proxy_start"
  <2>1. t = Ax!do_proxy_start(s)
    BY <1>4 DEF Ax!do_next
  <2> QED
    BY <1>4, <2>1, AxProxyStart
<1>5. CASE AxSession(s) /\ s.state = "kill" /\ s.p \subseteq {<<"incoming", "write">>}
  <2>1. t = Ax!do_kill(s)
    BY <1>5 DEF Ax!do_next
  <2>2. s.p \subseteq Ax!Conns \X {"read", "write", "connect"}
    BY <1>5 DEF Ax!Conns
  <2> QED
    BY <1>5, <2>1, <2>2, AxKills
<1>6. CASE AxGot(s, "stop", "stop") /\ s.state = "req_lookup" /\ (Ax!Bad(s.outgoing.result) \/ s.addr = TRUE)
  <2>1. PICK how \in {"forbidden", "starts"} : t = Ax!do_req_lookup(s, how)
    BY <1>0, <1>6 DEF Ax!do_next
  <2> QED
    BY <1>6, <2>1, AxReqLookup
<1>7. CASE AxGot(s, "stop", "stop") /\ s.state = "req_connect"
  <2>1. t = Ax!do_req_connect(s)
    BY <1>7 DEF Ax!do_next
  <2> QED
    BY <1>7, <2>1, AxReqConnect
<1>8. CASE /\ AxSession(s) /\ s.state = "proxy" /\ s.p \subseteq AxRelays /\ AxTimed(s)
           /\ Ax!Bad(s.incoming.result) \/ Ax!Bad(s.outgoing.result) \/ \A a \in Ax!Conns : AxLoose(s, a)
  <2>1. t = Ax!do_proxy(s)
    BY <1>8 DEF Ax!do_next
  <2> QED
    BY <1>8, <2>1, AxProxy
<1>9. CASE AxClosed(s)
  <2>1. t = Ax!do_almost_dead(s)
    BY <1>9 DEF Ax!do_next, AxClosed
  <2> QED
    BY <1>9, <2>1, AxAlmostDead
<1> QED
  BY <1>1, <1>2, <1>3, <1>4, <1>5, <1>6, <1>7, <1>8, <1>9 DEF AxCame, AxGot

AxThis == Ax!This

AxInv ==
  /\ AxSession(h) /\ h.p = {} /\ AxRest(AxThis)
  /\ pc = IF h.state = "dead" THEN "freed" ELSE "live"
  /\ hist = {}

\* The session with what is in flight.
LEMMA AxIs ==
  ASSUME AxSession(h)
  PROVE  /\ AxSame(h, AxThis) /\ AxThis.p = pending
         /\ AxThis.incoming = h.incoming /\ AxThis.outgoing = h.outgoing
BY DEF AxThis, Ax!This, AxSession, AxSame

\* A session that is left to wait.
LEMMA AxLeft ==
  ASSUME NEW t, AxRest(t), h' = [t EXCEPT !.p = {}], pending' = t.p,
         pc' = IF t.state = "dead" THEN "freed" ELSE "live", hist' = {}
  PROVE  AxInv'
<1>1. AxSession(t)
  BY DEF AxRest
<1>2. h' = [state |-> t.state, fin |-> t.fin, incoming |-> t.incoming, outgoing |-> t.outgoing,
            addr |-> t.addr, p |-> {}]
  BY <1>1 DEF AxSession
<1>3. AxSession(h') /\ h'.p = {} /\ h'.state = t.state
  BY <1>1, <1>2 DEF AxSession
<1>4. AxThis' = t
  BY <1>1, <1>2 DEF AxThis, Ax!This, AxSession
<1> QED
  BY <1>3, <1>4 DEF AxInv

\* A callback runs do_next.
LEMMA AxRuns ==
  ASSUME SessionFaults = {}, AxInv, h.state # "dead", NEW s, AxCame(s), Ax!Runs(s)
  PROVE  AxInv'
<1>1. pc = "live" /\ hist = {}
  BY DEF AxInv
<1>2. PICK t \in Ax!do_next(s) :
        /\ h' = [t EXCEPT !.p = {}] /\ pending' = t.p
        /\ pc' = IF t.state = "dead" THEN "freed" ELSE "live"
  BY <1>1 DEF Ax!Runs
<1>3. AxRest(t) /\ hist' = {}
  BY <1>1, AxDoNext DEF Ax!Runs
<1> QED
  BY <1>2, <1>3, AxLeft

\* client_finish_init.
LEMMA AxInit == Ax!Init => AxInv
<1> SUFFICES ASSUME Ax!Init PROVE AxInv
  OBVIOUS
<1>1. PICK r, s : /\ r = [state |-> "handshake", fin |-> 0, incoming |-> Ax!Conn, outgoing |-> Ax!Conn,
                          addr |-> FALSE, p |-> {}]
                  /\ s = Ax!conn_read(r, "incoming")
  OBVIOUS
<1>2. h = [s EXCEPT !.p = {}] /\ pending = s.p /\ pc = "live" /\ hist = {}
  BY <1>1 DEF Ax!Init
<1>3. AxSession(r) /\ r.incoming = Ax!Conn /\ r.outgoing = Ax!Conn /\ r.state = "handshake" /\ r.p = {}
  BY <1>1 DEF AxSession, AxConn, Ax!Conn
<1>4. Ax!Conn.rd = "stop" /\ Ax!Conn.wr = "stop"
  BY DEF Ax!Conn
<1>5. "incoming" \in Ax!Conns /\ Ax!Other("incoming") = "outgoing"
  BY DEF Ax!Conns, Ax!Other
<1>6. /\ AxSame(r, s) /\ s.outgoing = r.outgoing /\ s.p = {<<"incoming", "read">>}
      /\ s.incoming = [rd |-> "busy", wr |-> "stop", result |-> r.incoming.result, timer |-> TRUE]
  <2>1. PICK c : c = "incoming"
    OBVIOUS
  <2>2. c \in Ax!Conns /\ AxSession(r) /\ r[c].rd = "stop" /\ s = Ax!conn_read(r, c)
    BY <1>1, <1>3, <1>4, <1>5, <2>1
  <2>3. /\ AxSame(r, s) /\ s[Ax!Other(c)] = r[Ax!Other(c)] /\ s.p = r.p \cup {<<c, "read">>}
        /\ s[c] = [rd |-> "busy", wr |-> r[c].wr, result |-> r[c].result, timer |-> TRUE]
    BY ONLY <2>2, AxReads
  <2> QED
    BY <1>3, <1>4, <1>5, <2>1, <2>3
<1>7. AxRest(s)
  BY <1>3, <1>4, <1>6 DEF AxRest, AxWaits, AxSame, AxAt
<1>8. h = [state |-> s.state, fin |-> s.fin, incoming |-> s.incoming, outgoing |-> s.outgoing,
           addr |-> s.addr, p |-> {}]
  BY <1>2, <1>7 DEF AxRest, AxSession
<1>9. AxSession(h) /\ h.p = {} /\ h.state = "handshake"
  BY <1>3, <1>6, <1>7, <1>8 DEF AxRest, AxSession, AxSame
<1>10. AxThis = s
  BY <1>2, <1>7, <1>8 DEF AxThis, Ax!This, AxRest, AxSession
<1> QED
  BY <1>2, <1>7, <1>9, <1>10 DEF AxInv

-----------------------------------------------------------------------------
(* The callbacks.                                                          *)

\* What is left of h when a callback takes its result: u is that session
\* before the result, and one of its connections gets it.
AxTakes(u, gone) == /\ AxSame(h, u) /\ u.p = pending \ {gone}
                    /\ u.incoming = h.incoming /\ u.outgoing = h.outgoing

LEMMA AxEnds ==
  ASSUME AxSession(h), NEW gone, NEW u, u = Ax!Ends(gone)
  PROVE  AxTakes(u, gone)
<1>1. u = [AxThis EXCEPT !.p = @ \ {gone}]
  BY DEF Ax!Ends, AxThis
<1>2. AxSame(h, AxThis) /\ AxThis.p = pending /\ AxThis.incoming = h.incoming /\ AxThis.outgoing = h.outgoing
  BY AxIs
<1>3. PICK s, q : s = AxThis /\ q = pending \ {gone}
  OBVIOUS
<1>4. u = [s EXCEPT !.p = q] /\ AxSession(s)
  BY <1>1, <1>2, <1>3 DEF AxSame
<1>5. AxSame(s, u) /\ \A c \in Ax!Conns : u[c] = s[c] /\ u.p = q
  BY ONLY <1>4, AxFly
<1>6. u.incoming = s.incoming /\ u.outgoing = s.outgoing /\ u.p = q
  BY <1>5 DEF Ax!Conns
<1> QED
  BY <1>2, <1>3, <1>5, <1>6 DEF AxTakes, AxSame

\* A read, a write or a connection has a result.
AxResult(s, c, rd, wr, result) == [s EXCEPT ![c] = [rd |-> rd, wr |-> wr, result |-> result, timer |-> s[c].timer]]

LEMMA AxResults ==
  ASSUME NEW s, AxSession(s), NEW c \in Ax!Conns, NEW rd, NEW wr, NEW result,
         NEW t, t = AxResult(s, c, rd, wr, result)
  PROVE  /\ AxSame(s, t) /\ t[Ax!Other(c)] = s[Ax!Other(c)] /\ t.p = s.p
         /\ t[c] = [rd |-> rd, wr |-> wr, result |-> result, timer |-> s[c].timer]
<1>1. PICK x : x = [rd |-> rd, wr |-> wr, result |-> result, timer |-> s[c].timer]
  OBVIOUS
<1>2. AxSession(s) /\ c \in Ax!Conns /\ AxConn(x) /\ t = AxUpdate(s, c, x)
  BY <1>1 DEF AxConn, AxResult, AxUpdate
<1>3. AxSame(s, t) /\ t[c] = x /\ t[Ax!Other(c)] = s[Ax!Other(c)] /\ t.p = s.p
  BY ONLY <1>2, AxPut
<1> QED
  BY <1>1, <1>3

\* The facts of the invariant that the callbacks use.
AxHere(rd, wr, p) == AxAt(h.incoming, rd, wr) /\ AxAt(h.outgoing, "stop", "stop") /\ pending = p

LEMMA AxUnfold ==
  ASSUME AxInv
  PROVE  /\ AxSession(h)
         /\ \/ /\ AxTimed(h)
               /\ \/ h.state \in {"handshake", "req_parse"} /\ AxHere("busy", "stop", {<<"incoming", "read">>})
                  \/ h.state \in {"req_start", "proxy_start", "kill"} /\ AxHere("stop", "busy", {<<"incoming", "write">>})
                  \/ h.state = "req_lookup" /\ AxHere("stop", "stop", {<<"outgoing", "lookup">>})
                  \/ h.state = "req_connect" /\ AxHere("stop", "stop", {<<"outgoing", "connect">>})
                  \/ h.state = "proxy" /\ pending \subseteq AxRelays /\ \A a \in Ax!Conns : AxFlow(AxThis, a)
            \/ AxDying(AxThis) /\ h.state = "almost_dead" /\ pending \subseteq AxLast
               /\ h.incoming.timer = FALSE /\ h.outgoing.timer = FALSE
            \/ h.state = "dead" /\ pending = {} /\ h.incoming.timer = FALSE /\ h.outgoing.timer = FALSE
<1>1. AxSession(h) /\ AxRest(AxThis)
  BY DEF AxInv
<1>2. /\ AxThis.state = h.state /\ AxThis.p = pending
      /\ AxThis.incoming = h.incoming /\ AxThis.outgoing = h.outgoing
  BY <1>1, AxIs DEF AxSame
<1>3. CASE AxThis.incoming.timer = TRUE /\ AxWaits(AxThis)
  BY <1>1, <1>2, <1>3 DEF AxWaits, AxHere, AxTimed
<1>4. CASE AxDying(AxThis)
  BY <1>1, <1>2, <1>4 DEF AxDying
<1>5. CASE AxDead(AxThis)
  BY <1>1, <1>2, <1>5 DEF AxDead
<1> QED
  BY <1>1, <1>3, <1>4, <1>5 DEF AxRest

\* A flow of the session with what is in flight is one of its fields.
LEMMA AxFlows ==
  ASSUME AxSession(h), NEW a \in Ax!Conns, AxFlow(AxThis, a)
  PROVE  LET b == Ax!Other(a) IN
         \/ /\ h[a].wr = "stop" /\ h[b].rd = "busy"
            /\ <<a, "write">> \notin pending /\ <<b, "read">> \in pending
         \/ /\ h[a].wr = "busy" /\ h[b].rd = "stop"
            /\ <<a, "write">> \in pending /\ <<b, "read">> \notin pending
<1>1. /\ AxThis.p = pending /\ AxThis.incoming = h.incoming /\ AxThis.outgoing = h.outgoing
  BY AxIs
<1>2. \A c \in Ax!Conns : AxThis[c] = h[c]
  BY <1>1 DEF Ax!Conns
<1>3. Ax!Other(a) \in Ax!Conns
  BY DEF Ax!Conns, Ax!Other
<1> QED
  BY <1>1, <1>2, <1>3 DEF AxFlow

\* A result of a session that relays.
LEMMA AxRelayed ==
  ASSUME AxSession(h), AxTimed(h), h.state = "proxy", pending \subseteq AxRelays,
         \A a \in Ax!Conns : AxFlow(AxThis, a),
         NEW c \in Ax!Conns, NEW what, <<c, what>> \in pending, NEW u, AxTakes(u, <<c, what>>),
         NEW rd, NEW wr, \/ what = "read" /\ rd = "done" /\ wr = h[c].wr
                         \/ what = "write" /\ wr = "done" /\ rd = h[c].rd,
         NEW result, NEW s, s = AxResult(u, c, rd, wr, result)
  PROVE  AxCame(s)
<1>0. PICK b : b = Ax!Other(c)
  OBVIOUS
<1>1. b \in Ax!Conns /\ b # c /\ Ax!Other(b) = c /\ \A a \in Ax!Conns : a \in {b, c}
  BY <1>0 DEF Ax!Conns, Ax!Other
<1>2. AxSession(u) /\ u[b] = h[b] /\ u[c] = h[c] /\ u.p = pending \ {<<c, what>>} /\ u.state = "proxy"
  BY <1>1 DEF AxTakes, AxSame, Ax!Conns
<1>3. /\ AxSame(u, s) /\ s[Ax!Other(c)] = u[Ax!Other(c)] /\ s.p = u.p
      /\ s[c] = [rd |-> rd, wr |-> wr, result |-> result, timer |-> u[c].timer]
  <2>1. AxSession(u) /\ c \in Ax!Conns /\ s = AxResult(u, c, rd, wr, result)
    BY <1>2
  <2> QED
    BY ONLY <2>1, AxResults
<1>4. s[b] = h[b] /\ s[c].rd = rd /\ s[c].wr = wr /\ s[c].timer = h[c].timer
  BY <1>0, <1>2, <1>3
<1>5. AxTimed(s)
  BY <1>0, <1>1, <1>4, AxTimedOn
<1>6. \/ h[c].wr = "stop" /\ h[b].rd = "busy" /\ <<c, "write">> \notin pending /\ <<b, "read">> \in pending
      \/ h[c].wr = "busy" /\ h[b].rd = "stop" /\ <<c, "write">> \in pending /\ <<b, "read">> \notin pending
  BY <1>0, AxFlows
<1>7. \/ h[b].wr = "stop" /\ h[c].rd = "busy" /\ <<b, "write">> \notin pending /\ <<c, "read">> \in pending
      \/ h[b].wr = "busy" /\ h[c].rd = "stop" /\ <<b, "write">> \in pending /\ <<c, "read">> \notin pending
  BY <1>1, AxFlows
<1>8. s.p = pending \ {<<c, what>>} /\ s.state = "proxy" /\ AxSession(s) /\ s.p \subseteq AxRelays
  BY <1>2, <1>3 DEF AxSame
<1>9. <<c, "write">> # <<c, "read">> /\ <<b, "write">> # <<c, "read">> /\ <<c, "write">> # <<b, "read">>
      /\ <<b, "write">> # <<c, "write">> /\ <<b, "read">> # <<c, "read">>
  BY <1>1
<1>10. CASE what = "read"
  <2>1. AxLoose(s, c)
    BY <1>0, <1>1, <1>4, <1>6, <1>8, <1>9, <1>10 DEF AxLoose
  <2>2. AxLoose(s, b)
    BY <1>0, <1>1, <1>4, <1>7, <1>8, <1>9, <1>10 DEF AxLoose
  <2> QED
    BY <1>1, <1>5, <1>8, <2>1, <2>2 DEF AxCame
<1>11. CASE what = "write"
  <2>1. AxLoose(s, c)
    BY <1>0, <1>1, <1>4, <1>6, <1>8, <1>9, <1>11 DEF AxLoose
  <2>2. AxLoose(s, b)
    BY <1>0, <1>1, <1>4, <1>7, <1>8, <1>9, <1>11 DEF AxLoose
  <2> QED
    BY <1>1, <1>5, <1>8, <2>1, <2>2 DEF AxCame
<1> QED
  BY <1>10, <1>11

\* What is in flight while both connections are relayed.
LEMMA AxRelaying ==
  ASSUME AxSession(h), \A a \in Ax!Conns : AxFlow(AxThis, a), NEW c \in Ax!Conns
  PROVE  /\ <<c, "read">> \in pending <=> h[c].rd = "busy"
         /\ <<c, "write">> \in pending <=> h[c].wr = "busy"
<1>1. Ax!Other(c) \in Ax!Conns /\ Ax!Other(Ax!Other(c)) = c
  BY DEF Ax!Conns, Ax!Other
<1> QED
  BY <1>1, AxFlows

\* conn_read_done.
LEMMA AxReadDone ==
  ASSUME SessionFaults = {}, AxInv, NEW c \in Ax!Conns, Ax!conn_read_done(c)
  PROVE  AxInv'
<1>1. <<c, "read">> \in pending
  BY DEF Ax!conn_read_done
<1>2. AxSession(h)
  BY AxUnfold
<1>3. \/ /\ c = "incoming" /\ h.state \in {"handshake", "req_parse"} /\ AxTimed(h)
         /\ AxHere("busy", "stop", {<<"incoming", "read">>})
      \/ /\ h.state = "proxy" /\ AxTimed(h) /\ pending \subseteq AxRelays
         /\ \A a \in Ax!Conns : AxFlow(AxThis, a)
  <2>1. ~(pending \subseteq AxLast) /\ pending # {}
    BY <1>1 DEF AxLast
  <2>2. /\ pending = {<<"incoming", "read">>} => c = "incoming"
        /\ pending # {<<"incoming", "write">>} /\ pending # {<<"outgoing", "lookup">>}
        /\ pending # {<<"outgoing", "connect">>}
    BY <1>1
  <2> QED
    BY <2>1, <2>2, AxUnfold DEF AxHere
<1>4. h[c].rd = "busy"
  BY <1>1, <1>2, <1>3, AxRelaying DEF AxHere, AxAt
<1>5. PICK result, u, s :
        /\ u = Ax!Ends(<<c, "read">>) /\ s = [u EXCEPT ![c].rd = "done", ![c].result = result] /\ Ax!Runs(s)
  BY <1>4 DEF Ax!conn_read_done
<1>6. AxTakes(u, <<c, "read">>) /\ AxSession(u) /\ u[c] = h[c] /\ AxConn(h[c])
  BY <1>2, <1>5, AxEnds, AxOne DEF AxTakes, AxSame, Ax!Conns
<1>7. s = AxResult(u, c, "done", h[c].wr, result)
  <2>1. PICK x, y : x = u[c] /\ y = [rd |-> "done", wr |-> x.wr, result |-> result, timer |-> x.timer]
    OBVIOUS
  <2>2. x = [rd |-> x.rd, wr |-> x.wr, result |-> x.result, timer |-> x.timer]
    BY <1>6, <2>1 DEF AxConn
  <2>3. y = [x EXCEPT !.rd = "done", !.result = result]
    <3>1. PICK m : m = [rd |-> "done", wr |-> x.wr, result |-> x.result, timer |-> x.timer]
      OBVIOUS
    <3>2. m = [x EXCEPT !.rd = "done"]
      BY ONLY <2>2, <3>1
    <3>3. y = [m EXCEPT !.result = result]
      BY ONLY <2>1, <3>1
    <3> QED
      BY ONLY <3>2, <3>3
  <2>4. s = [u EXCEPT ![c] = y]
    BY <1>5, <2>1, <2>3
  <2> QED
    BY <1>6, <2>1, <2>4 DEF AxResult
<1>8. AxCame(s)
  <2>1. CASE /\ c = "incoming" /\ h.state \in {"handshake", "req_parse"} /\ AxTimed(h)
             /\ AxHere("busy", "stop", {<<"incoming", "read">>})
    <3>1. /\ AxSame(u, s) /\ s[Ax!Other(c)] = u[Ax!Other(c)] /\ s.p = u.p
          /\ s[c] = [rd |-> "done", wr |-> h[c].wr, result |-> result, timer |-> u[c].timer]
      BY ONLY <1>6, <1>7, AxResults, c \in Ax!Conns
    <3>2. Ax!Other(c) = "outgoing"
      BY <2>1 DEF Ax!Other
    <3> QED
      BY <1>6, <2>1, <3>1, <3>2 DEF AxCame, AxGot, AxTakes, AxSame, AxHere, AxAt, AxTimed
  <2>2. CASE h.state = "proxy" /\ AxTimed(h) /\ pending \subseteq AxRelays /\ \A a \in Ax!Conns : AxFlow(AxThis, a)
    BY <1>1, <1>2, <1>6, <1>7, <2>2, AxRelayed
  <2> QED
    BY <1>3, <2>1, <2>2
<1> QED
  BY <1>3, <1>5, <1>8, AxRuns

\* After a request was cancelled the session is as it was.
LEMMA AxCancelled ==
  ASSUME SessionFaults = {}, AxInv, NEW c \in Ax!Conns, NEW what \in {"write", "connect"},
         Ax!Cancelled(what, c)
  PROVE  AxInv'
<1>1. <<c, "close">> \in pending /\ pending' = pending \ {<<c, what>>} /\ UNCHANGED <<h, pc, hist>>
  BY DEF Ax!Cancelled, Ax!Closing
<1>2. AxDying(AxThis) /\ h.state = "almost_dead" /\ AxSession(h) /\ AxThis.p = pending
  <2>1. ~(pending \subseteq AxRelays) /\ pending # {}
    BY <1>1 DEF AxRelays
  <2>2. /\ pending # {<<"incoming", "read">>} /\ pending # {<<"incoming", "write">>}
        /\ pending # {<<"outgoing", "lookup">>} /\ pending # {<<"outgoing", "connect">>}
    BY <1>1
  <2> QED
    BY <2>1, <2>2, AxUnfold, AxIs DEF AxHere
<1>3. PICK s, t : s = AxThis /\ t = AxThis'
  OBVIOUS
<1>4. /\ s = [state |-> h.state, fin |-> h.fin, incoming |-> h.incoming, outgoing |-> h.outgoing,
              addr |-> h.addr, p |-> pending]
      /\ t = [state |-> h.state, fin |-> h.fin, incoming |-> h.incoming, outgoing |-> h.outgoing,
              addr |-> h.addr, p |-> pending \ {<<c, what>>}]
  BY <1>1, <1>2, <1>3 DEF AxThis, Ax!This, AxSession
<1>5. \A d \in Ax!Conns, k \in {"close", "timer_close"} :
        /\ <<d, k>> \in t.p <=> <<d, k>> \in s.p
        /\ AxToCome(t.p, <<d, k>>) = AxToCome(s.p, <<d, k>>)
  BY <1>4 DEF AxToCome
<1>6. "incoming" \in Ax!Conns /\ "outgoing" \in Ax!Conns
  BY DEF Ax!Conns
<1>7. AxSession(t)
  BY <1>2, <1>4 DEF AxSession
<1>8. AxDying(t)
  <2>1. AxDying(s)
    BY <1>2, <1>3
  <2>2. t.state = s.state /\ t.fin = s.fin /\ t.incoming = s.incoming /\ t.outgoing = s.outgoing
        /\ t.p \subseteq s.p
    BY <1>4
  <2> QED
    BY <1>5, <1>6, <2>1, <2>2 DEF AxDying
<1> QED
  BY <1>1, <1>3, <1>7, <1>8 DEF AxInv, AxRest

\* conn_write_done.
LEMMA AxWriteDone ==
  ASSUME SessionFaults = {}, AxInv, NEW c \in Ax!Conns, Ax!conn_write_done(c)
  PROVE  AxInv'
<1>1. <<c, "write">> \in pending
  BY DEF Ax!conn_write_done
<1>2. AxSession(h)
  BY AxUnfold
<1>3. CASE Ax!Cancelled("write", c)
  BY <1>3, AxCancelled
<1>4. CASE ~Ax!Cancelled("write", c)
  <2>0. <<c, "close">> \notin pending
    BY <1>4 DEF Ax!conn_write_done, Ax!Closing, Ax!May
  <2>1. \/ /\ c = "incoming" /\ h.state \in {"req_start", "proxy_start", "kill"} /\ AxTimed(h)
           /\ AxHere("stop", "busy", {<<"incoming", "write">>})
        \/ /\ h.state = "proxy" /\ AxTimed(h) /\ pending \subseteq AxRelays
           /\ \A a \in Ax!Conns : AxFlow(AxThis, a)
    <3>1. ~AxDying(AxThis)
      BY <1>1, <1>2, <2>0, AxIs DEF AxDying
    <3> QED
      <4>1. /\ pending = {<<"incoming", "write">>} => c = "incoming"
            /\ pending # {<<"incoming", "read">>} /\ pending # {<<"outgoing", "lookup">>}
            /\ pending # {<<"outgoing", "connect">>} /\ pending # {}
        BY <1>1
      <4> QED
        BY <3>1, <4>1, AxUnfold DEF AxHere
  <2>2. h[c].wr = "busy"
    BY <1>1, <1>2, <2>1, AxRelaying DEF AxHere, AxAt
  <2>3. PICK result, u, s :
          /\ u = Ax!Ends(<<c, "write">>) /\ s = [u EXCEPT ![c].wr = "done", ![c].result = result] /\ Ax!Runs(s)
    BY <1>4, <2>2 DEF Ax!conn_write_done
  <2>4. AxTakes(u, <<c, "write">>) /\ AxSession(u) /\ u[c] = h[c] /\ AxConn(h[c])
    BY <1>2, <2>3, AxEnds, AxOne DEF AxTakes, AxSame, Ax!Conns
  <2>5. s = AxResult(u, c, h[c].rd, "done", result)
    <3>1. PICK x, y : x = u[c] /\ y = [rd |-> x.rd, wr |-> "done", result |-> result, timer |-> x.timer]
      OBVIOUS
    <3>2. x = [rd |-> x.rd, wr |-> x.wr, result |-> x.result, timer |-> x.timer]
      BY <2>4, <3>1 DEF AxConn
    <3>3. y = [x EXCEPT !.wr = "done", !.result = result]
      <4>1. PICK m : m = [rd |-> x.rd, wr |-> "done", result |-> x.result, timer |-> x.timer]
        OBVIOUS
      <4>2. m = [x EXCEPT !.wr = "done"]
        BY ONLY <3>2, <4>1
      <4>3. y = [m EXCEPT !.result = result]
        BY ONLY <3>1, <4>1
      <4> QED
        BY ONLY <4>2, <4>3
    <3>4. s = [u EXCEPT ![c] = y]
      BY <2>3, <3>1, <3>3
    <3> QED
      BY <2>4, <3>1, <3>4 DEF AxResult
  <2>6. AxCame(s)
    <3>1. CASE /\ c = "incoming" /\ h.state \in {"req_start", "proxy_start", "kill"} /\ AxTimed(h)
               /\ AxHere("stop", "busy", {<<"incoming", "write">>})
      <4>1. /\ AxSame(u, s) /\ s[Ax!Other(c)] = u[Ax!Other(c)] /\ s.p = u.p
            /\ s[c] = [rd |-> h[c].rd, wr |-> "done", result |-> result, timer |-> u[c].timer]
        BY ONLY <2>4, <2>5, AxResults, c \in Ax!Conns
      <4>2. Ax!Other(c) = "outgoing"
        BY <3>1 DEF Ax!Other
      <4> QED
        BY <2>4, <3>1, <4>1, <4>2 DEF AxCame, AxGot, AxTakes, AxSame, AxHere, AxAt, AxTimed
    <3>2. CASE h.state = "proxy" /\ AxTimed(h) /\ pending \subseteq AxRelays /\ \A a \in Ax!Conns : AxFlow(AxThis, a)
      BY <1>1, <1>2, <2>4, <2>5, <3>2, AxRelayed
    <3> QED
      BY <2>1, <3>1, <3>2
  <2> QED
    BY <2>1, <2>3, <2>6, AxRuns
<1> QED
  BY <1>3, <1>4

\* conn_connect_done.
LEMMA AxConnectDone ==
  ASSUME SessionFaults = {}, AxInv, Ax!conn_connect_done
  PROVE  AxInv'
<1>0. PICK c : c = "outgoing"
  OBVIOUS
<1>1. <<c, "connect">> \in pending /\ c \in Ax!Conns /\ Ax!Other(c) = "incoming"
  BY <1>0 DEF Ax!conn_connect_done, Ax!Conns, Ax!Other
<1>2. AxSession(h)
  BY AxUnfold
<1>3. CASE Ax!Cancelled("connect", c)
  BY <1>1, <1>3, AxCancelled
<1>4. CASE ~Ax!Cancelled("connect", c)
  <2>0. <<c, "close">> \notin pending
    BY <1>0, <1>4 DEF Ax!conn_connect_done, Ax!Closing, Ax!May
  <2>1. h.state = "req_connect" /\ AxTimed(h) /\ AxHere("stop", "stop", {<<"outgoing", "connect">>})
    <3>1. ~AxDying(AxThis)
      BY <1>1, <1>2, <2>0, AxIs DEF AxDying
    <3>2. /\ pending # {<<"incoming", "write">>} /\ pending # {<<"incoming", "read">>}
          /\ pending # {<<"outgoing", "lookup">>} /\ pending # {} /\ ~(pending \subseteq AxRelays)
      BY <1>1 DEF AxRelays
    <3> QED
      BY <3>1, <3>2, AxUnfold DEF AxHere
  <2>2. PICK result, u, s :
          /\ u = Ax!Ends(<<c, "connect">>) /\ s = [u EXCEPT !.outgoing.result = result] /\ Ax!Runs(s)
    BY <1>0, <1>4 DEF Ax!conn_connect_done
  <2>3. AxTakes(u, <<c, "connect">>) /\ AxSession(u) /\ u[c] = h[c] /\ AxConn(h[c])
    BY <1>1, <1>2, <2>2, AxEnds, AxOne DEF AxTakes, AxSame, Ax!Conns
  <2>4. s = AxResult(u, c, h[c].rd, h[c].wr, result)
    <3>1. PICK x, y : x = u[c] /\ y = [rd |-> x.rd, wr |-> x.wr, result |-> result, timer |-> x.timer]
      OBVIOUS
    <3>2. x = [rd |-> x.rd, wr |-> x.wr, result |-> x.result, timer |-> x.timer]
      BY <2>3, <3>1 DEF AxConn
    <3>3. y = [x EXCEPT !.result = result]
      BY ONLY <3>1, <3>2
    <3>4. s = [u EXCEPT ![c] = y]
      BY <1>0, <2>2, <3>1, <3>3
    <3> QED
      BY <2>3, <3>1, <3>4 DEF AxResult
  <2>5. /\ AxSame(u, s) /\ s[Ax!Other(c)] = u[Ax!Other(c)] /\ s.p = u.p
        /\ s[c] = [rd |-> h[c].rd, wr |-> h[c].wr, result |-> result, timer |-> u[c].timer]
    BY ONLY <1>1, <2>3, <2>4, AxResults
  <2>6. AxGot(s, "stop", "stop") /\ s.state = "req_connect"
    BY <1>0, <1>1, <2>1, <2>3, <2>5 DEF AxGot, AxTakes, AxSame, AxHere, AxAt, AxTimed
  <2> QED
    BY <2>1, <2>2, <2>6, AxRuns DEF AxCame
<1> QED
  BY <1>3, <1>4

\* conn_getaddrinfo_done: the address is there when there is no error.
LEMMA AxLookupDone ==
  ASSUME SessionFaults = {}, AxInv, Ax!conn_getaddrinfo_done
  PROVE  AxInv'
<1>0. PICK c : c = "outgoing"
  OBVIOUS
<1>1. <<c, "lookup">> \in pending /\ c \in Ax!Conns /\ Ax!Other(c) = "incoming"
  BY <1>0 DEF Ax!conn_getaddrinfo_done, Ax!Conns, Ax!Other
<1>2. AxSession(h)
  BY AxUnfold
<1>3. h.state = "req_lookup" /\ AxTimed(h) /\ AxHere("stop", "stop", {<<"outgoing", "lookup">>})
  <2>1. /\ pending # {<<"incoming", "write">>} /\ pending # {<<"incoming", "read">>}
        /\ pending # {<<"outgoing", "connect">>} /\ pending # {} /\ ~(pending \subseteq AxRelays)
        /\ ~(pending \subseteq AxLast)
    BY <1>1 DEF AxRelays, AxLast
  <2> QED
    BY <2>1, AxUnfold DEF AxHere
<1>4. PICK result \in {"ok", "error"} :
        Ax!Runs([Ax!Ends(<<c, "lookup">>) EXCEPT !.outgoing.result = result, !.addr = (result = "ok")])
  BY <1>0 DEF Ax!conn_getaddrinfo_done
<1>5. PICK u, s, v, b :
        /\ u = Ax!Ends(<<c, "lookup">>) /\ s = [u EXCEPT !.outgoing.result = result]
        /\ b = (result = "ok") /\ v = [s EXCEPT !.addr = b]
  OBVIOUS
<1>6. Ax!Runs(v)
  BY <1>4, <1>5
<1>7. AxTakes(u, <<c, "lookup">>) /\ AxSession(u) /\ u[c] = h[c] /\ AxConn(h[c])
  BY <1>1, <1>2, <1>5, AxEnds, AxOne DEF AxTakes, AxSame, Ax!Conns
<1>8. s = AxResult(u, c, h[c].rd, h[c].wr, result)
  <2>1. PICK x, y : x = u[c] /\ y = [rd |-> x.rd, wr |-> x.wr, result |-> result, timer |-> x.timer]
    OBVIOUS
  <2>2. x = [rd |-> x.rd, wr |-> x.wr, result |-> x.result, timer |-> x.timer]
    BY <1>7, <2>1 DEF AxConn
  <2>3. y = [x EXCEPT !.result = result]
    BY ONLY <2>1, <2>2
  <2>4. s = [u EXCEPT ![c] = y]
    BY <1>0, <1>5, <2>1, <2>3
  <2> QED
    BY <1>7, <2>1, <2>4 DEF AxResult
<1>9. /\ AxSame(u, s) /\ s[Ax!Other(c)] = u[Ax!Other(c)] /\ s.p = u.p
      /\ s[c] = [rd |-> h[c].rd, wr |-> h[c].wr, result |-> result, timer |-> u[c].timer]
  BY ONLY <1>1, <1>7, <1>8, AxResults
<1>10. v = [state |-> s.state, fin |-> s.fin, incoming |-> s.incoming, outgoing |-> s.outgoing,
            addr |-> b, p |-> s.p]
  BY <1>5, <1>9 DEF AxSame, AxSession
<1>11. AxSession(v) /\ v.addr = b /\ v.state = s.state /\ v.p = s.p
       /\ v.incoming = s.incoming /\ v.outgoing = s.outgoing
  BY <1>9, <1>10 DEF AxSame, AxSession
<1>12. AxGot(v, "stop", "stop") /\ v.state = "req_lookup"
  BY <1>0, <1>1, <1>3, <1>7, <1>9, <1>11 DEF AxGot, AxTakes, AxSame, AxHere, AxAt, AxTimed
<1>13. Ax!Bad(v.outgoing.result) \/ v.addr = TRUE
  <2>1. v.outgoing.result = result
    BY <1>0, <1>9, <1>11
  <2>2. CASE result = "ok"
    BY <1>5, <1>11, <2>2
  <2>3. CASE result = "error"
    BY <2>1, <2>3 DEF Ax!Bad
  <2> QED
    BY <2>2, <2>3
<1>14. AxCame(v)
  BY <1>12, <1>13 DEF AxCame
<1> QED
  BY <1>3, <1>6, <1>14, AxRuns

\* conn_timer_expire, while data is relayed or the last answer is written.
LEMMA AxTimerExpires ==
  ASSUME SessionFaults = {}, AxInv, NEW c \in Ax!Conns, Ax!conn_timer_expire(c)
  PROVE  AxInv'
<1>1. h.state \in {"proxy", "kill"} /\ AxSession(h)
  BY AxUnfold DEF Ax!conn_timer_expire, Ax!May
<1>2. PICK s : s = [Ax!This EXCEPT ![c].timer = FALSE, ![c].result = "timeout"] /\ Ax!Runs(s)
  BY DEF Ax!conn_timer_expire, Ax!May
<1>3. PICK u : u = AxThis
  OBVIOUS
<1>4. AxSame(h, u) /\ u.p = pending /\ u.incoming = h.incoming /\ u.outgoing = h.outgoing
  BY <1>1, <1>3, AxIs
<1>5. AxSession(u) /\ AxConn(u[c])
  BY <1>4, AxOne DEF AxSame
<1>6. PICK x, b, y : x = u[c] /\ b = FALSE /\ y = [rd |-> x.rd, wr |-> x.wr, result |-> "timeout", timer |-> b]
  OBVIOUS
<1>7. s = AxUpdate(u, c, y) /\ AxConn(y)
  <2>1. x = [rd |-> x.rd, wr |-> x.wr, result |-> x.result, timer |-> x.timer]
    BY <1>5, <1>6 DEF AxConn
  <2>2. PICK m : m = [rd |-> x.rd, wr |-> x.wr, result |-> x.result, timer |-> b]
    OBVIOUS
  <2>3. m = [x EXCEPT !.timer = b]
    BY ONLY <2>1, <2>2
  <2>4. y = [m EXCEPT !.result = "timeout"]
    BY ONLY <1>6, <2>2
  <2>5. s = [u EXCEPT ![c] = y]
    BY <1>2, <1>3, <1>6, <2>3, <2>4 DEF AxThis
  <2>6. AxConn(y)
    BY <1>6 DEF AxConn
  <2> QED
    BY <2>5, <2>6 DEF AxUpdate
<1>8. AxSame(u, s) /\ s[c] = y /\ s[Ax!Other(c)] = u[Ax!Other(c)] /\ s.p = u.p
  BY ONLY <1>5, <1>7, AxPut, c \in Ax!Conns
<1>9. AxSession(s) /\ s.state = h.state /\ s.p = pending
  BY <1>4, <1>8 DEF AxSame
<1>10. Ax!Bad(s.incoming.result) \/ Ax!Bad(s.outgoing.result)
  BY <1>6, <1>8 DEF Ax!Bad, Ax!Conns
<1>11. CASE h.state = "kill"
  <2>1. pending = {<<"incoming", "write">>}
    BY <1>11, AxUnfold DEF AxHere
  <2> QED
    BY <1>2, <1>9, <1>11, <2>1, AxRuns DEF AxCame
<1>12. CASE h.state = "proxy"
  <2>1. pending \subseteq AxRelays /\ AxTimed(h)
    BY <1>12, AxUnfold
  <2>2. AxRest(Ax!do_kill(s))
    <3>1. s.p \subseteq Ax!Conns \X {"read", "write", "connect"}
      BY <1>9, <2>1 DEF AxRelays
    <3> QED
      BY <1>9, <1>12, <3>1, AxKills
  <2>3. Ax!do_next(s) = {Ax!do_kill(s)}
    BY <1>9, <1>10, <1>12 DEF Ax!do_next, Ax!do_proxy
  <2>4. pc = "live" /\ hist = {}
    BY <1>12 DEF AxInv
  <2>5. PICK t : /\ t = Ax!do_kill(s) /\ h' = [t EXCEPT !.p = {}] /\ pending' = t.p
                 /\ pc' = IF t.state = "dead" THEN "freed" ELSE "live"
    BY <1>2, <2>3, <2>4 DEF Ax!Runs
  <2>6. hist' = {}
    BY <1>2, <2>4 DEF Ax!Runs
  <2> QED
    BY <2>2, <2>5, <2>6, AxLeft
<1> QED
  BY <1>1, <1>11, <1>12

\* conn_close_done.
LEMMA AxCloseDone ==
  ASSUME SessionFaults = {}, AxInv, NEW c \in Ax!Conns, NEW what \in {"close", "timer_close"},
         Ax!conn_close_done(c, what)
  PROVE  AxInv'
<1>1. /\ <<c, what>> \in pending
      /\ what = "close" => <<c, "write">> \notin pending /\ <<c, "connect">> \notin pending
  BY DEF Ax!conn_close_done
<1>2. AxDying(AxThis) /\ h.state = "almost_dead" /\ AxSession(h) /\ AxThis.p = pending
  <2>1. ~(pending \subseteq AxRelays) /\ pending # {}
    BY <1>1 DEF AxRelays
  <2>2. /\ pending # {<<"incoming", "read">>} /\ pending # {<<"incoming", "write">>}
        /\ pending # {<<"outgoing", "lookup">>} /\ pending # {<<"outgoing", "connect">>}
    BY <1>1
  <2> QED
    BY <2>1, <2>2, AxUnfold, AxIs DEF AxHere
<1>3. PICK s : s = Ax!Ends(<<c, what>>) /\ Ax!Runs(s)
  BY DEF Ax!conn_close_done
<1>4. AxTakes(s, <<c, what>>)
  BY <1>2, <1>3, AxEnds
<1>5. PICK r : r = AxThis
  OBVIOUS
<1>6. /\ s.p = pending \ {<<c, what>>} /\ AxSession(s) /\ s.state = "almost_dead" /\ s.fin = r.fin
      /\ s.incoming = r.incoming /\ s.outgoing = r.outgoing /\ r.p = pending /\ AxDying(r)
  BY <1>2, <1>4, <1>5, AxIs DEF AxTakes, AxSame
<1>7. \A d \in Ax!Conns, k \in {"close", "timer_close"} :
        AxToCome(s.p, <<d, k>>) = IF d = c /\ k = what THEN 0 ELSE AxToCome(r.p, <<d, k>>)
  BY <1>6 DEF AxToCome
<1>8. AxToCome(r.p, <<c, what>>) = 1
  BY <1>1, <1>6 DEF AxToCome
<1>9. PICK x, y, z, w :
        /\ x = AxToCome(r.p, <<"incoming", "close">>) /\ y = AxToCome(r.p, <<"incoming", "timer_close">>)
        /\ z = AxToCome(r.p, <<"outgoing", "close">>) /\ w = AxToCome(r.p, <<"outgoing", "timer_close">>)
  OBVIOUS
<1>10. x \in {0, 1} /\ y \in {0, 1} /\ z \in {0, 1} /\ w \in {0, 1}
  BY <1>9 DEF AxToCome
<1>11. s.fin = 5 - x - y - z - w
  BY <1>6, <1>9 DEF AxDying
<1>12. PICK x1, y1, z1, w1 :
         /\ x1 = AxToCome(s.p, <<"incoming", "close">>) /\ y1 = AxToCome(s.p, <<"incoming", "timer_close">>)
         /\ z1 = AxToCome(s.p, <<"outgoing", "close">>) /\ w1 = AxToCome(s.p, <<"outgoing", "timer_close">>)
  OBVIOUS
<1>13. "incoming" \in Ax!Conns /\ "outgoing" \in Ax!Conns
  BY DEF Ax!Conns
<1>14. \/ c = "incoming" /\ what = "close" /\ x = 1 /\ x1 = 0 /\ y1 = y /\ z1 = z /\ w1 = w
       \/ c = "incoming" /\ what = "timer_close" /\ y = 1 /\ y1 = 0 /\ x1 = x /\ z1 = z /\ w1 = w
       \/ c = "outgoing" /\ what = "close" /\ z = 1 /\ z1 = 0 /\ x1 = x /\ y1 = y /\ w1 = w
       \/ c = "outgoing" /\ what = "timer_close" /\ w = 1 /\ w1 = 0 /\ x1 = x /\ y1 = y /\ z1 = z
  <2>1. c = "incoming" \/ c = "outgoing"
    BY DEF Ax!Conns
  <2>2. x1 = (IF "incoming" = c /\ "close" = what THEN 0 ELSE x)
    BY <1>7, <1>9, <1>12, <1>13
  <2>3. y1 = (IF "incoming" = c /\ "timer_close" = what THEN 0 ELSE y)
    BY <1>7, <1>9, <1>12, <1>13
  <2>4. z1 = (IF "outgoing" = c /\ "close" = what THEN 0 ELSE z)
    BY <1>7, <1>9, <1>12, <1>13
  <2>5. w1 = (IF "outgoing" = c /\ "timer_close" = what THEN 0 ELSE w)
    BY <1>7, <1>9, <1>12, <1>13
  <2> QED
    BY <1>8, <1>9, <2>1, <2>2, <2>3, <2>4, <2>5
<1>15. s.fin = 4 - x1 - y1 - z1 - w1
  BY ONLY <1>10, <1>11, <1>14
<1>16. AxClosed(s)
  <2>1. s.fin = 4 - AxToCome(s.p, <<"incoming", "close">>) - AxToCome(s.p, <<"incoming", "timer_close">>)
                  - AxToCome(s.p, <<"outgoing", "close">>) - AxToCome(s.p, <<"outgoing", "timer_close">>)
    BY <1>12, <1>15
  <2>2. \A d \in Ax!Conns :
          <<d, "write">> \in s.p \/ <<d, "connect">> \in s.p => <<d, "close">> \in s.p
    BY <1>1, <1>6 DEF AxDying
  <2> QED
    BY <1>6, <2>1, <2>2 DEF AxClosed, AxDying
<1> QED
  BY <1>2, <1>3, <1>16, AxRuns DEF AxCame

\* Every callback leaves the session in its invariant.
LEMMA AxNext ==
  ASSUME SessionFaults = {}
  PROVE  AxInv /\ [Ax!Next]_(Ax!vars) => AxInv'
<1> SUFFICES ASSUME AxInv, [Ax!Next]_(Ax!vars) PROVE AxInv'
  OBVIOUS
<1>1. CASE UNCHANGED Ax!vars
  BY <1>1 DEF Ax!vars, AxInv, AxThis, Ax!This
<1>2. CASE Ax!HandlerStep
  BY <1>2, AxWriteDone, AxCloseDone, AxConnectDone, AxLookupDone DEF Ax!HandlerStep
<1>3. CASE Ax!OtherStep
  BY <1>3, AxReadDone, AxTimerExpires DEF Ax!OtherStep
<1> QED
  BY <1>1, <1>2, <1>3 DEF Ax!Next

\* What the properties say of a session follows.
LEMMA AxFollows == AxInv => Ax!PendingExact /\ Ax!Armed /\ Ax!Sane
<1> SUFFICES ASSUME AxInv PROVE Ax!PendingExact /\ Ax!Armed /\ Ax!Sane
  OBVIOUS
<1>1. AxSession(h)
  BY AxUnfold
<1>2. h.state # "aborted" /\ hist = {} /\ (pc = "freed" => pending = {})
  <2>1. pc = "freed" => h.state = "dead"
    BY DEF AxInv
  <2>2. h.state = "dead" => pending = {}
    BY AxUnfold
  <2> QED
    BY <2>1, <2>2, AxUnfold DEF AxInv
<1>3. Ax!Sane
  BY <1>2 DEF Ax!Sane, Ax!FreedLast
<1>4. Ax!Armed
  <2>1. h.state \in {"handshake", "req_start", "req_parse", "req_lookup", "req_connect", "proxy_start",
                     "proxy", "kill"} => \E c \in Ax!Conns : h[c].timer
    BY AxUnfold DEF AxTimed, Ax!Conns
  <2>2. ASSUME h.state = "proxy"
        PROVE  <<"incoming", "read">> \in pending \/ <<"outgoing", "write">> \in pending
    <3>1. "outgoing" \in Ax!Conns /\ Ax!Other("outgoing") = "incoming" /\ AxFlow(AxThis, "outgoing")
      BY <2>2, AxUnfold DEF Ax!Conns, Ax!Other
    <3> QED
      BY <1>1, <3>1, AxFlows
  <2> QED
    BY <2>1, <2>2 DEF Ax!Armed
<1>5. Ax!PendingExact
  <2> SUFFICES ASSUME pc = "live", NEW c \in Ax!Conns
               PROVE  /\ h[c].rd = "busy" <=> <<c, "read">> \in pending
                      /\ ~Ax!Closing(c) => (h[c].wr = "busy" <=> <<c, "write">> \in pending)
                      /\ <<c, "read">> \in pending /\ h.state = "proxy" => <<Ax!Other(c), "write">> \notin pending
                      /\ h[c].rd = "done" => <<c, "read">> \notin pending
    BY DEF Ax!PendingExact
  <2>1. CASE h.state = "proxy"
    <3>1. \A a \in Ax!Conns : AxFlow(AxThis, a)
      BY <2>1, AxUnfold
    <3>2. /\ <<c, "read">> \in pending <=> h[c].rd = "busy"
          /\ <<c, "write">> \in pending <=> h[c].wr = "busy"
      BY <1>1, <3>1, AxRelaying
    <3>3. <<c, "read">> \in pending => <<Ax!Other(c), "write">> \notin pending
      <4>1. Ax!Other(c) \in Ax!Conns /\ Ax!Other(Ax!Other(c)) = c
        BY DEF Ax!Conns, Ax!Other
      <4> QED
        BY <1>1, <3>1, <4>1, AxFlows
    <3> QED
      BY <3>2, <3>3
  <2>2. CASE AxDying(AxThis) /\ h.state = "almost_dead"
    <3>1. pending \subseteq AxLast /\ h[c].rd = "dead" /\ h[c].wr = "dead"
          /\ (<<c, "write">> \in pending => <<c, "close">> \in pending)
      BY <1>1, <2>2, AxIs DEF AxDying, AxAt, Ax!Conns
    <3>2. <<c, "read">> \notin pending
      BY <3>1 DEF AxLast
    <3> QED
      BY <2>2, <3>1, <3>2 DEF Ax!Closing
  <2>3. CASE AxHere("busy", "stop", {<<"incoming", "read">>}) /\ h.state # "proxy"
    BY <2>3 DEF AxHere, AxAt, Ax!Conns
  <2>4. CASE AxHere("stop", "busy", {<<"incoming", "write">>}) /\ h.state # "proxy"
    BY <2>4 DEF AxHere, AxAt, Ax!Conns
  <2>5. CASE /\ h.state # "proxy"
             /\ \/ AxHere("stop", "stop", {<<"outgoing", "lookup">>})
                \/ AxHere("stop", "stop", {<<"outgoing", "connect">>})
    BY <2>5 DEF AxHere, AxAt, Ax!Conns
  <2>6. h.state # "dead"
    BY DEF AxInv
  <2> QED
    BY <2>1, <2>2, <2>3, <2>4, <2>5, <2>6, AxUnfold
<1> QED
  BY <1>3, <1>4, <1>5

-----------------------------------------------------------------------------
(* A session is freed last, although its timers expire in any state and    *)
(* its requests fail: a timer in the wrong state stops it in an assertion, *)
(* which keeps it from being freed.  Left out are a timer that expires     *)
(* while an address is looked up, and a request that has completed when    *)
(* its connection is closed.                                               *)

AfRequests == Ax!Conns \X {"read", "write", "connect"}

\* While nothing is closed: a lookup is in flight in the one state only that
\* waits for it, since those before it have what they read or write in flight.
AfOpen(s) ==
  \/ /\ s.state \in {"handshake", "req_parse"} /\ s.p \subseteq {<<"incoming", "read">>}
     /\ s.incoming.rd = "busy"
  \/ /\ s.state = "req_start" /\ s.p \subseteq {<<"incoming", "write">>}
     /\ s.incoming.wr = "busy"
  \/ s.state = "req_lookup" /\ s.p \subseteq {<<"outgoing", "lookup">>}
  \/ s.state \in {"req_connect", "proxy_start", "proxy", "kill"} /\ s.p \subseteq AfRequests
  \/ s.state = "aborted"

\* The closes that have not ended, and the requests that end before them; all
\* closes are counted from 1, or from 0 if the connect after a lookup failed.
AfTorn(s, started) ==
  /\ s.state = "almost_dead" /\ s.p \subseteq AxLast
  /\ s.incoming.timer = FALSE /\ s.outgoing.timer = FALSE
  /\ \A c \in Ax!Conns :
       <<c, "write">> \in s.p \/ <<c, "connect">> \in s.p => <<c, "close">> \in s.p
  /\ \E k \in {0, 1} :
       s.fin = started - k
               - AxToCome(s.p, <<"incoming", "close">>) - AxToCome(s.p, <<"incoming", "timer_close">>)
               - AxToCome(s.p, <<"outgoing", "close">>) - AxToCome(s.p, <<"outgoing", "timer_close">>)

AfDying(s) == AfTorn(s, 5)
AfClosed(s) == AfTorn(s, 4)

AfRest(s) == AxSession(s) /\ (AfOpen(s) \/ AfDying(s) \/ AxDead(s))

\* An assertion fails.
LEMMA AfAborts ==
  ASSUME NEW s, AxSession(s), NEW t, t = Ax!Aborted(s)
  PROVE  AxSession(t) /\ t.state = "aborted" /\ t.p = s.p /\ AfRest(t)
<1>1. t = [state |-> "aborted", fin |-> s.fin, incoming |-> s.incoming, outgoing |-> s.outgoing,
           addr |-> s.addr, p |-> s.p]
  BY DEF Ax!Aborted, AxSession
<1> QED
  BY <1>1 DEF AxSession, AfRest, AfOpen

\* conn_read and conn_write, when it may be that one is under way.
LEMMA AfReads ==
  ASSUME NEW s, AxSession(s), NEW c \in Ax!Conns, NEW t, t = Ax!conn_read(s, c)
  PROVE  /\ AxSession(t)
         /\ \/ t.state = "aborted"
            \/ t.state = s.state /\ t.p = s.p \cup {<<c, "read">>} /\ t[c].rd = "busy"
<1>0. AxSession(s) /\ c \in Ax!Conns /\ t = Ax!conn_read(s, c)
  OBVIOUS
<1>1. CASE s[c].rd = "stop"
  <2>1. /\ AxSame(s, t) /\ t.p = s.p \cup {<<c, "read">>}
        /\ t[c] = [rd |-> "busy", wr |-> s[c].wr, result |-> s[c].result, timer |-> TRUE]
    BY ONLY <1>0, <1>1, AxReads
  <2>2. t[c].rd = "busy"
    BY ONLY <2>1
  <2> QED
    BY ONLY <2>1, <2>2 DEF AxSame
<1>2. CASE s[c].rd # "stop"
  BY <1>2, AfAborts DEF Ax!conn_read
<1> QED
  BY <1>1, <1>2

LEMMA AfWrites ==
  ASSUME NEW s, AxSession(s), NEW c \in Ax!Conns, NEW t, t = Ax!conn_write(s, c)
  PROVE  /\ AxSession(t)
         /\ \/ t.state = "aborted"
            \/ t.state = s.state /\ t.p = s.p \cup {<<c, "write">>} /\ t[c].wr = "busy"
<1>0. AxSession(s) /\ c \in Ax!Conns /\ t = Ax!conn_write(s, c)
  OBVIOUS
<1>1. CASE s[c].wr \in {"stop", "done"}
  <2>1. /\ AxSame(s, t) /\ t.p = s.p \cup {<<c, "write">>}
        /\ t[c] = [rd |-> s[c].rd, wr |-> "busy", result |-> s[c].result, timer |-> TRUE]
    BY ONLY <1>0, <1>1, AxWrites
  <2>2. t[c].wr = "busy"
    BY ONLY <2>1
  <2> QED
    BY ONLY <2>1, <2>2 DEF AxSame
<1>2. CASE s[c].wr \notin {"stop", "done"}
  BY <1>2, AfAborts DEF Ax!conn_write
<1> QED
  BY <1>1, <1>2

LEMMA AfTo ==
  ASSUME NEW s, AxSession(s), NEW state, NEW t, t = Ax!To(s, state)
  PROVE  /\ AxSession(t)
         /\ \/ t.state = "aborted" /\ s.state = "aborted"
            \/ t.state = state /\ t.p = s.p /\ t.incoming = s.incoming /\ s.state # "aborted"
<1>1. CASE s.state = "aborted"
  BY <1>1 DEF Ax!To
<1>2. CASE s.state # "aborted"
  BY <1>2, AxTo
<1> QED
  BY <1>1, <1>2

\* do_kill.
LEMMA AfKills ==
  ASSUME NEW s, AxSession(s), s.state # "almost_dead", s.p \subseteq AfRequests,
         NEW t, t = Ax!do_kill(s)
  PROVE  AfRest(t)
<1>1. PICK u : u = Ax!conn_close(s, "incoming")
  OBVIOUS
<1>2. "incoming" \in Ax!Conns /\ "outgoing" \in Ax!Conns
      /\ Ax!Other("incoming") = "outgoing" /\ Ax!Other("outgoing") = "incoming"
  BY DEF Ax!Conns, Ax!Other
<1>3. /\ AxSame(s, u) /\ u.outgoing = s.outgoing
      /\ u.p = (s.p \ {<<"incoming", "read">>}) \cup {<<"incoming", "close">>, <<"incoming", "timer_close">>}
      /\ u.incoming = [rd |-> "dead", wr |-> "dead", result |-> s.incoming.result, timer |-> FALSE]
  BY <1>1, <1>2, AxCloses
<1>4. AxSession(u) /\ u.state = s.state
  BY <1>3 DEF AxSame
<1>5. PICK v : v = Ax!conn_close(u, "outgoing")
  OBVIOUS
<1>6. /\ AxSame(u, v) /\ v.incoming = u.incoming
      /\ v.p = (u.p \ {<<"outgoing", "read">>}) \cup {<<"outgoing", "close">>, <<"outgoing", "timer_close">>}
      /\ v.outgoing = [rd |-> "dead", wr |-> "dead", result |-> u.outgoing.result, timer |-> FALSE]
  BY <1>2, <1>4, <1>5, AxCloses
<1>7. t = [v EXCEPT !.state = "almost_dead", !.fin = Ax!FirstFinalizer(s)]
  BY <1>1, <1>5 DEF Ax!do_kill
<1>8. PICK n : n = Ax!FirstFinalizer(s) /\ n \in {0, 1}
  BY DEF Ax!FirstFinalizer
<1>9. t = [state |-> "almost_dead", fin |-> n, incoming |-> v.incoming, outgoing |-> v.outgoing,
           addr |-> v.addr, p |-> v.p]
  BY <1>6, <1>7, <1>8 DEF AxSame, AxSession
<1>10. AxSession(t)
  BY <1>6, <1>9 DEF AxSame, AxSession
<1>11. t.p \subseteq AxLast /\ \A c \in Ax!Conns : <<c, "close">> \in t.p /\ <<c, "timer_close">> \in t.p
  <2>1. t.p = (s.p \ {<<"incoming", "read">>, <<"outgoing", "read">>}) \cup
              {<<"incoming", "close">>, <<"incoming", "timer_close">>, <<"outgoing", "close">>, <<"outgoing", "timer_close">>}
    BY <1>3, <1>6, <1>9
  <2> QED
    BY <2>1 DEF AxLast, AfRequests, Ax!Conns
<1>12. t.fin = n /\ t.state = "almost_dead"
  BY <1>9
<1>13. t.incoming.timer = FALSE /\ t.outgoing.timer = FALSE
  BY <1>3, <1>6, <1>9
<1>14. /\ AxToCome(t.p, <<"incoming", "close">>) = 1 /\ AxToCome(t.p, <<"incoming", "timer_close">>) = 1
       /\ AxToCome(t.p, <<"outgoing", "close">>) = 1 /\ AxToCome(t.p, <<"outgoing", "timer_close">>) = 1
  BY <1>2, <1>11 DEF AxToCome
<1>15. PICK k \in {0, 1} : n = 1 - k
  BY <1>8
<1>16. t.fin = 5 - k - AxToCome(t.p, <<"incoming", "close">>) - AxToCome(t.p, <<"incoming", "timer_close">>)
                 - AxToCome(t.p, <<"outgoing", "close">>) - AxToCome(t.p, <<"outgoing", "timer_close">>)
  BY ONLY <1>12, <1>14, <1>15
<1>17. AfDying(t)
  BY ONLY <1>11, <1>12, <1>13, <1>15, <1>16 DEF AfDying, AfTorn
<1> QED
  BY <1>10, <1>17 DEF AfRest

\* An answer is written to the client; after the greeting nothing else is in
\* flight.
LEMMA AfAnswers ==
  ASSUME NEW s, AxSession(s), s.p \subseteq AfRequests,
         NEW state \in {"req_start", "proxy_start", "kill"}, state = "req_start" => s.p = {},
         NEW t, t = Ax!To(Ax!conn_write(s, "incoming"), state)
  PROVE  AfRest(t)
<1>1. PICK u : u = Ax!conn_write(s, "incoming")
  OBVIOUS
<1>2. "incoming" \in Ax!Conns /\ <<"incoming", "write">> \in AfRequests
  BY DEF Ax!Conns, AfRequests
<1>3. /\ AxSession(u)
      /\ \/ u.state = "aborted"
         \/ u.p = s.p \cup {<<"incoming", "write">>} /\ u.incoming.wr = "busy"
  BY <1>1, <1>2, AfWrites
<1>4. /\ AxSession(t)
      /\ \/ t.state = "aborted"
         \/ t.state = state /\ t.p = u.p /\ t.incoming = u.incoming /\ u.state # "aborted"
  BY <1>1, <1>3, AfTo
<1> QED
  BY <1>2, <1>3, <1>4 DEF AfRest, AfOpen

\* The client is read from.
LEMMA AfListens ==
  ASSUME NEW s, AxSession(s), s.p = {}, NEW state \in {"handshake", "req_parse"},
         NEW t, t = Ax!To(Ax!conn_read(s, "incoming"), state)
  PROVE  AfRest(t)
<1>1. PICK u : u = Ax!conn_read(s, "incoming")
  OBVIOUS
<1>2. "incoming" \in Ax!Conns
  BY DEF Ax!Conns
<1>3. /\ AxSession(u)
      /\ \/ u.state = "aborted"
         \/ u.p = {<<"incoming", "read">>} /\ u.incoming.rd = "busy"
  BY <1>1, <1>2, AfReads
<1>4. /\ AxSession(t)
      /\ \/ t.state = "aborted"
         \/ t.state = state /\ t.p = u.p /\ t.incoming = u.incoming /\ u.state # "aborted"
  BY <1>1, <1>3, AfTo
<1> QED
  BY <1>3, <1>4 DEF AfRest, AfOpen

\* A request of the outgoing connection is started.
LEMMA AfGoesOut ==
  ASSUME NEW s, AxSession(s), s.p = {}, NEW what,
         NEW state, \/ state = "req_lookup" /\ what = "lookup"
                    \/ state = "req_connect" /\ what = "connect",
         NEW t, t = Ax!To(Ax!conn_timer_reset([s EXCEPT !.p = @ \cup {<<"outgoing", what>>}], "outgoing"), state)
  PROVE  AfRest(t)
<1>1. PICK q : q = s.p \cup {<<"outgoing", what>>}
  OBVIOUS
<1>2. PICK u : u = [s EXCEPT !.p = q]
  OBVIOUS
<1>3. PICK v : v = Ax!conn_timer_reset(u, "outgoing")
  OBVIOUS
<1>4. "outgoing" \in Ax!Conns
  BY DEF Ax!Conns
<1>5. AxSame(s, u) /\ u.p = q
  BY <1>2, <1>4, AxFly
<1>10. AxSession(u)
  BY <1>5 DEF AxSame
<1>6. AxSame(u, v) /\ v.p = u.p
  BY ONLY <1>3, <1>4, <1>10, AxTimer
<1>7. t = Ax!To(v, state) /\ AxSession(v)
  BY <1>1, <1>2, <1>3, <1>6 DEF AxSame
<1>8. AxSession(t) /\ (t.state = "aborted" \/ (t.state = state /\ t.p = v.p))
  BY <1>7, AfTo
<1>9. v.p = {<<"outgoing", what>>} /\ <<"outgoing", "connect">> \in AfRequests
  BY <1>1, <1>5, <1>6 DEF AfRequests, Ax!Conns
<1> QED
  BY <1>8, <1>9 DEF AfRest, AfOpen

\* What was read, or written, is over.
LEMMA AfReadOver ==
  ASSUME NEW s, AxSession(s), NEW t, t = [s EXCEPT !.incoming.rd = "stop"]
  PROVE  AxSession(t) /\ t.state = s.state /\ t.p = s.p
<1>1. PICK c : c = "incoming"
  OBVIOUS
<1>2. AxSession(s) /\ c \in Ax!Conns /\ t = AxRdTo(s, c, "stop")
  BY <1>1 DEF AxRdTo, Ax!Conns
<1>3. /\ AxSame(s, t) /\ t[Ax!Other(c)] = s[Ax!Other(c)] /\ t.p = s.p
      /\ t[c] = [rd |-> "stop", wr |-> s[c].wr, result |-> s[c].result, timer |-> s[c].timer]
  BY ONLY <1>2, AxRds
<1> QED
  BY <1>3 DEF AxSame

LEMMA AfWriteOver ==
  ASSUME NEW s, AxSession(s), NEW t, t = [s EXCEPT !.incoming.wr = "stop"]
  PROVE  AxSession(t) /\ t.state = s.state /\ t.p = s.p
<1>1. PICK c : c = "incoming"
  OBVIOUS
<1>2. AxSession(s) /\ c \in Ax!Conns /\ t = AxWrTo(s, c, "stop")
  BY <1>1 DEF AxWrTo, Ax!Conns
<1>3. /\ AxSame(s, t) /\ t[Ax!Other(c)] = s[Ax!Other(c)] /\ t.p = s.p
      /\ t[c] = [rd |-> s[c].rd, wr |-> "stop", result |-> s[c].result, timer |-> s[c].timer]
  BY ONLY <1>2, AxWrs
<1> QED
  BY <1>3 DEF AxSame

\* The states of the session, each with an assertion that may fail.
LEMMA AfMayKill ==
  ASSUME NEW s, AxSession(s), s.p = {}, s.state # "almost_dead"
  PROVE  AfRest(Ax!do_kill(s))
BY AfKills

LEMMA AfHandshake ==
  ASSUME NEW s, AxSession(s), s.state = "handshake", s.incoming.rd = "done" => s.p = {}, NEW x
  PROVE  AfRest(Ax!do_handshake(s, x))
<1>1. PICK t : t = [s EXCEPT !.incoming.rd = "stop"]
  OBVIOUS
<1>2. AxSession(t) /\ t.state = "handshake" /\ t.p = s.p
  BY <1>1, AfReadOver
<1>3. CASE <<s.incoming.rd, s.incoming.wr>> # Ax!HasRead
  BY <1>3, AfAborts DEF Ax!do_handshake
<1>4. CASE <<s.incoming.rd, s.incoming.wr>> = Ax!HasRead
  <2>1. t.p = {}
    BY <1>2, <1>4 DEF Ax!HasRead
  <2>2. CASE Ax!Bad(s.incoming.result) \/ x = "junk"
    <3>1. Ax!do_handshake(s, x) = Ax!do_kill(t)
      BY <1>1, <1>4, <2>2 DEF Ax!do_handshake
    <3> QED
      BY <1>2, <2>1, <3>1, AfMayKill
  <2>3. CASE ~(Ax!Bad(s.incoming.result) \/ x = "junk") /\ x = "more"
    <3>1. Ax!do_handshake(s, x) = Ax!To(Ax!conn_read(t, "incoming"), "handshake")
      BY <1>1, <1>4, <2>3 DEF Ax!do_handshake
    <3> QED
      BY <1>2, <2>1, <3>1, AfListens
  <2>4. CASE ~(Ax!Bad(s.incoming.result) \/ x = "junk") /\ x # "more"
    <3>1. PICK state \in {"req_start", "kill"} :
            Ax!do_handshake(s, x) = Ax!To(Ax!conn_write(t, "incoming"), state)
      BY <1>1, <1>4, <2>4 DEF Ax!do_handshake
    <3>2. t.p \subseteq AfRequests
      BY <2>1
    <3> QED
      BY <1>2, <2>1, <3>1, <3>2, AfAnswers
  <2> QED
    BY <2>2, <2>3, <2>4
<1> QED
  BY <1>3, <1>4

LEMMA AfReqStart ==
  ASSUME NEW s, AxSession(s), s.state = "req_start", s.incoming.wr = "done" => s.p = {}
  PROVE  AfRest(Ax!do_req_start(s))
<1>1. PICK t : t = [s EXCEPT !.incoming.wr = "stop"]
  OBVIOUS
<1>2. AxSession(t) /\ t.state = "req_start" /\ t.p = s.p
  BY <1>1, AfWriteOver
<1>3. CASE <<s.incoming.rd, s.incoming.wr>> # Ax!HasWritten
  BY <1>3, AfAborts DEF Ax!do_req_start
<1>4. CASE <<s.incoming.rd, s.incoming.wr>> = Ax!HasWritten
  <2>1. t.p = {}
    BY <1>2, <1>4 DEF Ax!HasWritten
  <2>2. CASE Ax!Bad(s.incoming.result)
    <3>1. Ax!do_req_start(s) = Ax!do_kill(t)
      BY <1>1, <1>4, <2>2 DEF Ax!do_req_start
    <3> QED
      BY <1>2, <2>1, <3>1, AfMayKill
  <2>3. CASE ~Ax!Bad(s.incoming.result)
    <3>1. Ax!do_req_start(s) = Ax!To(Ax!conn_read(t, "incoming"), "req_parse")
      BY <1>1, <1>4, <2>3 DEF Ax!do_req_start
    <3> QED
      BY <1>2, <2>1, <3>1, AfListens
  <2> QED
    BY <2>2, <2>3
<1> QED
  BY <1>3, <1>4

LEMMA AfConnectStart ==
  ASSUME NEW s, AxSession(s), s.p = {}, s.state # "almost_dead", NEW how \in Ax!Connects
  PROVE  AfRest(Ax!do_req_connect_start(s, how))
<1>1. CASE ~Ax!Is(s, Ax!Idle, Ax!Idle)
  BY <1>1, AfAborts DEF Ax!do_req_connect_start
<1>2. CASE Ax!Is(s, Ax!Idle, Ax!Idle) /\ how = "forbidden"
  <2>1. Ax!do_req_connect_start(s, how) = Ax!To(Ax!conn_write(s, "incoming"), "kill")
    BY <1>2 DEF Ax!do_req_connect_start
  <2>2. s.p \subseteq AfRequests
    OBVIOUS
  <2> QED
    BY <2>1, <2>2, AfAnswers
<1>3. CASE Ax!Is(s, Ax!Idle, Ax!Idle) /\ how = "fails"
  <2>1. PICK t : t = Ax!conn_timer_reset(s, "outgoing")
    OBVIOUS
  <2>2. PICK c : c = "outgoing"
    OBVIOUS
  <2>3. AxSession(s) /\ c \in Ax!Conns /\ t = Ax!conn_timer_reset(s, c)
    BY <2>1, <2>2 DEF Ax!Conns
  <2>4. AxSame(s, t) /\ t.p = s.p
    BY ONLY <2>3, AxTimer
  <2>5. Ax!do_req_connect_start(s, how) = Ax!do_kill(t)
    BY <1>3, <2>1 DEF Ax!do_req_connect_start
  <2> QED
    BY <2>4, <2>5, AfMayKill DEF AxSame
<1>4. CASE Ax!Is(s, Ax!Idle, Ax!Idle) /\ how = "starts"
  <2>1. Ax!do_req_connect_start(s, how) =
          Ax!To(Ax!conn_timer_reset([s EXCEPT !.p = @ \cup {<<"outgoing", "connect">>}], "outgoing"), "req_connect")
    BY <1>4 DEF Ax!do_req_connect_start
  <2> QED
    BY <2>1, AfGoesOut
<1> QED
  BY <1>1, <1>2, <1>3, <1>4 DEF Ax!Connects

LEMMA AfReqParse ==
  ASSUME NEW s, AxSession(s), s.state = "req_parse", s.incoming.rd = "done" => s.p = {},
         NEW x \in Ax!Requests, NEW how \in Ax!Connects
  PROVE  AfRest(Ax!do_req_parse(s, x, how))
<1>1. PICK t : t = [s EXCEPT !.incoming.rd = "stop"]
  OBVIOUS
<1>2. AxSession(t) /\ t.state = "req_parse" /\ t.p = s.p
  BY <1>1, AfReadOver
<1>3. CASE ~Ax!Is(s, Ax!HasRead, Ax!Idle)
  BY <1>3, AfAborts DEF Ax!do_req_parse
<1>4. CASE Ax!Is(s, Ax!HasRead, Ax!Idle)
  <2>1. t.p = {}
    BY <1>2, <1>4 DEF Ax!HasRead, Ax!Is
  <2>2. CASE Ax!Bad(s.incoming.result) \/ x = "unsupported"
    <3>1. Ax!do_req_parse(s, x, how) = Ax!do_kill(t)
      BY <1>1, <1>4, <2>2 DEF Ax!do_req_parse
    <3> QED
      BY <1>2, <2>1, <3>1, AfMayKill
  <2>3. CASE ~Ax!Bad(s.incoming.result) /\ x = "more"
    <3>1. Ax!do_req_parse(s, x, how) = Ax!To(Ax!conn_read(t, "incoming"), "req_parse")
      BY <1>1, <1>4, <2>3 DEF Ax!do_req_parse
    <3> QED
      BY <1>2, <2>1, <3>1, AfListens
  <2>4. CASE ~Ax!Bad(s.incoming.result) /\ x = "host"
    <3>1. Ax!do_req_parse(s, x, how) =
            Ax!To(Ax!conn_timer_reset([t EXCEPT !.p = @ \cup {<<"outgoing", "lookup">>}], "outgoing"), "req_lookup")
      BY <1>1, <1>4, <2>4 DEF Ax!do_req_parse, Ax!conn_getaddrinfo
    <3> QED
      BY <1>2, <2>1, <3>1, AfGoesOut
  <2>5. CASE ~Ax!Bad(s.incoming.result) /\ x = "address"
    <3>1. Ax!do_req_parse(s, x, how) = Ax!do_req_connect_start(t, how)
      BY <1>1, <1>4, <2>5 DEF Ax!do_req_parse
    <3> QED
      BY <1>2, <2>1, <3>1, AfConnectStart
  <2> QED
    BY <2>2, <2>3, <2>4, <2>5 DEF Ax!Requests
<1> QED
  BY <1>3, <1>4

LEMMA AfReqLookup ==
  ASSUME NEW s, AxSession(s), s.state = "req_lookup", s.p = {}, NEW how \in Ax!Connects
  PROVE  AfRest(Ax!do_req_lookup(s, how))
<1>1. CASE Ax!do_req_lookup(s, how) = Ax!Aborted(s)
  BY <1>1, AfAborts
<1>2. CASE Ax!do_req_lookup(s, how) = Ax!To(Ax!conn_write(s, "incoming"), "kill")
  <2>1. s.p \subseteq AfRequests
    OBVIOUS
  <2> QED
    BY <1>2, <2>1, AfAnswers
<1>3. CASE Ax!do_req_lookup(s, how) = Ax!do_req_connect_start(s, how)
  BY <1>3, AfConnectStart
<1> QED
  BY <1>1, <1>2, <1>3 DEF Ax!do_req_lookup

LEMMA AfReqConnect ==
  ASSUME NEW s, AxSession(s), s.p \subseteq AfRequests
  PROVE  AfRest(Ax!do_req_connect(s))
<1>1. CASE ~Ax!Is(s, Ax!Idle, Ax!Idle)
  BY <1>1, AfAborts DEF Ax!do_req_connect
<1>2. CASE Ax!Is(s, Ax!Idle, Ax!Idle)
  <2>1. PICK state \in {"proxy_start", "kill"} :
          Ax!do_req_connect(s) = Ax!To(Ax!conn_write(s, "incoming"), state)
    BY <1>2 DEF Ax!do_req_connect
  <2> QED
    BY <2>1, AfAnswers
<1> QED
  BY <1>1, <1>2

\* A session that relays may do as it likes to what is in flight.
AfFree(s, state) == AxSession(s) /\ (s.state = "aborted" \/ (s.state = state /\ s.p \subseteq AfRequests))

LEMMA AfMore ==
  ASSUME NEW s, NEW state, AfFree(s, state), NEW c \in Ax!Conns,
         NEW t, t = Ax!conn_read(s, c) \/ t = Ax!conn_write(s, c)
  PROVE  AfFree(t, state)
<1>1. CASE t = Ax!conn_read(s, c)
  <2>1. /\ AxSession(t)
        /\ \/ t.state = "aborted"
           \/ t.state = s.state /\ t.p = s.p \cup {<<c, "read">>}
    BY <1>1, AfReads DEF AfFree
  <2> QED
    BY <2>1 DEF AfFree, AfRequests
<1>2. CASE t = Ax!conn_write(s, c)
  <2>1. /\ AxSession(t)
        /\ \/ t.state = "aborted"
           \/ t.state = s.state /\ t.p = s.p \cup {<<c, "write">>}
    BY <1>2, AfWrites DEF AfFree
  <2> QED
    BY <2>1 DEF AfFree, AfRequests
<1> QED
  BY <1>1, <1>2

LEMMA AfStops ==
  ASSUME NEW s, NEW state, AfFree(s, state), NEW c \in Ax!Conns,
         NEW t, t = AxRdTo(s, c, "stop") \/ t = AxWrTo(s, c, "stop")
  PROVE  AfFree(t, state)
<1>1. AxSession(s)
  BY DEF AfFree
<1>0. c \in Ax!Conns
  OBVIOUS
<1>2. CASE t = AxRdTo(s, c, "stop")
  <2>1. /\ AxSame(s, t) /\ t[Ax!Other(c)] = s[Ax!Other(c)] /\ t.p = s.p
        /\ t[c] = [rd |-> "stop", wr |-> s[c].wr, result |-> s[c].result, timer |-> s[c].timer]
    BY ONLY <1>0, <1>1, <1>2, AxRds
  <2> QED
    BY <2>1 DEF AfFree, AxSame
<1>3. CASE t = AxWrTo(s, c, "stop")
  <2>1. /\ AxSame(s, t) /\ t[Ax!Other(c)] = s[Ax!Other(c)] /\ t.p = s.p
        /\ t[c] = [rd |-> s[c].rd, wr |-> "stop", result |-> s[c].result, timer |-> s[c].timer]
    BY ONLY <1>0, <1>1, <1>3, AxWrs
  <2> QED
    BY <2>1 DEF AfFree, AxSame
<1> QED
  BY <1>2, <1>3

LEMMA AfProxyStart ==
  ASSUME NEW s, AfFree(s, "proxy_start"), s.state = "proxy_start"
  PROVE  AfRest(Ax!do_proxy_start(s))
<1>0. AxSession(s) /\ s.p \subseteq AfRequests
  BY DEF AfFree
<1>1. CASE ~Ax!Is(s, Ax!HasWritten, Ax!Idle)
  BY <1>0, <1>1, AfAborts DEF Ax!do_proxy_start
<1>2. CASE Ax!Is(s, Ax!HasWritten, Ax!Idle)
  <2>1. PICK t : t = [s EXCEPT !.incoming.wr = "stop"]
    OBVIOUS
  <2>2. AxSession(t) /\ t.state = "proxy_start" /\ t.p = s.p
    BY <1>0, <2>1, AfWriteOver
  <2>3. CASE Ax!Bad(s.incoming.result)
    <3>1. Ax!do_proxy_start(s) = Ax!do_kill(t)
      BY <1>2, <2>1, <2>3 DEF Ax!do_proxy_start
    <3> QED
      BY <1>0, <2>2, <3>1, AfKills
  <2>4. CASE ~Ax!Bad(s.incoming.result)
    <3>1. PICK u : u = Ax!conn_read(t, "incoming")
      OBVIOUS
    <3>2. PICK v : v = Ax!conn_read(u, "outgoing")
      OBVIOUS
    <3>3. PICK w : w = Ax!To(v, "proxy")
      OBVIOUS
    <3>4. Ax!do_proxy_start(s) = w
      BY <1>2, <2>1, <2>4, <3>1, <3>2, <3>3 DEF Ax!do_proxy_start
    <3>5. AfFree(t, "proxy_start") /\ "incoming" \in Ax!Conns /\ "outgoing" \in Ax!Conns
      BY <1>0, <2>2 DEF AfFree, Ax!Conns
    <3>6. AfFree(u, "proxy_start")
      BY <3>1, <3>5, AfMore
    <3>7. AfFree(v, "proxy_start")
      BY <3>2, <3>5, <3>6, AfMore
    <3>8. /\ AxSession(w)
          /\ \/ w.state = "aborted"
             \/ w.state = "proxy" /\ w.p = v.p /\ v.state # "aborted"
      BY <3>3, <3>7, AfTo DEF AfFree
    <3> QED
      BY <3>4, <3>7, <3>8 DEF AfFree, AfRest, AfOpen
  <2> QED
    BY <2>3, <2>4
<1> QED
  BY <1>1, <1>2

LEMMA AfCycle ==
  ASSUME NEW s, AfFree(s, "proxy"), NEW a \in Ax!Conns, NEW u, u = Ax!Cycle(s, a)
  PROVE  AfFree(u, "proxy")
<1>1. PICK b : b = Ax!Other(a) /\ b \in Ax!Conns
  BY DEF Ax!Other, Ax!Conns
<1>2. PICK t : t = IF s[a].wr = "done" THEN AxWrTo(s, a, "stop") ELSE s
  OBVIOUS
<1>3. AfFree(t, "proxy")
  BY <1>2, AfStops
<1>4. \/ u = Ax!conn_read(t, b)
      \/ u = AxRdTo(Ax!conn_write(t, a), b, "stop")
      \/ u = t
  BY <1>1, <1>2 DEF Ax!Cycle, AxWrTo, AxRdTo
<1>5. CASE u = Ax!conn_read(t, b)
  BY <1>1, <1>3, <1>5, AfMore
<1>6. CASE u = AxRdTo(Ax!conn_write(t, a), b, "stop")
  <2>1. PICK v : v = Ax!conn_write(t, a)
    OBVIOUS
  <2>2. AfFree(v, "proxy")
    BY <1>3, <2>1, AfMore
  <2> QED
    BY <1>1, <1>6, <2>1, <2>2, AfStops
<1> QED
  BY <1>3, <1>4, <1>5, <1>6

LEMMA AfProxy ==
  ASSUME NEW s, AfFree(s, "proxy"), s.state = "proxy"
  PROVE  AfRest(Ax!do_proxy(s))
<1>1. CASE Ax!Bad(s.incoming.result) \/ Ax!Bad(s.outgoing.result)
  <2>1. Ax!do_proxy(s) = Ax!do_kill(s)
    BY <1>1 DEF Ax!do_proxy
  <2> QED
    BY <2>1, AfKills DEF AfFree
<1>2. CASE ~(Ax!Bad(s.incoming.result) \/ Ax!Bad(s.outgoing.result))
  <2>1. PICK t : t = Ax!Cycle(s, "incoming")
    OBVIOUS
  <2>2. PICK u : u = Ax!Cycle(t, "outgoing")
    OBVIOUS
  <2>3. "incoming" \in Ax!Conns /\ "outgoing" \in Ax!Conns
    BY DEF Ax!Conns
  <2>4. AfFree(t, "proxy")
    BY <2>1, <2>3, AfCycle
  <2>5. AfFree(u, "proxy")
    BY <2>2, <2>3, <2>4, AfCycle
  <2>6. Ax!do_proxy(s) = u
    BY <1>2, <2>1, <2>2 DEF Ax!do_proxy
  <2> QED
    BY <2>5, <2>6 DEF AfFree, AfRest, AfOpen
<1> QED
  BY <1>1, <1>2

\* One more close has ended; the session is freed after the last.
LEMMA AfAlmostDead ==
  ASSUME NEW s, AxSession(s), AfClosed(s), NEW t, t = Ax!do_almost_dead(s)
  PROVE  AfRest(t)
<1>0. PICK x, y, z, w :
        /\ x = AxToCome(s.p, <<"incoming", "close">>) /\ y = AxToCome(s.p, <<"incoming", "timer_close">>)
        /\ z = AxToCome(s.p, <<"outgoing", "close">>) /\ w = AxToCome(s.p, <<"outgoing", "timer_close">>)
  OBVIOUS
<1>1. x \in {0, 1} /\ y \in {0, 1} /\ z \in {0, 1} /\ w \in {0, 1}
  BY <1>0 DEF AxToCome
<1>2. PICK k \in {0, 1} : s.fin = 4 - k - x - y - z - w
  BY <1>0 DEF AfClosed, AfTorn
<1>3. AxSession(s) /\ s.state = "almost_dead"
  BY DEF AfClosed, AfTorn
<1>4. PICK state : state = IF s.fin = 4 THEN "dead" ELSE "almost_dead"
  OBVIOUS
<1>5. t = [state |-> state, fin |-> s.fin + 1, incoming |-> s.incoming, outgoing |-> s.outgoing,
           addr |-> s.addr, p |-> s.p]
  BY <1>3, <1>4 DEF Ax!do_almost_dead, AxSession
<1>6. AxSession(t) /\ t.state = state /\ t.fin = s.fin + 1 /\ t.p = s.p
      /\ t.incoming = s.incoming /\ t.outgoing = s.outgoing
  BY <1>3, <1>5 DEF AxSession
<1>7. CASE s.fin = 4
  <2>1. x = 0 /\ y = 0 /\ z = 0 /\ w = 0
    BY ONLY <1>1, <1>2, <1>7
  <2>2. \A c \in Ax!Conns : <<c, "close">> \notin s.p /\ <<c, "timer_close">> \notin s.p
    BY <1>0, <2>1 DEF AxToCome, Ax!Conns
  <2>3. s.p = {}
    <3>1. SUFFICES ASSUME NEW x1 \in s.p PROVE FALSE
      OBVIOUS
    <3>2. PICK c \in Ax!Conns, what \in {"write", "connect", "close", "timer_close"} : x1 = <<c, what>>
      BY DEF AfClosed, AfTorn, AxLast
    <3> QED
      BY <2>2, <3>2 DEF AfClosed, AfTorn
  <2> QED
    BY <1>4, <1>6, <1>7, <2>3 DEF AfRest, AxDead, AfClosed, AfTorn
<1>8. CASE s.fin # 4
  <2>1. t.fin = 5 - k - x - y - z - w
    BY ONLY <1>1, <1>2, <1>6
  <2>2. AfDying(t)
    BY <1>0, <1>4, <1>6, <1>8, <2>1 DEF AfDying, AfClosed, AfTorn
  <2> QED
    BY <1>6, <2>2 DEF AfRest
<1> QED
  BY <1>7, <1>8

\* What a callback hands to do_next.
AfCame(s) ==
  /\ AxSession(s)
  /\ \/ s.state \in {"handshake", "req_parse"} /\ (s.incoming.rd = "done" => s.p = {})
     \/ s.state = "req_start" /\ (s.incoming.wr = "done" => s.p = {})
     \/ s.state = "req_lookup" /\ s.p = {}
     \/ s.state \in {"req_connect", "proxy_start", "proxy", "kill"} /\ s.p \subseteq AfRequests
     \/ AfClosed(s)

LEMMA AfDoNext ==
  ASSUME NEW s, AfCame(s), NEW t \in Ax!do_next(s)
  PROVE  AfRest(t)
<1>0. AxSession(s)
  BY DEF AfCame
<1>1. CASE s.state = "handshake" /\ (s.incoming.rd = "done" => s.p = {})
  <2>1. PICK x \in Ax!Parses : t = Ax!do_handshake(s, x)
    BY <1>1 DEF Ax!do_next
  <2> QED
    BY <1>0, <1>1, <2>1, AfHandshake
<1>2. CASE s.state = "req_parse" /\ (s.incoming.rd = "done" => s.p = {})
  <2>1. PICK x \in Ax!Requests, how \in Ax!Connects : t = Ax!do_req_parse(s, x, how)
    BY <1>2 DEF Ax!do_next
  <2> QED
    BY <1>0, <1>2, <2>1, AfReqParse
<1>3. CASE s.state = "req_start" /\ (s.incoming.wr = "done" => s.p = {})
  <2>1. t = Ax!do_req_start(s)
    BY <1>3 DEF Ax!do_next
  <2> QED
    BY <1>0, <1>3, <2>1, AfReqStart
<1>4. CASE s.state = "req_lookup" /\ s.p = {}
  <2>1. PICK how \in Ax!Connects : t = Ax!do_req_lookup(s, how)
    BY <1>4 DEF Ax!do_next
  <2> QED
    BY <1>0, <1>4, <2>1, AfReqLookup
<1>5. CASE s.state = "req_connect" /\ s.p \subseteq AfRequests
  <2>1. t = Ax!do_req_connect(s)
    BY <1>5 DEF Ax!do_next
  <2> QED
    BY <1>0, <1>5, <2>1, AfReqConnect
<1>6. CASE s.state = "proxy_start" /\ s.p \subseteq AfRequests
  <2>1. t = Ax!do_proxy_start(s)
    BY <1>6 DEF Ax!do_next
  <2> QED
    BY <1>0, <1>6, <2>1, AfProxyStart DEF AfFree
<1>7. CASE s.state = "proxy" /\ s.p \subseteq AfRequests
  <2>1. t = Ax!do_proxy(s)
    BY <1>7 DEF Ax!do_next
  <2> QED
    BY <1>0, <1>7, <2>1, AfProxy DEF AfFree
<1>8. CASE s.state = "kill" /\ s.p \subseteq AfRequests
  <2>1. t = Ax!do_kill(s)
    BY <1>8 DEF Ax!do_next
  <2> QED
    BY <1>0, <1>8, <2>1, AfKills
<1>9. CASE AfClosed(s)
  <2>1. t = Ax!do_almost_dead(s)
    BY <1>9 DEF Ax!do_next, AfClosed, AfTorn
  <2> QED
    BY <1>0, <1>9, <2>1, AfAlmostDead
<1> QED
  BY <1>1, <1>2, <1>3, <1>4, <1>5, <1>6, <1>7, <1>8, <1>9 DEF AfCame

-----------------------------------------------------------------------------

AfInv ==
  /\ AxSession(h) /\ h.p = {} /\ AfRest(AxThis)
  /\ pc = IF h.state = "dead" THEN "freed" ELSE "live"
  /\ hist = {}

\* What is in flight for the session, in terms of the variables.
LEMMA AfUnfold ==
  ASSUME AfInv
  PROVE  /\ AxSession(h) /\ AxSame(h, AxThis) /\ AxThis.p = pending
         /\ AxThis.incoming = h.incoming /\ AxThis.outgoing = h.outgoing
         /\ \/ /\ h.state \in {"handshake", "req_parse"} /\ pending \subseteq {<<"incoming", "read">>}
               /\ h.incoming.rd = "busy"
            \/ /\ h.state = "req_start" /\ pending \subseteq {<<"incoming", "write">>}
               /\ h.incoming.wr = "busy"
            \/ h.state = "req_lookup" /\ pending \subseteq {<<"outgoing", "lookup">>}
            \/ h.state \in {"req_connect", "proxy_start", "proxy", "kill"} /\ pending \subseteq AfRequests
            \/ h.state = "aborted"
            \/ h.state = "almost_dead" /\ AfDying(AxThis)
            \/ h.state = "dead" /\ pending = {} /\ h.incoming.timer = FALSE /\ h.outgoing.timer = FALSE
<1>1. AxSession(h)
  BY DEF AfInv
<1>2. AxSame(h, AxThis) /\ AxThis.p = pending /\ AxThis.incoming = h.incoming /\ AxThis.outgoing = h.outgoing
  BY <1>1, AxIs
<1>3. AxThis.state = h.state
  BY <1>2 DEF AxSame
<1>4. AfOpen(AxThis) \/ AfDying(AxThis) \/ AxDead(AxThis)
  BY DEF AfInv, AfRest
<1> QED
  BY <1>1, <1>2, <1>3, <1>4 DEF AfOpen, AfDying, AfTorn, AxDead

\* A session that is left to wait.
LEMMA AfLeft ==
  ASSUME NEW t, AfRest(t), h' = [t EXCEPT !.p = {}], pending' = t.p,
         pc' = IF t.state = "dead" THEN "freed" ELSE "live", hist' = {}
  PROVE  AfInv'
<1>1. AxSession(t)
  BY DEF AfRest
<1>2. h' = [state |-> t.state, fin |-> t.fin, incoming |-> t.incoming, outgoing |-> t.outgoing,
            addr |-> t.addr, p |-> {}]
  BY <1>1 DEF AxSession
<1>3. AxSession(h') /\ h'.p = {} /\ h'.state = t.state
  BY <1>1, <1>2 DEF AxSession
<1>4. AxThis' = t
  BY <1>1, <1>2 DEF AxThis, Ax!This, AxSession
<1> QED
  BY <1>3, <1>4 DEF AfInv

\* A callback runs do_next, or finds that an assertion fails.
LEMMA AfRuns ==
  ASSUME AfInv, h.state # "dead", NEW s, AfCame(s), Ax!Runs(s)
  PROVE  AfInv'
<1>1. pc = "live" /\ hist = {}
  BY DEF AfInv
<1>2. PICK t \in Ax!do_next(s) :
        /\ h' = [t EXCEPT !.p = {}] /\ pending' = t.p
        /\ pc' = IF t.state = "dead" THEN "freed" ELSE "live"
  BY <1>1 DEF Ax!Runs
<1>3. AfRest(t) /\ hist' = {}
  BY <1>1, AfDoNext DEF Ax!Runs
<1> QED
  BY <1>2, <1>3, AfLeft

LEMMA AfDies ==
  ASSUME AfInv, h.state # "dead", h' = Ax!Aborted(h), UNCHANGED <<pending, pc, hist>>
  PROVE  AfInv'
<1>1. AxSession(h) /\ h.p = {} /\ pc = "live" /\ hist = {}
  BY DEF AfInv
<1>2. AxSession(h') /\ h'.state = "aborted" /\ h'.p = {}
  BY <1>1, AfAborts
<1>3. AxSession(AxThis') /\ AxThis'.state = "aborted"
  BY <1>2 DEF AxThis, Ax!This, AxSession
<1> QED
  BY <1>1, <1>2, <1>3 DEF AfInv, AfRest, AfOpen

\* client_finish_init.
LEMMA AfInit == Ax!Init => AfInv
<1> SUFFICES ASSUME Ax!Init PROVE AfInv
  OBVIOUS
<1>1. PICK r : r = [state |-> "handshake", fin |-> 0, incoming |-> Ax!Conn, outgoing |-> Ax!Conn,
                    addr |-> FALSE, p |-> {}]
  OBVIOUS
<1>2. PICK s : s = Ax!conn_read(r, "incoming")
  OBVIOUS
<1>3. h = [s EXCEPT !.p = {}] /\ pending = s.p /\ pc = "live" /\ hist = {}
  BY <1>1, <1>2 DEF Ax!Init
<1>4. AxSession(r) /\ r.incoming = Ax!Conn /\ r.state = "handshake" /\ r.p = {} /\ Ax!Conn.rd = "stop"
  BY <1>1 DEF AxSession, AxConn, Ax!Conn
<1>5. AxSame(r, s) /\ s.p = {<<"incoming", "read">>} /\ s.incoming.rd = "busy"
  <2>1. PICK c : c = "incoming"
    OBVIOUS
  <2>2. c \in Ax!Conns /\ AxSession(r) /\ r[c].rd = "stop" /\ s = Ax!conn_read(r, c)
    BY <1>2, <1>4, <2>1 DEF Ax!Conns
  <2>3. /\ AxSame(r, s) /\ s[Ax!Other(c)] = r[Ax!Other(c)] /\ s.p = r.p \cup {<<c, "read">>}
        /\ s[c] = [rd |-> "busy", wr |-> r[c].wr, result |-> r[c].result, timer |-> TRUE]
    BY ONLY <2>2, AxReads
  <2> QED
    BY <1>4, <2>1, <2>3
<1>6. AxSession(s) /\ s.state = "handshake"
  BY <1>4, <1>5 DEF AxSame
<1>7. h = [state |-> s.state, fin |-> s.fin, incoming |-> s.incoming, outgoing |-> s.outgoing,
           addr |-> s.addr, p |-> {}]
  BY <1>3, <1>6 DEF AxSession
<1>8. AxSession(h) /\ h.p = {} /\ h.state = "handshake"
  BY <1>6, <1>7 DEF AxSession
<1>9. AxThis = s
  BY <1>3, <1>6, <1>7 DEF AxThis, Ax!This, AxSession
<1> QED
  BY <1>3, <1>5, <1>6, <1>8, <1>9 DEF AfInv, AfRest, AfOpen

-----------------------------------------------------------------------------
(* The callbacks.                                                          *)

\* A request of a session that is not torn down has ended, and nothing but
\* the connections has changed since.
LEMMA AfGot ==
  ASSUME AfInv, h.state # "aborted", NEW c \in Ax!Conns, NEW what \in {"read", "write", "connect", "lookup"},
         <<c, what>> \in pending, what \in {"write", "connect"} => <<c, "close">> \notin pending,
         NEW s, AxSession(s), s.state = h.state, s.p = pending \ {<<c, what>>}
  PROVE  AfCame(s) /\ h.state # "dead"
<1>1. ~AfDying(AxThis)
  <2>1. SUFFICES ASSUME AfDying(AxThis) PROVE FALSE
    OBVIOUS
  <2>2. AxThis.p = pending
    BY AfUnfold
  <2>3. <<c, what>> \in AxLast /\ (what \in {"write", "connect"} => <<c, "close">> \in pending)
    BY <2>1, <2>2 DEF AfDying, AfTorn
  <2> QED
    BY <2>3 DEF AxLast
<1>2. \/ h.state \in {"handshake", "req_parse"} /\ pending \subseteq {<<"incoming", "read">>}
      \/ h.state = "req_start" /\ pending \subseteq {<<"incoming", "write">>}
      \/ h.state = "req_lookup" /\ pending \subseteq {<<"outgoing", "lookup">>}
      \/ h.state \in {"req_connect", "proxy_start", "proxy", "kill"} /\ pending \subseteq AfRequests
  BY <1>1, AfUnfold
<1> QED
  BY <1>2 DEF AfCame

\* The result of a connection.
AfGives(s, u, c, result) ==
  \/ s = [u EXCEPT ![c].rd = "done", ![c].result = result]
  \/ s = [u EXCEPT ![c].wr = "done", ![c].result = result]
  \/ s = [u EXCEPT ![c].result = result]

LEMMA AfResult ==
  ASSUME AfInv, NEW c \in Ax!Conns, NEW what, NEW u, u = Ax!Ends(<<c, what>>), NEW result,
         NEW s, AfGives(s, u, c, result)
  PROVE  AxSession(s) /\ s.state = h.state /\ s.p = pending \ {<<c, what>>}
<1>1. AxTakes(u, <<c, what>>) /\ AxSession(u) /\ u.state = h.state /\ u.p = pending \ {<<c, what>>}
  BY AfUnfold, AxEnds DEF AxTakes, AxSame
<1>2. PICK x : x = u[c]
  OBVIOUS
<1>3. x = [rd |-> x.rd, wr |-> x.wr, result |-> x.result, timer |-> x.timer]
  BY <1>1, <1>2, AxOne DEF AxConn
<1>4. PICK rd, wr : s = [u EXCEPT ![c] = [rd |-> rd, wr |-> wr, result |-> result, timer |-> x.timer]]
  <2>1. CASE s = [u EXCEPT ![c].rd = "done", ![c].result = result]
    <3>1. PICK y, m : /\ y = [rd |-> "done", wr |-> x.wr, result |-> result, timer |-> x.timer]
                      /\ m = [rd |-> "done", wr |-> x.wr, result |-> x.result, timer |-> x.timer]
      OBVIOUS
    <3>2. m = [x EXCEPT !.rd = "done"]
      BY ONLY <1>3, <3>1
    <3>3. y = [m EXCEPT !.result = result]
      BY ONLY <3>1
    <3>4. s = [u EXCEPT ![c] = y]
      BY <1>2, <2>1, <3>2, <3>3
    <3> QED
      BY <3>1, <3>4
  <2>2. CASE s = [u EXCEPT ![c].wr = "done", ![c].result = result]
    <3>1. PICK y, m : /\ y = [rd |-> x.rd, wr |-> "done", result |-> result, timer |-> x.timer]
                      /\ m = [rd |-> x.rd, wr |-> "done", result |-> x.result, timer |-> x.timer]
      OBVIOUS
    <3>2. m = [x EXCEPT !.wr = "done"]
      BY ONLY <1>3, <3>1
    <3>3. y = [m EXCEPT !.result = result]
      BY ONLY <3>1
    <3>4. s = [u EXCEPT ![c] = y]
      BY <1>2, <2>2, <3>2, <3>3
    <3> QED
      BY <3>1, <3>4
  <2>3. CASE s = [u EXCEPT ![c].result = result]
    <3>1. PICK y : y = [rd |-> x.rd, wr |-> x.wr, result |-> result, timer |-> x.timer]
      OBVIOUS
    <3>2. y = [x EXCEPT !.result = result]
      BY ONLY <1>3, <3>1
    <3>3. s = [u EXCEPT ![c] = y]
      BY <1>2, <2>3, <3>2
    <3> QED
      BY <3>1, <3>3
  <2> QED
    BY <2>1, <2>2, <2>3 DEF AfGives
<1>5. AxSession(u) /\ c \in Ax!Conns /\ s = AxResult(u, c, rd, wr, result)
  BY <1>1, <1>2, <1>4 DEF AxResult
<1>6. /\ AxSame(u, s) /\ s[Ax!Other(c)] = u[Ax!Other(c)] /\ s.p = u.p
      /\ s[c] = [rd |-> rd, wr |-> wr, result |-> result, timer |-> u[c].timer]
  BY ONLY <1>5, AxResults
<1> QED
  BY <1>1, <1>6 DEF AxSame

LEMMA AfReadDone ==
  ASSUME AfInv, NEW c \in Ax!Conns, Ax!conn_read_done(c)
  PROVE  AfInv'
<1>1. <<c, "read">> \in pending /\ h.state # "aborted"
  BY DEF Ax!conn_read_done, Ax!Alive
<1>2. h.state # "dead"
  BY <1>1, AfUnfold
<1>3. CASE h[c].rd # "busy"
  BY <1>2, <1>3, AfDies DEF Ax!conn_read_done
<1>4. CASE h[c].rd = "busy"
  <2>1. PICK result, u, s :
          /\ u = Ax!Ends(<<c, "read">>) /\ s = [u EXCEPT ![c].rd = "done", ![c].result = result] /\ Ax!Runs(s)
    BY <1>4 DEF Ax!conn_read_done
  <2>2. AxSession(s) /\ s.state = h.state /\ s.p = pending \ {<<c, "read">>}
    <3>1. AfGives(s, u, c, result)
      BY <2>1 DEF AfGives
    <3>2. AfInv /\ c \in Ax!Conns /\ u = Ax!Ends(<<c, "read">>)
      BY <2>1
    <3> QED
      BY ONLY <3>1, <3>2, AfResult
  <2>3. AfCame(s)
    BY <1>1, <2>2, AfGot
  <2> QED
    BY <1>2, <2>1, <2>3, AfRuns
<1> QED
  BY <1>3, <1>4

\* After a request was cancelled the session is as it was.
LEMMA AfCancelled ==
  ASSUME AfInv, NEW c \in Ax!Conns, NEW what \in {"write", "connect"},
         h.state # "aborted", Ax!Cancelled(what, c)
  PROVE  AfInv'
<1>1. <<c, "close">> \in pending /\ pending' = pending \ {<<c, what>>} /\ UNCHANGED <<h, pc, hist>>
  BY DEF Ax!Cancelled, Ax!Closing
<1>2. AfDying(AxThis) /\ h.state = "almost_dead" /\ AxSession(h) /\ AxThis.p = pending
  <2>1. ~(pending \subseteq AfRequests) /\ pending # {}
    BY <1>1 DEF AfRequests
  <2>2. /\ ~(pending \subseteq {<<"incoming", "read">>}) /\ ~(pending \subseteq {<<"incoming", "write">>})
        /\ ~(pending \subseteq {<<"outgoing", "lookup">>})
    BY <1>1
  <2> QED
    BY <2>1, <2>2, AfUnfold
<1>3. PICK s, t : s = AxThis /\ t = AxThis'
  OBVIOUS
<1>4. /\ s = [state |-> h.state, fin |-> h.fin, incoming |-> h.incoming, outgoing |-> h.outgoing,
              addr |-> h.addr, p |-> pending]
      /\ t = [state |-> h.state, fin |-> h.fin, incoming |-> h.incoming, outgoing |-> h.outgoing,
              addr |-> h.addr, p |-> pending \ {<<c, what>>}]
  BY <1>1, <1>2, <1>3 DEF AxThis, Ax!This, AxSession
<1>5. \A d \in Ax!Conns, k \in {"close", "timer_close"} :
        /\ <<d, k>> \in t.p <=> <<d, k>> \in s.p
        /\ AxToCome(t.p, <<d, k>>) = AxToCome(s.p, <<d, k>>)
  BY <1>4 DEF AxToCome
<1>6. "incoming" \in Ax!Conns /\ "outgoing" \in Ax!Conns
  BY DEF Ax!Conns
<1>7. AxSession(t)
  BY <1>2, <1>4 DEF AxSession
<1>8. AfDying(t)
  <2>1. AfDying(s)
    BY <1>2, <1>3
  <2>2. t.state = s.state /\ t.fin = s.fin /\ t.incoming = s.incoming /\ t.outgoing = s.outgoing
        /\ t.p \subseteq s.p
    BY <1>4
  <2> QED
    BY <1>5, <1>6, <2>1, <2>2 DEF AfDying, AfTorn
<1>9. h'.p = {} /\ AxSession(h') /\ hist' = {} /\ pc' = IF h'.state = "dead" THEN "freed" ELSE "live"
  BY <1>1, <1>2 DEF AfInv
<1> QED
  BY <1>3, <1>7, <1>8, <1>9 DEF AfInv, AfRest

LEMMA AfWriteDone ==
  ASSUME "completes_first" \notin SessionFaults, AfInv, NEW c \in Ax!Conns, Ax!conn_write_done(c)
  PROVE  AfInv'
<1>1. <<c, "write">> \in pending /\ h.state # "aborted"
  BY DEF Ax!conn_write_done, Ax!Alive
<1>2. h.state # "dead"
  BY <1>1, AfUnfold
<1>3. CASE Ax!Cancelled("write", c)
  BY <1>1, <1>3, AfCancelled
<1>4. CASE ~Ax!Cancelled("write", c)
  <2>1. <<c, "close">> \notin pending
    BY <1>4 DEF Ax!conn_write_done, Ax!Closing, Ax!May
  <2>2. CASE h[c].wr # "busy"
    BY <1>2, <1>4, <2>2, AfDies DEF Ax!conn_write_done
  <2>3. CASE h[c].wr = "busy"
    <3>1. PICK result, u, s :
            /\ u = Ax!Ends(<<c, "write">>) /\ s = [u EXCEPT ![c].wr = "done", ![c].result = result] /\ Ax!Runs(s)
      BY <1>4, <2>3 DEF Ax!conn_write_done
    <3>2. AxSession(s) /\ s.state = h.state /\ s.p = pending \ {<<c, "write">>}
      <4>1. AfGives(s, u, c, result)
        BY <3>1 DEF AfGives
      <4>2. AfInv /\ c \in Ax!Conns /\ u = Ax!Ends(<<c, "write">>)
        BY <3>1
      <4> QED
        BY ONLY <4>1, <4>2, AfResult
    <3>3. AfCame(s)
      BY <1>1, <2>1, <3>2, AfGot
    <3> QED
      BY <1>2, <3>1, <3>3, AfRuns
  <2> QED
    BY <2>2, <2>3
<1> QED
  BY <1>3, <1>4

LEMMA AfConnectDone ==
  ASSUME "completes_first" \notin SessionFaults, AfInv, Ax!conn_connect_done
  PROVE  AfInv'
<1>0. PICK c : c = "outgoing" /\ c \in Ax!Conns
  BY DEF Ax!Conns
<1>1. <<c, "connect">> \in pending /\ h.state # "aborted"
  BY <1>0 DEF Ax!conn_connect_done, Ax!Alive
<1>2. h.state # "dead"
  BY <1>1, AfUnfold
<1>3. CASE Ax!Cancelled("connect", c)
  BY <1>0, <1>1, <1>3, AfCancelled
<1>4. CASE ~Ax!Cancelled("connect", c)
  <2>1. <<c, "close">> \notin pending
    BY <1>0, <1>4 DEF Ax!conn_connect_done, Ax!Closing, Ax!May
  <2>2. PICK result, u, s :
          /\ u = Ax!Ends(<<c, "connect">>) /\ s = [u EXCEPT ![c].result = result] /\ Ax!Runs(s)
    BY <1>0, <1>4 DEF Ax!conn_connect_done
  <2>3. AxSession(s) /\ s.state = h.state /\ s.p = pending \ {<<c, "connect">>}
    <3>1. AfGives(s, u, c, result)
      BY <2>2 DEF AfGives
    <3>2. AfInv /\ c \in Ax!Conns /\ u = Ax!Ends(<<c, "connect">>)
      BY <1>0, <2>2
    <3> QED
      BY ONLY <3>1, <3>2, AfResult
  <2>4. AfCame(s)
    BY <1>0, <1>1, <2>1, <2>3, AfGot
  <2> QED
    BY <1>2, <2>2, <2>4, AfRuns
<1> QED
  BY <1>3, <1>4

LEMMA AfLookupDone ==
  ASSUME AfInv, Ax!conn_getaddrinfo_done
  PROVE  AfInv'
<1>0. PICK c : c = "outgoing" /\ c \in Ax!Conns
  BY DEF Ax!Conns
<1>1. <<c, "lookup">> \in pending /\ h.state # "aborted"
  BY <1>0 DEF Ax!conn_getaddrinfo_done, Ax!Alive
<1>2. h.state # "dead"
  BY <1>1, AfUnfold
<1>3. PICK result \in {"ok", "error"} :
        Ax!Runs([Ax!Ends(<<c, "lookup">>) EXCEPT !.outgoing.result = result, !.addr = (result = "ok")])
  BY <1>0 DEF Ax!conn_getaddrinfo_done
<1>4. PICK u, s, v, b :
        /\ u = Ax!Ends(<<c, "lookup">>) /\ s = [u EXCEPT !.outgoing.result = result]
        /\ b = (result = "ok") /\ v = [s EXCEPT !.addr = b]
  OBVIOUS
<1>5. Ax!Runs(v)
  BY <1>3, <1>4
<1>6. AfGives(s, u, c, result)
  BY <1>0, <1>4 DEF AfGives
<1>7. AxSession(s) /\ s.state = h.state /\ s.p = pending \ {<<c, "lookup">>}
  <2>1. AfInv /\ c \in Ax!Conns /\ u = Ax!Ends(<<c, "lookup">>)
    BY <1>0, <1>4
  <2> QED
    BY ONLY <1>6, <2>1, AfResult
<1>8. v = [state |-> s.state, fin |-> s.fin, incoming |-> s.incoming, outgoing |-> s.outgoing,
           addr |-> b, p |-> s.p]
  BY <1>4, <1>7 DEF AxSession
<1>9. AxSession(v) /\ v.state = h.state /\ v.p = pending \ {<<c, "lookup">>}
  BY <1>7, <1>8 DEF AxSession
<1>10. AfCame(v)
  BY <1>0, <1>1, <1>9, AfGot
<1> QED
  BY <1>2, <1>5, <1>10, AfRuns

\* A timer expires in any state but while an address is looked up.
LEMMA AfTimerExpires ==
  ASSUME "times_out_lookup" \notin SessionFaults, AfInv, NEW c \in Ax!Conns, Ax!conn_timer_expire(c)
  PROVE  AfInv'
<1>1. h.state # "req_lookup" /\ h.state # "aborted" /\ h[c].timer
  BY DEF Ax!conn_timer_expire, Ax!May, Ax!Alive
<1>2. h.state # "dead" /\ ~AfDying(AxThis)
  BY <1>1, AfUnfold DEF AfDying, AfTorn, Ax!Conns
<1>3. PICK u, b : u = AxThis /\ b = FALSE
  OBVIOUS
<1>4. PICK s : /\ s = [u EXCEPT ![c].timer = b, ![c].result = "timeout"]
               /\ Ax!Runs(s) \/ (h' = Ax!Aborted(h) /\ UNCHANGED <<pending, pc, hist>>)
  BY <1>3 DEF Ax!conn_timer_expire, AxThis
<1>5. AxSession(u) /\ u.state = h.state /\ u.p = pending /\ u.incoming = h.incoming /\ u.outgoing = h.outgoing
  BY <1>3, AfUnfold DEF AxSame
<1>6. PICK x, y : x = u[c] /\ y = [rd |-> x.rd, wr |-> x.wr, result |-> "timeout", timer |-> b]
  OBVIOUS
<1>7. AxSession(u) /\ c \in Ax!Conns /\ s = AxUpdate(u, c, y) /\ AxConn(y)
  <2>1. x = [rd |-> x.rd, wr |-> x.wr, result |-> x.result, timer |-> x.timer]
    BY <1>5, <1>6, AxOne DEF AxConn
  <2>2. PICK m : m = [rd |-> x.rd, wr |-> x.wr, result |-> x.result, timer |-> b]
    OBVIOUS
  <2>3. m = [x EXCEPT !.timer = b]
    BY ONLY <2>1, <2>2
  <2>4. y = [m EXCEPT !.result = "timeout"]
    BY ONLY <1>6, <2>2
  <2>5. s = [u EXCEPT ![c] = y]
    BY <1>4, <1>6, <2>3, <2>4
  <2>6. AxConn(y)
    BY <1>6 DEF AxConn
  <2> QED
    BY <1>5, <2>5, <2>6 DEF AxUpdate
<1>8. AxSame(u, s) /\ s[c] = y /\ s[Ax!Other(c)] = u[Ax!Other(c)] /\ s.p = u.p
  BY ONLY <1>7, AxPut
<1>9. AxSession(s) /\ s.state = h.state /\ s.p = pending
  BY <1>5, <1>8 DEF AxSame
<1>10. s.incoming.rd = h.incoming.rd /\ s.incoming.wr = h.incoming.wr
  <2>1. CASE c = "incoming"
    BY <1>5, <1>6, <1>8, <2>1
  <2>2. CASE c = "outgoing"
    BY <1>5, <1>8, <2>2 DEF Ax!Other
  <2> QED
    BY <2>1, <2>2 DEF Ax!Conns
<1>11. AfCame(s)
  BY <1>1, <1>2, <1>9, <1>10, AfUnfold DEF AfCame
<1> QED
  BY <1>2, <1>4, <1>11, AfRuns, AfDies

LEMMA AfCloseDone ==
  ASSUME AfInv, NEW c \in Ax!Conns, NEW what \in {"close", "timer_close"},
         Ax!conn_close_done(c, what)
  PROVE  AfInv'
<1>1. /\ <<c, what>> \in pending /\ h.state # "aborted"
      /\ what = "close" => <<c, "write">> \notin pending /\ <<c, "connect">> \notin pending
  BY DEF Ax!conn_close_done, Ax!Alive
<1>2. AfDying(AxThis) /\ h.state = "almost_dead" /\ AxSession(h) /\ AxThis.p = pending
  <2>1. ~(pending \subseteq AfRequests) /\ pending # {}
    BY <1>1 DEF AfRequests
  <2>2. /\ ~(pending \subseteq {<<"incoming", "read">>}) /\ ~(pending \subseteq {<<"incoming", "write">>})
        /\ ~(pending \subseteq {<<"outgoing", "lookup">>})
    BY <1>1
  <2> QED
    BY <1>1, <2>1, <2>2, AfUnfold
<1>3. PICK s : s = Ax!Ends(<<c, what>>) /\ Ax!Runs(s)
  BY DEF Ax!conn_close_done
<1>4. AxTakes(s, <<c, what>>)
  BY <1>2, <1>3, AxEnds
<1>5. PICK r : r = AxThis
  OBVIOUS
<1>6. /\ s.p = pending \ {<<c, what>>} /\ AxSession(s) /\ s.state = "almost_dead" /\ s.fin = r.fin
      /\ s.incoming = r.incoming /\ s.outgoing = r.outgoing /\ r.p = pending /\ AfDying(r)
  BY <1>2, <1>4, <1>5, AxIs DEF AxTakes, AxSame
<1>7. \A d \in Ax!Conns, k \in {"close", "timer_close"} :
        AxToCome(s.p, <<d, k>>) = IF d = c /\ k = what THEN 0 ELSE AxToCome(r.p, <<d, k>>)
  BY <1>6 DEF AxToCome
<1>8. AxToCome(r.p, <<c, what>>) = 1
  BY <1>1, <1>6 DEF AxToCome
<1>9. PICK x, y, z, w :
        /\ x = AxToCome(r.p, <<"incoming", "close">>) /\ y = AxToCome(r.p, <<"incoming", "timer_close">>)
        /\ z = AxToCome(r.p, <<"outgoing", "close">>) /\ w = AxToCome(r.p, <<"outgoing", "timer_close">>)
  OBVIOUS
<1>10. x \in {0, 1} /\ y \in {0, 1} /\ z \in {0, 1} /\ w \in {0, 1}
  BY <1>9 DEF AxToCome
<1>11. PICK k \in {0, 1} : s.fin = 5 - k - x - y - z - w
  BY <1>6, <1>9 DEF AfDying, AfTorn
<1>12. PICK x1, y1, z1, w1 :
         /\ x1 = AxToCome(s.p, <<"incoming", "close">>) /\ y1 = AxToCome(s.p, <<"incoming", "timer_close">>)
         /\ z1 = AxToCome(s.p, <<"outgoing", "close">>) /\ w1 = AxToCome(s.p, <<"outgoing", "timer_close">>)
  OBVIOUS
<1>13. "incoming" \in Ax!Conns /\ "outgoing" \in Ax!Conns
  BY DEF Ax!Conns
<1>14. \/ c = "incoming" /\ what = "close" /\ x = 1 /\ x1 = 0 /\ y1 = y /\ z1 = z /\ w1 = w
       \/ c = "incoming" /\ what = "timer_close" /\ y = 1 /\ y1 = 0 /\ x1 = x /\ z1 = z /\ w1 = w
       \/ c = "outgoing" /\ what = "close" /\ z = 1 /\ z1 = 0 /\ x1 = x /\ y1 = y /\ w1 = w
       \/ c = "outgoing" /\ what = "timer_close" /\ w = 1 /\ w1 = 0 /\ x1 = x /\ y1 = y /\ z1 = z
  <2>1. c = "incoming" \/ c = "outgoing"
    BY DEF Ax!Conns
  <2>2. x1 = (IF "incoming" = c /\ "close" = what THEN 0 ELSE x)
    BY <1>7, <1>9, <1>12, <1>13
  <2>3. y1 = (IF "incoming" = c /\ "timer_close" = what THEN 0 ELSE y)
    BY <1>7, <1>9, <1>12, <1>13
  <2>4. z1 = (IF "outgoing" = c /\ "close" = what THEN 0 ELSE z)
    BY <1>7, <1>9, <1>12, <1>13
  <2>5. w1 = (IF "outgoing" = c /\ "timer_close" = what THEN 0 ELSE w)
    BY <1>7, <1>9, <1>12, <1>13
  <2> QED
    BY <1>8, <1>9, <2>1, <2>2, <2>3, <2>4, <2>5
<1>15. s.fin = 4 - k - x1 - y1 - z1 - w1
  BY ONLY <1>10, <1>11, <1>14
<1>16. AfClosed(s)
  <2>1. s.fin = 4 - k - AxToCome(s.p, <<"incoming", "close">>) - AxToCome(s.p, <<"incoming", "timer_close">>)
                  - AxToCome(s.p, <<"outgoing", "close">>) - AxToCome(s.p, <<"outgoing", "timer_close">>)
    BY <1>12, <1>15
  <2>2. \A d \in Ax!Conns :
          <<d, "write">> \in s.p \/ <<d, "connect">> \in s.p => <<d, "close">> \in s.p
    BY <1>1, <1>6 DEF AfDying, AfTorn
  <2> QED
    BY <1>6, <2>1, <2>2 DEF AfClosed, AfDying, AfTorn
<1> QED
  BY <1>2, <1>3, <1>6, <1>16, AfRuns DEF AfCame

\* Every callback leaves the session in its invariant.
LEMMA AfNext ==
  ASSUME "times_out_lookup" \notin SessionFaults, "completes_first" \notin SessionFaults
  PROVE  AfInv /\ [Ax!Next]_(Ax!vars) => AfInv'
<1> SUFFICES ASSUME AfInv, [Ax!Next]_(Ax!vars) PROVE AfInv'
  OBVIOUS
<1>1. CASE UNCHANGED Ax!vars
  BY <1>1 DEF Ax!vars, AfInv, AxThis, Ax!This
<1>2. CASE Ax!HandlerStep
  BY <1>2, AfWriteDone, AfCloseDone, AfConnectDone, AfLookupDone DEF Ax!HandlerStep
<1>3. CASE Ax!OtherStep
  BY <1>3, AfReadDone, AfTimerExpires DEF Ax!OtherStep
<1> QED
  BY <1>1, <1>2, <1>3 DEF Ax!Next

LEMMA AfFollows == AfInv => Ax!FreedLast
<1> SUFFICES ASSUME AfInv PROVE Ax!FreedLast
  OBVIOUS
<1>1. pc = "freed" => h.state = "dead"
  BY DEF AfInv
<1>2. h.state = "dead" => pending = {}
  BY AfUnfold
<1> QED
  BY <1>1, <1>2 DEF AfInv, Ax!FreedLast

-----------------------------------------------------------------------------
(* The queue of log4z.                                                     *)

LqLog == [kind : {"log"}, from : LogThreads \cup {"log"}, n : Nat, level : {1, 2}, wanted : BOOLEAN]
LqSet == [kind : {"set"}, to : ({"level"} \X {1, 2}) \cup ({"enable"} \X BOOLEAN)]
LqData == LqLog \cup LqSet

LqManager(s) ==
  /\ s = [running |-> s.running, enable |-> s.enable, level |-> s.level, open |-> s.open,
          flush |-> s.flush, free |-> s.free, pushed |-> s.pushed, popped |-> s.popped]
  /\ s.running \in BOOLEAN /\ s.enable \in BOOLEAN /\ s.level \in {1, 2}

\* A setting is in the hand of the thread that writes.
LqInHand == cb["log"].kind = "set"

LqPlaces ==
  {"none", "starts", "pops", "handles", "sleeps", "ended", "idle", "stops", "stopped", "made", "pushes"}

LqTypes ==
  /\ LqManager(h)
  /\ kernel = [sem |-> kernel.sem, threads |-> kernel.threads] /\ kernel.threads \in Nat
  /\ pending \in Seq(LqData)
  /\ pc \in [LogThreads \cup {"main", "log"} -> LqPlaces]
  /\ cb \in [LogThreads \cup {"log"} -> LqData \cup {Lq!NoData}]
  /\ calls \in [LogThreads \cup {"main"} -> Nat]
  /\ hist = [order |-> hist.order, written |-> hist.written, dropped |-> hist.dropped,
             asked |-> [enable |-> hist.asked.enable, level |-> hist.asked.level],
             wrong |-> hist.wrong]
  /\ hist.asked.enable \in BOOLEAN /\ hist.asked.level \in {1, 2}
  /\ hist.wrong = {}

\* The thread is started once and ends after stop; before it runs, and after
\* it has ended, nobody logs.
LqThreads ==
  /\ pc["log"] \in {"none", "starts", "pops", "handles", "sleeps", "ended"}
  /\ kernel.threads = IF pc["log"] \in {"none", "ended"} THEN 0 ELSE 1
  /\ pc["log"] \in {"none", "starts"} => pending = <<>> /\ h.running = FALSE
  /\ pc["log"] = "starts" => pc["main"] = "starts" /\ kernel.sem = 0
  /\ pc["log"] \in {"pops", "handles", "sleeps", "ended"} /\ h.running = FALSE =>
       pc["main"] \in {"stops", "stopped"}
  /\ pc["log"] = "ended" => h.running = FALSE
  /\ pc["log"] = "handles" <=> cb["log"] # Lq!NoData
  /\ \A t \in LogThreads : pc[t] # "idle" => h.running = TRUE
  /\ \A t \in LogThreads : pc[t] \in {"made", "pushes"} => cb[t] \in LqLog

\* The settings but for field are what was asked for; field will be val.
LqBecomes(to) ==
  /\ to[1] = "level" => hist.asked.level = to[2] /\ hist.asked.enable = h.enable
  /\ to[1] = "enable" => hist.asked.enable = to[2] /\ hist.asked.level = h.level

\* One setting is on its way at most, and then it is what was asked for last.
LqSettings ==
  /\ \A i, j \in 1..Len(pending) : pending[i].kind = "set" /\ pending[j].kind = "set" => i = j
  /\ LqInHand => \A i \in 1..Len(pending) : pending[i].kind # "set"
  /\ LqInHand => LqBecomes(cb["log"].to)
  /\ \A i \in 1..Len(pending) : pending[i].kind = "set" => LqBecomes(pending[i].to)
  /\ ~LqInHand /\ (\A i \in 1..Len(pending) : pending[i].kind # "set") /\ pc["log"] # "ended" =>
       h.enable = hist.asked.enable /\ h.level = hist.asked.level

\* A setting is handled before the message at i.
LqBefore(i) == LqInHand \/ \E j \in 1..i - 1 : pending[j].kind = "set"

\* What was wanted when it was pushed gets through when it is handled: by the
\* settings of now, or by those that come before it in the queue.
LqWanted ==
  /\ cb["log"].kind = "log" /\ cb["log"].wanted => Lq!Lets(h, cb["log"].level)
  /\ \A i \in 1..Len(pending) : pending[i].kind = "log" /\ pending[i].wanted =>
       Lq!Lets(IF LqBefore(i) THEN hist.asked ELSE h, pending[i].level)

LqInv == LqTypes /\ LqThreads /\ LqSettings /\ LqWanted

LEMMA LqInit == Lq!Init => LqInv
<1> SUFFICES ASSUME Lq!Init PROVE LqInv
  OBVIOUS
<1>1. /\ h = [running |-> FALSE, enable |-> TRUE, level |-> 1, open |-> FALSE, flush |-> FALSE,
              free |-> 0, pushed |-> 0, popped |-> 0]
      /\ kernel = [sem |-> 0, threads |-> 0] /\ pending = <<>>
      /\ pc = [t \in LogThreads \cup {"main", "log"} |-> IF t = "log" THEN "none" ELSE "idle"]
      /\ cb = [t \in LogThreads \cup {"log"} |-> Lq!NoData]
      /\ calls = [t \in LogThreads \cup {"main"} |-> 0]
      /\ hist = [order |-> <<>>, written |-> <<>>, dropped |-> {},
                 asked |-> [enable |-> TRUE, level |-> 1], wrong |-> {}]
  BY DEF Lq!Init
<1>2. pc["log"] = "none" /\ pc["main"] = "idle" /\ \A t \in LogThreads : pc[t] = "idle"
  BY <1>1, LogThreadsAssumption
<1>3. cb["log"] = Lq!NoData /\ cb["log"].kind = "none" /\ ~LqInHand
  BY <1>1 DEF Lq!NoData, LqInHand
<1>4. Len(pending) = 0 /\ pending \in Seq(LqData) /\ 1..Len(pending) = {}
  BY <1>1
<1>5. pc \in [LogThreads \cup {"main", "log"} -> LqPlaces]
  BY <1>1 DEF LqPlaces
<1>6. LqTypes
  BY <1>1, <1>4, <1>5 DEF LqTypes, LqManager
<1>7. LqThreads
  BY <1>1, <1>2, <1>3 DEF LqThreads
<1>8. LqSettings
  <2>1. h.enable = hist.asked.enable /\ h.level = hist.asked.level
    BY <1>1
  <2> QED
    BY ONLY <1>3, <1>4, <2>1 DEF LqSettings
<1>9. LqWanted
  BY <1>3, <1>4 DEF LqWanted
<1> QED
  BY <1>6, <1>7, <1>8, <1>9 DEF LqInv

-----------------------------------------------------------------------------
(* The steps.                                                              *)

\* A step that touches neither the queue, nor what the thread that writes has
\* in its hand, nor the settings.
LqApart ==
  /\ pending' = pending /\ cb'["log"] = cb["log"] /\ h'.enable = h.enable /\ h'.level = h.level
  /\ hist'.asked = hist.asked /\ (pc'["log"] # "ended" => pc["log"] # "ended")

LEMMA LqApartKeeps == ASSUME LqSettings, LqWanted, LqApart PROVE LqSettings' /\ LqWanted'
<1>1. LqInHand' <=> LqInHand
  BY DEF LqApart, LqInHand
<1>2. \A to : LqBecomes(to)' <=> LqBecomes(to)
  BY DEF LqApart, LqBecomes
<1>3. \A i : LqBefore(i)' <=> LqBefore(i)
  BY <1>1 DEF LqApart, LqBefore
<1>4. \A level : Lq!Lets(h', level) <=> Lq!Lets(h, level)
  BY DEF LqApart, Lq!Lets
<1>5. LqSettings'
  BY <1>1, <1>2 DEF LqSettings, LqApart
<1>6. LqWanted'
  <2>1. cb["log"].kind = "log" /\ cb["log"].wanted => Lq!Lets(h', cb["log"].level)
    BY <1>4 DEF LqWanted
  <2>2. ASSUME NEW i \in 1..Len(pending), pending[i].kind = "log", pending[i].wanted
        PROVE  Lq!Lets(IF LqBefore(i)' THEN hist'.asked ELSE h', pending[i].level)
    <3>1. Lq!Lets(IF LqBefore(i) THEN hist.asked ELSE h, pending[i].level)
      BY <2>2 DEF LqWanted
    <3> QED
      BY <1>3, <1>4, <3>1 DEF LqApart
  <2> QED
    BY <2>1, <2>2 DEF LqWanted, LqApart
<1> QED
  BY <1>5, <1>6

\* makeLogData and freeLogData count; a manager stays one.
LEMMA LqCounts ==
  ASSUME NEW s, LqManager(s)
  PROVE  /\ LqManager(Lq!makeLogData(s)) /\ LqManager(Lq!freeLogData(s))
         /\ Lq!makeLogData(s).enable = s.enable /\ Lq!makeLogData(s).level = s.level
         /\ Lq!makeLogData(s).running = s.running
         /\ Lq!freeLogData(s).enable = s.enable /\ Lq!freeLogData(s).level = s.level
         /\ Lq!freeLogData(s).running = s.running
<1> DEFINE Counted(f) == [s EXCEPT !.free = f]
<1>1. \A f : /\ LqManager(Counted(f)) /\ Counted(f).enable = s.enable
             /\ Counted(f).level = s.level /\ Counted(f).running = s.running
  BY DEF LqManager
<1>2. \E f : Lq!makeLogData(s) = Counted(f)
  BY DEF Lq!makeLogData
<1>3. \E f : Lq!freeLogData(s) = Counted(f)
  BY DEF Lq!freeLogData
<1> QED
  BY <1>1, <1>2, <1>3

\* Where the threads are, and what they hold.
LEMMA LqDomains ==
  ASSUME LqTypes
  PROVE  /\ pc = [t \in LogThreads \cup {"main", "log"} |-> pc[t]]
         /\ cb = [t \in LogThreads \cup {"log"} |-> cb[t]]
         /\ \A t \in LogThreads : t # "main" /\ t # "log"
BY LogThreadsAssumption DEF LqTypes

LEMMA LqLogsInv ==
  ASSUME LqInv, LogFaults = {}, NEW t \in LogThreads, Lq!prePushLog(t) \/ Lq!pushLog(t)
  PROVE  LqInv'
<1>1. LqTypes /\ LqThreads /\ t # "log" /\ t # "main"
  BY LqDomains DEF LqInv
<1>2. CASE Lq!prePushLog(t)
  <2>1. PICK level \in {1, 2} :
          /\ h.running
          /\ cb' = [cb EXCEPT ![t] = [kind |-> "log", from |-> t, n |-> calls[t] + 1,
                                      level |-> level, wanted |-> FALSE]]
    BY <1>2 DEF Lq!prePushLog, Lq!Levels
  <2>2. /\ pc[t] = "idle" /\ h' = Lq!makeLogData(h) /\ calls' = [calls EXCEPT ![t] = @ + 1]
        /\ pc' = [pc EXCEPT ![t] = "made"] /\ UNCHANGED <<kernel, pending, hist>>
    BY <1>2 DEF Lq!prePushLog
  <2>3. /\ LqManager(h') /\ h'.enable = h.enable /\ h'.level = h.level /\ h'.running = h.running
    BY <1>1, <2>2, LqCounts DEF LqTypes
  <2>4. calls[t] \in Nat /\ calls' \in [LogThreads \cup {"main"} -> Nat]
    BY <1>1, <2>2 DEF LqTypes
  <2>5. [kind |-> "log", from |-> t, n |-> calls[t] + 1, level |-> level, wanted |-> FALSE] \in LqLog
    BY <2>4 DEF LqLog
  <2>6. /\ cb' \in [LogThreads \cup {"log"} -> LqData \cup {Lq!NoData}] /\ cb'["log"] = cb["log"]
        /\ cb'[t] \in LqLog /\ \A u \in LogThreads : u # t => cb'[u] = cb[u]
    BY <1>1, <2>1, <2>5 DEF LqTypes, LqData
  <2>7. /\ pc' \in [LogThreads \cup {"main", "log"} -> LqPlaces] /\ pc'["log"] = pc["log"]
        /\ pc'["main"] = pc["main"] /\ \A u \in LogThreads : u # t => pc'[u] = pc[u]
    BY <1>1, <2>2 DEF LqTypes, LqPlaces
  <2>8. LqTypes'
    BY <1>1, <2>2, <2>3, <2>4, <2>6, <2>7 DEF LqTypes
  <2>9. LqThreads'
    BY <1>1, <2>1, <2>2, <2>3, <2>6, <2>7 DEF LqThreads, LqTypes
  <2> QED
    BY <2>2, <2>3, <2>6, <2>7, <2>8, <2>9, LqApartKeeps DEF LqInv, LqApart
<1>3. CASE Lq!pushLog(t)
  <2>1. pc[t] = "made" /\ UNCHANGED <<kernel, pending, calls, hist>>
    BY <1>3 DEF Lq!pushLog
  <2>2. PICK place \in {"pushes", "idle"}, d \in LqLog \cup {Lq!NoData} :
          /\ pc' = [pc EXCEPT ![t] = place] /\ cb' = [cb EXCEPT ![t] = d]
          /\ place = "pushes" => d \in LqLog
    <3>1. CASE h.running /\ Lq!Lets(h, cb[t].level)
      <4>1. cb' = [cb EXCEPT ![t] = cb[t]] /\ cb[t] \in LqLog
        BY <1>1, <1>3, <2>1, <3>1 DEF Lq!pushLog, LqTypes, LqThreads
      <4> QED
        BY <1>3, <3>1, <4>1 DEF Lq!pushLog
    <3>2. CASE ~(h.running /\ Lq!Lets(h, cb[t].level))
      BY <1>3, <3>2 DEF Lq!pushLog
    <3> QED
      BY <3>1, <3>2
  <2>3. /\ LqManager(h') /\ h'.enable = h.enable /\ h'.level = h.level /\ h'.running = h.running
    BY <1>1, <1>3, LqCounts DEF LqTypes, Lq!pushLog
  <2>4. /\ cb' \in [LogThreads \cup {"log"} -> LqData \cup {Lq!NoData}] /\ cb'["log"] = cb["log"]
        /\ cb'[t] = d /\ \A u \in LogThreads : u # t => cb'[u] = cb[u]
    BY <1>1, <2>2 DEF LqTypes, LqData
  <2>5. /\ pc' \in [LogThreads \cup {"main", "log"} -> LqPlaces] /\ pc'["log"] = pc["log"]
        /\ pc'["main"] = pc["main"] /\ pc'[t] = place
        /\ \A u \in LogThreads : u # t => pc'[u] = pc[u]
    BY <1>1, <2>2 DEF LqTypes, LqPlaces
  <2>6. LqTypes'
    BY <1>1, <2>1, <2>3, <2>4, <2>5 DEF LqTypes
  <2>7. h.running = TRUE
    BY <1>1, <2>1 DEF LqThreads
  <2>8. LqThreads'
    BY <1>1, <2>1, <2>2, <2>3, <2>4, <2>5, <2>7 DEF LqThreads
  <2> QED
    BY <2>1, <2>3, <2>4, <2>5, <2>6, <2>8, LqApartKeeps DEF LqInv, LqApart
<1> QED
  BY <1>2, <1>3

\* A setting is on its way.
LqOutstanding == LqInHand \/ \E i \in 1..Len(pending) : pending[i].kind = "set"

LEMMA LqAppended ==
  ASSUME LqTypes, NEW d \in LqData, pending' = Append(pending, d)
  PROVE  /\ pending' \in Seq(LqData) /\ Len(pending) \in Nat /\ Len(pending') = Len(pending) + 1
         /\ \A i \in 1..Len(pending) : pending'[i] = pending[i]
         /\ pending'[Len(pending) + 1] = d
<1>1. pending \in Seq(LqData)
  BY DEF LqTypes
<1> QED
  BY <1>1, AppendProperties

\* A message is appended that the settings it will meet let through.
LEMMA LqLogAppended ==
  ASSUME LqTypes, LqSettings, LqWanted, NEW d \in LqLog, pending' = Append(pending, d),
         d.wanted => Lq!Lets(IF LqOutstanding THEN hist.asked ELSE h, d.level),
         cb'["log"] = cb["log"], h'.enable = h.enable, h'.level = h.level,
         hist'.asked = hist.asked, pc'["log"] # "ended" => pc["log"] # "ended"
  PROVE  LqSettings' /\ LqWanted'
<1> DEFINE n == Len(pending)
<1>1. /\ n \in Nat /\ Len(pending') = n + 1 /\ \A i \in 1..n : pending'[i] = pending[i]
      /\ pending'[n + 1] = d
  BY LqAppended DEF LqData
<1>2. d.kind = "log"
  BY DEF LqLog
<1>3. LqInHand' <=> LqInHand
  BY DEF LqInHand
<1>4. \A to : LqBecomes(to)' <=> LqBecomes(to)
  BY DEF LqBecomes
<1> HIDE DEF n
<1>5. \A i \in 1..n + 1 : i \in 1..n \/ i = n + 1
  BY <1>1
<1>6. \A i \in 1..n + 1 : pending'[i].kind = "set" => i \in 1..n /\ pending[i].kind = "set"
  BY <1>1, <1>2, <1>5
<1>7. (\A i \in 1..n + 1 : pending'[i].kind # "set") => \A i \in 1..n : pending[i].kind # "set"
  <2> SUFFICES ASSUME \A i \in 1..n + 1 : pending'[i].kind # "set", NEW i \in 1..n
               PROVE  pending[i].kind # "set"
    OBVIOUS
  <2>1. i \in 1..n + 1
    BY <1>1
  <2> QED
    BY <1>1, <2>1
<1>8. LqSettings'
  <2>1. \A i, j \in 1..n + 1 : pending'[i].kind = "set" /\ pending'[j].kind = "set" => i = j
    BY <1>6 DEF LqSettings, n
  <2>2. LqInHand => \A i \in 1..n + 1 : pending'[i].kind # "set"
    BY <1>6 DEF LqSettings, n
  <2>3. \A i \in 1..n + 1 : pending'[i].kind = "set" => LqBecomes(pending[i].to) /\ pending'[i] = pending[i]
    BY <1>1, <1>6 DEF LqSettings, n
  <2>4. LqInHand => LqBecomes(cb["log"].to)
    BY DEF LqSettings
  <2>5. ~LqInHand /\ (\A i \in 1..n + 1 : pending'[i].kind # "set") /\ pc'["log"] # "ended" =>
          h'.enable = hist'.asked.enable /\ h'.level = hist'.asked.level
    BY <1>7 DEF LqSettings, n
  <2> QED
    BY ONLY <1>1, <1>3, <1>4, <2>1, <2>2, <2>3, <2>4, <2>5, cb'["log"] = cb["log"] DEF LqSettings
<1>9. \A i \in 1..n + 1 : LqBefore(i)' <=> LqBefore(i)
  <2> SUFFICES ASSUME NEW i \in 1..n + 1 PROVE LqBefore(i)' <=> LqBefore(i)
    OBVIOUS
  <2>1. \A j \in 1..i - 1 : j \in 1..n /\ pending'[j] = pending[j]
    BY <1>1
  <2> QED
    BY <1>3, <2>1 DEF LqBefore
<1>10. \A level : Lq!Lets(h', level) <=> Lq!Lets(h, level)
  BY DEF Lq!Lets
<1>11. LqWanted'
  <2>1. cb["log"].kind = "log" /\ cb["log"].wanted => Lq!Lets(h', cb["log"].level)
    BY <1>10 DEF LqWanted
  <2>2. ASSUME NEW i \in 1..n + 1, pending'[i].kind = "log", pending'[i].wanted
        PROVE  Lq!Lets(IF LqBefore(i)' THEN hist'.asked ELSE h', pending'[i].level)
    <3>1. CASE i \in 1..n
      <4>1. pending'[i] = pending[i]
        BY <1>1, <3>1
      <4>2. Lq!Lets(IF LqBefore(i) THEN hist.asked ELSE h, pending[i].level)
        BY <2>2, <3>1, <4>1 DEF LqWanted, n
      <4> QED
        BY <1>9, <1>10, <4>1, <4>2
    <3>2. CASE i = n + 1
      <4>1. LqBefore(i) <=> LqOutstanding
        BY <1>1, <3>2 DEF LqBefore, LqOutstanding, n
      <4>2. pending'[i] = d
        BY <1>1, <3>2
      <4> QED
        BY <1>9, <1>10, <2>2, <4>1, <4>2
    <3> QED
      BY <1>5, <3>1, <3>2
  <2> QED
    BY <1>1, <2>1, <2>2 DEF LqWanted
<1> QED
  BY <1>8, <1>11

\* With none on its way the settings are those that were asked for.
LEMMA LqSettled ==
  ASSUME LqSettings, pc["log"] # "ended", ~LqOutstanding
  PROVE  h.enable = hist.asked.enable /\ h.level = hist.asked.level
BY DEF LqSettings, LqOutstanding

LEMMA LqPushesInv ==
  ASSUME LqInv, NEW t \in LogThreads, Lq!Pushes(t)
  PROVE  LqInv'
<1>1. LqTypes /\ LqThreads /\ LqSettings /\ LqWanted /\ t # "log" /\ t # "main"
  BY LqDomains DEF LqInv
<1>2. /\ pc[t] = "pushes"
      /\ pending' = Append(pending, [cb[t] EXCEPT !.wanted = Lq!Lets(hist.asked, cb[t].level)])
      /\ hist' = [hist EXCEPT !.order = Append(@, <<t, cb[t].n>>)]
      /\ h' = [h EXCEPT !.pushed = @ + 1] /\ cb' = [cb EXCEPT ![t] = Lq!NoData]
      /\ pc' = [pc EXCEPT ![t] = "idle"] /\ UNCHANGED <<kernel, calls>>
  BY DEF Lq!Pushes
<1>3. cb[t] \in LqLog /\ h.running = TRUE
  BY <1>1, <1>2 DEF LqThreads
<1>4. pc["log"] \in {"pops", "handles", "sleeps"}
  BY <1>1, <1>3 DEF LqThreads
<1>5. Lq!Lets(hist.asked, cb[t].level) \in BOOLEAN
  BY <1>1, <1>3 DEF Lq!Lets, LqTypes
<1>6. PICK d : d = [cb[t] EXCEPT !.wanted = Lq!Lets(hist.asked, cb[t].level)]
  OBVIOUS
<1>7. d \in LqLog /\ d.level = cb[t].level /\ d.wanted = Lq!Lets(hist.asked, cb[t].level)
  BY <1>3, <1>5, <1>6 DEF LqLog
<1>8. /\ pending' = Append(pending, d) /\ d \in LqData
  BY <1>2, <1>6, <1>7 DEF LqData
<1>9. LqManager(h') /\ h'.enable = h.enable /\ h'.level = h.level /\ h'.running = h.running
  BY <1>1, <1>2 DEF LqTypes, LqManager
<1>10. /\ cb' \in [LogThreads \cup {"log"} -> LqData \cup {Lq!NoData}] /\ cb'["log"] = cb["log"]
       /\ \A u \in LogThreads : u # t => cb'[u] = cb[u]
  BY <1>1, <1>2 DEF LqTypes
<1>11. /\ pc' \in [LogThreads \cup {"main", "log"} -> LqPlaces] /\ pc'["log"] = pc["log"]
       /\ pc'["main"] = pc["main"] /\ pc'[t] = "idle"
       /\ \A u \in LogThreads : u # t => pc'[u] = pc[u]
  BY <1>1, <1>2 DEF LqTypes, LqPlaces
<1>12. /\ hist' = [order |-> hist'.order, written |-> hist'.written, dropped |-> hist'.dropped,
                   asked |-> hist'.asked, wrong |-> hist'.wrong]
       /\ hist'.asked = hist.asked /\ hist'.wrong = hist.wrong
  BY <1>1, <1>2 DEF LqTypes
<1>13. LqTypes'
  <2>1. pending' \in Seq(LqData)
    BY <1>1, <1>8, LqAppended
  <2>2. hist'.asked = [enable |-> hist'.asked.enable, level |-> hist'.asked.level]
    BY <1>1, <1>12 DEF LqTypes
  <2>3. hist' = [order |-> hist'.order, written |-> hist'.written, dropped |-> hist'.dropped,
                 asked |-> [enable |-> hist'.asked.enable, level |-> hist'.asked.level],
                 wrong |-> hist'.wrong]
    BY ONLY <1>12, <2>2
  <2> QED
    BY <1>1, <1>2, <1>9, <1>10, <1>11, <1>12, <2>1, <2>3 DEF LqTypes
<1>14. LqThreads'
  BY <1>1, <1>2, <1>4, <1>9, <1>10, <1>11 DEF LqThreads
<1>15. d.wanted => Lq!Lets(IF LqOutstanding THEN hist.asked ELSE h, d.level)
  BY <1>1, <1>4, <1>7, LqSettled DEF Lq!Lets
<1>16. LqSettings' /\ LqWanted'
  BY <1>1, <1>7, <1>8, <1>9, <1>10, <1>11, <1>12, <1>15, LqLogAppended
<1> QED
  BY <1>13, <1>14, <1>16 DEF LqInv

\* What a setting may be.
LqIsSetting(field, val) ==
  \/ field = "level" /\ val \in {1, 2}
  \/ field = "enable" /\ val \in BOOLEAN

\* A setting that lets more through, or that comes before the thread runs, is
\* made at once.
LEMMA LqAtOnce ==
  ASSUME LqTypes, LqSettings, LqWanted, ~LqOutstanding, pc["log"] # "ended",
         NEW field, NEW val, LqIsSetting(field, val),
         \/ field = "level" /\ val <= h.level
         \/ field = "enable" /\ val = TRUE
         \/ pending = <<>> /\ cb["log"] = Lq!NoData,
         h' = [h EXCEPT ![field] = val], pending' = pending, cb' = cb,
         hist' = [hist EXCEPT !.asked[field] = val]
  PROVE  LqSettings' /\ LqWanted' /\ LqManager(h') /\ h'.running = h.running
<1>1. h.enable = hist.asked.enable /\ h.level = hist.asked.level
  BY LqSettled
<1>2. LqManager(h') /\ h'.running = h.running
  BY DEF LqTypes, LqManager, LqIsSetting
<1>3. h'.enable = hist'.asked.enable /\ h'.level = hist'.asked.level
  <2>1. CASE field = "level"
    <3>1. h' = [h EXCEPT !.level = val] /\ hist' = [hist EXCEPT !.asked = [@ EXCEPT !.level = val]]
      BY <2>1 DEF LqTypes
    <3> QED
      BY <1>1, <3>1 DEF LqTypes, LqManager
  <2>2. CASE field = "enable"
    <3>1. h' = [h EXCEPT !.enable = val] /\ hist' = [hist EXCEPT !.asked = [@ EXCEPT !.enable = val]]
      BY <2>2 DEF LqTypes
    <3> QED
      BY <1>1, <3>1 DEF LqTypes, LqManager
  <2> QED
    BY <2>1, <2>2 DEF LqIsSetting
<1>4. ~LqInHand /\ \A i \in 1..Len(pending) : pending[i].kind # "set"
  BY DEF LqOutstanding
<1>5. ~LqInHand'
  BY <1>4 DEF LqInHand
<1>6. LqSettings'
  BY <1>3, <1>4, <1>5 DEF LqSettings
<1>7. \A i \in 1..Len(pending) : ~LqBefore(i) /\ ~LqBefore(i)'
  <2> SUFFICES ASSUME NEW i \in 1..Len(pending) PROVE ~LqBefore(i) /\ ~LqBefore(i)'
    OBVIOUS
  <2>1. Len(pending) \in Nat
    BY DEF LqTypes
  <2>2. \A j \in 1..i - 1 : j \in 1..Len(pending)
    BY <2>1
  <2> QED
    BY <1>4, <1>5, <2>2 DEF LqBefore
<1>8. ASSUME NEW level \in {1, 2}, Lq!Lets(h, level), pending # <<>> \/ cb["log"] # Lq!NoData
      PROVE  Lq!Lets(h', level)
  <2>1. CASE field = "level"
    <3>1. h' = [h EXCEPT !.level = val] /\ val <= h.level /\ val \in {1, 2}
      BY <1>8, <2>1 DEF LqIsSetting
    <3>2. h'.level = val /\ h'.enable = h.enable /\ h.level \in {1, 2}
      BY <3>1 DEF LqTypes, LqManager
    <3> QED
      BY <1>8, <3>1, <3>2 DEF Lq!Lets
  <2>2. CASE field = "enable"
    <3>1. h' = [h EXCEPT !.enable = TRUE]
      BY <1>8, <2>2
    <3>2. h'.level = h.level /\ h'.enable = TRUE
      BY <3>1 DEF LqTypes, LqManager
    <3> QED
      BY <1>8, <3>2 DEF Lq!Lets
  <2> QED
    BY <2>1, <2>2 DEF LqIsSetting
<1>9. cb["log"].kind = "log" => cb["log"].level \in {1, 2} /\ cb["log"] # Lq!NoData
  BY DEF LqTypes, LqData, LqLog, LqSet, Lq!NoData
<1>10. ASSUME NEW i \in 1..Len(pending), pending[i].kind = "log"
       PROVE  pending[i].level \in {1, 2} /\ pending # <<>>
  <2>1. pending \in Seq(LqData)
    BY DEF LqTypes
  <2>2. pending[i] \in LqData /\ pending # <<>>
    BY <2>1
  <2> QED
    BY <1>10, <2>2 DEF LqData, LqLog, LqSet
<1>11. cb["log"].kind = "log" /\ cb["log"].wanted => Lq!Lets(h', cb["log"].level)
  BY <1>8, <1>9 DEF LqWanted
<1>12. ASSUME NEW i \in 1..Len(pending), pending[i].kind = "log", pending[i].wanted
       PROVE  Lq!Lets(h', pending[i].level)
  <2>1. Lq!Lets(h, pending[i].level)
    BY <1>7, <1>12 DEF LqWanted
  <2> QED
    BY <1>8, <1>10, <1>12, <2>1
<1>13. LqWanted'
  BY <1>7, <1>11, <1>12 DEF LqWanted
<1> QED
  BY <1>2, <1>6, <1>13

\* One that lets less through goes through the queue, behind all that was
\* wanted before.
LEMMA LqQueued ==
  ASSUME LqTypes, LqSettings, LqWanted, ~LqOutstanding, pc["log"] # "ended",
         NEW field, NEW val, LqIsSetting(field, val),
         h'.enable = h.enable, h'.level = h.level, cb' = cb,
         pending' = Append(pending, [kind |-> "set", to |-> <<field, val>>]),
         hist' = [hist EXCEPT !.asked[field] = val]
  PROVE  LqSettings' /\ LqWanted' /\ pending' \in Seq(LqData)
<1> DEFINE n == Len(pending)
           d == [kind |-> "set", to |-> <<field, val>>]
<1>1. d \in LqData /\ d.kind = "set" /\ d.to[1] = field /\ d.to[2] = val
  BY DEF LqData, LqSet, LqIsSetting
<1> HIDE DEF d
<1>2. /\ n \in Nat /\ Len(pending') = n + 1 /\ \A i \in 1..n : pending'[i] = pending[i]
      /\ pending'[n + 1] = d /\ pending' \in Seq(LqData)
  BY <1>1, LqAppended DEF d
<1>3. ~LqInHand /\ \A i \in 1..n : pending[i].kind # "set"
  BY DEF LqOutstanding
<1>4. ~LqInHand'
  BY <1>3 DEF LqInHand
<1> HIDE DEF n
<1>5. \A i \in 1..n + 1 : i \in 1..n \/ i = n + 1
  BY <1>2
<1>6. h.enable = hist.asked.enable /\ h.level = hist.asked.level
  BY LqSettled
<1>7. LqBecomes(d.to)'
  <2>1. CASE field = "level"
    <3>1. hist' = [hist EXCEPT !.asked = [@ EXCEPT !.level = val]]
      BY <2>1 DEF LqTypes
    <3>2. hist'.asked.level = val /\ hist'.asked.enable = hist.asked.enable
      BY <3>1 DEF LqTypes
    <3> QED
      BY <1>1, <1>6, <2>1, <3>2 DEF LqBecomes
  <2>2. CASE field = "enable"
    <3>1. hist' = [hist EXCEPT !.asked = [@ EXCEPT !.enable = val]]
      BY <2>2 DEF LqTypes
    <3>2. hist'.asked.enable = val /\ hist'.asked.level = hist.asked.level
      BY <3>1 DEF LqTypes
    <3> QED
      BY <1>1, <1>6, <2>2, <3>2 DEF LqBecomes
  <2> QED
    BY <2>1, <2>2 DEF LqIsSetting
<1>8. \A i \in 1..n + 1 : pending'[i].kind = "set" => i = n + 1 /\ pending'[i] = d
  BY <1>2, <1>3, <1>5
<1>9. pending'[n + 1].kind = "set" /\ n + 1 \in 1..n + 1
  BY <1>1, <1>2
<1>10. LqSettings'
  <2>1. \A i, j \in 1..n + 1 : pending'[i].kind = "set" /\ pending'[j].kind = "set" => i = j
    BY <1>8
  <2>2. \A i \in 1..n + 1 : pending'[i].kind = "set" => LqBecomes(pending[i].to)'
    BY <1>7, <1>8 DEF LqBecomes
  <2>3. Len(pending') = n + 1
    BY <1>2
  <2> QED
    BY ONLY <1>4, <1>9, <2>1, <2>2, <2>3 DEF LqSettings
<1>11. \A i \in 1..n : ~LqBefore(i) /\ ~LqBefore(i)'
  <2> SUFFICES ASSUME NEW i \in 1..n PROVE ~LqBefore(i) /\ ~LqBefore(i)'
    OBVIOUS
  <2>1. \A j \in 1..i - 1 : j \in 1..n
    BY <1>2
  <2> QED
    BY <1>2, <1>3, <1>4, <2>1 DEF LqBefore
<1>12. \A level : Lq!Lets(h', level) <=> Lq!Lets(h, level)
  BY DEF Lq!Lets
<1>13. cb'["log"].kind = "log" /\ cb'["log"].wanted => Lq!Lets(h', cb'["log"].level)
  BY <1>12 DEF LqWanted
<1>14. ASSUME NEW i \in 1..n + 1, pending'[i].kind = "log", pending'[i].wanted
       PROVE  Lq!Lets(IF LqBefore(i)' THEN hist'.asked ELSE h', pending'[i].level)
  <2>1. i \in 1..n
    BY <1>5, <1>9, <1>14
  <2>2. pending'[i] = pending[i] /\ pending[i].kind = "log" /\ pending[i].wanted
    BY <1>2, <1>14, <2>1
  <2>3. Lq!Lets(h, pending[i].level)
    BY <1>11, <2>1, <2>2 DEF LqWanted, n
  <2> QED
    BY <1>11, <1>12, <2>1, <2>2, <2>3
<1>15. LqWanted'
  BY <1>2, <1>13, <1>14 DEF LqWanted
<1> QED
  BY <1>2, <1>10, <1>15

LEMMA LqSetKeeps ==
  ASSUME LqTypes, LqSettings, LqWanted, LogFaults = {}, pc["log"] # "ended", cb' = cb,
         h.running = FALSE => pending = <<>> /\ cb["log"] = Lq!NoData,
         NEW field, NEW val, LqIsSetting(field, val), Lq!Set(field, val)
  PROVE  /\ LqSettings' /\ LqWanted' /\ LqManager(h') /\ h'.running = h.running
         /\ pending' \in Seq(LqData) /\ (h.running = FALSE => pending' = <<>>)
         /\ calls' \in [LogThreads \cup {"main"} -> Nat]
         /\ hist' = [order |-> hist'.order, written |-> hist'.written, dropped |-> hist'.dropped,
                     asked |-> [enable |-> hist'.asked.enable, level |-> hist'.asked.level],
                     wrong |-> hist'.wrong]
         /\ hist'.asked.enable \in BOOLEAN /\ hist'.asked.level \in {1, 2} /\ hist'.wrong = {}
<1>1. /\ ~LqOutstanding /\ calls' = [calls EXCEPT !["main"] = @ + 1]
      /\ hist' = [hist EXCEPT !.asked[field] = val]
  <2>1. Lq!Settled /\ calls' = [calls EXCEPT !["main"] = @ + 1]
        /\ hist' = [hist EXCEPT !.asked[field] = val]
    BY DEF Lq!Set, Lq!May
  <2>2. pending \in Seq(LqData)
    BY DEF LqTypes
  <2>3. DOMAIN pending = 1..Len(pending)
    BY <2>2
  <2> QED
    BY <2>1, <2>3 DEF Lq!Settled, LqOutstanding, LqInHand
<1>2. calls' \in [LogThreads \cup {"main"} -> Nat]
  BY <1>1 DEF LqTypes
<1>3. PICK a : hist' = [hist EXCEPT !.asked = a] /\ a = [enable |-> a.enable, level |-> a.level]
               /\ a.enable \in BOOLEAN /\ a.level \in {1, 2}
  <2>1. PICK b : b = hist.asked
    OBVIOUS
  <2>2. b = [enable |-> b.enable, level |-> b.level] /\ b.enable \in BOOLEAN /\ b.level \in {1, 2}
    BY <2>1 DEF LqTypes
  <2>3. CASE field = "level"
    <3>1. PICK a : a = [b EXCEPT !.level = val]
      OBVIOUS
    <3>2. hist' = [hist EXCEPT !.asked = a]
      BY <1>1, <2>1, <2>3, <3>1
    <3>3. a = [enable |-> a.enable, level |-> a.level] /\ a.enable \in BOOLEAN /\ a.level \in {1, 2}
      BY <2>2, <2>3, <3>1 DEF LqIsSetting
    <3> QED
      BY <3>2, <3>3
  <2>4. CASE field = "enable"
    <3>1. PICK a : a = [b EXCEPT !.enable = val]
      OBVIOUS
    <3>2. hist' = [hist EXCEPT !.asked = a]
      BY <1>1, <2>1, <2>4, <3>1
    <3>3. a = [enable |-> a.enable, level |-> a.level] /\ a.enable \in BOOLEAN /\ a.level \in {1, 2}
      BY <2>2, <2>4, <3>1 DEF LqIsSetting
    <3> QED
      BY <3>2, <3>3
  <2> QED
    BY <2>3, <2>4 DEF LqIsSetting
<1>4. /\ hist' = [order |-> hist'.order, written |-> hist'.written, dropped |-> hist'.dropped,
                  asked |-> [enable |-> hist'.asked.enable, level |-> hist'.asked.level],
                  wrong |-> hist'.wrong]
      /\ hist'.asked.enable \in BOOLEAN /\ hist'.asked.level \in {1, 2} /\ hist'.wrong = {}
  <2>1. hist'.asked = a /\ hist'.wrong = {}
    BY <1>3 DEF LqTypes
  <2>2. hist' = [order |-> hist'.order, written |-> hist'.written, dropped |-> hist'.dropped,
                 asked |-> hist'.asked, wrong |-> hist'.wrong]
    BY <1>3 DEF LqTypes
  <2>3. hist'.asked = [enable |-> hist'.asked.enable, level |-> hist'.asked.level]
    BY <1>3, <2>1
  <2>4. hist'.asked.enable \in BOOLEAN /\ hist'.asked.level \in {1, 2}
    BY <1>3, <2>1
  <2> QED
    BY ONLY <2>1, <2>2, <2>3, <2>4
<1>5. pending \in Seq(LqData) /\ LqManager(h)
  BY DEF LqTypes
<1>6. CASE /\ h' = [h EXCEPT ![field] = val] /\ pending' = pending
           /\ \/ field = "level" /\ val <= h.level
              \/ field = "enable" /\ val = TRUE
              \/ h.running = FALSE
  <2>1. LqSettings' /\ LqWanted' /\ LqManager(h') /\ h'.running = h.running
    BY <1>1, <1>6, LqAtOnce
  <2> QED
    BY <1>2, <1>4, <1>5, <1>6, <2>1
<1>7. CASE /\ h' = Lq!makeLogData(h) /\ h.running = TRUE
           /\ pending' = Append(pending, [kind |-> "set", to |-> <<field, val>>])
  <2>1. LqManager(h') /\ h'.running = h.running /\ h'.enable = h.enable /\ h'.level = h.level
    BY <1>5, <1>7, LqCounts
  <2>2. LqSettings' /\ LqWanted' /\ pending' \in Seq(LqData)
    BY <1>1, <1>7, <2>1, LqQueued
  <2> QED
    BY <1>2, <1>4, <1>7, <2>1, <2>2
<1>8. \/ /\ h' = [h EXCEPT ![field] = val] /\ pending' = pending
         /\ \/ field = "level" /\ val <= h.level
            \/ field = "enable" /\ val = TRUE
            \/ h.running = FALSE
      \/ /\ h' = Lq!makeLogData(h) /\ h.running = TRUE
         /\ pending' = Append(pending, [kind |-> "set", to |-> <<field, val>>])
  <2>1. h.running \in BOOLEAN
    BY <1>5 DEF LqManager
  <2>2. CASE field = "level"
    BY <2>1, <2>2 DEF Lq!Set, Lq!setLoggerLevel, Lq!AtOnce, Lq!hotChange, Lq!onHotChange
  <2>3. CASE field = "enable"
    BY <2>1, <2>3 DEF Lq!Set, Lq!enableLogger, Lq!AtOnce, Lq!hotChange, Lq!onHotChange, LqIsSetting
  <2> QED
    BY <2>2, <2>3 DEF LqIsSetting
<1> QED
  BY <1>6, <1>7, <1>8

\* The program sets while the manager has not begun, or runs.
LEMMA LqUserSetsInv == ASSUME LqInv, LogFaults = {}, Lq!UserSets PROVE LqInv'
<1>1. LqTypes /\ LqThreads /\ LqSettings /\ LqWanted
  BY DEF LqInv
<1>2. PICK field, val : LqIsSetting(field, val) /\ Lq!Set(field, val)
  <2>1. CASE \E level \in Lq!Levels : Lq!Set("level", level)
    BY <2>1 DEF Lq!Levels, LqIsSetting
  <2>2. CASE \E on \in BOOLEAN : Lq!Set("enable", on)
    BY <2>2 DEF LqIsSetting
  <2> QED
    BY <2>1, <2>2 DEF Lq!UserSets
<1>3. pc["main"] = "idle" /\ pc["log"] # "ended" /\ UNCHANGED <<kernel, pc, cb>>
  BY DEF Lq!UserSets
<1>4. h.running = FALSE => pc["log"] = "none" /\ pending = <<>> /\ cb["log"] = Lq!NoData
  BY <1>1, <1>3 DEF LqThreads
<1>5. /\ LqSettings' /\ LqWanted' /\ LqManager(h') /\ h'.running = h.running
      /\ pending' \in Seq(LqData) /\ (h.running = FALSE => pending' = <<>>)
      /\ calls' \in [LogThreads \cup {"main"} -> Nat]
      /\ hist' = [order |-> hist'.order, written |-> hist'.written, dropped |-> hist'.dropped,
                  asked |-> [enable |-> hist'.asked.enable, level |-> hist'.asked.level],
                  wrong |-> hist'.wrong]
      /\ hist'.asked.enable \in BOOLEAN /\ hist'.asked.level \in {1, 2} /\ hist'.wrong = {}
  BY <1>1, <1>2, <1>3, <1>4, LqSetKeeps
<1>6. LqTypes'
  BY <1>1, <1>3, <1>5 DEF LqTypes
<1>7. LqThreads'
  BY <1>1, <1>3, <1>4, <1>5 DEF LqThreads
<1> QED
  BY <1>5, <1>6, <1>7 DEF LqInv

LEMMA LqUpdateInv == ASSUME LqInv, LogFaults = {}, Lq!updateConfig PROVE LqInv'
<1>1. LqTypes /\ LqThreads /\ LqSettings /\ LqWanted
  BY DEF LqInv
<1>2. /\ h.running = TRUE /\ pc["log"] = "sleeps" /\ pc' = [pc EXCEPT !["log"] = "pops"]
      /\ UNCHANGED <<kernel, cb>>
  BY <1>1 DEF Lq!updateConfig, Lq!May, Lq!Log, LqTypes, LqManager
<1>3. PICK level \in {1, 2} : Lq!Set("level", level)
  BY DEF Lq!updateConfig, Lq!Levels
<1>4. LqIsSetting("level", level)
  BY DEF LqIsSetting
<1>5. /\ LqSettings' /\ LqWanted' /\ LqManager(h') /\ h'.running = h.running
      /\ pending' \in Seq(LqData) /\ (h.running = FALSE => pending' = <<>>)
      /\ calls' \in [LogThreads \cup {"main"} -> Nat]
      /\ hist' = [order |-> hist'.order, written |-> hist'.written, dropped |-> hist'.dropped,
                  asked |-> [enable |-> hist'.asked.enable, level |-> hist'.asked.level],
                  wrong |-> hist'.wrong]
      /\ hist'.asked.enable \in BOOLEAN /\ hist'.asked.level \in {1, 2} /\ hist'.wrong = {}
  BY <1>1, <1>2, <1>3, <1>4, LqSetKeeps
<1>6. /\ pc' \in [LogThreads \cup {"main", "log"} -> LqPlaces] /\ pc'["log"] = "pops"
      /\ pc'["main"] = pc["main"] /\ \A t \in LogThreads : pc'[t] = pc[t]
  BY <1>1, <1>2, LqDomains DEF LqTypes, LqPlaces
<1>7. LqTypes'
  BY <1>1, <1>2, <1>5, <1>6 DEF LqTypes
<1>8. LqThreads'
  BY <1>1, <1>2, <1>5, <1>6 DEF LqThreads
<1> QED
  BY <1>5, <1>7, <1>8 DEF LqInv

\* Starting and stopping, and the steps of the thread that neither take from
\* the queue nor put into it.
LEMMA LqStartInv == ASSUME LqInv, LogFaults = {}, Lq!start PROVE LqInv'
<1>1. LqTypes /\ LqThreads /\ LqSettings /\ LqWanted
  BY DEF LqInv
<1>2. /\ pc["main"] = "idle" /\ h.running = FALSE
      /\ kernel.threads = 0 /\ kernel' = [sem |-> 0, threads |-> kernel.threads + 1]
      /\ hist' = hist /\ pc' = [pc EXCEPT !["main"] = "starts", !["log"] = "starts"]
      /\ UNCHANGED <<h, pending, cb, calls>>
  BY <1>1 DEF Lq!start, Lq!May, LqTypes, LqManager
<1>3. pc["log"] = "none" /\ pending = <<>> /\ h.running = FALSE
  BY <1>1, <1>2 DEF LqThreads
<1>4. /\ pc' \in [LogThreads \cup {"main", "log"} -> LqPlaces] /\ pc'["log"] = "starts"
      /\ pc'["main"] = "starts" /\ \A t \in LogThreads : pc'[t] = pc[t]
  BY <1>1, <1>2, LqDomains DEF LqTypes, LqPlaces
<1>5. kernel' = [sem |-> kernel'.sem, threads |-> kernel'.threads] /\ kernel'.threads = 1 /\ kernel'.sem = 0
  BY <1>2
<1>6. LqTypes'
  BY <1>1, <1>2, <1>4, <1>5 DEF LqTypes
<1>7. LqThreads'
  BY <1>1, <1>2, <1>3, <1>4, <1>5 DEF LqThreads
<1> QED
  BY <1>1, <1>2, <1>3, <1>6, <1>7, LqApartKeeps DEF LqInv, LqApart

LEMMA LqReturnsInv ==
  ASSUME LqInv, LogFaults = {}, Lq!StartReturns \/ Lq!StopReturns
  PROVE  LqInv'
<1>1. LqTypes /\ LqThreads /\ LqSettings /\ LqWanted
  BY DEF LqInv
<1>2. PICK place \in {"idle", "stopped"} :
        /\ pc' = [pc EXCEPT !["main"] = place]
        /\ \/ place = "idle" /\ pc["main"] = "starts" /\ kernel.sem > 0
           \/ place = "stopped" /\ pc["main"] = "stops"
  BY DEF Lq!StartReturns, Lq!StopReturns, Lq!May
<1>3. /\ UNCHANGED <<h, pending, cb, calls, hist>> /\ kernel'.threads = kernel.threads
      /\ kernel' = [sem |-> kernel'.sem, threads |-> kernel'.threads]
  BY <1>1 DEF Lq!StartReturns, Lq!StopReturns, LqTypes
<1>4. /\ pc' \in [LogThreads \cup {"main", "log"} -> LqPlaces] /\ pc'["log"] = pc["log"]
      /\ pc'["main"] = place /\ \A t \in LogThreads : pc'[t] = pc[t]
  BY <1>1, <1>2, LqDomains DEF LqTypes, LqPlaces
<1>5. pc["log"] # "starts"
  BY <1>1, <1>2 DEF LqThreads
<1>6. LqTypes'
  BY <1>1, <1>3, <1>4 DEF LqTypes
<1>7. LqThreads'
  BY <1>1, <1>2, <1>3, <1>4, <1>5 DEF LqThreads
<1> QED
  BY <1>1, <1>3, <1>4, <1>6, <1>7, LqApartKeeps DEF LqInv, LqApart

LEMMA LqStopInv == ASSUME LqInv, LogFaults = {}, Lq!stop PROVE LqInv'
<1>1. LqTypes /\ LqThreads /\ LqSettings /\ LqWanted
  BY DEF LqInv
<1>2. /\ h.running /\ (\A t \in LogThreads : pc[t] = "idle") /\ h' = [h EXCEPT !.running = FALSE]
      /\ pc' = [pc EXCEPT !["main"] = "stops"] /\ UNCHANGED <<kernel, pending, cb, calls, hist>>
  BY DEF Lq!stop, Lq!May
<1>3. /\ pc' \in [LogThreads \cup {"main", "log"} -> LqPlaces] /\ pc'["log"] = pc["log"]
      /\ pc'["main"] = "stops" /\ \A t \in LogThreads : pc'[t] = "idle"
  BY <1>1, <1>2, LqDomains DEF LqTypes, LqPlaces
<1>4. LqManager(h') /\ h'.enable = h.enable /\ h'.level = h.level /\ h'.running = FALSE
  BY <1>1, <1>2 DEF LqTypes, LqManager
<1>5. pc["log"] \in {"pops", "handles", "sleeps"}
  BY <1>1, <1>2 DEF LqThreads
<1>6. LqTypes'
  BY <1>1, <1>2, <1>3, <1>4 DEF LqTypes
<1>7. LqThreads'
  BY <1>1, <1>2, <1>3, <1>4, <1>5 DEF LqThreads
<1> QED
  BY <1>1, <1>2, <1>3, <1>4, <1>6, <1>7, LqApartKeeps DEF LqInv, LqApart

\* The thread sleeps when the queue is empty.
LEMMA LqSleepsInv == ASSUME LqInv, Lq!Flush \/ Lq!GoesOn PROVE LqInv'
<1>1. LqTypes /\ LqThreads /\ LqSettings /\ LqWanted
  BY DEF LqInv
<1>2. PICK from \in {"pops", "sleeps"}, to \in {"pops", "sleeps"} :
        pc["log"] = from /\ pc' = [pc EXCEPT !["log"] = to]
  BY DEF Lq!Flush, Lq!GoesOn, Lq!Log
<1>3. UNCHANGED <<kernel, pending, cb, calls, hist>>
  BY DEF Lq!Flush, Lq!GoesOn
<1>4. LqManager(h') /\ h'.enable = h.enable /\ h'.level = h.level /\ h'.running = h.running
  <2>1. CASE Lq!Flush
    BY <1>1, <2>1 DEF Lq!Flush, LqTypes, LqManager
  <2>2. CASE Lq!GoesOn
    BY <1>1, <2>2 DEF Lq!GoesOn, LqTypes
  <2> QED
    BY <2>1, <2>2
<1>5. /\ pc' \in [LogThreads \cup {"main", "log"} -> LqPlaces] /\ pc'["log"] = to
      /\ pc'["main"] = pc["main"] /\ \A t \in LogThreads : pc'[t] = pc[t]
  BY <1>1, <1>2, LqDomains DEF LqTypes, LqPlaces
<1>6. LqTypes'
  BY <1>1, <1>3, <1>4, <1>5 DEF LqTypes
<1>7. LqThreads'
  BY <1>1, <1>2, <1>3, <1>4, <1>5 DEF LqThreads
<1> QED
  BY <1>1, <1>2, <1>3, <1>4, <1>5, <1>6, <1>7, LqApartKeeps DEF LqInv, LqApart

LEMMA LqRunEndsInv == ASSUME LqInv, Lq!RunEnds PROVE LqInv'
<1>1. LqTypes /\ LqThreads /\ LqSettings /\ LqWanted
  BY DEF LqInv
<1>2. /\ h.running = FALSE /\ pending = <<>> /\ pc["log"] = "sleeps"
      /\ pc' = [pc EXCEPT !["log"] = "ended"] /\ UNCHANGED <<pending, cb, calls, hist>>
  BY <1>1 DEF Lq!RunEnds, Lq!Quits, Lq!Log, LqTypes, LqManager
<1>3. LqManager(h') /\ h'.running = FALSE
  BY <1>1, <1>2 DEF Lq!RunEnds, LqTypes, LqManager
<1>4. /\ pc' \in [LogThreads \cup {"main", "log"} -> LqPlaces] /\ pc'["log"] = "ended"
      /\ pc'["main"] = pc["main"] /\ \A t \in LogThreads : pc'[t] = pc[t]
  BY <1>1, <1>2, LqDomains DEF LqTypes, LqPlaces
<1>5. LqTypes'
  <2>1. kernel.threads = 1 /\ kernel' = [kernel EXCEPT !.threads = @ - 1]
    BY <1>1, <1>2 DEF Lq!RunEnds, LqThreads
  <2>2. kernel' = [sem |-> kernel'.sem, threads |-> kernel'.threads] /\ kernel'.threads = 0
    BY <1>1, <2>1 DEF LqTypes
  <2> QED
    BY <1>1, <1>2, <1>3, <1>4, <2>2 DEF LqTypes
<1>6. LqThreads'
  <2>1. kernel.threads = 1 /\ kernel' = [kernel EXCEPT !.threads = @ - 1]
    BY <1>1, <1>2 DEF Lq!RunEnds, LqThreads
  <2>2. kernel'.threads = 0
    BY <1>1, <2>1 DEF LqTypes
  <2> QED
    BY <1>1, <1>2, <1>3, <1>4, <2>2 DEF LqThreads
<1>7. cb["log"] = Lq!NoData /\ cb["log"].kind = "none" /\ 1..Len(pending) = {}
  BY <1>1, <1>2 DEF LqThreads, Lq!NoData
<1>8. LqSettings'
  BY <1>2, <1>4, <1>7 DEF LqSettings, LqInHand
<1>9. LqWanted'
  BY <1>2, <1>7 DEF LqWanted
<1> QED
  BY <1>5, <1>6, <1>8, <1>9 DEF LqInv

\* The thread runs, and announces itself if the settings let that through.
LEMMA LqRunBeginsInv == ASSUME LqInv, Lq!RunBegins PROVE LqInv'
<1>1. LqTypes /\ LqThreads /\ LqSettings /\ LqWanted
  BY DEF LqInv
<1>2. /\ pc["log"] = "starts" /\ pc' = [pc EXCEPT !["log"] = "pops"]
      /\ kernel' = [kernel EXCEPT !.sem = @ + 1] /\ UNCHANGED <<cb, calls>>
  BY DEF Lq!RunBegins, Lq!Log
<1>3. /\ pending = <<>> /\ h.running = FALSE /\ cb["log"] = Lq!NoData /\ kernel.threads # 0
  BY <1>1, <1>2 DEF LqThreads
<1>4. /\ pc' \in [LogThreads \cup {"main", "log"} -> LqPlaces] /\ pc'["log"] = "pops"
      /\ pc'["main"] = pc["main"] /\ \A t \in LogThreads : pc'[t] = pc[t]
  BY <1>1, <1>2, LqDomains DEF LqTypes, LqPlaces
<1>5. kernel' = [sem |-> kernel'.sem, threads |-> kernel'.threads] /\ kernel'.threads = kernel.threads
  BY <1>1, <1>2 DEF LqTypes
<1>6. LqManager(h') /\ h'.enable = h.enable /\ h'.level = h.level /\ h'.running = TRUE
  <2>1. CASE Lq!Lets(h, 2)
    BY <1>1, <2>1 DEF Lq!RunBegins, LqTypes, LqManager
  <2>2. CASE ~Lq!Lets(h, 2)
    BY <1>1, <2>2 DEF Lq!RunBegins, LqTypes, LqManager
  <2> QED
    BY <2>1, <2>2
<1>7. LqThreads'
  BY <1>1, <1>2, <1>3, <1>4, <1>5, <1>6 DEF LqThreads
<1>8. CASE ~Lq!Lets(h, 2)
  <2>1. UNCHANGED <<pending, hist>>
    BY <1>8 DEF Lq!RunBegins
  <2>2. LqTypes'
    BY <1>1, <1>2, <1>4, <1>5, <1>6, <2>1 DEF LqTypes
  <2> QED
    BY <1>1, <1>2, <1>6, <1>7, <2>1, <2>2, LqApartKeeps DEF LqInv, LqApart
<1>9. CASE Lq!Lets(h, 2)
  <2>1. /\ pending' = Append(pending, Lq!Banner)
        /\ hist' = [hist EXCEPT !.order = Append(@, <<"log", 1>>)]
    BY <1>9 DEF Lq!RunBegins
  <2>2. Lq!Banner \in LqLog /\ Lq!Banner.level = 2 /\ Lq!Banner \in LqData
    BY DEF Lq!Banner, LqLog, LqData
  <2>3. ~LqOutstanding
    BY <1>3 DEF LqOutstanding, LqInHand, Lq!NoData
  <2>4. /\ hist' = [order |-> hist'.order, written |-> hist'.written, dropped |-> hist'.dropped,
                    asked |-> hist'.asked, wrong |-> hist'.wrong]
        /\ hist'.asked = hist.asked /\ hist'.wrong = hist.wrong
    BY <1>1, <2>1 DEF LqTypes
  <2>5. hist'.asked = [enable |-> hist'.asked.enable, level |-> hist'.asked.level]
    BY <1>1, <2>4 DEF LqTypes
  <2>6. hist' = [order |-> hist'.order, written |-> hist'.written, dropped |-> hist'.dropped,
                 asked |-> [enable |-> hist'.asked.enable, level |-> hist'.asked.level],
                 wrong |-> hist'.wrong]
    BY ONLY <2>4, <2>5
  <2>7. pending' \in Seq(LqData)
    BY <1>1, <2>1, <2>2, LqAppended
  <2>8. LqTypes'
    BY <1>1, <1>2, <1>4, <1>5, <1>6, <2>4, <2>6, <2>7 DEF LqTypes
  <2>9. LqSettings' /\ LqWanted'
    BY <1>1, <1>2, <1>4, <1>6, <1>9, <2>1, <2>2, <2>3, <2>4, LqLogAppended
  <2> QED
    BY <1>7, <2>8, <2>9 DEF LqInv
<1> QED
  BY <1>8, <1>9

LEMMA LqPopLogInv == ASSUME LqInv, Lq!popLog PROVE LqInv'
<1>1. LqTypes /\ LqThreads /\ LqSettings /\ LqWanted
  BY DEF LqInv
<1>2. /\ pending # <<>> /\ pc["log"] = "pops" /\ pc' = [pc EXCEPT !["log"] = "handles"]
      /\ cb' = [cb EXCEPT !["log"] = Head(pending)] /\ pending' = Tail(pending)
      /\ UNCHANGED <<h, kernel, calls, hist>>
  BY DEF Lq!popLog, Lq!Log
<1> DEFINE n == Len(pending)
<1>3. /\ pending' \in Seq(LqData) /\ n \in Nat /\ n > 0 /\ Len(pending') = n - 1
      /\ \A i \in 1..n - 1 : pending'[i] = pending[i + 1]
      /\ Head(pending) = pending[1] /\ pending[1] \in LqData /\ \A i \in 1..n : pending[i] \in LqData
  BY <1>1, <1>2, HeadTailProperties DEF LqTypes
<1>4. /\ cb' \in [LogThreads \cup {"log"} -> LqData \cup {Lq!NoData}] /\ cb'["log"] = pending[1]
      /\ \A t \in LogThreads : cb'[t] = cb[t]
  BY <1>1, <1>2, <1>3, LqDomains DEF LqTypes
<1>5. /\ pc' \in [LogThreads \cup {"main", "log"} -> LqPlaces] /\ pc'["log"] = "handles"
      /\ pc'["main"] = pc["main"] /\ \A t \in LogThreads : pc'[t] = pc[t]
  BY <1>1, <1>2, LqDomains DEF LqTypes, LqPlaces
<1>6. LqTypes'
  BY <1>1, <1>2, <1>3, <1>4, <1>5 DEF LqTypes
<1>7. pending[1] # Lq!NoData /\ ~LqInHand
  BY <1>1, <1>2, <1>3 DEF LqThreads, LqData, LqLog, LqSet, Lq!NoData, LqInHand
<1>8. LqThreads'
  BY <1>1, <1>2, <1>4, <1>5, <1>7 DEF LqThreads
<1>9. /\ LqInHand' <=> pending[1].kind = "set"
      /\ \A to : LqBecomes(to)' <=> LqBecomes(to)
  BY <1>2, <1>4 DEF LqInHand, LqBecomes
<1> HIDE DEF n
<1>10. \A i \in 1..n - 1 : i + 1 \in 1..n /\ i + 1 # 1
  BY <1>3
<1>11. \A i \in 1..n : i = 1 \/ (i - 1 \in 1..n - 1 /\ (i - 1) + 1 = i)
  BY <1>3
<1>12. 1 \in 1..n
  BY <1>3
<1>13. LqSettings'
  <2>1. \A i, j \in 1..n : pending[i].kind = "set" /\ pending[j].kind = "set" => i = j
    BY <1>1 DEF LqSettings, n
  <2>2. \A i, j \in 1..n - 1 : pending'[i].kind = "set" /\ pending'[j].kind = "set" => i = j
    <3> SUFFICES ASSUME NEW i \in 1..n - 1, NEW j \in 1..n - 1,
                        pending'[i].kind = "set", pending'[j].kind = "set"
                 PROVE  i = j
      OBVIOUS
    <3>1. i + 1 = j + 1
      BY <1>3, <1>10, <2>1
    <3> QED
      BY <1>3, <3>1
  <2>3. LqInHand' => \A i \in 1..n - 1 : pending'[i].kind # "set"
    BY <1>3, <1>9, <1>10, <1>12, <2>1
  <2>4. \A i \in 1..n : pending[i].kind = "set" => LqBecomes(pending[i].to)
    BY <1>1 DEF LqSettings, n
  <2>5. LqInHand' => LqBecomes(pending[1].to)
    BY <1>9, <1>12, <2>4
  <2>6. \A i \in 1..n - 1 : pending'[i].kind = "set" =>
          LqBecomes(pending[i + 1].to) /\ pending'[i] = pending[i + 1]
    BY <1>3, <1>10, <2>4
  <2>7. ~LqInHand' /\ (\A i \in 1..n - 1 : pending'[i].kind # "set") =>
          h'.enable = hist'.asked.enable /\ h'.level = hist'.asked.level
    <3> SUFFICES ASSUME ~LqInHand', \A i \in 1..n - 1 : pending'[i].kind # "set"
                 PROVE  h'.enable = hist'.asked.enable /\ h'.level = hist'.asked.level
      OBVIOUS
    <3>1. \A i \in 1..n : pending[i].kind # "set"
      <4> SUFFICES ASSUME NEW i \in 1..n PROVE pending[i].kind # "set"
        OBVIOUS
      <4>1. CASE i = 1
        BY <1>9, <4>1
      <4>2. CASE i - 1 \in 1..n - 1 /\ (i - 1) + 1 = i
        <5>1. pending'[i - 1] = pending[(i - 1) + 1]
          BY <1>3, <4>2 DEF n
        <5> QED
          BY <4>2, <5>1
      <4> QED
        BY <1>11, <4>1, <4>2
    <3>2. h.enable = hist.asked.enable /\ h.level = hist.asked.level
      BY <1>1, <1>2, <1>7, <3>1 DEF LqSettings, n
    <3> QED
      BY <1>2, <3>2
  <2>8. Len(pending') = n - 1
    BY <1>3
  <2> QED
    BY ONLY <1>4, <1>9, <2>2, <2>3, <2>5, <2>6, <2>7, <2>8 DEF LqSettings
<1>14. \A i \in 1..n - 1 : LqBefore(i)' <=> LqBefore(i + 1)
  <2> SUFFICES ASSUME NEW i \in 1..n - 1 PROVE LqBefore(i)' <=> LqBefore(i + 1)
    OBVIOUS
  <2>1. \A j \in 1..i - 1 : j + 1 \in 1..(i + 1) - 1 /\ pending'[j] = pending[j + 1]
    <3> SUFFICES ASSUME NEW j \in 1..i - 1
                 PROVE  j + 1 \in 1..(i + 1) - 1 /\ pending'[j] = pending[j + 1]
      OBVIOUS
    <3>1. j \in 1..n - 1 /\ j + 1 \in 1..(i + 1) - 1
      BY <1>3
    <3> QED
      BY <1>3, <3>1 DEF n
  <2>2. \A j \in 1..(i + 1) - 1 : j = 1 \/ (j - 1 \in 1..i - 1 /\ (j - 1) + 1 = j)
    BY <1>3
  <2>3. 1 \in 1..(i + 1) - 1
    BY <1>3
  <2>4. ASSUME LqBefore(i)' PROVE LqBefore(i + 1)
    <3>1. CASE LqInHand'
      BY <1>9, <2>3, <3>1 DEF LqBefore
    <3>2. CASE ~LqInHand'
      <4>1. PICK j \in 1..i - 1 : pending'[j].kind = "set"
        BY <2>4, <3>2 DEF LqBefore
      <4>2. pending[j + 1].kind = "set" /\ j + 1 \in 1..(i + 1) - 1
        BY <2>1, <4>1
      <4> QED
        BY <4>2 DEF LqBefore
    <3> QED
      BY <3>1, <3>2
  <2>5. ASSUME LqBefore(i + 1) PROVE LqBefore(i)'
    <3>1. PICK j \in 1..(i + 1) - 1 : pending[j].kind = "set"
      BY <1>7, <2>5 DEF LqBefore
    <3>2. CASE j = 1
      BY <1>9, <3>1, <3>2 DEF LqBefore
    <3>3. CASE j - 1 \in 1..i - 1 /\ (j - 1) + 1 = j
      <4>1. pending'[j - 1] = pending[(j - 1) + 1]
        BY <2>1, <3>3
      <4>2. pending'[j - 1].kind = "set"
        BY <3>1, <3>3, <4>1
      <4> QED
        BY <3>3, <4>2 DEF LqBefore
    <3> QED
      BY <2>2, <3>1, <3>2, <3>3
  <2> QED
    BY <2>4, <2>5
<1>15. LqWanted'
  <2>1. \A i \in 1..n : pending[i].kind = "log" /\ pending[i].wanted =>
          Lq!Lets(IF LqBefore(i) THEN hist.asked ELSE h, pending[i].level)
    BY <1>1 DEF LqWanted, n
  <2>2. ~LqBefore(1)
    BY <1>7 DEF LqBefore
  <2>3. pending[1].kind = "log" /\ pending[1].wanted => Lq!Lets(h, pending[1].level)
    BY <1>12, <2>1, <2>2
  <2>4. ASSUME NEW i \in 1..n - 1, pending'[i].kind = "log", pending'[i].wanted
        PROVE  Lq!Lets(IF LqBefore(i)' THEN hist'.asked ELSE h', pending'[i].level)
    <3>1. pending'[i] = pending[i + 1] /\ i + 1 \in 1..n
      BY <1>3, <1>10
    <3>2. Lq!Lets(IF LqBefore(i + 1) THEN hist.asked ELSE h, pending[i + 1].level)
      BY <2>1, <2>4, <3>1
    <3> QED
      BY <1>2, <1>14, <3>1, <3>2
  <2>5. Len(pending') = n - 1 /\ h' = h
    BY <1>2, <1>3
  <2> QED
    BY <1>4, <2>3, <2>4, <2>5 DEF LqWanted
<1> QED
  BY <1>6, <1>8, <1>13, <1>15 DEF LqInv

\* The settings after a setting has got through are those that were asked for.
LEMMA LqHandleSettings ==
  ASSUME LqSettings, LqWanted, LqInHand, LqBecomes(cb["log"].to), pending' = pending,
         cb'["log"] = Lq!NoData, hist' = hist,
         h'.enable = hist.asked.enable, h'.level = hist.asked.level
  PROVE  LqSettings' /\ LqWanted'
<1>1. cb'["log"].kind = "none" /\ ~LqInHand'
  BY DEF Lq!NoData, LqInHand
<1>2. \A i \in 1..Len(pending) : pending[i].kind # "set"
  BY DEF LqSettings
<1>3. LqSettings'
  BY <1>1, <1>2 DEF LqSettings
<1>4. ASSUME NEW i \in 1..Len(pending), pending[i].kind = "log", pending[i].wanted
      PROVE  Lq!Lets(hist.asked, pending[i].level) /\ Lq!Lets(h', pending[i].level)
  BY <1>4 DEF LqWanted, LqBefore, Lq!Lets
<1>5. LqWanted'
  <2>1. ASSUME NEW i \in 1..Len(pending), pending[i].kind = "log", pending[i].wanted
        PROVE  Lq!Lets(IF LqBefore(i)' THEN hist'.asked ELSE h', pending[i].level)
    BY <1>4, <2>1
  <2> QED
    BY <1>1, <2>1 DEF LqWanted
<1> QED
  BY <1>3, <1>5

\* A message in hand leaves the settings alone.
LEMMA LqHandleMessage ==
  ASSUME LqSettings, LqWanted, ~LqInHand, pending' = pending, cb'["log"] = Lq!NoData,
         hist'.asked = hist.asked, h'.enable = h.enable, h'.level = h.level, pc["log"] # "ended"
  PROVE  LqSettings' /\ LqWanted'
<1>1. cb'["log"].kind = "none" /\ ~LqInHand'
  BY DEF Lq!NoData, LqInHand
<1>2. \A to : LqBecomes(to)' <=> LqBecomes(to)
  BY DEF LqBecomes
<1>3. \A i : LqBefore(i)' <=> LqBefore(i)
  BY <1>1 DEF LqBefore
<1>4. LqSettings'
  BY <1>1, <1>2 DEF LqSettings
<1>5. ASSUME NEW i \in 1..Len(pending), pending[i].kind = "log", pending[i].wanted
      PROVE  Lq!Lets(IF LqBefore(i)' THEN hist'.asked ELSE h', pending[i].level)
  BY <1>3, <1>5 DEF LqWanted, Lq!Lets
<1>6. LqWanted'
  BY <1>1, <1>5 DEF LqWanted
<1> QED
  BY <1>4, <1>6

LEMMA LqHandleInv == ASSUME LqInv, Lq!Handle PROVE LqInv'
<1>1. LqTypes /\ LqThreads /\ LqSettings /\ LqWanted
  BY DEF LqInv
<1>2. /\ pc["log"] = "handles" /\ pc' = [pc EXCEPT !["log"] = "pops"]
      /\ cb' = [cb EXCEPT !["log"] = Lq!NoData] /\ UNCHANGED <<kernel, pending, calls>>
  BY DEF Lq!Handle, Lq!Log
<1>3. PICK d : d = cb["log"]
  OBVIOUS
<1>4. d \in LqLog \/ d \in LqSet
  BY <1>1, <1>2, <1>3 DEF LqTypes, LqThreads, LqData
<1>5. /\ cb' \in [LogThreads \cup {"log"} -> LqData \cup {Lq!NoData}] /\ cb'["log"] = Lq!NoData
      /\ \A t \in LogThreads : cb'[t] = cb[t]
  BY <1>1, <1>2, LqDomains DEF LqTypes
<1>6. /\ pc' \in [LogThreads \cup {"main", "log"} -> LqPlaces] /\ pc'["log"] = "pops"
      /\ pc'["main"] = pc["main"] /\ \A t \in LogThreads : pc'[t] = pc[t]
  BY <1>1, <1>2, LqDomains DEF LqTypes, LqPlaces
<1>7. ASSUME LqManager(h'), h'.running = h.running, hist'.asked = hist.asked, hist'.wrong = {},
             hist' = [order |-> hist'.order, written |-> hist'.written, dropped |-> hist'.dropped,
                      asked |-> [enable |-> hist'.asked.enable, level |-> hist'.asked.level],
                      wrong |-> hist'.wrong],
             LqSettings', LqWanted'
      PROVE  LqInv'
  <2>1. LqTypes'
    BY <1>1, <1>2, <1>5, <1>6, <1>7 DEF LqTypes
  <2>2. LqThreads'
    BY <1>1, <1>2, <1>5, <1>6, <1>7 DEF LqThreads
  <2> QED
    BY <1>7, <2>1, <2>2 DEF LqInv
<1>8. CASE d \in LqSet
  <2>1. d.kind = "set" /\ LqIsSetting(d.to[1], d.to[2])
    <3>1. d.kind = "set" /\ (d.to \in {"level"} \X {1, 2} \/ d.to \in {"enable"} \X BOOLEAN)
      BY <1>8 DEF LqSet
    <3> QED
      BY <3>1 DEF LqIsSetting
  <2>2. /\ h' = Lq!freeLogData([Lq!onHotChange(h, d.to[1], d.to[2]) EXCEPT !.open = FALSE])
        /\ hist' = hist
    BY <1>3, <2>1 DEF Lq!Handle
  <2>3. LqInHand /\ LqBecomes(d.to)
    BY <1>1, <1>3, <2>1 DEF LqSettings, LqInHand
  <2>4. PICK s : s = [[h EXCEPT ![d.to[1]] = d.to[2]] EXCEPT !.open = FALSE]
    OBVIOUS
  <2>5. h' = Lq!freeLogData(s)
    BY <2>2, <2>4 DEF Lq!onHotChange
  <2>6. /\ LqManager(s) /\ s.running = h.running
        /\ s.enable = hist.asked.enable /\ s.level = hist.asked.level
    <3>1. CASE d.to[1] = "level"
      <4>1. PICK u : u = [h EXCEPT !.level = d.to[2]]
        OBVIOUS
      <4>2. LqManager(u) /\ u.running = h.running /\ u.enable = h.enable /\ u.level = d.to[2]
        BY <1>1, <2>1, <3>1, <4>1 DEF LqTypes, LqManager, LqIsSetting
      <4>3. s = [u EXCEPT !.open = FALSE]
        BY <2>4, <3>1, <4>1
      <4>4. LqManager(s) /\ s.running = u.running /\ s.enable = u.enable /\ s.level = u.level
        BY <4>2, <4>3 DEF LqManager
      <4> QED
        BY <2>3, <3>1, <4>2, <4>4 DEF LqBecomes
    <3>2. CASE d.to[1] = "enable"
      <4>1. PICK u : u = [h EXCEPT !.enable = d.to[2]]
        OBVIOUS
      <4>2. LqManager(u) /\ u.running = h.running /\ u.enable = d.to[2] /\ u.level = h.level
        BY <1>1, <2>1, <3>2, <4>1 DEF LqTypes, LqManager, LqIsSetting
      <4>3. s = [u EXCEPT !.open = FALSE]
        BY <2>4, <3>2, <4>1
      <4>4. LqManager(s) /\ s.running = u.running /\ s.enable = u.enable /\ s.level = u.level
        BY <4>2, <4>3 DEF LqManager
      <4> QED
        BY <2>3, <3>2, <4>2, <4>4 DEF LqBecomes
    <3> QED
      BY <2>1, <3>1, <3>2 DEF LqIsSetting
  <2>7. /\ LqManager(h') /\ h'.running = h.running
        /\ h'.enable = hist.asked.enable /\ h'.level = hist.asked.level
    BY <2>5, <2>6, LqCounts
  <2>8. LqSettings' /\ LqWanted'
    BY <1>1, <1>2, <1>3, <1>5, <2>2, <2>3, <2>7, LqHandleSettings
  <2>9. /\ hist' = [order |-> hist'.order, written |-> hist'.written, dropped |-> hist'.dropped,
                    asked |-> [enable |-> hist'.asked.enable, level |-> hist'.asked.level],
                    wrong |-> hist'.wrong]
        /\ hist'.wrong = {}
    BY <1>1, <2>2 DEF LqTypes
  <2> QED
    BY <1>7, <2>2, <2>7, <2>8, <2>9
<1>9. CASE d \in LqLog
  <2>1. d.kind = "log" /\ ~LqInHand /\ pc["log"] # "ended"
    BY <1>2, <1>3, <1>9 DEF LqLog, LqInHand
  <2>2. d.wanted => Lq!Lets(h, d.level)
    BY <1>1, <1>3, <2>1 DEF LqWanted
  <2>3. PICK s : /\ LqManager(s) /\ s.enable = h.enable /\ s.level = h.level
                 /\ s.running = h.running /\ h' = Lq!freeLogData(s)
    <3>1. CASE Lq!Lets(h, d.level)
      <4>1. h' = Lq!freeLogData([h EXCEPT !.popped = @ + 1, !.open = TRUE, !.flush = TRUE])
        BY <1>3, <2>1, <3>1 DEF Lq!Handle
      <4>2. PICK s : s = [h EXCEPT !.popped = @ + 1, !.open = TRUE, !.flush = TRUE]
        OBVIOUS
      <4>3. LqManager(s) /\ s.enable = h.enable /\ s.level = h.level /\ s.running = h.running
        BY <1>1, <4>2 DEF LqTypes, LqManager
      <4> QED
        BY <4>1, <4>2, <4>3
    <3>2. CASE ~Lq!Lets(h, d.level)
      <4>1. h' = Lq!freeLogData([h EXCEPT !.popped = @ + 1])
        BY <1>3, <2>1, <3>2 DEF Lq!Handle
      <4>2. PICK s : s = [h EXCEPT !.popped = @ + 1]
        OBVIOUS
      <4>3. LqManager(s) /\ s.enable = h.enable /\ s.level = h.level /\ s.running = h.running
        BY <1>1, <4>2 DEF LqTypes, LqManager
      <4> QED
        BY <4>1, <4>2, <4>3
    <3> QED
      BY <3>1, <3>2
  <2>4. LqManager(h') /\ h'.enable = h.enable /\ h'.level = h.level /\ h'.running = h.running
    BY <2>3, LqCounts
  <2>5. PICK w, x : hist' = [hist EXCEPT !.written = w, !.dropped = x]
    <3>1. CASE Lq!Lets(h, d.level)
      <4>1. hist' = [hist EXCEPT !.written = Append(@, <<d.from, d.n>>)]
        BY <1>3, <2>1, <3>1 DEF Lq!Handle
      <4>2. hist' = [hist EXCEPT !.written = Append(hist.written, <<d.from, d.n>>),
                                 !.dropped = hist.dropped]
        BY <1>1, <4>1 DEF LqTypes
      <4> QED
        BY <4>2
    <3>2. CASE ~Lq!Lets(h, d.level)
      <4>1. ~d.wanted
        BY <2>2, <3>2
      <4>2. hist' = [hist EXCEPT !.dropped = @ \cup {<<d.from, d.n>>},
                       !.wrong = IF d.wanted THEN @ \cup {"dropped"} ELSE @]
        BY <1>3, <2>1, <3>2 DEF Lq!Handle
      <4>3. hist' = [hist EXCEPT !.written = hist.written,
                                 !.dropped = hist.dropped \cup {<<d.from, d.n>>}]
        BY <1>1, <4>1, <4>2 DEF LqTypes
      <4> QED
        BY <4>3
    <3> QED
      BY <3>1, <3>2
  <2>6. /\ hist' = [order |-> hist'.order, written |-> hist'.written, dropped |-> hist'.dropped,
                    asked |-> hist'.asked, wrong |-> hist'.wrong]
        /\ hist'.asked = hist.asked /\ hist'.wrong = {}
    BY <1>1, <2>5 DEF LqTypes
  <2>7. hist'.asked = [enable |-> hist'.asked.enable, level |-> hist'.asked.level]
    BY <1>1, <2>6 DEF LqTypes
  <2>8. hist' = [order |-> hist'.order, written |-> hist'.written, dropped |-> hist'.dropped,
                 asked |-> [enable |-> hist'.asked.enable, level |-> hist'.asked.level],
                 wrong |-> hist'.wrong]
    BY ONLY <2>6, <2>7
  <2>9. LqSettings' /\ LqWanted'
    BY <1>1, <1>2, <1>5, <2>1, <2>4, <2>6, LqHandleMessage
  <2> QED
    BY <1>7, <2>4, <2>6, <2>8, <2>9
<1> QED
  BY <1>4, <1>8, <1>9

LEMMA LqNext == ASSUME LogFaults = {}, LqInv, [Lq!Next]_(Lq!vars) PROVE LqInv'
<1>1. CASE UNCHANGED Lq!vars
  <2>1. UNCHANGED <<h, kernel, pending, pc, cb, calls, hist>>
    BY <1>1 DEF Lq!vars
  <2>2. LqTypes' /\ LqThreads'
    BY <2>1 DEF LqInv, LqTypes, LqThreads
  <2> QED
    BY <2>1, <2>2, LqApartKeeps DEF LqInv, LqApart
<1>2. CASE Lq!UserCall
  BY <1>2, LqStartInv, LqStopInv, LqUserSetsInv, LqLogsInv DEF Lq!UserCall
<1>3. CASE Lq!HandlerStep
  BY <1>3, LqRunBeginsInv, LqPopLogInv, LqHandleInv, LqSleepsInv, LqRunEndsInv DEF Lq!HandlerStep
<1>4. CASE Lq!SystemStep
  BY <1>4, LqReturnsInv DEF Lq!SystemStep
<1>5. CASE Lq!SenderStep
  BY <1>5, LqLogsInv, LqPushesInv DEF Lq!SenderStep
<1>6. CASE Lq!updateConfig
  BY <1>6, LqUpdateInv
<1> QED
  BY <1>1, <1>2, <1>3, <1>4, <1>5, <1>6 DEF Lq!Next

\* What was wanted is never dropped, and with no setting on its way the
\* settings are those that were asked for last.
LEMMA LqFollows == LqInv => Lq!Sane
<1> SUFFICES ASSUME LqInv PROVE Lq!Sane
  OBVIOUS
<1>1. LqTypes /\ LqSettings
  BY DEF LqInv
<1>2. Lq!Settled => ~LqOutstanding
  <2>1. DOMAIN pending = 1..Len(pending)
    BY <1>1 DEF LqTypes
  <2> QED
    BY <2>1 DEF Lq!Settled, LqOutstanding, LqInHand
<1> QED
  BY <1>1, <1>2, LqSettled DEF Lq!Sane, LqTypes
=============================================================================
