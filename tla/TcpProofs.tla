------------------------------ MODULE TcpProofs ------------------------------
(***************************************************************************)
(* Proofs about MCTcp, for any set of writes, any number of accept requests *)
(* and any bounds: its counters are exact, a reading connection and a       *)
(* listening server stay armed, an accept request is in one place, and      *)
(* nothing is heard after a stop.                                           *)
(*                                                                          *)
(* Waiting is what the kernel or the loop holds.  Both invariants say which *)
(* requests that is, from the other fields: a connection's writes and       *)
(* connects are those in active_reqs (StreamLinks), READ_PENDING stands for *)
(* its read (StreamReads), and a listening server has all of its accept     *)
(* requests, or one, or those the change to one has left (ServerSingle).    *)
(* So a request is never started twice, and each step moves Waiting and the *)
(* counters together.  Each action has a lemma; lemmas that several actions *)
(* share name what they have in common.                                     *)
(***************************************************************************)
EXTENDS MCTcp, SequencesExt, FiniteSetTheorems, SequenceTheorems, TLAPS

-----------------------------------------------------------------------------
(* The loop's queue, and what is in flight.                                *)

\* The elements of a sequence, by their places.
LEMMA Places ==
  ASSUME NEW S, NEW q \in Seq(S)
  PROVE  /\ Len(q) \in Nat /\ DOMAIN q = 1..Len(q)
         /\ \A i \in 1..Len(q) : q[i] \in S /\ q[i] \in Range(q)
         /\ \A x \in Range(q) : x \in S /\ \E i \in 1..Len(q) : q[i] = x
         /\ IsInjective(q) <=> \A i, j \in 1..Len(q) : q[i] = q[j] => i = j
         /\ q = <<>> <=> Len(q) = 0
<1>1. Len(q) \in Nat /\ DOMAIN q = 1..Len(q)
  BY LenProperties
<1>2. \A i \in 1..Len(q) : q[i] \in S
  BY ElementOfSeq
<1>3. \A i \in 1..Len(q) : q[i] \in Range(q)
  BY <1>1 DEF Range
<1>4. \A x \in Range(q) : \E i \in 1..Len(q) : q[i] = x
  BY <1>1 DEF Range
<1>5. IsInjective(q) <=> \A i, j \in 1..Len(q) : q[i] = q[j] => i = j
  BY <1>1 DEF IsInjective
<1>6. q = <<>> <=> Len(q) = 0
  BY EmptySeq
<1> QED
  BY <1>1, <1>2, <1>3, <1>4, <1>5, <1>6

\* A queue without repetition has as many elements as places.
LEMMA LengthOfRange ==
  ASSUME NEW S, NEW q \in Seq(S), IsInjective(q)
  PROVE  IsFiniteSet(Range(q)) /\ Cardinality(Range(q)) = Len(q)
<1>1. Len(q) \in Nat /\ DOMAIN q = 1..Len(q)
  BY Places
<1>2. q \in Injection(1..Len(q), Range(q)) /\ q \in Surjection(1..Len(q), Range(q))
  BY <1>1, Places DEF Injection, Surjection, Range, IsInjective
<1>3. IsFiniteSet(1..Len(q)) /\ Cardinality(1..Len(q)) = Len(q)
  BY <1>1, FS_Interval
<1>4. IsFiniteSet(Range(q))
  BY <1>2, <1>3, FS_Surjection
<1> QED
  BY <1>2, <1>3, <1>4, FS_Injection

\* What the kernel and the queue hold, each request in one place.
Apart(K, q) == IsInjective(q) /\ K \cap Range(q) = {}

LEMMA InFlight ==
  ASSUME NEW S, IsFiniteSet(S), NEW K \in SUBSET S, NEW q \in Seq(S), Apart(K, q)
  PROVE  /\ IsFiniteSet(K \cup Range(q)) /\ Cardinality(K) \in Nat
         /\ Cardinality(K \cup Range(q)) = Cardinality(K) + Len(q)
<1>1. IsFiniteSet(K) /\ Cardinality(K) \in Nat
  BY FS_Subset, FS_CardinalityType
<1>2. IsFiniteSet(Range(q)) /\ Cardinality(Range(q)) = Len(q) /\ Len(q) \in Nat
  BY LengthOfRange, Places DEF Apart
<1>3. K \cap Range(q) = {} /\ Cardinality({}) = 0
  BY FS_EmptySet DEF Apart
<1>4. /\ IsFiniteSet(K \cup Range(q))
      /\ Cardinality(K \cup Range(q))
           = Cardinality(K) + Cardinality(Range(q)) - Cardinality(K \cap Range(q))
  BY <1>1, <1>2, FS_Union, Zenon
<1>5. Cardinality(K \cap Range(q)) = 0
  BY <1>3, Zenon
<1>6. PICK n, m, c : n = Cardinality(K) /\ m = Len(q) /\ c = Cardinality(K \cup Range(q))
  OBVIOUS
<1>7. c = n + m - 0
  BY <1>2, <1>4, <1>5, <1>6
<1>8. c = n + m
  BY <1>1, <1>2, <1>6, <1>7
<1> QED
  BY <1>1, <1>4, <1>6, <1>8

\* The empty queue.
LEMMA EmptyQueue ==
  ASSUME NEW S
  PROVE  <<>> \in Seq(S) /\ Range(<<>>) = {} /\ IsInjective(<<>>)
<1>1. PICK w : w = <<>>
  OBVIOUS
<1>2. w \in Seq(S) /\ Len(w) = 0
  BY <1>1, EmptySeq
<1>3. \A i \in 1..Len(w) : FALSE
  BY <1>2
<1>4. \A x \in Range(w) : FALSE
  BY <1>2, <1>3, Places, Zenon
<1>5. IsInjective(w)
  BY <1>2, <1>3, Places, Zenon
<1> QED
  BY <1>1, <1>2, <1>4, <1>5

\* A queue of one.
LEMMA OneElement ==
  ASSUME NEW S, NEW h \in S
  PROVE  <<h>> \in Seq(S) /\ Range(<<h>>) = {h} /\ IsInjective(<<h>>)
<1>1. <<h>> \in Seq(S) /\ Len(<<h>>) = 1 /\ <<h>>[1] = h
  OBVIOUS
<1>2. PICK w : w = <<h>>
  OBVIOUS
<1>3. w \in Seq(S) /\ Len(w) = 1 /\ w[1] = h
  BY <1>1, <1>2
<1>4. 1 \in 1..Len(w) /\ \A i \in 1..Len(w) : i = 1
  BY <1>3
<1>5. Range(w) = {h}
  BY <1>3, <1>4, Places
<1>6. IsInjective(w)
  BY <1>3, <1>4, Places
<1> QED
  BY <1>1, <1>2, <1>5, <1>6

\* A queue is put after another one.
LEMMA JoinQueues ==
  ASSUME NEW S, NEW a \in Seq(S), NEW b \in Seq(S)
  PROVE  /\ a \o b \in Seq(S) /\ Range(a \o b) = Range(a) \cup Range(b)
         /\ IsInjective(a) /\ IsInjective(b) /\ Range(a) \cap Range(b) = {}
              => IsInjective(a \o b)
<1>1. PICK w : w = a \o b
  OBVIOUS
<1>2. /\ w \in Seq(S) /\ Len(w) = Len(a) + Len(b)
      /\ \A k \in 1..(Len(a) + Len(b)) :
           w[k] = IF k <= Len(a) THEN a[k] ELSE b[k - Len(a)]
  BY <1>1, ConcatProperties, Zenon
<1>3. Len(a) \in Nat /\ Len(b) \in Nat
  BY Places, Zenon
<1>4. Range(w) = Range(a) \cup Range(b)
  BY <1>1, RangeConcatenation, Zenon
<1>5. ASSUME IsInjective(a), IsInjective(b), Range(a) \cap Range(b) = {}
      PROVE  IsInjective(w)
  <2> SUFFICES ASSUME NEW j \in 1..Len(w), NEW k \in 1..Len(w), w[j] = w[k] PROVE j = k
    BY <1>2, Places
  <2>1. \A i, l \in 1..Len(a) : a[i] = a[l] => i = l
    BY <1>5, Places, Zenon
  <2>2. \A i, l \in 1..Len(b) : b[i] = b[l] => i = l
    BY <1>5, Places, Zenon
  <2>3. \A i \in 1..Len(a), l \in 1..Len(b) : a[i] # b[l]
    <3>1. \A i \in 1..Len(a) : a[i] \in Range(a)
      BY Places, Zenon
    <3>2. \A i \in 1..Len(b) : b[i] \in Range(b)
      BY Places, Zenon
    <3> QED
      BY <1>5, <3>1, <3>2
  <2>4. ASSUME NEW i \in 1..Len(w)
        PROVE  \/ i \in 1..Len(a) /\ w[i] = a[i]
               \/ i - Len(a) \in 1..Len(b) /\ w[i] = b[i - Len(a)]
    BY <1>2, <1>3
  <2>5. CASE j \in 1..Len(a) /\ w[j] = a[j]
    <3>1. k \in 1..Len(a) /\ w[k] = a[k]
      BY <2>3, <2>4, <2>5
    <3> QED
      BY <2>1, <2>5, <3>1
  <2>6. CASE j - Len(a) \in 1..Len(b) /\ w[j] = b[j - Len(a)]
    <3>1. k - Len(a) \in 1..Len(b) /\ w[k] = b[k - Len(a)]
      BY <2>3, <2>4, <2>6
    <3>2. j - Len(a) = k - Len(a)
      BY <2>2, <2>6, <3>1
    <3> QED
      BY <1>2, <1>3, <3>2
  <2> QED
    BY <2>4, <2>5, <2>6
<1> QED
  BY <1>1, <1>2, <1>4, <1>5, Zenon

\* A request is queued at the tail.
LEMMA AppendQueue ==
  ASSUME NEW S, NEW q \in Seq(S), NEW h \in S
  PROVE  /\ Append(q, h) \in Seq(S) /\ Range(Append(q, h)) = Range(q) \cup {h}
         /\ IsInjective(q) /\ h \notin Range(q) => IsInjective(Append(q, h))
<1>1. PICK e \in Seq(S) : e = <<h>> /\ Range(e) = {h} /\ IsInjective(e)
  BY OneElement, Zenon
<1>2. PICK w : w = q \o e
  OBVIOUS
<1>3. /\ w \in Seq(S) /\ Range(w) = Range(q) \cup Range(e)
      /\ IsInjective(q) /\ IsInjective(e) /\ Range(q) \cap Range(e) = {} => IsInjective(w)
  BY <1>2, JoinQueues, Zenon
<1>4. Append(q, h) = w
  BY <1>1, <1>2, AppendIsConcat, Zenon
<1>5. IsInjective(q) /\ h \notin Range(q) => IsInjective(w)
  BY <1>1, <1>3
<1>6. Range(w) = Range(q) \cup {h}
  BY <1>1, <1>3
<1> QED
  BY <1>3, <1>4, <1>5, <1>6, Zenon

\* The loop takes the first request.
LEMMA TailQueue ==
  ASSUME NEW S, NEW q \in Seq(S), q # <<>>
  PROVE  /\ Head(q) \in S /\ Head(q) \in Range(q) /\ Tail(q) \in Seq(S)
         /\ IsInjective(q) => /\ IsInjective(Tail(q))
                              /\ Range(Tail(q)) = Range(q) \ {Head(q)}
<1>1. PICK w : w = Tail(q)
  OBVIOUS
<1>2. /\ w \in Seq(S) /\ Len(w) = Len(q) - 1
      /\ \A i \in 1..Len(w) : w[i] = q[i + 1]
  BY <1>1, HeadTailProperties
<1>3. Len(q) \in Nat /\ Len(q) # 0
  BY Places
<1>4. 1 \in 1..Len(q) /\ Head(q) = q[1] /\ q[1] \in Range(q) /\ q[1] \in S
  BY <1>3, Places
<1>5. \A i \in 1..Len(w) : i + 1 \in 1..Len(q) /\ i + 1 # 1 /\ w[i] = q[i + 1]
  BY <1>2, <1>3
<1>6. ASSUME IsInjective(q) PROVE IsInjective(w) /\ Range(w) = Range(q) \ {q[1]}
  <2>1. \A i, j \in 1..Len(q) : q[i] = q[j] => i = j
    BY <1>6, Places, Zenon
  <2>2. \A i, j \in 1..Len(w) : w[i] = w[j] => i = j
    <3> SUFFICES ASSUME NEW i \in 1..Len(w), NEW j \in 1..Len(w), w[i] = w[j] PROVE i = j
      OBVIOUS
    <3>1. i + 1 = j + 1
      BY <1>5, <2>1
    <3> QED
      BY <1>2, <1>3, <3>1
  <2>3. IsInjective(w)
    BY <1>2, <2>2, Places, Zenon
  <2>4. ASSUME NEW x \in Range(w) PROVE x \in Range(q) /\ x # q[1]
    <3>1. PICK i \in 1..Len(w) : w[i] = x
      BY <1>2, Places
    <3> QED
      BY <1>4, <1>5, <2>1, <3>1, Places
  <2>5. ASSUME NEW x \in Range(q), x # q[1] PROVE x \in Range(w)
    <3>1. PICK i \in 1..Len(q) : q[i] = x
      BY Places
    <3>2. i - 1 \in 1..Len(w) /\ (i - 1) + 1 = i
      BY <1>2, <1>3, <2>5, <3>1
    <3>3. w[i - 1] = x
      BY <1>5, <3>1, <3>2
    <3> QED
      BY <1>2, <3>2, <3>3, Places
  <2> QED
    BY <2>3, <2>4, <2>5
<1> QED
  BY <1>1, <1>2, <1>4, <1>6

-----------------------------------------------------------------------------
(* The server's invariant.                                                 *)

\* The user calls uv_listen once, and RegisterWaitForSingleObject works: what
\* the code does otherwise is no promise of it (win/tcp.c:462, 601, 606).
ServerDiscipline == ListensAgainWhen = {} /\ "wait_refused" \notin AcceptResults

\* Accept requests that wait for a connection or for the loop, and those that
\* hold one for the user besides.
Waiting == kernel \cup Range(pending)
InUse == Waiting \cup Range(pending_accepts)

ServerTypes ==
  /\ flags \subseteq Server!Flags /\ socket \in BOOLEAN /\ accept_reqs \in BOOLEAN
  /\ reqs_pending \in Nat /\ activecnt \in Nat
  /\ accept_socket \in [Server!AcceptReqs -> BOOLEAN]
  /\ kernel \subseteq Server!AcceptReqs
  /\ pending \in Seq(Server!AcceptReqs) /\ pending_accepts \in Seq(Server!AcceptReqs)
  /\ processed_accepts \in 0..(SimultaneousAccepts - 1)
  /\ pc \in {"loop", "accept_end"}

\* A request is in one place, and has a socket when it waits for the user.
ServerApart ==
  /\ Apart(kernel, pending) /\ Apart(Waiting, pending_accepts)
  /\ \A r \in Range(pending_accepts) : accept_socket[r]

\* Nothing is queued before the handle listens, and nothing anew once it is
\* closing.
ServerLife ==
  /\ "LISTENING" \in flags => accept_reqs /\ "CLOSING" \notin flags
  /\ "ACCEPT_STATE_CHANGING" \in flags => accept_reqs \/ "CLOSING" \in flags
  /\ "CLOSED" \in flags => "CLOSING" \in flags
  /\ "CLOSING" \in flags => ~socket
  /\ ~accept_reqs /\ "CLOSING" \notin flags => InUse = {}

ServerCounts ==
  /\ reqs_pending = Cardinality(Waiting) + Server!Bit(pc = "accept_end")
  /\ Server!ActiveWhileListening

\* While the handle listens no request is lost: all of them are in use, or the
\* one that is left, or, during the change, those that were not yet accepted.
ServerSingle ==
  /\ "SINGLE_ACCEPT" \notin flags
       => processed_accepts = 0 /\ "ACCEPT_STATE_CHANGING" \notin flags
  /\ "LISTENING" \in flags =>
       /\ "SINGLE_ACCEPT" \notin flags => InUse = Server!AcceptReqs
       /\ "ACCEPT_STATE_CHANGING" \in flags =>
            Cardinality(InUse) + processed_accepts = SimultaneousAccepts
       /\ "SINGLE_ACCEPT" \in flags /\ "ACCEPT_STATE_CHANGING" \notin flags =>
            Cardinality(InUse) = 1

ServerInv == ServerTypes /\ ServerApart /\ ServerLife /\ ServerCounts /\ ServerSingle

LEMMA AcceptReqsFinite ==
  /\ SimultaneousAccepts \in Nat \ {0} /\ Server!AcceptReqs = 1..SimultaneousAccepts
  /\ IsFiniteSet(Server!AcceptReqs) /\ Cardinality(Server!AcceptReqs) = SimultaneousAccepts
  /\ \A S \in SUBSET Server!AcceptReqs : IsFiniteSet(S) /\ Cardinality(S) \in Nat
<1>1. SimultaneousAccepts \in Nat \ {0}
  BY TcpAssumption DEF Server!ServerAssumption
<1>2. Server!AcceptReqs = 1..SimultaneousAccepts
  BY DEF Server!AcceptReqs
<1>3. IsFiniteSet(Server!AcceptReqs) /\ Cardinality(Server!AcceptReqs) = SimultaneousAccepts
  BY <1>1, <1>2, FS_Interval
<1> QED
  BY <1>1, <1>2, <1>3, FS_Subset, FS_CardinalityType

\* The instances bring their own copies of the library's operators.
LEMMA SameOperators ==
  /\ \A S : Server!Cardinality(S) = Cardinality(S) /\ Stream!Cardinality(S) = Cardinality(S)
  /\ \A q : Server!Range(q) = Range(q) /\ Stream!Range(q) = Range(q)
BY DEF Server!Cardinality, Stream!Cardinality, Cardinality,
       Server!Range, Stream!Range, Range

\* Requests that are queued together come each once.
LEMMA InOrderQueue ==
  ASSUME NEW T \in SUBSET Server!AcceptReqs, NEW q \in Server!InOrder(T)
  PROVE  q \in Seq(Server!AcceptReqs) /\ Range(q) = T /\ IsInjective(q)
<1>1. PICK n \in Nat : n = Cardinality(T) /\ IsFiniteSet(T)
  BY AcceptReqsFinite
<1>2. q \in [1..n -> T] /\ \A i, j \in 1..n : i < j => q[i] < q[j]
  <2>1. /\ q \in [1..Cardinality(T) -> T]
        /\ \A i, j \in 1..Cardinality(T) : i < j => q[i] < q[j]
    BY SameOperators, Zenon DEF Server!InOrder
  <2> QED
    BY <1>1, <2>1, Zenon
<1>3. T \subseteq Int
  BY AcceptReqsFinite
<1>4. \A i, j \in 1..n : q[i] = q[j] => i = j
  <2> SUFFICES ASSUME NEW i \in 1..n, NEW j \in 1..n, q[i] = q[j], i # j PROVE FALSE
    OBVIOUS
  <2>1. q[i] \in Int /\ q[j] \in Int
    BY <1>2, <1>3
  <2>2. i < j \/ j < i
    OBVIOUS
  <2> QED
    BY <1>2, <2>1, <2>2
<1>5. q \in Injection(1..n, T)
  BY <1>2, <1>4, Zenon DEF Injection, IsInjective
<1>6. IsFiniteSet(1..n) /\ Cardinality(1..n) = n
  BY FS_Interval
<1>7. q \in Surjection(1..n, T)
  BY <1>1, <1>5, <1>6, FS_Injection
<1>8. DOMAIN q = 1..n /\ \A x \in T : \E i \in 1..n : q[i] = x
  BY <1>2, <1>7 DEF Surjection
<1>9. Range(q) = T
  BY <1>2, <1>8 DEF Range
<1>10. IsInjective(q)
  BY <1>4, <1>8 DEF IsInjective
<1>11. q \in Seq(Server!AcceptReqs)
  BY <1>2
<1> QED
  BY <1>9, <1>10, <1>11

\* Only the sockets of the requests S may change.
Keeps(f, g, S) == \A x \in Server!AcceptReqs \ S : f[x] = g[x]

\* uv_tcp_queue_accept: the requests S are in flight, whatever came of them.
LEMMA QueueEffect ==
  ASSUME ServerDiscipline, NEW S \in SUBSET Server!AcceptReqs,
         NEW how \in [S -> AcceptResults], NEW p \in Seq(Server!AcceptReqs),
         NEW sockets \in [Server!AcceptReqs -> BOOLEAN],
         kernel \subseteq Server!AcceptReqs, reqs_pending \in Nat,
         Apart(kernel, p), S \cap (kernel \cup Range(p)) = {},
         Server!uv_tcp_queue_accept(S, how, p, sockets)
  PROVE  /\ kernel' \subseteq Server!AcceptReqs /\ pending' \in Seq(Server!AcceptReqs)
         /\ Apart(kernel', pending')
         /\ kernel' \cup Range(pending') = kernel \cup Range(p) \cup S
         /\ reqs_pending' = reqs_pending + Cardinality(S)
         /\ accept_socket' \in [Server!AcceptReqs -> BOOLEAN]
         /\ Keeps(accept_socket', sockets, S)
<1>1. PICK T \in SUBSET S : T = {r \in S : how[r] # "kernel"}
  OBVIOUS
<1>2. PICK q \in Server!InOrder(T) : pending' = p \o q
  BY <1>1 DEF Server!uv_tcp_queue_accept
<1>3. T \in SUBSET Server!AcceptReqs
  OBVIOUS
<1>4. q \in Seq(Server!AcceptReqs) /\ Range(q) = T /\ IsInjective(q)
  BY <1>3, InOrderQueue
<1>5. PICK w : w = p \o q
  OBVIOUS
<1>6. /\ w \in Seq(Server!AcceptReqs) /\ Range(w) = Range(p) \cup T
      /\ Range(p) \cap T = {} => IsInjective(w)
  BY <1>4, <1>5, JoinQueues DEF Apart
<1>7. kernel' = kernel \cup (S \ T)
  BY <1>1 DEF Server!uv_tcp_queue_accept
<1>8. Apart(kernel', w)
  BY <1>6, <1>7 DEF Apart
<1>9. {r \in S : how[r] = "wait_refused"} = {}
  BY DEF ServerDiscipline
<1>10. reqs_pending' = reqs_pending + Cardinality(S)
  <2>1. Cardinality({r \in S : how[r] = "wait_refused"}) = 0
    BY <1>9, FS_EmptySet
  <2>2. Cardinality(S) \in Nat
    BY AcceptReqsFinite
  <2>3. reqs_pending' = reqs_pending
                          + (Cardinality(S) + Cardinality({r \in S : how[r] = "wait_refused"}))
    BY SameOperators, Zenon DEF Server!QueuedCount, Server!uv_tcp_queue_accept
  <2>4. PICK n, m : /\ n = Cardinality(S)
                    /\ m = Cardinality({r \in S : how[r] = "wait_refused"})
    OBVIOUS
  <2>5. reqs_pending' = reqs_pending + (n + m) /\ n \in Nat /\ m = 0
    BY <2>1, <2>2, <2>3, <2>4, Zenon
  <2>6. reqs_pending' = reqs_pending + n
    BY <2>5
  <2> QED
    BY <2>4, <2>6, Zenon
<1>11. Keeps(accept_socket', sockets, S)
  BY DEF Server!uv_tcp_queue_accept, Keeps
<1> QED
  BY <1>2, <1>5, <1>6, <1>7, <1>8, <1>10, <1>11 DEF Server!uv_tcp_queue_accept

\* How sets of accept requests count.
LEMMA CountSteps ==
  ASSUME NEW W \in SUBSET Server!AcceptReqs, NEW r \in Server!AcceptReqs
  PROVE  /\ Cardinality(W) \in Nat /\ Cardinality({r}) = 1 /\ Cardinality({}) = 0
         /\ r \notin W => Cardinality(W \cup {r}) = Cardinality(W) + 1
         /\ r \in W => Cardinality(W \ {r}) = Cardinality(W) - 1 /\ Cardinality(W) # 0
         /\ r \in W /\ Cardinality(W) = 1 => W = {r}
<1>1. IsFiniteSet(W) /\ Cardinality(W) \in Nat
  BY AcceptReqsFinite
<1>2. Cardinality({r}) = 1 /\ Cardinality({}) = 0
  BY FS_EmptySet, FS_Singleton
<1>3. r \notin W => Cardinality(W \cup {r}) = Cardinality(W) + 1
  BY <1>1, FS_AddElement
<1>4. ASSUME r \in W
      PROVE  /\ Cardinality(W \ {r}) = Cardinality(W) - 1 /\ Cardinality(W) # 0
             /\ Cardinality(W) = 1 => W = {r}
  <2>1. Cardinality(W \ {r}) = Cardinality(W) - 1
    BY <1>1, <1>4, FS_RemoveElement
  <2>2. IsFiniteSet(W \ {r}) /\ Cardinality(W \ {r}) \in Nat
    BY <1>1, FS_RemoveElement, FS_CardinalityType
  <2>3. PICK n, m : n = Cardinality(W) /\ m = Cardinality(W \ {r})
    OBVIOUS
  <2>4. n # 0
    BY <1>1, <2>1, <2>2, <2>3
  <2>5. ASSUME n = 1 PROVE W = {r}
    <3>1. m = 0
      BY <1>1, <2>1, <2>2, <2>3, <2>5
    <3>2. W \ {r} = {}
      BY <2>2, <2>3, <3>1, FS_EmptySet
    <3> QED
      BY <1>4, <3>2
  <2> QED
    BY <2>1, <2>3, <2>4, <2>5
<1> QED
  BY <1>1, <1>2, <1>3, <1>4

LEMMA ServerInit ==
  ASSUME Server!Init
  PROVE  ServerInv
<1> USE DEF Server!Init
<1>1. pending = <<>> /\ Range(<<>>) = {} /\ <<>> \in Seq(Server!AcceptReqs)
      /\ IsInjective(<<>>)
  BY EmptyQueue
<1>2. Range(pending) = {} /\ Range(pending_accepts) = {}
  BY <1>1
<1>3. SimultaneousAccepts \in Nat \ {0} /\ Cardinality({}) = 0
  BY AcceptReqsFinite, FS_EmptySet
<1>4. Waiting = {} /\ InUse = {}
  BY <1>2 DEF Waiting, InUse
<1>5. ServerTypes
  <2>1. pending \in Seq(Server!AcceptReqs) /\ pending_accepts \in Seq(Server!AcceptReqs)
    BY <1>1, Zenon
  <2>2. processed_accepts \in 0..(SimultaneousAccepts - 1)
    BY <1>3
  <2>3. /\ flags \subseteq Server!Flags /\ socket \in BOOLEAN /\ accept_reqs \in BOOLEAN
        /\ reqs_pending \in Nat /\ activecnt \in Nat
        /\ kernel \subseteq Server!AcceptReqs /\ pc \in {"loop", "accept_end"}
        /\ accept_socket \in [Server!AcceptReqs -> BOOLEAN]
    BY DEF Server!Flags
  <2> QED
    BY <2>1, <2>2, <2>3, Zenon DEF ServerTypes
<1>6. ServerApart
  BY <1>1, <1>2, <1>4 DEF ServerApart, Apart
<1>7. ServerLife
  BY <1>4 DEF ServerLife
<1>8. ServerCounts
  BY <1>3, <1>4 DEF ServerCounts, Server!ActiveWhileListening, Server!Bit
<1>9. ServerSingle
  BY DEF ServerSingle
<1> QED
  BY <1>5, <1>6, <1>7, <1>8, <1>9 DEF ServerInv

\* Steps that move no request and leave the handle listening or not.
LEMMA ServerStill ==
  ASSUME ServerInv,
         UNCHANGED <<socket, activecnt, Server!queueVars, pending_accepts,
                     processed_accepts, pc>>,
         flags' \subseteq Server!Flags,
         flags' \cap {"LISTENING", "CLOSING", "SINGLE_ACCEPT", "ACCEPT_STATE_CHANGING"}
           = flags \cap {"LISTENING", "CLOSING", "SINGLE_ACCEPT", "ACCEPT_STATE_CHANGING"},
         accept_reqs' = accept_reqs \/ ("CLOSING" \in flags /\ accept_reqs' \in BOOLEAN),
         "CLOSED" \in flags' => "CLOSING" \in flags
  PROVE  ServerInv'
<1> USE DEF Server!queueVars
<1>1. Waiting' = Waiting /\ InUse' = InUse
  BY DEF Waiting, InUse
<1>2. \A f \in {"LISTENING", "CLOSING", "SINGLE_ACCEPT", "ACCEPT_STATE_CHANGING"} :
        f \in flags' <=> f \in flags
  OBVIOUS
<1>3. ServerTypes'
  BY DEF ServerInv, ServerTypes
<1>4. ServerApart'
  BY <1>1 DEF ServerInv, ServerApart
<1>5. ServerLife'
  BY <1>1, <1>2 DEF ServerInv, ServerLife
<1>6. ServerCounts'
  BY <1>1, <1>2 DEF ServerInv, ServerCounts, Server!ActiveWhileListening
<1>7. ServerSingle'
  BY <1>1, <1>2 DEF ServerInv, ServerSingle
<1> QED
  BY <1>3, <1>4, <1>5, <1>6, <1>7 DEF ServerInv

LEMMA DuplicateInv ==
  ASSUME ServerInv, Server!uv_tcp_duplicate_socket
  PROVE  ServerInv'
<1> USE DEF Server!uv_tcp_duplicate_socket
<1>1. flags' = flags \/ flags' = flags \cup {"SHARED"}
  OBVIOUS
<1> QED
  BY <1>1, ServerStill DEF ServerInv, ServerTypes, ServerLife, Server!Flags

LEMMA ServerReturnsInv ==
  ASSUME ServerInv, Server!CallbackReturns
  PROVE  ServerInv'
BY ServerStill DEF Server!CallbackReturns, ServerInv, ServerTypes, ServerLife

LEMMA ServerEndgameInv ==
  ASSUME ServerInv, Server!uv_tcp_endgame
  PROVE  ServerInv'
<1> USE DEF Server!uv_tcp_endgame, Server!Open
<1>1. \/ /\ flags' = (flags \ {"ENDGAME_QUEUED"}) \cup {"CLOSED"} /\ "CLOSING" \in flags
         /\ accept_reqs' = FALSE
      \/ flags' = flags \ {"ENDGAME_QUEUED"} /\ accept_reqs' = accept_reqs
  OBVIOUS
<1> QED
  BY <1>1, ServerStill DEF ServerInv, ServerTypes, ServerLife, Server!Flags

LEMMA SimultaneousInv ==
  ASSUME ServerInv, Server!uv_tcp_simultaneous_accepts
  PROVE  ServerInv'
<1> USE DEF Server!uv_tcp_simultaneous_accepts, Server!queueVars
<1>1. Waiting' = Waiting /\ InUse' = InUse
  BY DEF Waiting, InUse
<1>2. /\ flags' = flags \cup {"SINGLE_ACCEPT"} \cup
                    IF "LISTENING" \in flags THEN {"ACCEPT_STATE_CHANGING"} ELSE {}
      /\ "SINGLE_ACCEPT" \notin flags /\ "CLOSING" \notin flags
  BY DEF Server!SingleAccept, Server!Open
<1>3. /\ "LISTENING" \in flags' <=> "LISTENING" \in flags
      /\ "CLOSING" \notin flags' /\ "SINGLE_ACCEPT" \in flags'
      /\ "CLOSED" \in flags' <=> "CLOSED" \in flags
      /\ "ACCEPT_STATE_CHANGING" \in flags' <=>
           "ACCEPT_STATE_CHANGING" \in flags \/ "LISTENING" \in flags
  BY <1>2
<1>4. ServerTypes'
  BY <1>2 DEF ServerInv, ServerTypes, Server!Flags
<1>5. ServerApart'
  BY <1>1 DEF ServerInv, ServerApart
<1>6. ServerLife'
  BY <1>1, <1>2, <1>3 DEF ServerInv, ServerLife
<1>7. ServerCounts'
  BY <1>1, <1>3 DEF ServerInv, ServerCounts, Server!ActiveWhileListening
<1>8. ServerSingle'
  <2>1. "LISTENING" \in flags => InUse = Server!AcceptReqs /\ processed_accepts = 0
    BY <1>2 DEF ServerInv, ServerSingle
  <2>2. SimultaneousAccepts \in Nat /\ Cardinality(Server!AcceptReqs) = SimultaneousAccepts
    BY AcceptReqsFinite
  <2>3. "LISTENING" \in flags => Cardinality(InUse) + processed_accepts = SimultaneousAccepts
    BY <2>1, <2>2
  <2> QED
    BY <1>1, <1>3, <2>3 DEF ServerSingle
<1> QED
  BY <1>4, <1>5, <1>6, <1>7, <1>8 DEF ServerInv

LEMMA ServerCloseInv ==
  ASSUME ServerInv, Server!uv_tcp_close
  PROVE  ServerInv'
<1> USE DEF Server!uv_tcp_close
<1>1. Waiting' = Waiting /\ InUse' = InUse
  BY DEF Waiting, InUse
<1>2. PICK f : f = (flags \ {"LISTENING"}) \cup {"CLOSING", "SOCKET_CLOSED"}
  OBVIOUS
<1>3. flags' = f \/ flags' = f \cup {"ENDGAME_QUEUED"}
  BY <1>2 DEF Server!CloseWhenIdle, Server!uv_want_endgame
<1>4. /\ "LISTENING" \notin flags' /\ "CLOSING" \in flags'
      /\ "SINGLE_ACCEPT" \in flags' <=> "SINGLE_ACCEPT" \in flags
      /\ "ACCEPT_STATE_CHANGING" \in flags' <=> "ACCEPT_STATE_CHANGING" \in flags
  BY <1>2, <1>3
<1>5. /\ accept_socket' \in [Server!AcceptReqs -> BOOLEAN]
      /\ \A r \in Server!AcceptReqs : r \notin kernel => accept_socket'[r] = accept_socket[r]
  BY DEF ServerInv, ServerTypes
<1>6. activecnt' = 0
  BY DEF ServerInv, ServerCounts, Server!ActiveWhileListening, Server!StoppedListening,
         Server!Bit
<1>7. ServerTypes'
  <2>1. flags' \subseteq Server!Flags
    BY <1>2, <1>3 DEF ServerInv, ServerTypes, Server!Flags
  <2>2. activecnt' \in Nat /\ socket' \in BOOLEAN
    <3>1. 0 \in Nat /\ FALSE \in BOOLEAN
      OBVIOUS
    <3> QED
      BY <1>6, <3>1, Zenon
  <2>3. UNCHANGED <<accept_reqs, reqs_pending, kernel, pending, pending_accepts,
                    processed_accepts, pc>>
    OBVIOUS
  <2> QED
    BY <1>5, <2>1, <2>2, <2>3, Zenon DEF ServerInv, ServerTypes
<1>8. ServerApart'
  <2>1. \A r \in Range(pending_accepts) : r \notin kernel /\ r \in Server!AcceptReqs
    BY Places DEF ServerInv, ServerTypes, ServerApart, Apart, Waiting
  <2> QED
    BY <1>1, <1>5, <2>1 DEF ServerInv, ServerApart
<1>9. ServerLife'
  BY <1>4 DEF ServerLife
<1>10. ServerCounts'
  BY <1>1, <1>4, <1>6 DEF ServerInv, ServerCounts, Server!ActiveWhileListening, Server!Bit
<1>11. ServerSingle'
  BY <1>1, <1>4 DEF ServerInv, ServerSingle
<1> QED
  BY <1>7, <1>8, <1>9, <1>10, <1>11 DEF ServerInv

LEMMA ServerListenInv ==
  ASSUME ServerDiscipline, ServerInv, Server!uv_tcp_listen
  PROVE  ServerInv'
<1>1. ~accept_reqs /\ "CLOSING" \notin flags
  BY DEF Server!uv_tcp_listen, ServerDiscipline, Server!MayListen, Server!Open
<1>frame. UNCHANGED <<pending_accepts, processed_accepts, pc>>
  BY DEF Server!uv_tcp_listen
<1>2. "LISTENING" \notin flags /\ InUse = {} /\ Waiting = {} /\ Range(pending) = {}
        /\ "ACCEPT_STATE_CHANGING" \notin flags
  BY <1>1 DEF ServerInv, ServerLife, InUse, Waiting
<1>3. CASE /\ flags' = flags \cup {"BOUND", "LISTENING"} /\ activecnt' = activecnt + 1
           /\ accept_reqs' = TRUE /\ socket' = TRUE
           /\ \E how \in [Server!QueuedAtFirst -> AcceptResults] :
                Server!uv_tcp_queue_accept(Server!QueuedAtFirst, how, pending, accept_socket)
  <2>1. PICK S : S = Server!QueuedAtFirst
    OBVIOUS
  <2>2. /\ S \in SUBSET Server!AcceptReqs /\ S # {}
        /\ "SINGLE_ACCEPT" \in flags => S = {1} /\ 1 \in Server!AcceptReqs
        /\ "SINGLE_ACCEPT" \notin flags => S = Server!AcceptReqs
    <3>1. Server!AcceptReqs = 1..SimultaneousAccepts /\ SimultaneousAccepts \in Nat \ {0}
      BY AcceptReqsFinite, Zenon
    <3>2. 1 \in Server!AcceptReqs
      BY <3>1
    <3> QED
      BY <2>1, <3>2 DEF Server!QueuedAtFirst
  <2>3. PICK how \in [S -> AcceptResults] :
          Server!uv_tcp_queue_accept(S, how, pending, accept_socket)
    BY <1>3, <2>1
  <2>4. /\ kernel' \subseteq Server!AcceptReqs /\ pending' \in Seq(Server!AcceptReqs)
        /\ Apart(kernel', pending')
        /\ kernel' \cup Range(pending') = S
        /\ reqs_pending' = reqs_pending + Cardinality(S)
        /\ accept_socket' \in [Server!AcceptReqs -> BOOLEAN]
    <3>1. kernel = {} /\ S \cap (kernel \cup Range(pending)) = {}
      BY <1>2 DEF Waiting
    <3>2. /\ kernel \subseteq Server!AcceptReqs /\ reqs_pending \in Nat
          /\ pending \in Seq(Server!AcceptReqs) /\ Apart(kernel, pending)
          /\ accept_socket \in [Server!AcceptReqs -> BOOLEAN]
      BY DEF ServerInv, ServerTypes, ServerApart
    <3>3. PICK p \in Seq(Server!AcceptReqs), a \in [Server!AcceptReqs -> BOOLEAN] :
            p = pending /\ a = accept_socket
      BY <3>2
    <3>4. Server!uv_tcp_queue_accept(S, how, p, a)
      BY <2>3, <3>3
    <3>5. /\ kernel' \subseteq Server!AcceptReqs /\ pending' \in Seq(Server!AcceptReqs)
          /\ Apart(kernel', pending')
          /\ kernel' \cup Range(pending') = kernel \cup Range(p) \cup S
          /\ reqs_pending' = reqs_pending + Cardinality(S)
          /\ accept_socket' \in [Server!AcceptReqs -> BOOLEAN]
      BY <2>2, <3>1, <3>2, <3>3, <3>4, QueueEffect, Zenon
    <3>6. kernel \cup Range(p) \cup S = S
      BY <1>2, <3>1, <3>3
    <3> QED
      BY <3>5, <3>6, Zenon
  <2>5. Waiting' = S /\ InUse' = S
    <3>1. Range(pending_accepts') = {}
      BY <1>2, <1>frame DEF InUse
    <3> QED
      BY <2>4, <3>1 DEF Waiting, InUse
  <2>6. /\ "LISTENING" \in flags' /\ "CLOSING" \notin flags'
        /\ "ACCEPT_STATE_CHANGING" \notin flags'
        /\ "CLOSED" \in flags' <=> "CLOSED" \in flags
        /\ "SINGLE_ACCEPT" \in flags' <=> "SINGLE_ACCEPT" \in flags
    BY <1>1, <1>2, <1>3
  <2>7. /\ activecnt' = 1 /\ Cardinality(S) \in Nat
        /\ reqs_pending' = Cardinality(S) + Server!Bit(pc = "accept_end")
        /\ reqs_pending' \in Nat
    <3>1. Cardinality(Waiting) = 0 /\ Cardinality(S) \in Nat
      BY <1>2, <2>2, FS_EmptySet, AcceptReqsFinite
    <3>2. activecnt = 0
      BY <1>2 DEF ServerInv, ServerCounts, Server!ActiveWhileListening, Server!Bit
    <3>3. reqs_pending = 0 + Server!Bit(pc = "accept_end")
      BY <3>1 DEF ServerInv, ServerCounts
    <3>4. Server!Bit(pc = "accept_end") \in Nat
      BY DEF Server!Bit
    <3>5. PICK n, b : n = Cardinality(S) /\ b = Server!Bit(pc = "accept_end")
      OBVIOUS
    <3>6. reqs_pending' = b + n /\ b \in Nat /\ n \in Nat
      BY <2>4, <3>1, <3>3, <3>4, <3>5
    <3>7. reqs_pending' = n + b /\ reqs_pending' \in Nat
      BY <3>6
    <3> QED
      BY <1>3, <3>1, <3>2, <3>5, <3>7
  <2>8. ServerTypes'
    <3>1. flags' \subseteq Server!Flags
      BY <1>3 DEF ServerInv, ServerTypes, Server!Flags
    <3>2. activecnt' \in Nat /\ socket' \in BOOLEAN /\ accept_reqs' \in BOOLEAN
      BY <1>3, <2>7
    <3> QED
      BY <1>frame, <2>4, <2>7, <3>1, <3>2, Zenon DEF ServerInv, ServerTypes
  <2>9. ServerApart'
    <3>1. Range(pending_accepts') = {} /\ IsInjective(pending_accepts')
      BY <1>2, <1>frame DEF InUse, ServerInv, ServerApart, Apart
    <3>2. Apart(S, pending_accepts') /\ \A r \in Range(pending_accepts') : accept_socket'[r]
      BY <3>1 DEF Apart
    <3> QED
      BY <2>4, <2>5, <3>2, Zenon DEF ServerApart
  <2>10. ServerLife'
    BY <1>3, <2>6 DEF ServerInv, ServerLife
  <2>11. ServerCounts'
    <3>1. activecnt' = Server!Bit("LISTENING" \in flags')
      BY <2>6, <2>7 DEF Server!Bit
    <3> QED
      BY <1>frame, <2>5, <2>7, <3>1, Zenon DEF ServerCounts, Server!ActiveWhileListening
  <2>12. ServerSingle'
    <3>1. Cardinality({1}) = 1
      BY FS_Singleton
    <3> QED
      BY <1>frame, <2>2, <2>5, <2>6, <3>1 DEF ServerInv, ServerSingle
  <2> QED
    BY <2>8, <2>9, <2>10, <2>11, <2>12 DEF ServerInv
<1>4. CASE /\ flags' = flags \/ flags' = flags \cup {"BOUND"}
           /\ socket' \in BOOLEAN
           /\ UNCHANGED <<activecnt, accept_reqs, Server!queueVars>>
  <2>1. Waiting' = Waiting /\ InUse' = InUse
    BY <1>4, <1>frame DEF Waiting, InUse, Server!queueVars
  <2>2. \A f \in {"LISTENING", "CLOSING", "SINGLE_ACCEPT", "ACCEPT_STATE_CHANGING", "CLOSED"} :
          f \in flags' <=> f \in flags
    BY <1>4
  <2>3. ServerTypes'
    BY <1>4, <1>frame DEF ServerInv, ServerTypes, Server!queueVars, Server!Flags
  <2>4. ServerApart'
    BY <1>4, <1>frame, <2>1 DEF ServerInv, ServerApart, Server!queueVars
  <2>5. ServerLife'
    BY <1>1, <1>4, <2>1, <2>2 DEF ServerInv, ServerLife
  <2>6. ServerCounts'
    BY <1>4, <1>frame, <2>1, <2>2 DEF ServerInv, ServerCounts, Server!ActiveWhileListening,
                            Server!queueVars
  <2>7. ServerSingle'
    BY <1>frame, <2>1, <2>2 DEF ServerInv, ServerSingle
  <2> QED
    BY <2>3, <2>4, <2>5, <2>6, <2>7 DEF ServerInv
<1> QED
  <2>1. PICK bound \in {"ok", "in use", "error"}, listens \in BOOLEAN :
       /\ socket' \in IF bound = "error" THEN {socket, TRUE} ELSE {TRUE}
       /\ IF bound = "ok" /\ listens
          THEN /\ flags' = flags \cup {"BOUND", "LISTENING"}
               /\ activecnt' = activecnt + 1
               /\ accept_reqs' = TRUE
               /\ IF accept_reqs THEN UNCHANGED Server!queueVars
                  ELSE \E how \in [Server!QueuedAtFirst -> AcceptResults] :
                         Server!uv_tcp_queue_accept(Server!QueuedAtFirst, how, pending,
                                                    accept_socket)
          ELSE /\ flags' = IF bound = "error" THEN flags ELSE flags \cup {"BOUND"}
               /\ UNCHANGED <<activecnt, accept_reqs, Server!queueVars>>
    BY Zenon DEF Server!uv_tcp_listen
  <2>2. socket \in BOOLEAN
    BY DEF ServerInv, ServerTypes
  <2>3. CASE bound = "ok" /\ listens
    BY <1>1, <1>3, <2>1, <2>3
  <2>4. CASE ~(bound = "ok" /\ listens)
    <3>1. socket' \in BOOLEAN
      BY <2>1, <2>2
    <3> QED
      BY <1>4, <2>1, <2>4, <3>1, Zenon
  <2> QED
    BY <2>3, <2>4

LEMMA ServerCompletesInv ==
  ASSUME ServerInv, NEW r \in Server!AcceptReqs, Server!KernelCompletes(r)
  PROVE  ServerInv'
<1> DEFINE rest == <<flags, socket, activecnt, accept_reqs, reqs_pending, accept_socket,
                     pending_accepts, processed_accepts, pc>>
<1>1. /\ r \in kernel /\ kernel' = kernel \ {r} /\ pending' = Append(pending, r)
      /\ UNCHANGED rest
  BY DEF Server!KernelCompletes
<1>2. /\ kernel \subseteq Server!AcceptReqs /\ pending \in Seq(Server!AcceptReqs)
      /\ IsInjective(pending) /\ kernel \cap Range(pending) = {}
  BY DEF ServerInv, ServerTypes, ServerApart, Apart
<1>3. /\ pending' \in Seq(Server!AcceptReqs)
      /\ Range(pending') = Range(pending) \cup {r} /\ IsInjective(pending')
  BY <1>1, <1>2, AppendQueue
<1>4. /\ kernel' \subseteq Server!AcceptReqs /\ Apart(kernel', pending')
      /\ kernel' \cup Range(pending') = kernel \cup Range(pending)
  BY <1>1, <1>2, <1>3 DEF Apart
<1>5. Waiting' = Waiting /\ InUse' = InUse
  BY <1>1, <1>4 DEF Waiting, InUse
<1> HIDE DEF rest
<1>6. UNCHANGED rest
  BY <1>1
<1> USE DEF rest
<1>7. ServerTypes'
  BY <1>3, <1>4, <1>6, Zenon DEF ServerInv, ServerTypes
<1>8. ServerApart'
  BY <1>4, <1>5, <1>6 DEF ServerInv, ServerApart
<1>9. ServerLife'
  BY <1>5, <1>6 DEF ServerInv, ServerLife
<1>10. ServerCounts'
  BY <1>5, <1>6 DEF ServerInv, ServerCounts, Server!ActiveWhileListening
<1>11. ServerSingle'
  BY <1>5, <1>6 DEF ServerInv, ServerSingle
<1> QED
  BY <1>7, <1>8, <1>9, <1>10, <1>11 DEF ServerInv

\* The loop takes the request at the head of its queue.
LEMMA TakenHead ==
  ASSUME ServerInv, Server!Take
  PROVE  /\ pc = "loop" /\ pc' = "accept_end"
         /\ Head(pending) \in Server!AcceptReqs /\ Head(pending) \in Range(pending)
         /\ Head(pending) \notin kernel /\ Head(pending) \notin Range(pending_accepts)
         /\ Tail(pending) \in Seq(Server!AcceptReqs) /\ Apart(kernel, Tail(pending))
         /\ Range(Tail(pending)) = Range(pending) \ {Head(pending)}
         /\ kernel \cup Range(Tail(pending)) = Waiting \ {Head(pending)}
         /\ reqs_pending = Cardinality(Waiting \ {Head(pending)}) + 1
         /\ Cardinality(Waiting \ {Head(pending)}) \in Nat
<1>1. pc = "loop" /\ pc' = "accept_end" /\ pending # <<>>
  BY DEF Server!Take
<1>2. /\ kernel \subseteq Server!AcceptReqs /\ pending \in Seq(Server!AcceptReqs)
      /\ IsInjective(pending) /\ kernel \cap Range(pending) = {}
      /\ Waiting \cap Range(pending_accepts) = {}
  BY DEF ServerInv, ServerTypes, ServerApart, Apart
<1>3. /\ Head(pending) \in Server!AcceptReqs /\ Head(pending) \in Range(pending)
      /\ Tail(pending) \in Seq(Server!AcceptReqs) /\ IsInjective(Tail(pending))
      /\ Range(Tail(pending)) = Range(pending) \ {Head(pending)}
  BY <1>1, <1>2, TailQueue, Zenon
<1>4. PICK h, t : h = Head(pending) /\ t = Tail(pending)
  OBVIOUS
<1>5. /\ h \in Waiting /\ h \notin kernel /\ h \notin Range(pending_accepts)
      /\ Apart(kernel, t) /\ kernel \cup Range(t) = Waiting \ {h}
      /\ Waiting \in SUBSET Server!AcceptReqs
  <2>1. Range(pending) \subseteq Server!AcceptReqs
    BY <1>2, Places
  <2> QED
    BY <1>2, <1>3, <1>4, <2>1 DEF Waiting, Apart
<1>6. reqs_pending = Cardinality(Waiting \ {h}) + 1 /\ Cardinality(Waiting \ {h}) \in Nat
  <2>1. PICK n, m : n = Cardinality(Waiting) /\ m = Cardinality(Waiting \ {h})
    OBVIOUS
  <2>2. h \in Server!AcceptReqs
    BY <1>3, <1>4
  <2>3. n \in Nat /\ m = n - 1 /\ n # 0
    BY <1>5, <2>1, <2>2, CountSteps, Zenon
  <2>4. reqs_pending = n + 0
    BY <1>1, <2>1 DEF ServerInv, ServerCounts, Server!Bit
  <2>5. reqs_pending = m + 1 /\ m \in Nat
    BY <2>3, <2>4
  <2> QED
    BY <2>1, <2>5
<1> QED
  BY <1>1, <1>3, <1>4, <1>5, <1>6, Zenon

LEMMA AcceptFailedInv ==
  ASSUME ServerInv, Server!AcceptFailed
  PROVE  ServerInv'
<1>1. /\ Server!Take /\ pending' = Tail(pending) /\ flags' = flags \ {"LISTENING"}
      /\ activecnt' = activecnt - Server!StoppedListening
      /\ UNCHANGED <<socket, accept_reqs, reqs_pending, accept_socket, kernel,
                     pending_accepts, processed_accepts>>
  BY DEF Server!AcceptFailed
<1>2. PICK h : h = Head(pending)
  OBVIOUS
<1>3. /\ pc = "loop" /\ pc' = "accept_end" /\ pending' \in Seq(Server!AcceptReqs)
      /\ Apart(kernel', pending') /\ kernel' \cup Range(pending') = Waiting \ {h}
      /\ reqs_pending' = Cardinality(Waiting \ {h}) + 1
  <2>1. /\ pc = "loop" /\ pc' = "accept_end" /\ Tail(pending) \in Seq(Server!AcceptReqs)
        /\ Apart(kernel, Tail(pending)) /\ kernel \cup Range(Tail(pending)) = Waiting \ {h}
        /\ reqs_pending = Cardinality(Waiting \ {h}) + 1
    BY <1>1, <1>2, TakenHead, Zenon
  <2> QED
    BY <1>1, <2>1
<1>4. Waiting' = Waiting \ {h} /\ InUse' = InUse \ {h}
  <2>1. h \notin Range(pending_accepts)
    BY <1>1, <1>2, TakenHead
  <2> QED
    BY <1>1, <1>3, <2>1 DEF Waiting, InUse
<1>5. activecnt' = 0
  BY <1>1 DEF ServerInv, ServerCounts, Server!ActiveWhileListening,
              Server!StoppedListening, Server!Bit
<1>6. ServerTypes'
  <2>1. flags' \subseteq Server!Flags
    BY <1>1 DEF ServerInv, ServerTypes
  <2>2. activecnt' \in Nat /\ pc' \in {"loop", "accept_end"}
    BY <1>3, <1>5
  <2> QED
    BY <1>1, <1>3, <2>1, <2>2, Zenon DEF ServerInv, ServerTypes
<1>7. ServerApart'
  <2>1. Apart(Waiting \ {h}, pending_accepts)
    BY DEF ServerInv, ServerApart, Apart
  <2> QED
    BY <1>1, <1>3, <1>4, <2>1 DEF ServerInv, ServerApart
<1>8. ServerLife'
  BY <1>1, <1>4 DEF ServerInv, ServerLife
<1>9. ServerCounts'
  <2>1. activecnt' = Server!Bit("LISTENING" \in flags')
    BY <1>1, <1>5 DEF Server!Bit
  <2>2. Server!Bit(pc' = "accept_end") = 1
    BY <1>3 DEF Server!Bit
  <2> QED
    BY <1>3, <1>4, <2>1, <2>2, Zenon DEF ServerCounts, Server!ActiveWhileListening
<1>10. ServerSingle'
  BY <1>1 DEF ServerInv, ServerSingle
<1> QED
  BY <1>6, <1>7, <1>8, <1>9, <1>10 DEF ServerInv

LEMMA AcceptedInv ==
  ASSUME ServerInv, Server!Accepted
  PROVE  ServerInv'
<1>1. /\ Server!Take /\ pending' = Tail(pending) /\ accept_socket[Head(pending)]
      /\ pending_accepts' = <<Head(pending)>> \o pending_accepts
      /\ UNCHANGED <<flags, socket, activecnt, accept_reqs, reqs_pending, accept_socket,
                     kernel, processed_accepts>>
  BY DEF Server!Accepted
<1>2. PICK h : h = Head(pending)
  OBVIOUS
<1>3. /\ pc = "loop" /\ pc' = "accept_end" /\ pending' \in Seq(Server!AcceptReqs)
      /\ Apart(kernel', pending') /\ kernel' \cup Range(pending') = Waiting \ {h}
      /\ reqs_pending' = Cardinality(Waiting \ {h}) + 1
  <2>1. /\ pc = "loop" /\ pc' = "accept_end" /\ Tail(pending) \in Seq(Server!AcceptReqs)
        /\ Apart(kernel, Tail(pending)) /\ kernel \cup Range(Tail(pending)) = Waiting \ {h}
        /\ reqs_pending = Cardinality(Waiting \ {h}) + 1
    BY <1>1, <1>2, TakenHead, Zenon
  <2> QED
    BY <1>1, <2>1
<1>4. h \in Server!AcceptReqs /\ h \in Range(pending) /\ h \notin Range(pending_accepts)
  BY <1>1, <1>2, TakenHead
<1>5. /\ pending_accepts' \in Seq(Server!AcceptReqs) /\ IsInjective(pending_accepts')
      /\ Range(pending_accepts') = Range(pending_accepts) \cup {h}
  <2>1. PICK a \in Seq(Server!AcceptReqs) :
          a = <<h>> /\ Range(a) = {h} /\ IsInjective(a)
    BY <1>4, OneElement, Zenon
  <2>2. pending_accepts \in Seq(Server!AcceptReqs) /\ IsInjective(pending_accepts)
    BY DEF ServerInv, ServerTypes, ServerApart, Apart
  <2>3. Range(a) \cap Range(pending_accepts) = {}
    BY <1>4, <2>1
  <2>4. /\ a \o pending_accepts \in Seq(Server!AcceptReqs)
        /\ Range(a \o pending_accepts) = Range(a) \cup Range(pending_accepts)
        /\ IsInjective(a \o pending_accepts)
    BY <2>1, <2>2, <2>3, JoinQueues, Zenon
  <2>5. pending_accepts' = a \o pending_accepts
    BY <1>1, <1>2, <2>1
  <2> QED
    BY <2>1, <2>4, <2>5
<1>6. Waiting' = Waiting \ {h} /\ InUse' = InUse
  BY <1>3, <1>4, <1>5 DEF Waiting, InUse
<1>7. ServerTypes'
  <2>1. pc' \in {"loop", "accept_end"}
    BY <1>3
  <2> QED
    BY <1>1, <1>3, <1>5, <2>1, Zenon DEF ServerInv, ServerTypes
<1>8. ServerApart'
  <2>1. Apart(Waiting \ {h}, pending_accepts')
    BY <1>5 DEF ServerInv, ServerApart, Apart
  <2>2. \A r \in Range(pending_accepts') : accept_socket'[r]
    BY <1>1, <1>2, <1>5 DEF ServerInv, ServerApart
  <2> QED
    BY <1>3, <1>6, <2>1, <2>2, Zenon DEF ServerApart
<1>9. ServerLife'
  BY <1>1, <1>6 DEF ServerInv, ServerLife
<1>10. ServerCounts'
  <2>1. Server!Bit(pc' = "accept_end") = 1
    BY <1>3 DEF Server!Bit
  <2>2. activecnt' = Server!Bit("LISTENING" \in flags')
    BY <1>1 DEF ServerInv, ServerCounts, Server!ActiveWhileListening
  <2> QED
    BY <1>3, <1>6, <2>1, <2>2, Zenon DEF ServerCounts, Server!ActiveWhileListening
<1>11. ServerSingle'
  BY <1>1, <1>6 DEF ServerInv, ServerSingle
<1> QED
  BY <1>7, <1>8, <1>9, <1>10, <1>11 DEF ServerInv

\* One request is queued: QueueEffect for a set of one.
LEMMA QueueOne ==
  ASSUME ServerDiscipline, NEW r \in Server!AcceptReqs,
         NEW p \in Seq(Server!AcceptReqs),
         NEW sockets \in [Server!AcceptReqs -> BOOLEAN],
         kernel \subseteq Server!AcceptReqs, reqs_pending \in Nat,
         Apart(kernel, p), r \notin kernel \cup Range(p),
         \E how \in [{r} -> AcceptResults] :
           Server!uv_tcp_queue_accept({r}, how, p, sockets)
  PROVE  /\ kernel' \subseteq Server!AcceptReqs /\ pending' \in Seq(Server!AcceptReqs)
         /\ Apart(kernel', pending')
         /\ kernel' \cup Range(pending') = kernel \cup Range(p) \cup {r}
         /\ reqs_pending' = reqs_pending + 1
         /\ accept_socket' \in [Server!AcceptReqs -> BOOLEAN]
         /\ Keeps(accept_socket', sockets, {r})
<1>1. PICK S \in SUBSET Server!AcceptReqs : S = {r}
  OBVIOUS
<1>2. PICK how \in [S -> AcceptResults] : Server!uv_tcp_queue_accept(S, how, p, sockets)
  BY <1>1
<1>3. S \cap (kernel \cup Range(p)) = {}
  BY <1>1
<1>4. /\ kernel' \subseteq Server!AcceptReqs /\ pending' \in Seq(Server!AcceptReqs)
      /\ Apart(kernel', pending')
      /\ kernel' \cup Range(pending') = kernel \cup Range(p) \cup S
      /\ reqs_pending' = reqs_pending + Cardinality(S)
      /\ accept_socket' \in [Server!AcceptReqs -> BOOLEAN]
      /\ Keeps(accept_socket', sockets, S)
  BY <1>2, <1>3, QueueEffect, Zenon
<1>5. Cardinality(S) = 1
  BY <1>1, FS_Singleton
<1> QED
  BY <1>1, <1>4, <1>5

LEMMA AcceptIgnoredInv ==
  ASSUME ServerDiscipline, ServerInv, Server!AcceptIgnored
  PROVE  ServerInv'
<1>1. PICK h, p, sockets :
        /\ h = Head(pending) /\ p = Tail(pending)
        /\ sockets = [accept_socket EXCEPT ![h] = FALSE]
  OBVIOUS
<1>2. /\ Server!Take
      /\ UNCHANGED <<flags, socket, activecnt, accept_reqs, pending_accepts,
                     processed_accepts>>
      /\ IF "LISTENING" \in flags
         THEN \E how \in [{h} -> AcceptResults] :
                Server!uv_tcp_queue_accept({h}, how, p, sockets)
         ELSE /\ accept_socket' = sockets
              /\ pending' = p
              /\ UNCHANGED <<reqs_pending, success, kernel>>
  BY <1>1 DEF Server!AcceptIgnored
<1>3. /\ pc = "loop" /\ pc' = "accept_end" /\ p \in Seq(Server!AcceptReqs)
      /\ h \in Server!AcceptReqs /\ h \in Range(pending) /\ h \notin kernel
      /\ h \notin Range(pending_accepts) /\ Range(p) = Range(pending) \ {h}
      /\ Apart(kernel, p) /\ kernel \cup Range(p) = Waiting \ {h}
      /\ reqs_pending = Cardinality(Waiting \ {h}) + 1
      /\ Cardinality(Waiting \ {h}) \in Nat
  BY <1>1, <1>2, TakenHead, Zenon
<1>4. sockets \in [Server!AcceptReqs -> BOOLEAN]
      /\ \A x \in Server!AcceptReqs : x # h => sockets[x] = accept_socket[x]
  BY <1>1 DEF ServerInv, ServerTypes
<1>5. /\ kernel' \subseteq Server!AcceptReqs /\ pending' \in Seq(Server!AcceptReqs)
      /\ Apart(kernel', pending')
      /\ kernel' \cup Range(pending') =
           IF "LISTENING" \in flags THEN Waiting ELSE Waiting \ {h}
      /\ reqs_pending' = Cardinality(kernel' \cup Range(pending')) + 1
      /\ reqs_pending' \in Nat
      /\ accept_socket' \in [Server!AcceptReqs -> BOOLEAN]
      /\ \A x \in Server!AcceptReqs : x # h => accept_socket'[x] = accept_socket[x]
  <2>1. CASE "LISTENING" \in flags
    <3>1. \E how \in [{h} -> AcceptResults] :
            Server!uv_tcp_queue_accept({h}, how, p, sockets)
      BY <1>2, <2>1
    <3>2. h \notin kernel \cup Range(p)
      BY <1>3
    <3>3. kernel \subseteq Server!AcceptReqs /\ reqs_pending \in Nat
      BY DEF ServerInv, ServerTypes
    <3>4. /\ kernel' \subseteq Server!AcceptReqs /\ pending' \in Seq(Server!AcceptReqs)
          /\ Apart(kernel', pending')
          /\ kernel' \cup Range(pending') = kernel \cup Range(p) \cup {h}
          /\ reqs_pending' = reqs_pending + 1
          /\ accept_socket' \in [Server!AcceptReqs -> BOOLEAN]
          /\ Keeps(accept_socket', sockets, {h})
      BY <1>3, <1>4, <3>1, <3>2, <3>3, QueueOne, Zenon
    <3>5. kernel' \cup Range(pending') = Waiting
      BY <1>3, <3>4 DEF Waiting
    <3>6. reqs_pending = Cardinality(Waiting) + 0
      BY <1>3 DEF ServerInv, ServerCounts, Server!Bit
    <3>7. Waiting \in SUBSET Server!AcceptReqs
      BY <3>3, Places DEF ServerInv, ServerTypes, Waiting
    <3>8. Cardinality(Waiting) \in Nat
      BY <3>7, AcceptReqsFinite
    <3>9. PICK n : n = Cardinality(Waiting)
      OBVIOUS
    <3>10. reqs_pending' = n + 1 /\ reqs_pending' \in Nat
      BY <3>4, <3>6, <3>8, <3>9
    <3>11. reqs_pending' = Cardinality(kernel' \cup Range(pending')) + 1
      BY <3>5, <3>9, <3>10, Zenon
    <3>12. \A x \in Server!AcceptReqs : x # h => accept_socket'[x] = accept_socket[x]
      BY <1>4, <3>4 DEF Keeps
    <3>13. kernel' \cup Range(pending') =
             IF "LISTENING" \in flags THEN Waiting ELSE Waiting \ {h}
      BY <2>1, <3>5
    <3> QED
      BY <3>4, <3>10, <3>11, <3>12, <3>13, Zenon
  <2>2. CASE "LISTENING" \notin flags
    <3>1. accept_socket' = sockets /\ pending' = p /\ UNCHANGED <<reqs_pending, kernel>>
      BY <1>2, <2>2
    <3>2. kernel \subseteq Server!AcceptReqs /\ reqs_pending \in Nat
      BY DEF ServerInv, ServerTypes
    <3> QED
      BY <1>3, <1>4, <2>2, <3>1, <3>2
  <2> QED
    BY <2>1, <2>2
<1>6. PICK W : W = kernel' \cup Range(pending')
  OBVIOUS
<1>7. W \subseteq Waiting /\ ("LISTENING" \in flags => W = Waiting)
  BY <1>5, <1>6
<1>8. Waiting' = W /\ InUse' = W \cup Range(pending_accepts)
  BY <1>2, <1>6 DEF Waiting, InUse
<1>9. ServerTypes'
  <2>1. pc' \in {"loop", "accept_end"}
    BY <1>3
  <2> QED
    BY <1>2, <1>5, <2>1, Zenon DEF ServerInv, ServerTypes
<1>10. ServerApart'
  <2>1. Apart(W, pending_accepts')
    BY <1>2, <1>7 DEF ServerInv, ServerApart, Apart
  <2>2. \A r \in Range(pending_accepts) : r \in Server!AcceptReqs /\ r # h
    BY <1>3, Places DEF ServerInv, ServerTypes
  <2>3. \A r \in Range(pending_accepts') : accept_socket'[r]
    BY <1>2, <1>5, <2>2 DEF ServerInv, ServerApart
  <2> QED
    BY <1>5, <1>8, <2>1, <2>3, Zenon DEF ServerApart
<1>11. ServerLife'
  BY <1>2, <1>7, <1>8 DEF ServerInv, ServerLife, InUse
<1>12. ServerCounts'
  <2>1. Server!Bit(pc' = "accept_end") = 1
    BY <1>3 DEF Server!Bit
  <2>2. activecnt' = Server!Bit("LISTENING" \in flags')
    BY <1>2 DEF ServerInv, ServerCounts, Server!ActiveWhileListening
  <2> QED
    BY <1>5, <1>6, <1>8, <2>1, <2>2, Zenon DEF ServerCounts, Server!ActiveWhileListening
<1>13. ServerSingle'
  BY <1>2, <1>7, <1>8 DEF ServerInv, ServerSingle, InUse
<1> QED
  BY <1>9, <1>10, <1>11, <1>12, <1>13 DEF ServerInv

LEMMA AcceptEndInv ==
  ASSUME ServerInv, Server!AcceptEnd
  PROVE  ServerInv'
<1>1. /\ pc = "accept_end" /\ pc' = "loop" /\ reqs_pending' = reqs_pending - 1
      /\ flags' = flags \/ flags' = flags \cup {"ENDGAME_QUEUED"}
      /\ UNCHANGED <<socket, activecnt, accept_reqs, accept_socket, kernel, pending,
                     pending_accepts, processed_accepts>>
  BY DEF Server!AcceptEnd, Server!uv_want_endgame
<1>2. \A f \in {"LISTENING", "CLOSING", "SINGLE_ACCEPT", "ACCEPT_STATE_CHANGING", "CLOSED"} :
        f \in flags' <=> f \in flags
  BY <1>1
<1>3. Waiting' = Waiting /\ InUse' = InUse
  BY <1>1 DEF Waiting, InUse
<1>4. reqs_pending' = Cardinality(Waiting) /\ reqs_pending' \in Nat
  <2>1. reqs_pending = Cardinality(Waiting) + 1
    BY <1>1 DEF ServerInv, ServerCounts, Server!Bit
  <2>2. Waiting \in SUBSET Server!AcceptReqs
    BY Places DEF ServerInv, ServerTypes, Waiting
  <2>3. PICK n : n = Cardinality(Waiting)
    OBVIOUS
  <2>4. n \in Nat
    BY <2>2, <2>3, AcceptReqsFinite
  <2>5. reqs_pending' = n
    BY <1>1, <2>1, <2>3, <2>4
  <2> QED
    BY <2>3, <2>4, <2>5
<1>5. ServerTypes'
  <2>1. flags' \subseteq Server!Flags /\ pc' \in {"loop", "accept_end"}
    BY <1>1 DEF ServerInv, ServerTypes, Server!Flags
  <2> QED
    BY <1>1, <1>4, <2>1, Zenon DEF ServerInv, ServerTypes
<1>6. ServerApart'
  BY <1>1, <1>3 DEF ServerInv, ServerApart
<1>7. ServerLife'
  BY <1>1, <1>2, <1>3 DEF ServerInv, ServerLife
<1>8. ServerCounts'
  <2>1. Cardinality(Waiting) + Server!Bit(pc' = "accept_end") = Cardinality(Waiting)
    <3>1. Cardinality(Waiting) \in Nat
      BY <1>4
    <3> QED
      BY <1>1, <3>1 DEF Server!Bit
  <2>2. activecnt' = Server!Bit("LISTENING" \in flags')
    BY <1>1, <1>2 DEF ServerInv, ServerCounts, Server!ActiveWhileListening, Server!Bit
  <2> QED
    BY <1>3, <1>4, <2>1, <2>2, Zenon DEF ServerCounts, Server!ActiveWhileListening
<1>9. ServerSingle'
  BY <1>1, <1>2, <1>3 DEF ServerInv, ServerSingle
<1> QED
  BY <1>5, <1>6, <1>7, <1>8, <1>9 DEF ServerInv

LEMMA ServerAcceptInv ==
  ASSUME ServerDiscipline, ServerInv, Server!uv_tcp_accept
  PROVE  ServerInv'
<1>1. PICK r, t, sockets, n :
        /\ r = Head(pending_accepts) /\ t = Tail(pending_accepts)
        /\ sockets = [accept_socket EXCEPT ![r] = FALSE]
        /\ n = processed_accepts
  OBVIOUS
<1>2. PICK changing \in BOOLEAN : changing <=> "ACCEPT_STATE_CHANGING" \in flags
  <2>1. CASE "ACCEPT_STATE_CHANGING" \in flags
    BY <2>1
  <2>2. CASE "ACCEPT_STATE_CHANGING" \notin flags
    BY <2>2
  <2> QED
    BY <2>1, <2>2
<1>3. PICK switch \in BOOLEAN : switch = (changing /\ n + 1 >= SimultaneousAccepts)
  OBVIOUS
<1>4. PICK again : again = IF switch THEN 1 ELSE r
  OBVIOUS
<1>5. PICK open \in BOOLEAN : open = ("CLOSING" \notin flags)
  OBVIOUS
<1>6. /\ pending_accepts # <<>> /\ pending_accepts' = t
      /\ UNCHANGED <<socket, activecnt, accept_reqs, pc>>
      /\ processed_accepts' = IF ~open \/ ~changing THEN n ELSE IF switch THEN 0 ELSE n + 1
      /\ IF open /\ (switch \/ ~changing)
         THEN /\ "LISTENING" \in flags
              /\ \E how \in [{again} -> AcceptResults] :
                   Server!uv_tcp_queue_accept({again}, how, pending, sockets)
              /\ flags' = flags \ {"ACCEPT_STATE_CHANGING"}
         ELSE /\ accept_socket' = sockets
              /\ UNCHANGED <<flags, reqs_pending, kernel, pending>>
  BY <1>1, <1>2, <1>3, <1>4, <1>5
     DEF Server!uv_tcp_accept, Server!AllProcessed, Server!Open
<1>7. /\ r \in Server!AcceptReqs /\ r \in Range(pending_accepts)
      /\ t \in Seq(Server!AcceptReqs) /\ IsInjective(t)
      /\ Range(t) = Range(pending_accepts) \ {r}
  <2>1. pending_accepts \in Seq(Server!AcceptReqs) /\ IsInjective(pending_accepts)
    BY DEF ServerInv, ServerTypes, ServerApart, Apart
  <2> QED
    BY <1>1, <1>6, <2>1, TailQueue, Zenon
<1>8. /\ Waiting \cap Range(pending_accepts) = {} /\ Waiting \subseteq Server!AcceptReqs
      /\ InUse \subseteq Server!AcceptReqs /\ r \in InUse /\ r \notin Waiting
      /\ InUse \ {r} = Waiting \cup Range(t)
  <2>1. Waiting \cap Range(pending_accepts) = {}
    BY DEF ServerInv, ServerApart, Apart
  <2>2. Waiting \subseteq Server!AcceptReqs /\ Range(pending_accepts) \subseteq Server!AcceptReqs
    BY Places DEF ServerInv, ServerTypes, Waiting
  <2> QED
    BY <1>7, <2>1, <2>2 DEF InUse
<1>9. sockets \in [Server!AcceptReqs -> BOOLEAN]
      /\ \A x \in Server!AcceptReqs : x # r => sockets[x] = accept_socket[x]
  BY <1>1 DEF ServerInv, ServerTypes
<1>10. n \in 0..(SimultaneousAccepts - 1) /\ SimultaneousAccepts \in Nat \ {0}
  BY <1>1, AcceptReqsFinite DEF ServerInv, ServerTypes
<1>11. processed_accepts' \in 0..(SimultaneousAccepts - 1)
  BY <1>3, <1>6, <1>10
<1>12. /\ "LISTENING" \in flags' <=> "LISTENING" \in flags
       /\ "CLOSING" \in flags' <=> "CLOSING" \in flags
       /\ "CLOSED" \in flags' <=> "CLOSED" \in flags
       /\ "SINGLE_ACCEPT" \in flags' <=> "SINGLE_ACCEPT" \in flags
       /\ flags' \subseteq Server!Flags
  <2>1. flags' = flags \ {"ACCEPT_STATE_CHANGING"} \/ flags' = flags
    BY <1>6
  <2> QED
    BY <2>1 DEF ServerInv, ServerTypes
<1>13. CASE ~(open /\ (switch \/ ~changing))
  <2>1. /\ accept_socket' = sockets /\ UNCHANGED <<flags, reqs_pending, kernel, pending>>
    BY <1>6, <1>13
  <2>2. Waiting' = Waiting /\ InUse' = InUse \ {r}
    BY <1>6, <1>7, <1>8, <2>1 DEF Waiting, InUse
  <2>3. ServerTypes'
    BY <1>6, <1>7, <1>9, <1>11, <2>1, Zenon DEF ServerInv, ServerTypes
  <2>4. ServerApart'
    <3>1. Apart(Waiting, t)
      BY <1>7, <1>8 DEF Apart
    <3>2. \A x \in Range(t) : x \in Server!AcceptReqs /\ x # r
      BY <1>7, Places
    <3>3. \A x \in Range(t) : sockets[x]
      BY <1>7, <1>9, <3>2 DEF ServerInv, ServerApart
    <3> QED
      BY <1>6, <2>1, <2>2, <3>1, <3>3 DEF ServerInv, ServerApart
  <2>5. ServerLife'
    BY <1>6, <2>1, <2>2 DEF ServerInv, ServerLife
  <2>6. ServerCounts'
    BY <1>6, <2>1, <2>2 DEF ServerInv, ServerCounts, Server!ActiveWhileListening
  <2>7. ServerSingle'
    <3>1. CASE "LISTENING" \in flags
      <4>1. open /\ changing /\ ~switch /\ "SINGLE_ACCEPT" \in flags
        BY <1>2, <1>5, <1>13, <3>1 DEF ServerInv, ServerLife, ServerSingle
      <4>2. Cardinality(InUse) + n = SimultaneousAccepts /\ processed_accepts' = n + 1
        BY <1>1, <1>2, <1>6, <3>1, <4>1 DEF ServerInv, ServerSingle
      <4>3. PICK c, d : c = Cardinality(InUse) /\ d = Cardinality(InUse \ {r})
        OBVIOUS
      <4>4. c \in Nat /\ d = c - 1
        BY <1>7, <1>8, <4>3, CountSteps, Zenon
      <4>5. d + processed_accepts' = SimultaneousAccepts
        BY <1>10, <4>2, <4>3, <4>4
      <4> QED
        BY <1>2, <2>1, <2>2, <4>1, <4>3, <4>5 DEF ServerSingle
    <3>2. CASE "LISTENING" \notin flags
      <4>1. "SINGLE_ACCEPT" \notin flags => processed_accepts' = processed_accepts
        BY <1>1, <1>2, <1>6 DEF ServerInv, ServerSingle
      <4> QED
        BY <2>1, <3>2, <4>1 DEF ServerInv, ServerSingle
    <3> QED
      BY <3>1, <3>2
  <2> QED
    BY <2>3, <2>4, <2>5, <2>6, <2>7 DEF ServerInv
<1>14. CASE open /\ (switch \/ ~changing)
  <2>1. /\ "LISTENING" \in flags /\ flags' = flags \ {"ACCEPT_STATE_CHANGING"}
        /\ \E how \in [{again} -> AcceptResults] :
             Server!uv_tcp_queue_accept({again}, how, pending, sockets)
    BY <1>6, <1>14
  <2>2. switch => InUse = {r} /\ Waiting = {} /\ Range(t) = {}
    <3> SUFFICES ASSUME switch PROVE InUse = {r} /\ Waiting = {} /\ Range(t) = {}
      OBVIOUS
    <3>1. Cardinality(InUse) + n = SimultaneousAccepts
      BY <1>1, <1>2, <1>3, <2>1 DEF ServerInv, ServerSingle
    <3>2. PICK c : c = Cardinality(InUse)
      OBVIOUS
    <3>3. c \in Nat
      BY <1>8, <3>2, AcceptReqsFinite
    <3>sum. n + 1 >= SimultaneousAccepts /\ c + n = SimultaneousAccepts
      BY <1>3, <3>1, <3>2
    <3>4. c = 0 \/ c = 1
      BY <1>10, <3>3, <3>sum
    <3>5. c # 0
      BY <1>7, <1>8, <3>2, CountSteps, Zenon
    <3>6. Cardinality(InUse) = 1
      BY <3>2, <3>4, <3>5
    <3>7. InUse = {r}
      BY <1>7, <1>8, <3>6, CountSteps, Zenon
    <3> QED
      BY <1>8, <3>7
  <2>3. again \in Server!AcceptReqs /\ again \notin kernel \cup Range(pending)
    <3>1. again \notin Waiting
      BY <1>4, <1>8, <2>2
    <3>2. 1 \in Server!AcceptReqs
      BY <1>10 DEF Server!AcceptReqs
    <3> QED
      BY <1>4, <1>7, <3>1, <3>2 DEF Waiting
  <2>4. /\ kernel' \subseteq Server!AcceptReqs /\ pending' \in Seq(Server!AcceptReqs)
        /\ Apart(kernel', pending')
        /\ kernel' \cup Range(pending') = kernel \cup Range(pending) \cup {again}
        /\ reqs_pending' = reqs_pending + 1
        /\ accept_socket' \in [Server!AcceptReqs -> BOOLEAN]
        /\ Keeps(accept_socket', sockets, {again})
    <3>1. /\ kernel \subseteq Server!AcceptReqs /\ reqs_pending \in Nat
          /\ pending \in Seq(Server!AcceptReqs) /\ Apart(kernel, pending)
      BY DEF ServerInv, ServerTypes, ServerApart
    <3>2. PICK p \in Seq(Server!AcceptReqs) : p = pending
      BY <3>1
    <3>3. /\ Apart(kernel, p) /\ again \notin kernel \cup Range(p)
          /\ \E how \in [{again} -> AcceptResults] :
               Server!uv_tcp_queue_accept({again}, how, p, sockets)
      BY <2>1, <2>3, <3>1, <3>2
    <3>4. /\ kernel' \subseteq Server!AcceptReqs /\ pending' \in Seq(Server!AcceptReqs)
          /\ Apart(kernel', pending')
          /\ kernel' \cup Range(pending') = kernel \cup Range(p) \cup {again}
          /\ reqs_pending' = reqs_pending + 1
          /\ accept_socket' \in [Server!AcceptReqs -> BOOLEAN]
          /\ Keeps(accept_socket', sockets, {again})
      BY <1>9, <2>3, <3>1, <3>3, QueueOne, Zenon
    <3> QED
      BY <3>2, <3>4
  <2>5. Waiting' = Waiting \cup {again} /\ InUse' = Waiting \cup Range(t) \cup {again}
    BY <1>6, <2>4 DEF Waiting, InUse
  <2>6. ~switch => InUse' = InUse /\ again = r
    <3>1. ~switch => again = r
      BY <1>4
    <3> QED
      BY <1>8, <2>5, <3>1
  <2>7. again \notin Waiting /\ again \notin Range(t)
    <3>1. switch => Waiting = {} /\ Range(t) = {}
      BY <2>2
    <3>2. ~switch => again = r
      BY <1>4
    <3> QED
      BY <1>7, <1>8, <3>1, <3>2
  <2>8. ServerTypes'
    <3>1. reqs_pending' \in Nat
      BY <2>4 DEF ServerInv, ServerTypes
    <3> QED
      BY <1>6, <1>7, <1>11, <1>12, <2>4, <3>1, Zenon DEF ServerInv, ServerTypes
  <2>9. ServerApart'
    <3>1. Apart(Waiting \cup {again}, t)
      BY <1>7, <1>8, <2>7 DEF Apart
    <3>2. \A x \in Range(t) : x \in Server!AcceptReqs /\ x # r /\ x # again
      BY <1>7, <2>7, Places
    <3>3. \A x \in Range(t) : accept_socket'[x]
      BY <1>7, <1>9, <2>4, <3>2 DEF ServerInv, ServerApart, Keeps
    <3> QED
      BY <1>6, <2>4, <2>5, <3>1, <3>3, Zenon DEF ServerApart
  <2>10. ServerLife'
    <3>1. accept_reqs /\ "CLOSING" \notin flags
      BY <2>1 DEF ServerInv, ServerLife
    <3> QED
      BY <1>6, <1>12, <3>1 DEF ServerInv, ServerLife
  <2>11. ServerCounts'
    <3>1. activecnt' = Server!Bit("LISTENING" \in flags')
      BY <1>6, <1>12 DEF ServerInv, ServerCounts, Server!ActiveWhileListening, Server!Bit
    <3>2. PICK c, d, b : /\ c = Cardinality(Waiting) /\ d = Cardinality(Waiting \cup {again})
                         /\ b = Server!Bit(pc = "accept_end")
      OBVIOUS
    <3>3. c \in Nat /\ d = c + 1
      BY <1>8, <2>3, <2>7, <3>2, CountSteps, Zenon
    <3>4. b \in Nat
      BY <3>2 DEF Server!Bit
    <3>5. reqs_pending' = d + b
      BY <2>4, <3>2, <3>3, <3>4 DEF ServerInv, ServerCounts
    <3>6. b = Server!Bit(pc' = "accept_end")
      BY <1>6, <3>2
    <3> QED
      BY <2>5, <3>1, <3>2, <3>5, <3>6, Zenon DEF ServerCounts, Server!ActiveWhileListening
  <2>12. ServerSingle'
    <3>1. "ACCEPT_STATE_CHANGING" \notin flags'
      BY <2>1
    <3>2. CASE switch
      <4>1. "SINGLE_ACCEPT" \in flags
        BY <1>2, <1>3, <3>2 DEF ServerInv, ServerSingle
      <4>2. InUse' = {again} /\ Cardinality({again}) = 1
        BY <2>2, <2>5, <3>2, FS_Singleton
      <4> QED
        BY <1>12, <3>1, <4>1, <4>2 DEF ServerSingle
    <3>3. CASE ~switch
      <4>1. processed_accepts' = processed_accepts /\ "ACCEPT_STATE_CHANGING" \notin flags
        BY <1>1, <1>2, <1>6, <1>14, <3>3
      <4> QED
        BY <1>12, <2>6, <3>1, <3>3, <4>1 DEF ServerInv, ServerSingle
    <3> QED
      BY <3>2, <3>3
  <2> QED
    BY <2>8, <2>9, <2>10, <2>11, <2>12 DEF ServerInv
<1> QED
  BY <1>13, <1>14

LEMMA ServerStep ==
  ASSUME ServerDiscipline, ServerInv, Server!Next
  PROVE  ServerInv'
<1> USE ServerListenInv, ServerAcceptInv, SimultaneousInv, DuplicateInv, ServerCloseInv,
        AcceptFailedInv, AcceptedInv, AcceptIgnoredInv, AcceptEndInv, ServerReturnsInv,
        ServerEndgameInv
<1>1. CASE Server!UserCall
  BY <1>1, Zenon DEF Server!UserCall
<1>2. CASE Server!uv_process_tcp_accept_req \/ Server!HandlerStep \/ Server!uv_tcp_endgame
  BY <1>2, Zenon DEF Server!uv_process_tcp_accept_req, Server!HandlerStep
<1>3. CASE \E r \in Server!AcceptReqs : Server!KernelCompletes(r)
  BY <1>3, ServerCompletesInv, Zenon
<1> QED
  BY <1>1, <1>2, <1>3, Zenon DEF Server!Next

\* What the invariant says in the properties' words.
LEMMA ServerCountersExact ==
  ASSUME ServerInv
  PROVE  Server!PendingCount /\ Server!ActiveWhileListening
<1>1. /\ kernel \subseteq Server!AcceptReqs /\ pending \in Seq(Server!AcceptReqs)
      /\ Apart(kernel, pending)
  BY DEF ServerInv, ServerTypes, ServerApart
<1>2. Cardinality(kernel \cup Range(pending)) = Cardinality(kernel) + Len(pending)
  <2>1. PICK K \in SUBSET Server!AcceptReqs, q \in Seq(Server!AcceptReqs) :
          K = kernel /\ q = pending /\ Apart(K, q)
    BY <1>1
  <2>2. IsFiniteSet(Server!AcceptReqs)
    BY AcceptReqsFinite
  <2>3. Cardinality(K \cup Range(q)) = Cardinality(K) + Len(q)
    BY <2>1, <2>2, InFlight, Zenon
  <2> QED
    BY <2>1, <2>3
<1>3. reqs_pending = Cardinality(kernel) + Len(pending) + Server!Bit(pc = "accept_end")
  BY <1>2, Zenon DEF ServerInv, ServerCounts, Waiting
<1> QED
  BY <1>3, SameOperators, Zenon
     DEF Server!PendingCount, ServerInv, ServerCounts

LEMMA ServerKeepsAccepting ==
  ASSUME ServerInv
  PROVE  Server!StillAccepting /\ Server!SwitchesToSingle
<1>1. InUse \in SUBSET Server!AcceptReqs
  BY Places DEF ServerInv, ServerTypes, Waiting, InUse
<1>2. ASSUME "LISTENING" \in flags
      PROVE  kernel # {} \/ pending # <<>> \/ pending_accepts # <<>>
  <2>1. InUse # {}
    <3> SUFFICES ASSUME InUse = {} PROVE FALSE
      OBVIOUS
    <3>1. Cardinality(InUse) = 0
      BY FS_EmptySet
    <3>2. 1 \in Server!AcceptReqs /\ SimultaneousAccepts \in Nat
      BY AcceptReqsFinite
    <3>3. CASE "SINGLE_ACCEPT" \notin flags
      BY <1>2, <3>2, <3>3 DEF ServerInv, ServerSingle
    <3>4. CASE "ACCEPT_STATE_CHANGING" \in flags
      <4>1. 0 + processed_accepts = SimultaneousAccepts
        BY <1>2, <3>1, <3>4 DEF ServerInv, ServerSingle
      <4>2. processed_accepts \in 0..(SimultaneousAccepts - 1)
        BY DEF ServerInv, ServerTypes
      <4> QED
        BY <3>2, <4>1, <4>2
    <3>5. CASE "SINGLE_ACCEPT" \in flags /\ "ACCEPT_STATE_CHANGING" \notin flags
      BY <1>2, <3>1, <3>5 DEF ServerInv, ServerSingle
    <3> QED
      BY <3>3, <3>4, <3>5
  <2>2. Range(<<>>) = {}
    BY EmptyQueue
  <2> QED
    BY <2>1, <2>2 DEF InUse, Waiting
<1>3. ASSUME {"LISTENING", "SINGLE_ACCEPT"} \subseteq flags,
             "ACCEPT_STATE_CHANGING" \notin flags
      PROVE  Cardinality(InUse) <= 1
  <2>1. Cardinality(InUse) = 1
    BY <1>3 DEF ServerInv, ServerSingle
  <2> QED
    BY <2>1
<1>4. Server!SwitchesToSingle
  BY <1>3, SameOperators, Zenon DEF Server!SwitchesToSingle, InUse, Waiting
<1> QED
  BY <1>2, <1>4 DEF Server!StillAccepting

\* How often a request is in a queue.
LEMMA Occurrences ==
  ASSUME NEW S, NEW q \in Seq(S), IsInjective(q), NEW h
  PROVE  Cardinality({i \in DOMAIN q : q[i] = h}) = IF h \in Range(q) THEN 1 ELSE 0
<1>1. CASE h \in Range(q)
  <2>1. PICK i \in 1..Len(q) : q[i] = h
    BY <1>1, Places
  <2>2. \A j \in DOMAIN q : q[j] = h => j = i
    BY <2>1, Places
  <2>3. {j \in DOMAIN q : q[j] = h} = {i}
    BY <2>1, <2>2, Places
  <2>4. Cardinality({i}) = 1
    BY FS_Singleton
  <2> QED
    BY <1>1, <2>3, <2>4
<1>2. CASE h \notin Range(q)
  <2>1. {j \in DOMAIN q : q[j] = h} = {}
    BY <1>2, Places
  <2>2. Cardinality({}) = 0
    BY FS_EmptySet
  <2> QED
    BY <1>2, <2>1, <2>2
<1> QED
  BY <1>1, <1>2

LEMMA ServerOnePlace ==
  ASSUME ServerInv
  PROVE  Server!OnePlace
<1>1. /\ pending \in Seq(Server!AcceptReqs) /\ IsInjective(pending)
      /\ pending_accepts \in Seq(Server!AcceptReqs) /\ IsInjective(pending_accepts)
      /\ kernel \cap Range(pending) = {}
      /\ (kernel \cup Range(pending)) \cap Range(pending_accepts) = {}
      /\ \A r \in Range(pending_accepts) : accept_socket[r]
  BY DEF ServerInv, ServerTypes, ServerApart, Apart, Waiting
<1>2. ASSUME NEW r \in Server!AcceptReqs
      PROVE  Server!Bit(r \in kernel)
               + Server!Cardinality({i \in DOMAIN pending : pending[i] = r})
               + Server!Cardinality({i \in DOMAIN pending_accepts : pending_accepts[i] = r})
             <= 1
  <2>1. PICK a, b, c : /\ a = Server!Bit(r \in kernel)
                       /\ b = Cardinality({i \in DOMAIN pending : pending[i] = r})
                       /\ c = Cardinality({i \in DOMAIN pending_accepts :
                                             pending_accepts[i] = r})
    OBVIOUS
  <2>2. PICK p, q \in Seq(Server!AcceptReqs) :
          p = pending /\ q = pending_accepts /\ IsInjective(p) /\ IsInjective(q)
    BY <1>1
  <2>3. /\ Cardinality({i \in DOMAIN p : p[i] = r}) = IF r \in Range(p) THEN 1 ELSE 0
        /\ Cardinality({i \in DOMAIN q : q[i] = r}) = IF r \in Range(q) THEN 1 ELSE 0
    BY <2>2, Occurrences
  <2>4. /\ b = IF r \in Range(pending) THEN 1 ELSE 0
        /\ c = IF r \in Range(pending_accepts) THEN 1 ELSE 0
    BY <2>1, <2>2, <2>3
  <2>5. a + b + c <= 1
    BY <1>1, <2>1, <2>4 DEF Server!Bit
  <2> QED
    BY <2>1, <2>5, SameOperators, Zenon
<1>3. \A i \in DOMAIN pending_accepts : accept_socket[pending_accepts[i]]
  BY <1>1, Places
<1> QED
  BY <1>2, <1>3 DEF Server!OnePlace

-----------------------------------------------------------------------------
(* The connection's invariant.                                             *)

\* The user makes no call from an alloc_cb, and queues a read again only when
\* the refusal of the last one was reported: what the code does otherwise is no
\* promise of it (win/tcp.c:1013, 524).
StreamDiscipline == ~AllocCalls /\ ~RestartsRefused

\* The read handler, between taking the request and counting it off.
InRead == {"read_loop", "recv", "read_done"}

StreamTypes ==
  /\ flags \subseteq Stream!Flags
  /\ reqs_pending \in Nat /\ write_reqs_pending \in Nat /\ activecnt \in Nat
  /\ shutdown_req \in BOOLEAN
  /\ active_reqs \subseteq Stream!Reqs /\ kernel \subseteq Stream!Reqs
  /\ pending \in Seq(Stream!Reqs) /\ Apart(kernel, pending)
  /\ pc \in Stream!Pcs

\* A connect or write is active exactly while it is in flight; a shutdown never
\* is in flight, and a read never active.
StreamLinks ==
  /\ "shutdown" \notin Waiting /\ "read" \notin active_reqs
  /\ \A r \in Writes \cup {"connect"} : r \in Waiting <=> r \in active_reqs
  /\ shutdown_req <=> "shutdown" \in active_reqs \/ pc = "shutdown_end"
  /\ pc = "shutdown_end" => "shutdown" \notin active_reqs

\* Nothing is written before the handle is connected, nor anew once it is
\* shutting down.
StreamLife ==
  /\ "CONNECTION" \in flags => "connect" \notin active_reqs
  /\ "CONNECTION" \notin flags =>
       /\ "WRITABLE" \notin flags /\ ~shutdown_req
       /\ active_reqs \cap Writes = {} /\ pc # "write_end"
  /\ shutdown_req => "WRITABLE" \notin flags

\* READ_PENDING says that a read is in flight; it misses only one that was
\* refused, and that one is never queued from within the read handler.
StreamReads ==
  /\ "read" \in kernel => "READ_PENDING" \in flags
  /\ "READ_PENDING" \in flags => "read" \in Waiting
  /\ pc \in InRead /\ "read" \in Waiting => "READ_PENDING" \in flags
  /\ "READING" \in flags /\ pc \notin InRead => "read" \in Waiting
  /\ pc = "recv" => "READING" \in flags /\ cb \in {"none", "alloc"}
  /\ stopped => "READING" \notin flags

StreamCounts ==
  /\ reqs_pending = Cardinality(Waiting) + Stream!InHandler + Stream!Bit(shutdown_req)
  /\ write_reqs_pending = Cardinality(active_reqs \cap Writes) + Stream!Bit(pc = "write_end")
  /\ activecnt = Stream!Bit("READING" \in flags) + Cardinality(active_reqs)

StreamInv == StreamTypes /\ StreamLinks /\ StreamLife /\ StreamReads /\ StreamCounts

LEMMA ReqsFinite ==
  /\ IsFiniteSet(Stream!Reqs) /\ Stream!Reqs = Writes \cup {"connect", "read", "shutdown"}
  /\ Writes \cap {"connect", "read", "shutdown"} = {}
  /\ \A S \in SUBSET Stream!Reqs : IsFiniteSet(S) /\ Cardinality(S) \in Nat
<1>1. /\ Stream!IsFiniteSet(Writes) /\ Writes \cap {"connect", "read", "shutdown"} = {}
  BY TcpAssumption DEF Stream!StreamAssumption
<1>2. IsFiniteSet(Writes)
  BY <1>1 DEF Stream!IsFiniteSet, IsFiniteSet
<1>3. IsFiniteSet({"connect"}) /\ IsFiniteSet({"read"}) /\ IsFiniteSet({"shutdown"})
  BY FS_Singleton
<1>4. IsFiniteSet(Writes \cup {"connect"})
  BY <1>2, FS_AddElement
<1>5. IsFiniteSet((Writes \cup {"connect"}) \cup {"read"})
  BY <1>4, FS_AddElement
<1>6. IsFiniteSet(((Writes \cup {"connect"}) \cup {"read"}) \cup {"shutdown"})
  BY <1>5, FS_AddElement
<1>7. Stream!Reqs = ((Writes \cup {"connect"}) \cup {"read"}) \cup {"shutdown"}
  BY DEF Stream!Reqs
<1> QED
  BY <1>1, <1>6, <1>7, FS_Subset, FS_CardinalityType DEF Stream!Reqs

\* The sets the counters count.
LEMMA StreamNumbers ==
  ASSUME StreamTypes
  PROVE  /\ Waiting \in SUBSET Stream!Reqs /\ Cardinality(Waiting) \in Nat
         /\ active_reqs \in SUBSET Stream!Reqs /\ Cardinality(active_reqs) \in Nat
         /\ active_reqs \cap Writes \in SUBSET Stream!Reqs
         /\ Cardinality(active_reqs \cap Writes) \in Nat
<1>1. Waiting \in SUBSET Stream!Reqs
  BY Places DEF StreamTypes, Waiting
<1>2. active_reqs \in SUBSET Stream!Reqs /\ active_reqs \cap Writes \in SUBSET Stream!Reqs
  BY DEF StreamTypes
<1> QED
  BY <1>1, <1>2, ReqsFinite

LEMMA StreamInit ==
  ASSUME Stream!Init
  PROVE  StreamInv
<1> USE DEF Stream!Init
<1>1. pending \in Seq(Stream!Reqs) /\ Range(pending) = {} /\ IsInjective(pending)
  BY EmptyQueue
<1>2. Waiting = {} /\ active_reqs = {} /\ active_reqs \cap Writes = {} /\ kernel = {}
  BY <1>1 DEF Waiting
<1>3. Cardinality(Waiting) = 0 /\ Cardinality(active_reqs) = 0
        /\ Cardinality(active_reqs \cap Writes) = 0
  BY <1>2, FS_EmptySet
<1>4. /\ pc = "loop" /\ shutdown_req = FALSE /\ stopped = FALSE
      /\ reqs_pending = 0 /\ write_reqs_pending = 0 /\ activecnt = 0
      /\ "READING" \notin flags /\ "READ_PENDING" \notin flags
      /\ flags \subseteq Stream!Flags
      /\ "CONNECTION" \notin flags => "WRITABLE" \notin flags
  BY DEF Stream!Connected, Stream!Flags
<1>5. StreamTypes
  <2>1. Apart(kernel, pending) /\ pc \in Stream!Pcs
    BY <1>1, <1>2, <1>4 DEF Apart, Stream!Pcs
  <2>2. kernel \subseteq Stream!Reqs /\ active_reqs \subseteq Stream!Reqs /\ 0 \in Nat
    BY <1>2
  <2> QED
    BY <1>1, <1>4, <2>1, <2>2, Zenon DEF StreamTypes
<1>6. StreamLinks /\ StreamLife /\ StreamReads
  BY <1>2, <1>4 DEF StreamLinks, StreamLife, StreamReads
<1>7. StreamCounts
  BY <1>3, <1>4 DEF StreamCounts, Stream!InHandler, Stream!Bit
<1> QED
  BY <1>5, <1>6, <1>7 DEF StreamInv

\* An overlapped operation is started.
LEMMA StartEffect ==
  ASSUME StreamTypes, NEW r \in Stream!Reqs, r \notin Waiting, NEW how, Stream!Start(r, how)
  PROVE  /\ kernel' \subseteq Stream!Reqs /\ pending' \in Seq(Stream!Reqs)
         /\ Apart(kernel', pending') /\ kernel' \cup Range(pending') = Waiting \cup {r}
         /\ kernel' = IF how = "kernel" THEN kernel \cup {r} ELSE kernel
         /\ Cardinality(Waiting \cup {r}) = Cardinality(Waiting) + 1
<1>1. /\ kernel \subseteq Stream!Reqs /\ pending \in Seq(Stream!Reqs)
      /\ IsInjective(pending) /\ kernel \cap Range(pending) = {}
      /\ r \notin kernel /\ r \notin Range(pending)
  BY DEF StreamTypes, Apart, Waiting
<1>2. Cardinality(Waiting \cup {r}) = Cardinality(Waiting) + 1
  <2>1. Waiting \in SUBSET Stream!Reqs
    BY StreamNumbers
  <2>2. PICK W : W = Waiting
    OBVIOUS
  <2>3. IsFiniteSet(W) /\ r \notin W
    BY <2>1, <2>2, ReqsFinite
  <2>4. Cardinality(W \cup {r}) = Cardinality(W) + 1
    BY <2>3, FS_AddElement
  <2> QED
    BY <2>2, <2>4
<1>3. CASE how = "kernel"
  <2>1. kernel' = kernel \cup {r} /\ pending' = pending
    BY <1>3 DEF Stream!Start
  <2> QED
    BY <1>1, <1>2, <1>3, <2>1 DEF Apart, Waiting
<1>4. CASE how # "kernel"
  <2>1. pending' = Append(pending, r) /\ kernel' = kernel
    BY <1>4 DEF Stream!Start
  <2>2. /\ pending' \in Seq(Stream!Reqs) /\ IsInjective(pending')
        /\ Range(pending') = Range(pending) \cup {r}
    BY <1>1, <2>1, AppendQueue
  <2> QED
    BY <1>1, <1>2, <1>4, <2>1, <2>2 DEF Apart, Waiting
<1> QED
  BY <1>3, <1>4

\* The loop takes the first request in its queue.
LEMMA TakeEffect ==
  ASSUME StreamTypes, NEW r, Stream!Take(r)
  PROVE  /\ pc = "loop" /\ cb = "none" /\ r \in Waiting /\ r \notin kernel
         /\ kernel' = kernel /\ pending' \in Seq(Stream!Reqs)
         /\ Apart(kernel', pending') /\ kernel' \cup Range(pending') = Waiting \ {r}
         /\ Cardinality(Waiting \ {r}) = Cardinality(Waiting) - 1
<1>1. /\ pc = "loop" /\ cb = "none" /\ pending # <<>> /\ Head(pending) = r
      /\ pending' = Tail(pending) /\ kernel' = kernel
  BY DEF Stream!Take, Stream!At
<1>2. /\ kernel \subseteq Stream!Reqs /\ pending \in Seq(Stream!Reqs)
      /\ IsInjective(pending) /\ kernel \cap Range(pending) = {}
  BY DEF StreamTypes, Apart
<1>3. /\ r \in Range(pending) /\ pending' \in Seq(Stream!Reqs) /\ IsInjective(pending')
      /\ Range(pending') = Range(pending) \ {r}
  <2>1. /\ Head(pending) \in Range(pending) /\ Tail(pending) \in Seq(Stream!Reqs)
        /\ IsInjective(Tail(pending))
        /\ Range(Tail(pending)) = Range(pending) \ {Head(pending)}
    BY <1>1, <1>2, TailQueue, Zenon
  <2> QED
    BY <1>1, <2>1
<1>4. /\ r \in Waiting /\ r \notin kernel /\ Apart(kernel', pending')
      /\ kernel' \cup Range(pending') = Waiting \ {r}
  BY <1>1, <1>2, <1>3 DEF Waiting, Apart
<1>5. Cardinality(Waiting \ {r}) = Cardinality(Waiting) - 1
  <2>1. Waiting \in SUBSET Stream!Reqs
    BY StreamNumbers
  <2>2. PICK W : W = Waiting
    OBVIOUS
  <2>3. IsFiniteSet(W) /\ r \in W
    BY <1>4, <2>1, <2>2, ReqsFinite
  <2>4. Cardinality(W \ {r}) = Cardinality(W) - 1
    BY <2>3, FS_RemoveElement
  <2> QED
    BY <2>2, <2>4
<1> QED
  BY <1>1, <1>3, <1>4, <1>5

\* Steps that move no request: flags may go, and the read handler may go on.
LEMMA StreamStill ==
  ASSUME StreamInv,
         UNCHANGED <<kernel, pending, active_reqs, reqs_pending, write_reqs_pending,
                     shutdown_req>>,
         flags' \subseteq Stream!Flags,
         "CONNECTION" \in flags' <=> "CONNECTION" \in flags,
         "READ_PENDING" \in flags' <=> "READ_PENDING" \in flags,
         "WRITABLE" \in flags' => "WRITABLE" \in flags,
         "READING" \in flags' => "READING" \in flags,
         pc' = pc \/ (pc \in InRead /\ pc' \in InRead),
         activecnt' = IF "READING" \in flags' \/ "READING" \notin flags
                      THEN activecnt ELSE activecnt - 1,
         pc' = "recv" => "READING" \in flags' /\ cb' \in {"none", "alloc"},
         stopped' => "READING" \notin flags'
  PROVE  StreamInv'
<1>1. Waiting' = Waiting
  BY DEF Waiting
<1>2. Cardinality(active_reqs) \in Nat
  BY StreamNumbers DEF StreamInv
<1>3. activecnt' = Stream!Bit("READING" \in flags') + Cardinality(active_reqs')
  <2>1. PICK n : n = Cardinality(active_reqs)
    OBVIOUS
  <2>2. activecnt = Stream!Bit("READING" \in flags) + n /\ n \in Nat
    BY <1>2, <2>1 DEF StreamInv, StreamCounts
  <2>3. activecnt' = Stream!Bit("READING" \in flags') + n
    BY <2>2 DEF Stream!Bit
  <2> QED
    BY <2>1, <2>3
<1>4. activecnt' \in Nat
  BY <1>2, <1>3 DEF Stream!Bit
<1>5. /\ pc' \in Stream!Pcs /\ pc' \in InRead <=> pc \in InRead
      /\ \A p \in {"loop", "write_end", "shutdown_end"} : pc' = p <=> pc = p
  BY DEF StreamInv, StreamTypes, InRead, Stream!Pcs
<1>6. StreamTypes'
  BY <1>4, <1>5 DEF StreamInv, StreamTypes
<1>7. StreamLinks'
  BY <1>1, <1>5 DEF StreamInv, StreamLinks
<1>8. StreamLife'
  BY <1>5 DEF StreamInv, StreamLife
<1>9. StreamReads'
  BY <1>1, <1>5 DEF StreamInv, StreamReads
<1>10. StreamCounts'
  BY <1>1, <1>3, <1>5 DEF StreamInv, StreamCounts, Stream!InHandler, Stream!Bit
<1> QED
  BY <1>6, <1>7, <1>8, <1>9, <1>10 DEF StreamInv

\* Between asking for a buffer and receiving into it the user makes no call.
LEMMA UserNotInAlloc ==
  ASSUME StreamDiscipline, StreamInv, Stream!User
  PROVE  pc # "recv" /\ "CLOSING" \notin flags
BY DEF StreamDiscipline, Stream!User, StreamInv, StreamReads

LEMMA ReadStopInv ==
  ASSUME StreamDiscipline, StreamInv, Stream!uv_read_stop
  PROVE  StreamInv'
<1>1. /\ "READING" \in flags /\ flags' = flags \ {"READING"} /\ activecnt' = activecnt - 1
      /\ UNCHANGED <<kernel, pending, active_reqs, reqs_pending, write_reqs_pending,
                     shutdown_req, pc, cb>>
  BY DEF Stream!uv_read_stop, Stream!ioVars
<1>2. pc # "recv"
  BY UserNotInAlloc DEF Stream!uv_read_stop
<1> QED
  BY <1>1, <1>2, StreamStill DEF StreamInv, StreamTypes

LEMMA StreamCloseInv ==
  ASSUME StreamDiscipline, StreamInv, Stream!uv_tcp_close
  PROVE  StreamInv'
<1>1. /\ activecnt' = activecnt - Stream!StoppedReading
      /\ UNCHANGED <<kernel, pending, active_reqs, reqs_pending, write_reqs_pending,
                     shutdown_req, pc, cb>>
  BY DEF Stream!uv_tcp_close, Stream!ioVars
<1>2. pc # "recv"
  BY UserNotInAlloc DEF Stream!uv_tcp_close
<1>3. PICK f : f = flags \ {"READING", "READABLE", "WRITABLE"}
  OBVIOUS
<1>4. PICK g : g \subseteq {"CLOSING", "SOCKET_CLOSED", "ENDGAME_QUEUED"} /\ flags' = f \cup g
  <2>1. PICK keep \in BOOLEAN :
          flags' = Stream!CloseWhenIdle(f \cup {"CLOSING"}
                                          \cup IF keep THEN {} ELSE {"SOCKET_CLOSED"})
    <3>1. PICK cancelled \in BOOLEAN :
            flags' = Stream!CloseWhenIdle(f \cup {"CLOSING"}
              \cup IF {"READ_PENDING", "SHARED"} \subseteq flags /\ cancelled
                   THEN {} ELSE {"SOCKET_CLOSED"})
      BY <1>3 DEF Stream!uv_tcp_close
    <3>2. CASE {"READ_PENDING", "SHARED"} \subseteq flags /\ cancelled
      BY <3>1, <3>2
    <3>3. CASE ~({"READ_PENDING", "SHARED"} \subseteq flags /\ cancelled)
      BY <3>1, <3>3
    <3> QED
      BY <3>2, <3>3
  <2>2. PICK c : c = {"CLOSING"} \cup IF keep THEN {} ELSE {"SOCKET_CLOSED"}
    OBVIOUS
  <2>3. flags' = f \cup c \/ flags' = f \cup (c \cup {"ENDGAME_QUEUED"})
    BY <2>1, <2>2 DEF Stream!CloseWhenIdle, Stream!uv_want_endgame
  <2> QED
    BY <2>2, <2>3
<1>5. /\ flags' \subseteq Stream!Flags /\ "READING" \notin flags' /\ "WRITABLE" \notin flags'
      /\ "CONNECTION" \in flags' <=> "CONNECTION" \in flags
      /\ "READ_PENDING" \in flags' <=> "READ_PENDING" \in flags
  BY <1>3, <1>4 DEF StreamInv, StreamTypes, Stream!Flags
<1>6. activecnt' = IF "READING" \in flags' \/ "READING" \notin flags
                   THEN activecnt ELSE activecnt - 1
  BY <1>1, <1>5 DEF Stream!StoppedReading, Stream!Bit, StreamInv, StreamTypes
<1> QED
  BY <1>1, <1>2, <1>5, <1>6, StreamStill

LEMMA StreamReturnsInv ==
  ASSUME StreamInv, Stream!CallbackReturns
  PROVE  StreamInv'
<1>1. /\ cb' = "none"
      /\ UNCHANGED <<flags, kernel, pending, active_reqs, reqs_pending,
                     write_reqs_pending, shutdown_req, activecnt, pc, stopped>>
  BY DEF Stream!CallbackReturns, Stream!ioVars, Stream!countVars
<1> QED
  BY <1>1, StreamStill DEF StreamInv, StreamTypes, StreamReads

LEMMA ReadLoopInv ==
  ASSUME StreamInv, Stream!ReadLoop
  PROVE  StreamInv'
<1>1. /\ pc = "read_loop"
      /\ (pc' = "recv" /\ cb' = "alloc" /\ "READING" \in flags) \/ pc' = "read_done"
      /\ UNCHANGED <<flags, kernel, pending, active_reqs, reqs_pending,
                     write_reqs_pending, shutdown_req, activecnt, stopped>>
  BY DEF Stream!ReadLoop, Stream!At, Stream!StillReading, Stream!ioVars, Stream!countVars
<1>2. pc \in InRead /\ pc' \in InRead
  BY <1>1 DEF InRead
<1> QED
  BY <1>1, <1>2, StreamStill DEF StreamInv, StreamTypes, StreamReads

LEMMA RecvInv ==
  ASSUME StreamInv, Stream!Recv
  PROVE  StreamInv'
<1>1. /\ pc = "recv" /\ pc' \in {"read_loop", "read_done"}
      /\ UNCHANGED <<kernel, pending, active_reqs, reqs_pending, write_reqs_pending,
                     shutdown_req, stopped>>
  BY DEF Stream!Recv, Stream!At, Stream!ioVars
<1>2. "READING" \in flags
  BY <1>1 DEF StreamInv, StreamReads
<1>3. \/ flags' = flags /\ activecnt' = activecnt - 0
      \/ /\ flags' = flags \ {"READING", "READABLE"} \/ flags' = flags \ {"READING"}
         /\ activecnt' = activecnt - 1
  <2>1. PICK got \in {"full", "some", "nothing", "no buffer", "eof", "error"} :
          /\ flags' = CASE got = "eof" -> flags \ {"READING", "READABLE"}
                        [] got = "error" -> flags \ {"READING"}
                        [] OTHER -> flags
          /\ activecnt' = activecnt - Stream!Bit(got \in {"eof", "error"})
    BY Zenon DEF Stream!Recv
  <2>2. CASE got \in {"eof", "error"}
    BY <2>1, <2>2 DEF Stream!Bit
  <2>3. CASE got \notin {"eof", "error"}
    BY <2>1, <2>3 DEF Stream!Bit
  <2> QED
    BY <2>2, <2>3
<1>4. /\ pc \in InRead /\ pc' \in InRead /\ pc' # "recv" /\ activecnt \in Nat
      /\ flags \subseteq Stream!Flags /\ ~stopped
  BY <1>1, <1>2 DEF InRead, StreamInv, StreamTypes, StreamReads
<1>5. activecnt' = IF "READING" \in flags' \/ "READING" \notin flags
                   THEN activecnt ELSE activecnt - 1
  BY <1>2, <1>3, <1>4
<1>6. /\ flags' \subseteq Stream!Flags
      /\ \A f \in {"CONNECTION", "READ_PENDING", "WRITABLE"} : f \in flags' <=> f \in flags
  BY <1>3, <1>4
<1> QED
  BY <1>1, <1>2, <1>4, <1>5, <1>6, StreamStill

LEMMA EndgameCloseInv ==
  ASSUME StreamInv, Stream!EndgameClose
  PROVE  StreamInv'
<1>1. /\ pc = "loop"
      /\ \/ flags' = (flags \ {"ENDGAME_QUEUED"}) \cup {"SOCKET_CLOSED", "CLOSED"}
         \/ flags' = flags \ {"ENDGAME_QUEUED"}
      /\ UNCHANGED <<kernel, pending, active_reqs, reqs_pending, write_reqs_pending,
                     shutdown_req, activecnt, pc, stopped>>
  BY DEF Stream!EndgameClose, Stream!At, Stream!ioVars, Stream!countVars
<1>2. /\ flags' \subseteq Stream!Flags
      /\ \A f \in {"CONNECTION", "READ_PENDING", "WRITABLE", "READING"} :
           f \in flags' <=> f \in flags
  BY <1>1 DEF StreamInv, StreamTypes, Stream!Flags
<1> QED
  BY <1>1, <1>2, StreamStill DEF StreamInv, StreamReads

LEMMA StreamCompletesInv ==
  ASSUME StreamInv, NEW r \in Stream!Reqs, Stream!KernelCompletes(r)
  PROVE  StreamInv'
<1>1. /\ r \in kernel /\ kernel' = kernel \ {r} /\ pending' = Append(pending, r)
      /\ UNCHANGED <<flags, active_reqs, reqs_pending, write_reqs_pending, shutdown_req,
                     activecnt, pc, cb, stopped>>
  BY DEF Stream!KernelCompletes, Stream!countVars
<1>2. /\ kernel \subseteq Stream!Reqs /\ pending \in Seq(Stream!Reqs)
      /\ IsInjective(pending) /\ kernel \cap Range(pending) = {}
  BY DEF StreamInv, StreamTypes, Apart
<1>3. /\ pending' \in Seq(Stream!Reqs) /\ IsInjective(pending')
      /\ Range(pending') = Range(pending) \cup {r}
  BY <1>1, <1>2, AppendQueue
<1>4. kernel' \subseteq kernel /\ Apart(kernel', pending') /\ Waiting' = Waiting
  BY <1>1, <1>2, <1>3 DEF Apart, Waiting
<1>5. StreamTypes'
  BY <1>1, <1>2, <1>3, <1>4 DEF StreamInv, StreamTypes
<1>6. StreamLinks' /\ StreamLife'
  BY <1>1, <1>4 DEF StreamInv, StreamLinks, StreamLife
<1>7. StreamReads'
  BY <1>1, <1>4 DEF StreamInv, StreamReads
<1>8. StreamCounts'
  BY <1>1, <1>4 DEF StreamInv, StreamCounts, Stream!InHandler
<1> QED
  BY <1>5, <1>6, <1>7, <1>8 DEF StreamInv

\* The ends of the handlers: DECREASE_PENDING_REQ_COUNT.
LEMMA StreamEnd ==
  ASSUME StreamInv,
         UNCHANGED <<kernel, pending, active_reqs, activecnt, stopped>>,
         pc \in {"read_end", "connect_end", "write_end", "shutdown_end"}, pc' = "loop",
         flags' = flags \/ flags' = flags \cup {"ENDGAME_QUEUED"},
         reqs_pending' = reqs_pending - 1,
         write_reqs_pending' = IF pc = "write_end" THEN write_reqs_pending - 1
                               ELSE write_reqs_pending,
         shutdown_req' = (shutdown_req /\ pc # "shutdown_end")
  PROVE  StreamInv'
<1>1. Waiting' = Waiting /\ pc \notin InRead /\ pc' \notin InRead
  BY DEF Waiting, InRead
<1>2. /\ flags' \subseteq Stream!Flags
      /\ \A f \in {"CONNECTION", "READ_PENDING", "WRITABLE", "READING"} :
           f \in flags' <=> f \in flags
  BY DEF StreamInv, StreamTypes, Stream!Flags
<1>3. StreamLinks'
  BY <1>1 DEF StreamInv, StreamLinks
<1>4. StreamLife'
  BY <1>2 DEF StreamInv, StreamLife
<1>5. StreamReads'
  BY <1>1, <1>2 DEF StreamInv, StreamReads
<1>6. /\ reqs_pending' = Cardinality(Waiting) + Stream!Bit(shutdown_req')
      /\ reqs_pending' \in Nat
  <2>1. PICK n : n = Cardinality(Waiting)
    OBVIOUS
  <2>2. n \in Nat /\ reqs_pending = n + Stream!InHandler + Stream!Bit(shutdown_req)
    BY <2>1, StreamNumbers DEF StreamInv, StreamCounts
  <2>3. pc = "shutdown_end" => shutdown_req
    BY DEF StreamInv, StreamLinks
  <2>4. reqs_pending' = n + Stream!Bit(shutdown_req') /\ reqs_pending' \in Nat
    <3>1. CASE pc = "shutdown_end"
      <4>1. Stream!InHandler = 0 /\ Stream!Bit(shutdown_req) = 1
              /\ Stream!Bit(shutdown_req') = 0
        BY <2>3, <3>1 DEF Stream!InHandler, Stream!Bit
      <4> QED
        BY <2>2, <4>1
    <3>2. CASE pc # "shutdown_end"
      <4>1. Stream!InHandler = 1
        BY <3>2 DEF Stream!InHandler, Stream!Bit
      <4>2. PICK b \in Nat : b = Stream!Bit(shutdown_req) /\ b = Stream!Bit(shutdown_req')
        <5>1. shutdown_req \in BOOLEAN
          BY DEF StreamInv, StreamTypes
        <5>2. shutdown_req' = shutdown_req
          BY <3>2, <5>1
        <5> QED
          BY <5>2 DEF Stream!Bit
      <4> QED
        BY <2>2, <4>1, <4>2
    <3> QED
      BY <3>1, <3>2
  <2> QED
    BY <2>1, <2>4
<1>7. /\ write_reqs_pending' = Cardinality(active_reqs \cap Writes)
      /\ write_reqs_pending' \in Nat
  <2>1. PICK n : n = Cardinality(active_reqs \cap Writes)
    OBVIOUS
  <2>2. n \in Nat /\ write_reqs_pending = n + Stream!Bit(pc = "write_end")
    BY <2>1, StreamNumbers DEF StreamInv, StreamCounts
  <2>3. write_reqs_pending' = n /\ write_reqs_pending' \in Nat
    BY <2>2 DEF Stream!Bit
  <2> QED
    BY <2>1, <2>3
<1>8. StreamTypes'
  <2>1. pc' \in Stream!Pcs /\ shutdown_req' \in BOOLEAN
    BY DEF Stream!Pcs, StreamInv, StreamTypes
  <2> QED
    BY <1>2, <1>6, <1>7, <2>1 DEF StreamInv, StreamTypes
<1>9. StreamCounts'
  <2>1. Stream!InHandler' = 0 /\ Stream!Bit(pc' = "write_end") = 0
    BY DEF Stream!InHandler, Stream!Bit
  <2>2. /\ reqs_pending' = Cardinality(Waiting') + Stream!InHandler' + Stream!Bit(shutdown_req')
    <3>1. PICK n, b : n = Cardinality(Waiting) /\ b = Stream!Bit(shutdown_req')
      OBVIOUS
    <3>2. n \in Nat /\ b \in Nat /\ reqs_pending' = n + b
      BY <1>6, <3>1, StreamNumbers DEF Stream!Bit, StreamInv
    <3>3. reqs_pending' = n + 0 + b
      BY <3>2
    <3> QED
      BY <1>1, <2>1, <3>1, <3>3
  <2>3. write_reqs_pending' = Cardinality(active_reqs' \cap Writes) + Stream!Bit(pc' = "write_end")
    <3>1. PICK n : n = Cardinality(active_reqs \cap Writes) /\ n \in Nat
      BY StreamNumbers DEF StreamInv
    <3>2. write_reqs_pending' = n + 0
      BY <1>7, <3>1
    <3> QED
      BY <2>1, <3>1, <3>2
  <2>4. activecnt' = Stream!Bit("READING" \in flags') + Cardinality(active_reqs')
    BY <1>2 DEF StreamInv, StreamCounts, Stream!Bit
  <2> QED
    BY <2>2, <2>3, <2>4, Zenon DEF StreamCounts
<1> QED
  BY <1>3, <1>4, <1>5, <1>8, <1>9 DEF StreamInv

LEMMA HandlerEndsInv ==
  ASSUME StreamInv, Stream!HandlerEnd \/ Stream!WriteEnd \/ Stream!ShutdownEnd
  PROVE  StreamInv'
<1>1. CASE Stream!HandlerEnd
  <2>1. /\ pc \in {"read_end", "connect_end"} /\ pc' = "loop"
        /\ flags' = flags \/ flags' = flags \cup {"ENDGAME_QUEUED"}
        /\ reqs_pending' = reqs_pending - 1
        /\ UNCHANGED <<kernel, pending, active_reqs, activecnt, stopped,
                       write_reqs_pending, shutdown_req>>
    BY <1>1 DEF Stream!HandlerEnd, Stream!At, Stream!DecreasePending,
                Stream!uv_want_endgame, Stream!ioVars
  <2>2. shutdown_req \in BOOLEAN
    BY DEF StreamInv, StreamTypes
  <2> QED
    BY <2>1, <2>2, StreamEnd
<1>2. CASE Stream!WriteEnd
  <2>1. /\ pc = "write_end" /\ pc' = "loop"
        /\ reqs_pending' = reqs_pending - 1 /\ write_reqs_pending' = write_reqs_pending - 1
        /\ UNCHANGED <<kernel, pending, active_reqs, activecnt, stopped, shutdown_req>>
    BY <1>2 DEF Stream!WriteEnd, Stream!At, Stream!DecreasePending, Stream!ioVars
  <2>2. flags' = flags \/ flags' = flags \cup {"ENDGAME_QUEUED"}
    <3>1. PICK f : f = Stream!WakeShutdown(flags)
      OBVIOUS
    <3>2. f = flags \/ f = flags \cup {"ENDGAME_QUEUED"}
      BY <3>1 DEF Stream!WakeShutdown, Stream!uv_want_endgame
    <3>3. flags' = f \/ flags' = f \cup {"ENDGAME_QUEUED"}
      BY <1>2, <3>1 DEF Stream!WriteEnd, Stream!DecreasePending, Stream!uv_want_endgame
    <3> QED
      BY <3>2, <3>3
  <2>3. shutdown_req \in BOOLEAN
    BY DEF StreamInv, StreamTypes
  <2> QED
    BY <2>1, <2>2, <2>3, StreamEnd
<1>3. CASE Stream!ShutdownEnd
  <2>1. /\ pc = "shutdown_end" /\ pc' = "loop" /\ shutdown_req' = FALSE
        /\ flags' = flags \/ flags' = flags \cup {"ENDGAME_QUEUED"}
        /\ reqs_pending' = reqs_pending - 1
        /\ UNCHANGED <<kernel, pending, active_reqs, activecnt, stopped, write_reqs_pending>>
    BY <1>3 DEF Stream!ShutdownEnd, Stream!At, Stream!DecreasePending,
                Stream!uv_want_endgame, Stream!ioVars
  <2> QED
    BY <2>1, StreamEnd
<1> QED
  BY <1>1, <1>2, <1>3

\* How the active requests count when one comes or goes.
LEMMA ActiveSteps ==
  ASSUME StreamTypes, NEW r \in Stream!Reqs
  PROVE  /\ r \notin active_reqs =>
              /\ Cardinality(active_reqs \cup {r}) = Cardinality(active_reqs) + 1
              /\ r \in Writes => Cardinality((active_reqs \cup {r}) \cap Writes)
                                   = Cardinality(active_reqs \cap Writes) + 1
         /\ r \in active_reqs =>
              /\ Cardinality(active_reqs \ {r}) = Cardinality(active_reqs) - 1
              /\ r \in Writes => Cardinality((active_reqs \ {r}) \cap Writes)
                                   = Cardinality(active_reqs \cap Writes) - 1
         /\ r \notin Writes => /\ (active_reqs \cup {r}) \cap Writes = active_reqs \cap Writes
                               /\ (active_reqs \ {r}) \cap Writes = active_reqs \cap Writes
<1>1. PICK A, B : A = active_reqs /\ B = active_reqs \cap Writes
  OBVIOUS
<1>2. IsFiniteSet(A) /\ IsFiniteSet(B)
  <2>1. A \in SUBSET Stream!Reqs /\ B \in SUBSET Stream!Reqs
    BY <1>1, StreamNumbers
  <2> QED
    BY <2>1, ReqsFinite
<1>3. ASSUME r \notin A
      PROVE  /\ Cardinality(A \cup {r}) = Cardinality(A) + 1
             /\ r \in Writes => Cardinality((A \cup {r}) \cap Writes) = Cardinality(B) + 1
  <2>1. Cardinality(A \cup {r}) = Cardinality(A) + 1
    BY <1>2, <1>3, FS_AddElement
  <2>2. r \notin B
    BY <1>1, <1>3
  <2>3. Cardinality(B \cup {r}) = Cardinality(B) + 1
    BY <1>2, <2>2, FS_AddElement
  <2>4. r \in Writes => (A \cup {r}) \cap Writes = B \cup {r}
    BY <1>1
  <2> QED
    BY <2>1, <2>3, <2>4
<1>4. ASSUME r \in A
      PROVE  /\ Cardinality(A \ {r}) = Cardinality(A) - 1
             /\ r \in Writes => Cardinality((A \ {r}) \cap Writes) = Cardinality(B) - 1
  <2>1. Cardinality(A \ {r}) = Cardinality(A) - 1
    BY <1>2, <1>4, FS_RemoveElement
  <2>2. r \in Writes => r \in B /\ (A \ {r}) \cap Writes = B \ {r}
    BY <1>1, <1>4
  <2>3. r \in B => Cardinality(B \ {r}) = Cardinality(B) - 1
    BY <1>2, FS_RemoveElement
  <2> QED
    BY <2>1, <2>2, <2>3
<1>5. r \notin Writes => (A \cup {r}) \cap Writes = B /\ (A \ {r}) \cap Writes = B
  BY <1>1
<1> QED
  BY <1>1, <1>3, <1>4, <1>5

LEMMA ShutdownInv ==
  ASSUME StreamInv, Stream!uv_shutdown
  PROVE  StreamInv'
<1>1. /\ "WRITABLE" \in flags /\ flags' = (flags \ {"WRITABLE"}) \cup {"ENDGAME_QUEUED"}
      /\ shutdown_req' = TRUE /\ reqs_pending' = reqs_pending + 1
      /\ activecnt' = activecnt + 1 /\ active_reqs' = active_reqs \cup {"shutdown"}
      /\ UNCHANGED <<kernel, pending, write_reqs_pending, pc, cb, stopped>>
  BY DEF Stream!uv_shutdown, Stream!uv_want_endgame, Stream!Register, Stream!ioVars
<1>2. shutdown_req = FALSE /\ "shutdown" \notin active_reqs /\ pc # "shutdown_end"
        /\ "CONNECTION" \in flags
  BY <1>1 DEF StreamInv, StreamTypes, StreamLife, StreamLinks
<1>3. "shutdown" \in Stream!Reqs /\ "shutdown" \notin Writes
  BY ReqsFinite
<1>4. /\ Cardinality(active_reqs') = Cardinality(active_reqs) + 1
      /\ active_reqs' \cap Writes = active_reqs \cap Writes
  <2>1. Cardinality(active_reqs \cup {"shutdown"}) = Cardinality(active_reqs) + 1
        /\ (active_reqs \cup {"shutdown"}) \cap Writes = active_reqs \cap Writes
    BY <1>2, <1>3, ActiveSteps DEF StreamInv
  <2> QED
    BY <1>1, <2>1
<1>5. Waiting' = Waiting
  BY <1>1 DEF Waiting
<1>6. /\ flags' \subseteq Stream!Flags
      /\ \A f \in {"CONNECTION", "READ_PENDING", "READING"} : f \in flags' <=> f \in flags
      /\ "WRITABLE" \notin flags'
  BY <1>1 DEF StreamInv, StreamTypes, Stream!Flags
<1>7. StreamLinks'
  BY <1>1, <1>2, <1>3, <1>5 DEF StreamInv, StreamLinks
<1>8. StreamLife'
  BY <1>1, <1>2, <1>4, <1>6 DEF StreamInv, StreamLife
<1>9. StreamReads'
  BY <1>1, <1>5, <1>6 DEF StreamInv, StreamReads
<1>10. StreamCounts'
  <2>1. PICK n, m, h : /\ n = Cardinality(Waiting) /\ m = Cardinality(active_reqs)
                       /\ h = Stream!InHandler
    OBVIOUS
  <2>2. n \in Nat /\ m \in Nat /\ h \in Nat
    BY <2>1, StreamNumbers DEF StreamInv, Stream!InHandler, Stream!Bit
  <2>3. reqs_pending = n + h /\ activecnt = Stream!Bit("READING" \in flags) + m
    BY <1>2, <2>1, <2>2 DEF StreamInv, StreamCounts, Stream!Bit
  <2>4. reqs_pending' = n + h + Stream!Bit(shutdown_req')
    BY <1>1, <2>2, <2>3 DEF Stream!Bit
  <2>5. activecnt' = Stream!Bit("READING" \in flags') + (m + 1)
    BY <1>1, <1>6, <2>2, <2>3 DEF Stream!Bit
  <2>6. Stream!InHandler' = h /\ Stream!Bit(pc' = "write_end") = Stream!Bit(pc = "write_end")
    BY <1>1, <2>1 DEF Stream!InHandler
  <2>7. write_reqs_pending' = Cardinality(active_reqs' \cap Writes)
                                + Stream!Bit(pc' = "write_end")
    BY <1>1, <1>4, <2>6, Zenon DEF StreamInv, StreamCounts
  <2>8. Cardinality(active_reqs') = m + 1 /\ Cardinality(Waiting') = n
    BY <1>4, <1>5, <2>1
  <2> QED
    BY <2>4, <2>5, <2>6, <2>7, <2>8, Zenon DEF StreamCounts
<1>11. StreamTypes'
  BY <1>1, <1>3, <1>6 DEF StreamInv, StreamTypes
<1> QED
  BY <1>7, <1>8, <1>9, <1>10, <1>11 DEF StreamInv

LEMMA EndgameShutdownInv ==
  ASSUME StreamInv, Stream!EndgameShutdown
  PROVE  StreamInv'
<1>1. /\ pc = "loop" /\ pc' = "shutdown_end" /\ shutdown_req
      /\ flags' = flags \ {"ENDGAME_QUEUED"}
      /\ activecnt' = activecnt - 1 /\ active_reqs' = active_reqs \ {"shutdown"}
      /\ UNCHANGED <<kernel, pending, reqs_pending, write_reqs_pending, shutdown_req, stopped>>
  BY DEF Stream!EndgameShutdown, Stream!ReadyToShutdown, Stream!At, Stream!Unregister,
         Stream!ioVars
<1>2. "shutdown" \in active_reqs /\ "shutdown" \in Stream!Reqs /\ "shutdown" \notin Writes
  BY <1>1, ReqsFinite DEF StreamInv, StreamLinks
<1>3. /\ Cardinality(active_reqs') = Cardinality(active_reqs) - 1
      /\ active_reqs' \cap Writes = active_reqs \cap Writes
  <2>1. Cardinality(active_reqs \ {"shutdown"}) = Cardinality(active_reqs) - 1
        /\ (active_reqs \ {"shutdown"}) \cap Writes = active_reqs \cap Writes
    BY <1>2, ActiveSteps DEF StreamInv
  <2> QED
    BY <1>1, <2>1
<1>4. Waiting' = Waiting /\ pc \notin InRead /\ pc' \notin InRead
  BY <1>1 DEF Waiting, InRead
<1>5. /\ flags' \subseteq Stream!Flags
      /\ \A f \in {"CONNECTION", "READ_PENDING", "READING", "WRITABLE"} :
           f \in flags' <=> f \in flags
  BY <1>1 DEF StreamInv, StreamTypes
<1>6. StreamLinks'
  BY <1>1, <1>2, <1>4 DEF StreamInv, StreamLinks
<1>7. StreamLife'
  BY <1>1, <1>3, <1>5 DEF StreamInv, StreamLife
<1>8. StreamReads'
  BY <1>1, <1>4, <1>5 DEF StreamInv, StreamReads
<1>9. activecnt' = Stream!Bit("READING" \in flags') + Cardinality(active_reqs')
        /\ activecnt' \in Nat
  <2>1. PICK m, k : m = Cardinality(active_reqs) /\ k = Cardinality(active_reqs')
    OBVIOUS
  <2>2. active_reqs' \in SUBSET Stream!Reqs
    BY <1>1, StreamNumbers DEF StreamInv
  <2>3. m \in Nat /\ k \in Nat /\ k = m - 1
    BY <1>3, <2>1, <2>2, StreamNumbers, ReqsFinite DEF StreamInv
  <2>4. activecnt = Stream!Bit("READING" \in flags) + m
    BY <2>1 DEF StreamInv, StreamCounts
  <2>5. activecnt' = Stream!Bit("READING" \in flags') + k /\ activecnt' \in Nat
    BY <1>1, <1>5, <2>3, <2>4 DEF Stream!Bit
  <2> QED
    BY <2>1, <2>5
<1>10. StreamTypes'
  BY <1>1, <1>5, <1>9 DEF StreamInv, StreamTypes, Stream!Pcs
<1>11. StreamCounts'
  <2>1. Stream!InHandler' = Stream!InHandler /\ Stream!Bit(pc' = "write_end") = Stream!Bit(pc = "write_end")
    BY <1>1 DEF Stream!InHandler, Stream!Bit
  <2> QED
    BY <1>1, <1>3, <1>4, <1>9, <2>1 DEF StreamInv, StreamCounts
<1> QED
  BY <1>6, <1>7, <1>8, <1>10, <1>11 DEF StreamInv

\* A request with a callback is registered and started.
LEMMA RequestStarted ==
  ASSUME StreamInv, NEW r \in Writes \cup {"connect"}, r \notin active_reqs,
         r = "connect" => "CONNECTION" \notin flags,
         r \in Writes => "WRITABLE" \in flags,
         NEW how, Stream!Start(r, how), Stream!Register(r),
         reqs_pending' = reqs_pending + 1,
         write_reqs_pending' = IF r \in Writes THEN write_reqs_pending + 1
                               ELSE write_reqs_pending,
         flags' = flags \/ flags' = flags \cup {"BOUND"},
         UNCHANGED <<shutdown_req, pc, cb, stopped>>
  PROVE  StreamInv'
<1>1. /\ r \in Stream!Reqs /\ r # "read" /\ r # "shutdown"
      /\ r \in Writes <=> r # "connect"
  BY ReqsFinite
<1>2. r \notin Waiting
  BY DEF StreamInv, StreamLinks
<1>3. /\ kernel' \subseteq Stream!Reqs /\ pending' \in Seq(Stream!Reqs)
      /\ Apart(kernel', pending') /\ Waiting' = Waiting \cup {r}
      /\ kernel' \subseteq kernel \cup {r}
      /\ Cardinality(Waiting') = Cardinality(Waiting) + 1
  <2>1. /\ kernel' \subseteq Stream!Reqs /\ pending' \in Seq(Stream!Reqs)
        /\ Apart(kernel', pending') /\ kernel' \cup Range(pending') = Waiting \cup {r}
        /\ kernel' = IF how = "kernel" THEN kernel \cup {r} ELSE kernel
        /\ Cardinality(Waiting \cup {r}) = Cardinality(Waiting) + 1
    BY <1>1, <1>2, StartEffect, Zenon DEF StreamInv
  <2>2. Waiting' = Waiting \cup {r}
    BY <2>1 DEF Waiting
  <2> QED
    BY <2>1, <2>2
<1>4. activecnt' = activecnt + 1 /\ active_reqs' = active_reqs \cup {r}
  BY DEF Stream!Register
<1>5. /\ Cardinality(active_reqs') = Cardinality(active_reqs) + 1
      /\ r \in Writes => Cardinality(active_reqs' \cap Writes)
                           = Cardinality(active_reqs \cap Writes) + 1
      /\ r \notin Writes => active_reqs' \cap Writes = active_reqs \cap Writes
  <2>1. /\ Cardinality(active_reqs \cup {r}) = Cardinality(active_reqs) + 1
        /\ r \in Writes => Cardinality((active_reqs \cup {r}) \cap Writes)
                             = Cardinality(active_reqs \cap Writes) + 1
        /\ r \notin Writes => (active_reqs \cup {r}) \cap Writes = active_reqs \cap Writes
    BY <1>1, ActiveSteps DEF StreamInv
  <2> QED
    BY <1>4, <2>1
<1>6. /\ flags' \subseteq Stream!Flags
      /\ \A f \in {"CONNECTION", "READ_PENDING", "READING", "WRITABLE"} :
           f \in flags' <=> f \in flags
  BY DEF StreamInv, StreamTypes, Stream!Flags
<1>7. StreamLinks'
  BY <1>1, <1>3, <1>4 DEF StreamInv, StreamLinks
<1>8. StreamLife'
  <2>1. CASE r = "connect"
    <3>1. "CONNECTION" \notin flags' /\ active_reqs' \cap Writes = active_reqs \cap Writes
      BY <1>1, <1>5, <1>6, <2>1
    <3> QED
      BY <1>6, <3>1 DEF StreamInv, StreamLife
  <2>2. CASE r \in Writes
    <3>1. "CONNECTION" \in flags' /\ "connect" \notin active_reqs'
      BY <1>1, <1>4, <1>6, <2>2 DEF StreamInv, StreamLife
    <3> QED
      BY <1>6, <3>1 DEF StreamInv, StreamLife
  <2> QED
    BY <2>1, <2>2
<1>9. StreamReads'
  BY <1>1, <1>3, <1>6 DEF StreamInv, StreamReads
<1>10. PICK n, m, w, h, s : /\ n = Cardinality(Waiting) /\ m = Cardinality(active_reqs)
                            /\ w = Cardinality(active_reqs \cap Writes)
                            /\ h = Stream!InHandler /\ s = Stream!Bit(shutdown_req)
  OBVIOUS
<1>11. n \in Nat /\ m \in Nat /\ w \in Nat /\ h \in Nat /\ s \in Nat
  BY <1>10, StreamNumbers DEF StreamInv, Stream!InHandler, Stream!Bit
<1>12. /\ reqs_pending = n + h + s
       /\ write_reqs_pending = w + Stream!Bit(pc = "write_end")
       /\ activecnt = Stream!Bit("READING" \in flags) + m
  BY <1>10 DEF StreamInv, StreamCounts
<1>13. reqs_pending' = (n + 1) + h + s /\ reqs_pending' \in Nat
  BY <1>11, <1>12
<1>14. activecnt' = Stream!Bit("READING" \in flags') + (m + 1) /\ activecnt' \in Nat
  BY <1>4, <1>6, <1>11, <1>12 DEF Stream!Bit
<1>15. /\ write_reqs_pending' = Cardinality(active_reqs' \cap Writes)
                                  + Stream!Bit(pc' = "write_end")
       /\ write_reqs_pending' \in Nat
  <2>1. CASE r \in Writes
    <3>1. write_reqs_pending' = (w + 1) + Stream!Bit(pc' = "write_end")
            /\ write_reqs_pending' \in Nat
      BY <1>11, <1>12, <2>1 DEF Stream!Bit
    <3> QED
      BY <1>5, <1>10, <2>1, <3>1
  <2>2. CASE r \notin Writes
    <3>1. write_reqs_pending' = w + Stream!Bit(pc' = "write_end")
            /\ write_reqs_pending' \in Nat
      BY <1>11, <1>12, <2>2 DEF Stream!Bit
    <3> QED
      BY <1>5, <1>10, <2>2, <3>1
  <2> QED
    BY <2>1, <2>2
<1>16. StreamTypes'
  BY <1>1, <1>3, <1>4, <1>6, <1>13, <1>14, <1>15 DEF StreamInv, StreamTypes
<1>17. StreamCounts'
  <2>1. Stream!InHandler' = h /\ Stream!Bit(shutdown_req') = s
    BY <1>10 DEF Stream!InHandler
  <2>2. Cardinality(Waiting') = n + 1 /\ Cardinality(active_reqs') = m + 1
    BY <1>3, <1>5, <1>10
  <2> QED
    BY <1>13, <1>14, <1>15, <2>1, <2>2, Zenon DEF StreamCounts
<1> QED
  BY <1>7, <1>8, <1>9, <1>16, <1>17 DEF StreamInv

LEMMA WriteInv ==
  ASSUME StreamInv, NEW w \in Writes, Stream!uv_tcp_write(w)
  PROVE  StreamInv'
<1>1. PICK how \in SyncResults : Stream!Start(w, how)
  BY DEF Stream!uv_tcp_write
<1>2. /\ "WRITABLE" \in flags /\ w \notin active_reqs /\ reqs_pending' = reqs_pending + 1
      /\ write_reqs_pending' = write_reqs_pending + 1 /\ Stream!Register(w)
      /\ UNCHANGED <<flags, shutdown_req, pc, cb, stopped>>
  BY DEF Stream!uv_tcp_write
<1>3. w # "connect"
  BY ReqsFinite
<1> QED
  BY <1>1, <1>2, <1>3, RequestStarted

LEMMA ConnectInv ==
  ASSUME StreamDiscipline, StreamInv, Stream!uv_tcp_connect
  PROVE  StreamInv'
<1>1. /\ "CONNECTION" \notin flags /\ "connect" \notin active_reqs /\ pc # "recv"
      /\ UNCHANGED <<write_reqs_pending, shutdown_req, pc, cb, stopped>>
  BY UserNotInAlloc DEF Stream!uv_tcp_connect
<1>2. PICK bound \in {"ok", "in use", "error"}, how \in SyncResults :
        /\ IF "BOUND" \in flags
           THEN bound = "ok" /\ UNCHANGED <<socket, delayed_error, flags>>
           ELSE Stream!uv_tcp_try_bind(bound)
        /\ IF bound = "ok" /\ how \in {"now", "kernel"}
           THEN /\ reqs_pending' = reqs_pending + 1
                /\ Stream!Register("connect")
                /\ Stream!Start("connect", how)
           ELSE UNCHANGED <<reqs_pending, activecnt, active_reqs, Stream!ioVars>>
  BY Zenon DEF Stream!uv_tcp_connect
<1>3. flags' = flags \/ flags' = flags \cup {"BOUND"}
  BY <1>2 DEF Stream!uv_tcp_try_bind
<1>4. CASE bound = "ok" /\ how \in {"now", "kernel"}
  <2>1. /\ reqs_pending' = reqs_pending + 1
        /\ Stream!Register("connect") /\ Stream!Start("connect", how)
    BY <1>2, <1>4
  <2>2. "connect" \notin Writes
    BY ReqsFinite
  <2> QED
    BY <1>1, <1>3, <2>1, <2>2, RequestStarted
<1>5. CASE ~(bound = "ok" /\ how \in {"now", "kernel"})
  <2>1. UNCHANGED <<reqs_pending, activecnt, active_reqs, kernel, pending>>
    BY <1>2, <1>5 DEF Stream!ioVars
  <2>2. /\ flags' \subseteq Stream!Flags
        /\ \A f \in {"CONNECTION", "READ_PENDING", "READING", "WRITABLE"} :
             f \in flags' <=> f \in flags
    BY <1>3 DEF StreamInv, StreamTypes, Stream!Flags
  <2> QED
    BY <1>1, <2>1, <2>2, StreamStill DEF StreamInv, StreamReads
<1> QED
  BY <1>4, <1>5

\* A read is queued while the handle reads, or starts to.
LEMMA ReadQueued ==
  ASSUME StreamInv, "read" \notin Waiting,
         NEW how, NEW f, f = flags \cup {"READING"}, Stream!uv_tcp_queue_read(f, how),
         reqs_pending' = reqs_pending + 1,
         activecnt' = IF "READING" \in flags THEN activecnt ELSE activecnt + 1,
         pc' = pc \/ (pc = "read_done" /\ pc' = "read_end"),
         pc' \in InRead => how # "refused", pc' # "recv", ~stopped',
         UNCHANGED <<write_reqs_pending, active_reqs, shutdown_req>>
  PROVE  StreamInv'
<1>1. "read" \in Stream!Reqs /\ "read" \notin Writes
  BY ReqsFinite
<1>2. /\ kernel' \subseteq Stream!Reqs /\ pending' \in Seq(Stream!Reqs)
      /\ Apart(kernel', pending') /\ Waiting' = Waiting \cup {"read"}
      /\ kernel' = IF how = "kernel" THEN kernel \cup {"read"} ELSE kernel
      /\ Cardinality(Waiting') = Cardinality(Waiting) + 1
  <2>1. Stream!Start("read", how)
    BY DEF Stream!uv_tcp_queue_read
  <2>2. /\ kernel' \subseteq Stream!Reqs /\ pending' \in Seq(Stream!Reqs)
        /\ Apart(kernel', pending') /\ kernel' \cup Range(pending') = Waiting \cup {"read"}
        /\ kernel' = IF how = "kernel" THEN kernel \cup {"read"} ELSE kernel
        /\ Cardinality(Waiting \cup {"read"}) = Cardinality(Waiting) + 1
    BY <1>1, <2>1, StartEffect DEF StreamInv
  <2>3. Waiting' = Waiting \cup {"read"}
    BY <2>2 DEF Waiting
  <2> QED
    BY <2>2, <2>3
<1>3. flags' = IF how = "refused" THEN f ELSE f \cup {"READ_PENDING"}
  BY DEF Stream!uv_tcp_queue_read, Stream!ReadPending
<1>4. /\ flags' \subseteq Stream!Flags /\ "READING" \in flags'
      /\ how # "refused" => "READ_PENDING" \in flags'
      /\ \A x \in {"CONNECTION", "WRITABLE"} : x \in flags' <=> x \in flags
      /\ "READ_PENDING" \in flags => "READ_PENDING" \in flags'
  BY <1>3 DEF StreamInv, StreamTypes, Stream!Flags
<1>5. /\ \A p \in {"loop", "write_end", "shutdown_end"} : pc' = p <=> pc = p
      /\ pc' \in Stream!Pcs
  BY DEF StreamInv, StreamTypes, Stream!Pcs
<1>6. StreamLinks'
  BY <1>1, <1>2, <1>5 DEF StreamInv, StreamLinks
<1>7. StreamLife'
  BY <1>4, <1>5 DEF StreamInv, StreamLife
<1>8. StreamReads'
  <2>1. "read" \in Waiting' /\ ("read" \in kernel' => "READ_PENDING" \in flags')
    BY <1>2, <1>4 DEF Waiting
  <2>2. pc' \in InRead => "READ_PENDING" \in flags'
    BY <1>4
  <2> QED
    BY <2>1, <2>2, Zenon DEF StreamReads
<1>9. PICK n, m, s : /\ n = Cardinality(Waiting) /\ m = Cardinality(active_reqs)
                     /\ s = Stream!Bit(shutdown_req)
  OBVIOUS
<1>10. /\ n \in Nat /\ m \in Nat /\ s \in Nat
       /\ Stream!InHandler \in Nat /\ Stream!InHandler' = Stream!InHandler
  BY <1>5, <1>9, StreamNumbers DEF StreamInv, Stream!InHandler, Stream!Bit
<1>11. /\ reqs_pending' = (n + 1) + Stream!InHandler' + s /\ reqs_pending' \in Nat
  <2>1. reqs_pending = n + Stream!InHandler + s
    BY <1>9 DEF StreamInv, StreamCounts
  <2>2. PICK h \in Nat : h = Stream!InHandler /\ h = Stream!InHandler'
    BY <1>10
  <2>3. reqs_pending' = (n + 1) + h + s /\ reqs_pending' \in Nat
    BY <1>10, <2>1, <2>2
  <2> QED
    BY <2>2, <2>3
<1>12. activecnt' = Stream!Bit("READING" \in flags') + m /\ activecnt' \in Nat
  <2>1. activecnt = Stream!Bit("READING" \in flags) + m
    BY <1>9 DEF StreamInv, StreamCounts
  <2> QED
    BY <1>4, <1>10, <2>1 DEF Stream!Bit
<1>13. StreamTypes'
  BY <1>2, <1>4, <1>5, <1>11, <1>12 DEF StreamInv, StreamTypes
<1>14. StreamCounts'
  <2>1. write_reqs_pending' = Cardinality(active_reqs' \cap Writes) + Stream!Bit(pc' = "write_end")
    BY <1>5 DEF StreamInv, StreamCounts, Stream!Bit
  <2>2. /\ Cardinality(Waiting') = n + 1 /\ Cardinality(active_reqs') = m
        /\ Stream!Bit(shutdown_req') = s
    BY <1>2, <1>9
  <2> QED
    BY <1>11, <1>12, <2>1, <2>2, Zenon DEF StreamCounts
<1> QED
  BY <1>6, <1>7, <1>8, <1>13, <1>14 DEF StreamInv

LEMMA ReadStartInv ==
  ASSUME StreamDiscipline, StreamInv, Stream!uv_read_start
  PROVE  StreamInv'
<1>1. /\ "READING" \notin flags /\ activecnt' = activecnt + 1 /\ stopped' = FALSE
      /\ "READ_PENDING" \in flags \/ "read" \notin Range(pending)
      /\ UNCHANGED <<write_reqs_pending, active_reqs, shutdown_req, pc, cb>>
  BY SameOperators DEF Stream!uv_read_start, StreamDiscipline
<1>2. pc # "recv"
  BY UserNotInAlloc DEF Stream!uv_read_start
<1>3. CASE "READ_PENDING" \in flags
  <2>1. flags' = flags \cup {"READING"} /\ UNCHANGED <<reqs_pending, kernel, pending>>
    BY <1>3 DEF Stream!uv_read_start, Stream!ioVars
  <2>2. Waiting' = Waiting /\ "read" \in Waiting
    BY <1>3, <2>1 DEF Waiting, StreamInv, StreamReads
  <2>3. /\ flags' \subseteq Stream!Flags /\ "READING" \in flags'
        /\ \A f \in {"CONNECTION", "READ_PENDING", "WRITABLE"} : f \in flags' <=> f \in flags
    BY <2>1 DEF StreamInv, StreamTypes, Stream!Flags
  <2>4. activecnt' = Stream!Bit("READING" \in flags') + Cardinality(active_reqs')
          /\ activecnt' \in Nat
    <3>1. PICK m : m = Cardinality(active_reqs) /\ m \in Nat
      BY StreamNumbers DEF StreamInv
    <3>2. activecnt = 0 + m
      BY <1>1, <3>1 DEF StreamInv, StreamCounts, Stream!Bit
    <3>3. activecnt' = 1 + m /\ activecnt' \in Nat
      BY <1>1, <3>1, <3>2
    <3> QED
      BY <1>1, <2>3, <3>1, <3>3 DEF Stream!Bit
  <2>5. StreamTypes'
    BY <1>1, <2>1, <2>3, <2>4 DEF StreamInv, StreamTypes
  <2>6. StreamLinks' /\ StreamLife'
    BY <1>1, <2>2, <2>3 DEF StreamInv, StreamLinks, StreamLife
  <2>7. StreamReads'
    BY <1>1, <1>2, <1>3, <2>2, <2>3 DEF StreamReads
  <2>8. StreamCounts'
    BY <1>1, <2>1, <2>2, <2>4 DEF StreamInv, StreamCounts, Stream!InHandler
  <2> QED
    BY <2>5, <2>6, <2>7, <2>8 DEF StreamInv
<1>4. CASE "READ_PENDING" \notin flags
  <2>1. PICK how \in SyncResults :
          /\ how # "refused" \/ pc \notin {"read_loop", "read_done"}
          /\ Stream!uv_tcp_queue_read(flags \cup {"READING"}, how)
    BY <1>4 DEF Stream!uv_read_start, StreamDiscipline
  <2>2. reqs_pending' = reqs_pending + 1
    BY <1>4 DEF Stream!uv_read_start
  <2>3. "read" \notin Waiting
    BY <1>1, <1>4 DEF StreamInv, StreamReads, Waiting
  <2>4. pc' \in InRead => how # "refused"
    BY <1>1, <1>2, <2>1 DEF InRead
  <2>5. PICK f : f = flags \cup {"READING"}
    OBVIOUS
  <2> QED
    BY <1>1, <1>2, <2>1, <2>2, <2>3, <2>4, <2>5, ReadQueued
<1> QED
  BY <1>3, <1>4

LEMMA ReadDoneInv ==
  ASSUME StreamInv, Stream!ReadDone
  PROVE  StreamInv'
<1>1. /\ pc = "read_done" /\ pc' = "read_end"
      /\ UNCHANGED <<activecnt, write_reqs_pending, active_reqs, shutdown_req, cb, stopped>>
  BY DEF Stream!ReadDone, Stream!At
<1>2. pc \in InRead /\ pc' \notin InRead
  BY <1>1 DEF InRead
<1>3. CASE Stream!ReadAgain
  <2>1. PICK how \in SyncResults : Stream!uv_tcp_queue_read(flags, how)
    BY <1>3 DEF Stream!ReadDone
  <2>2. reqs_pending' = reqs_pending + 1
    BY <1>3 DEF Stream!ReadDone
  <2>3. "READING" \in flags /\ "READ_PENDING" \notin flags
    BY <1>3 DEF Stream!ReadAgain
  <2>4. "read" \notin Waiting /\ ~stopped'
    BY <1>1, <1>2, <2>3 DEF StreamInv, StreamReads
  <2>5. PICK f : f = flags \cup {"READING"} /\ f = flags
    BY <2>3
  <2>6. Stream!uv_tcp_queue_read(f, how)
    BY <2>1, <2>5
  <2> QED
    BY <1>1, <1>2, <2>2, <2>3, <2>4, <2>5, <2>6, ReadQueued
<1>4. CASE ~Stream!ReadAgain
  <2>1. UNCHANGED <<reqs_pending, flags, kernel, pending>>
    BY <1>4 DEF Stream!ReadDone, Stream!ioVars
  <2>2. "READING" \in flags => "READ_PENDING" \in flags
    BY <1>4 DEF Stream!ReadAgain
  <2>3. Waiting' = Waiting
    BY <2>1 DEF Waiting
  <2>4. StreamTypes'
    BY <1>1, <2>1 DEF StreamInv, StreamTypes, Stream!Pcs
  <2>5. StreamLinks' /\ StreamLife'
    BY <1>1, <2>1, <2>3 DEF StreamInv, StreamLinks, StreamLife
  <2>6. StreamReads'
    BY <1>1, <1>2, <2>1, <2>2, <2>3 DEF StreamInv, StreamReads
  <2>7. StreamCounts'
    BY <1>1, <2>1, <2>3 DEF StreamInv, StreamCounts, Stream!InHandler, Stream!Bit
  <2> QED
    BY <2>4, <2>5, <2>6, <2>7 DEF StreamInv
<1> QED
  BY <1>3, <1>4

LEMMA ReadReqInv ==
  ASSUME StreamInv, Stream!uv_process_tcp_read_req
  PROVE  StreamInv'
<1>1. /\ Stream!Take("read")
      /\ UNCHANGED <<reqs_pending, write_reqs_pending, active_reqs, shutdown_req, stopped>>
      /\ \/ /\ flags' = flags \ {"READ_PENDING"} /\ pc' = "read_loop"
            /\ activecnt' = activecnt
         \/ /\ flags' = flags \ {"READ_PENDING", "READING"} /\ pc' = "read_end"
            /\ activecnt' = activecnt - Stream!Bit("READING" \in flags)
  BY DEF Stream!uv_process_tcp_read_req, Stream!ReadCompleted, Stream!StoppedReading
<1>2. /\ pc = "loop" /\ "read" \in Waiting /\ kernel' = kernel
      /\ "read" \notin kernel /\ pending' \in Seq(Stream!Reqs) /\ Apart(kernel', pending')
      /\ Waiting' = Waiting \ {"read"}
      /\ Cardinality(Waiting') = Cardinality(Waiting) - 1
  <2>1. /\ pc = "loop" /\ "read" \in Waiting /\ "read" \notin kernel /\ kernel' = kernel
        /\ pending' \in Seq(Stream!Reqs) /\ Apart(kernel', pending')
        /\ kernel' \cup Range(pending') = Waiting \ {"read"}
        /\ Cardinality(Waiting \ {"read"}) = Cardinality(Waiting) - 1
    BY <1>1, TakeEffect, Zenon DEF StreamInv
  <2>2. Waiting' = Waiting \ {"read"}
    BY <2>1 DEF Waiting
  <2> QED
    BY <2>1, <2>2
<1>3. /\ flags' \subseteq Stream!Flags /\ "READ_PENDING" \notin flags'
      /\ \A f \in {"CONNECTION", "WRITABLE"} : f \in flags' <=> f \in flags
      /\ "READING" \in flags' => "READING" \in flags /\ pc' = "read_loop"
  BY <1>1 DEF StreamInv, StreamTypes
<1>4. "read" \notin Writes
  BY ReqsFinite
<1>5. pc' \in Stream!Pcs /\ pc' \notin {"loop", "write_end", "shutdown_end", "recv"}
  BY <1>1 DEF Stream!Pcs
<1>6. StreamLinks'
  BY <1>1, <1>2, <1>4, <1>5 DEF StreamInv, StreamLinks
<1>7. StreamLife'
  BY <1>1, <1>3, <1>5 DEF StreamInv, StreamLife
<1>8. StreamReads'
  <2>1. "read" \notin Waiting' /\ "read" \notin kernel'
    BY <1>2
  <2>2. "READING" \in flags' => pc' \in InRead
    BY <1>3 DEF InRead
  <2>3. stopped' => "READING" \notin flags'
    BY <1>1, <1>3 DEF StreamInv, StreamReads
  <2> QED
    BY <1>3, <1>5, <2>1, <2>2, <2>3 DEF StreamReads
<1>9. reqs_pending' = Cardinality(Waiting') + Stream!InHandler' + Stream!Bit(shutdown_req')
  <2>1. PICK n, m, s : /\ n = Cardinality(Waiting) /\ m = Cardinality(Waiting')
                       /\ s = Stream!Bit(shutdown_req)
    OBVIOUS
  <2>2. n \in Nat /\ m = n - 1 /\ s \in Nat
    BY <1>2, <2>1, StreamNumbers DEF StreamInv, Stream!Bit
  <2>3. reqs_pending = n + 0 + s
    BY <1>2, <2>1 DEF StreamInv, StreamCounts, Stream!InHandler, Stream!Bit
  <2>4. Stream!InHandler' = 1 /\ Stream!Bit(shutdown_req') = s
    BY <1>1, <1>5, <2>1 DEF Stream!InHandler, Stream!Bit
  <2>5. reqs_pending' = m + 1 + s
    BY <1>1, <2>2, <2>3
  <2> QED
    BY <2>1, <2>4, <2>5
<1>10. activecnt' = Stream!Bit("READING" \in flags') + Cardinality(active_reqs')
         /\ activecnt' \in Nat
  <2>1. PICK m : m = Cardinality(active_reqs) /\ m \in Nat
    BY StreamNumbers DEF StreamInv
  <2>2. activecnt = Stream!Bit("READING" \in flags) + m
    BY <2>1 DEF StreamInv, StreamCounts
  <2>3. activecnt' = Stream!Bit("READING" \in flags') + m /\ activecnt' \in Nat
    BY <1>1, <2>1, <2>2 DEF Stream!Bit
  <2> QED
    BY <1>1, <2>1, <2>3
<1>11. write_reqs_pending' = Cardinality(active_reqs' \cap Writes) + Stream!Bit(pc' = "write_end")
  BY <1>1, <1>2, <1>5 DEF StreamInv, StreamCounts, Stream!Bit
<1>12. StreamTypes'
  BY <1>1, <1>2, <1>3, <1>5, <1>10 DEF StreamInv, StreamTypes
<1> QED
  BY <1>6, <1>7, <1>8, <1>9, <1>10, <1>11, <1>12 DEF StreamInv, StreamCounts

\* A request with a callback is taken from the queue and its callback runs.
LEMMA RequestTaken ==
  ASSUME StreamInv, NEW r \in Writes \cup {"connect"}, Stream!Take(r), Stream!Unregister(r),
         pc' = IF r = "connect" THEN "connect_end" ELSE "write_end",
         \/ flags' = flags
         \/ r = "connect" /\ flags' = flags \cup {"CONNECTION", "READABLE", "WRITABLE"},
         UNCHANGED <<reqs_pending, write_reqs_pending, shutdown_req, stopped>>
  PROVE  StreamInv'
<1>1. /\ r \in Stream!Reqs /\ r # "read" /\ r # "shutdown"
      /\ r \in Writes <=> r # "connect"
  BY ReqsFinite
<1>2. /\ pc = "loop" /\ r \in Waiting /\ kernel' = kernel
      /\ pending' \in Seq(Stream!Reqs) /\ Apart(kernel', pending')
      /\ Waiting' = Waiting \ {r} /\ Cardinality(Waiting') = Cardinality(Waiting) - 1
  <2>1. /\ pc = "loop" /\ r \in Waiting /\ kernel' = kernel
        /\ pending' \in Seq(Stream!Reqs) /\ Apart(kernel', pending')
        /\ kernel' \cup Range(pending') = Waiting \ {r}
        /\ Cardinality(Waiting \ {r}) = Cardinality(Waiting) - 1
    BY TakeEffect, Zenon DEF StreamInv
  <2>2. Waiting' = Waiting \ {r}
    BY <2>1 DEF Waiting
  <2> QED
    BY <2>1, <2>2
<1>3. r \in active_reqs /\ active_reqs' = active_reqs \ {r} /\ activecnt' = activecnt - 1
  BY <1>2 DEF StreamInv, StreamLinks, Stream!Unregister
<1>4. /\ Cardinality(active_reqs') = Cardinality(active_reqs) - 1
      /\ r \in Writes => Cardinality(active_reqs' \cap Writes)
                           = Cardinality(active_reqs \cap Writes) - 1
      /\ r \notin Writes => active_reqs' \cap Writes = active_reqs \cap Writes
  <2>1. /\ Cardinality(active_reqs \ {r}) = Cardinality(active_reqs) - 1
        /\ r \in Writes => Cardinality((active_reqs \ {r}) \cap Writes)
                             = Cardinality(active_reqs \cap Writes) - 1
        /\ r \notin Writes => (active_reqs \ {r}) \cap Writes = active_reqs \cap Writes
    BY <1>1, <1>3, ActiveSteps DEF StreamInv
  <2> QED
    BY <1>3, <2>1
<1>5. /\ flags' \subseteq Stream!Flags
      /\ \A f \in {"READ_PENDING", "READING"} : f \in flags' <=> f \in flags
  BY DEF StreamInv, StreamTypes, Stream!Flags
<1>6. /\ pc' \in Stream!Pcs /\ pc' \notin InRead /\ pc \notin InRead
      /\ pc' \notin {"loop", "shutdown_end", "recv"}
      /\ pc' = "write_end" <=> r \in Writes
  BY <1>1, <1>2 DEF Stream!Pcs, InRead
<1>7. StreamLinks'
  BY <1>1, <1>2, <1>3, <1>6 DEF StreamInv, StreamLinks
<1>8. StreamLife'
  <2>1. CASE r = "connect"
    <3>1. "CONNECTION" \notin flags /\ ~shutdown_req /\ "connect" \notin active_reqs'
            /\ active_reqs' \cap Writes = active_reqs \cap Writes /\ pc' # "write_end"
      BY <1>1, <1>3, <1>4, <1>6, <2>1 DEF StreamInv, StreamLife
    <3>2. "WRITABLE" \in flags' => "CONNECTION" \in flags'
      BY <3>1 DEF StreamInv, StreamLife
    <3>3. ~shutdown_req' /\ active_reqs' \cap Writes = {}
      BY <3>1 DEF StreamInv, StreamLife
    <3> QED
      BY <3>1, <3>2, <3>3 DEF StreamLife
  <2>2. CASE r \in Writes
    <3>1. flags' = flags /\ active_reqs \cap Writes # {}
      BY <1>1, <1>3, <2>2
    <3>2. "CONNECTION" \in flags
      BY <3>1 DEF StreamInv, StreamLife
    <3> QED
      BY <1>3, <3>1, <3>2 DEF StreamInv, StreamLife
  <2> QED
    BY <2>1, <2>2
<1>9. StreamReads'
  BY <1>1, <1>2, <1>5, <1>6 DEF StreamInv, StreamReads
<1>10. PICK n, m, w, s : /\ n = Cardinality(Waiting) /\ m = Cardinality(active_reqs)
                         /\ w = Cardinality(active_reqs \cap Writes)
                         /\ s = Stream!Bit(shutdown_req)
  OBVIOUS
<1>11. n \in Nat /\ m \in Nat /\ w \in Nat /\ s \in Nat
  BY <1>10, StreamNumbers DEF StreamInv, Stream!Bit
<1>12. /\ reqs_pending = n + 0 + s /\ write_reqs_pending = w + 0
       /\ activecnt = Stream!Bit("READING" \in flags) + m
  BY <1>2, <1>10 DEF StreamInv, StreamCounts, Stream!InHandler, Stream!Bit
<1>13. reqs_pending' = Cardinality(Waiting') + Stream!InHandler' + Stream!Bit(shutdown_req')
  <2>1. reqs_pending' = (n - 1) + 1 + s
    BY <1>11, <1>12
  <2>2. Stream!InHandler' = 1 /\ Stream!Bit(shutdown_req') = s
    BY <1>6, <1>10 DEF Stream!InHandler, Stream!Bit
  <2>3. Cardinality(Waiting') = n - 1
    BY <1>2, <1>10
  <2> QED
    BY <2>1, <2>2, <2>3
<1>14. activecnt' = Stream!Bit("READING" \in flags') + Cardinality(active_reqs')
         /\ activecnt' \in Nat
  <2>1. PICK k : k = Cardinality(active_reqs')
    OBVIOUS
  <2>2. active_reqs' \in SUBSET Stream!Reqs
    BY <1>3, StreamNumbers DEF StreamInv
  <2>3. k \in Nat /\ k = m - 1
    BY <1>4, <1>10, <2>1, <2>2, ReqsFinite
  <2>4. activecnt' = Stream!Bit("READING" \in flags') + k /\ activecnt' \in Nat
    BY <1>3, <1>5, <1>11, <1>12, <2>3 DEF Stream!Bit
  <2> QED
    BY <2>1, <2>4
<1>15. write_reqs_pending' = Cardinality(active_reqs' \cap Writes)
                               + Stream!Bit(pc' = "write_end")
  <2>1. CASE r \in Writes
    <3>1. write_reqs_pending' = (w - 1) + 1
      BY <1>11, <1>12
    <3>2. Stream!Bit(pc' = "write_end") = 1
      BY <1>6, <2>1 DEF Stream!Bit
    <3> QED
      BY <1>4, <1>10, <2>1, <3>1, <3>2
  <2>2. CASE r \notin Writes
    <3>1. Stream!Bit(pc' = "write_end") = 0
      BY <1>6, <2>2 DEF Stream!Bit
    <3> QED
      BY <1>4, <1>10, <1>12, <2>2, <3>1
  <2> QED
    BY <2>1, <2>2
<1>16. StreamTypes'
  BY <1>2, <1>3, <1>5, <1>6, <1>14 DEF StreamInv, StreamTypes
<1> QED
  BY <1>7, <1>8, <1>9, <1>13, <1>14, <1>15, <1>16 DEF StreamInv, StreamCounts

LEMMA WriteReqInv ==
  ASSUME StreamInv, NEW w \in Writes, Stream!uv_process_tcp_write_req(w)
  PROVE  StreamInv'
<1>1. /\ Stream!Take(w) /\ Stream!Unregister(w) /\ pc' = "write_end" /\ w # "connect"
      /\ UNCHANGED <<flags, reqs_pending, write_reqs_pending, shutdown_req, stopped>>
  BY ReqsFinite DEF Stream!uv_process_tcp_write_req
<1> QED
  BY <1>1, RequestTaken

LEMMA ConnectReqInv ==
  ASSUME StreamInv, Stream!uv_process_tcp_connect_req
  PROVE  StreamInv'
<1>1. /\ Stream!Take("connect") /\ Stream!Unregister("connect") /\ pc' = "connect_end"
      /\ UNCHANGED <<reqs_pending, stopped>>
      /\ \/ /\ flags' = flags \cup {"CONNECTION", "READABLE", "WRITABLE"}
            /\ write_reqs_pending' = 0 /\ shutdown_req' = FALSE
         \/ UNCHANGED <<flags, write_reqs_pending, shutdown_req>>
  BY DEF Stream!uv_process_tcp_connect_req
<1>2. pc = "loop" /\ "connect" \in Waiting
  BY <1>1, TakeEffect DEF StreamInv
<1>3. "CONNECTION" \notin flags
  BY <1>2 DEF StreamInv, StreamLinks, StreamLife
<1>4. shutdown_req = FALSE
  BY <1>3 DEF StreamInv, StreamTypes, StreamLife
<1>5. write_reqs_pending = 0
  <2>1. Cardinality(active_reqs \cap Writes) = 0
    BY <1>3, FS_EmptySet DEF StreamInv, StreamLife
  <2> QED
    BY <1>2, <2>1 DEF StreamInv, StreamCounts, Stream!Bit
<1>6. UNCHANGED <<write_reqs_pending, shutdown_req>>
  BY <1>1, <1>4, <1>5
<1> QED
  BY <1>1, <1>6, RequestTaken

LEMMA StreamStep ==
  ASSUME StreamDiscipline, StreamInv, Stream!Next
  PROVE  StreamInv'
<1>1. CASE Stream!UserCall
  BY <1>1, ConnectInv, ReadStartInv, ReadStopInv, WriteInv, ShutdownInv, StreamCloseInv, Zenon
     DEF Stream!UserCall
<1>2. CASE Stream!HandlerStep
  BY <1>2, StreamReturnsInv, ReadLoopInv, RecvInv, ReadDoneInv, HandlerEndsInv, Zenon
     DEF Stream!HandlerStep
<1>3. CASE Stream!ProcessReq
  BY <1>3, ReadReqInv, ConnectReqInv, WriteReqInv, Zenon DEF Stream!ProcessReq
<1>4. CASE Stream!uv_tcp_endgame
  BY <1>4, EndgameShutdownInv, EndgameCloseInv, Zenon DEF Stream!uv_tcp_endgame
<1>5. CASE \E r \in Stream!Reqs : Stream!KernelCompletes(r)
  BY <1>5, StreamCompletesInv, Zenon
<1> QED
  BY <1>1, <1>2, <1>3, <1>4, <1>5, Zenon DEF Stream!Next

LEMMA StreamCountersExact ==
  ASSUME StreamInv
  PROVE  Stream!PendingCount /\ Stream!ActiveWhileBusy
<1>1. Cardinality(Waiting) = Cardinality(kernel) + Len(pending)
  <2>1. PICK K \in SUBSET Stream!Reqs, q \in Seq(Stream!Reqs) :
          K = kernel /\ q = pending /\ Apart(K, q)
    BY DEF StreamInv, StreamTypes
  <2>2. Cardinality(K \cup Range(q)) = Cardinality(K) + Len(q)
    BY <2>1, ReqsFinite, InFlight, Zenon
  <2> QED
    BY <2>1, <2>2 DEF Waiting
<1>2. /\ reqs_pending = Cardinality(kernel) + Len(pending) + Stream!InHandler
                          + Stream!Bit(shutdown_req)
      /\ write_reqs_pending = Cardinality(active_reqs \cap Writes)
                                + Stream!Bit(pc = "write_end")
      /\ activecnt = Stream!Bit("READING" \in flags) + Cardinality(active_reqs)
  BY <1>1, Zenon DEF StreamInv, StreamCounts
<1> QED
  BY <1>2, SameOperators, Zenon DEF Stream!PendingCount, Stream!ActiveWhileBusy

LEMMA StreamReadArmed ==
  ASSUME StreamInv
  PROVE  Stream!ReadArmed
<1>1. "READING" \in flags /\ pc \notin {"read_loop", "recv", "read_done"}
        => "read" \in kernel \cup Range(pending)
  BY Zenon DEF StreamInv, StreamReads, InRead, Waiting
<1> QED
  BY <1>1, SameOperators, Zenon DEF Stream!ReadArmed

\* A read callback runs only while the handle reads.
LEMMA StreamSilent ==
  ASSUME StreamInv, Stream!Next, cb = "none", cb' = "read"
  PROVE  ~stopped
<1>1. "READING" \in flags => ~stopped
  BY DEF StreamInv, StreamReads
<1>2. CASE Stream!UserCall
  BY <1>2 DEF Stream!UserCall, Stream!uv_tcp_connect, Stream!uv_read_start,
     Stream!uv_read_stop, Stream!uv_tcp_write, Stream!uv_shutdown, Stream!uv_tcp_close
<1>3. CASE Stream!HandlerStep
  <2>1. CASE Stream!Recv
    BY <1>1, <2>1 DEF Stream!Recv, Stream!At, StreamInv, StreamReads
  <2> QED
    BY <1>3, <2>1 DEF Stream!HandlerStep, Stream!CallbackReturns, Stream!ReadLoop,
       Stream!ReadDone, Stream!HandlerEnd, Stream!WriteEnd, Stream!ShutdownEnd
<1>4. CASE Stream!ProcessReq
  <2>1. CASE Stream!uv_process_tcp_read_req
    BY <1>1, <2>1 DEF Stream!uv_process_tcp_read_req
  <2> QED
    BY <1>4, <2>1 DEF Stream!ProcessReq, Stream!uv_process_tcp_connect_req,
       Stream!uv_process_tcp_write_req
<1>5. CASE Stream!uv_tcp_endgame
  BY <1>5 DEF Stream!uv_tcp_endgame, Stream!EndgameShutdown, Stream!EndgameClose
<1>6. CASE \E r \in Stream!Reqs : Stream!KernelCompletes(r)
  BY <1>6 DEF Stream!KernelCompletes
<1> QED
  BY <1>2, <1>3, <1>4, <1>5, <1>6, Zenon DEF Stream!Next

\* A connection is announced only while the handle listens, or has its socket.
LEMMA ServerSilent ==
  ASSUME ServerInv, Server!Next, cb = "none", cb' = "connection"
  PROVE  "CLOSING" \notin flags
<1>1. "LISTENING" \in flags \/ socket => "CLOSING" \notin flags
  BY DEF ServerInv, ServerLife
<1>2. CASE Server!UserCall
  BY <1>2 DEF Server!UserCall, Server!uv_tcp_listen, Server!uv_tcp_accept,
     Server!uv_tcp_simultaneous_accepts, Server!uv_tcp_duplicate_socket, Server!uv_tcp_close
<1>3. CASE Server!uv_process_tcp_accept_req
  <2>1. CASE Server!AcceptFailed
    BY <1>1, <2>1 DEF Server!AcceptFailed
  <2>2. CASE Server!Accepted
    BY <1>1, <2>2 DEF Server!Accepted, Server!MayUpdateContext
  <2>3. CASE Server!AcceptIgnored
    BY <2>3 DEF Server!AcceptIgnored
  <2> QED
    BY <1>3, <2>1, <2>2, <2>3 DEF Server!uv_process_tcp_accept_req
<1>4. CASE Server!HandlerStep \/ Server!uv_tcp_endgame
  BY <1>4 DEF Server!HandlerStep, Server!CallbackReturns, Server!AcceptEnd,
     Server!uv_tcp_endgame
<1>5. CASE \E r \in Server!AcceptReqs : Server!KernelCompletes(r)
  BY <1>5 DEF Server!KernelCompletes
<1> QED
  BY <1>2, <1>3, <1>4, <1>5, Zenon DEF Server!Next

-----------------------------------------------------------------------------
(* What MCTcp promises.                                                    *)

TcpDiscipline == StreamDiscipline /\ ServerDiscipline

TcpInv == (side = "stream" => StreamInv) /\ (side = "server" => ServerInv)

LEMMA TcpInvInit == Init => TcpInv
BY StreamInit, ServerInit DEF Init, TcpInv

LEMMA TcpInvStays ==
  ASSUME TcpInv, UNCHANGED vars
  PROVE  TcpInv'
<1>1. UNCHANGED <<side, flags, socket, activecnt, reqs_pending, kernel, pending, pc, cb>>
  BY DEF vars
<1>2. UNCHANGED <<write_reqs_pending, shutdown_req, active_reqs, stopped>>
  BY DEF vars, streamVars
<1>3. UNCHANGED <<accept_reqs, accept_socket, pending_accepts, processed_accepts>>
  BY DEF vars, serverVars
<1>4. Waiting' = Waiting /\ InUse' = InUse
  BY <1>1, <1>3 DEF Waiting, InUse
<1>5. StreamInv => StreamInv'
  BY <1>1, <1>2, <1>4 DEF StreamInv, StreamTypes, StreamLinks, StreamLife, StreamReads,
                          StreamCounts, Stream!InHandler
<1>6. ServerInv => ServerInv'
  BY <1>1, <1>3, <1>4 DEF ServerInv, ServerTypes, ServerApart, ServerLife, ServerCounts,
                          ServerSingle, Server!ActiveWhileListening
<1> QED
  BY <1>1, <1>5, <1>6 DEF TcpInv

LEMMA TcpInvNext ==
  ASSUME TcpDiscipline, TcpInv, [Next]_vars
  PROVE  TcpInv'
<1>1. CASE OnStream /\ Stream!Next
  BY <1>1, StreamStep DEF OnStream, TcpInv, TcpDiscipline
<1>2. CASE OnServer /\ Server!Next
  BY <1>2, ServerStep DEF OnServer, TcpInv, TcpDiscipline
<1>3. CASE UNCHANGED vars
  BY <1>3, TcpInvStays
<1> QED
  BY <1>1, <1>2, <1>3, Zenon DEF Next

LEMMA TcpAlways ==
  ASSUME TcpDiscipline
  PROVE  Spec => []TcpInv
<1>1. TcpInv /\ [Next]_vars => TcpInv'
  BY TcpInvNext
<1> QED
  BY <1>1, TcpInvInit, PTL DEF Spec

\* The counters that uv_close, the loop and the endgame go by count exactly the
\* requests in flight, the writes and what keeps the handle active, for any number
\* of writes, accept requests and calls (handle-inl.h:32-60, req-inl.h:53-63).
THEOREM CountersAreExact == TcpDiscipline => (Spec => []CountersExact)
<1> SUFFICES ASSUME TcpDiscipline PROVE Spec => []CountersExact
  OBVIOUS
<1>1. TcpInv => CountersExact
  BY StreamCountersExact, ServerCountersExact DEF TcpInv, CountersExact
<1> QED
  BY <1>1, TcpAlways, PTL

\* A handle that reads has a read in flight outside its handler, and a server
\* that listens some accept request, in every state (tcp.c:729-731, 1065-1069,
\* 687-711).
THEOREM AlwaysArmed == TcpDiscipline => (Spec => []Armed)
<1> SUFFICES ASSUME TcpDiscipline PROVE Spec => []Armed
  OBVIOUS
<1>1. TcpInv => Armed
  BY StreamReadArmed, ServerKeepsAccepting DEF TcpInv, Armed
<1> QED
  BY <1>1, TcpAlways, PTL

\* An accept request is in one place at a time, and one that waits for
\* uv_accept has a socket; after the change to a single accept request one at
\* most is left (tcp.c:404, 700-711).
THEOREM RequestsInOnePlace == TcpDiscipline => (Spec => []OneAtATime)
<1> SUFFICES ASSUME TcpDiscipline PROVE Spec => []OneAtATime
  OBVIOUS
<1>1. TcpInv => OneAtATime
  BY ServerOnePlace, ServerKeepsAccepting DEF TcpInv, OneAtATime
<1> QED
  BY <1>1, TcpAlways, PTL

\* No step begins a read callback after uv_read_stop or uv_close, nor announces
\* a connection after uv_close (tcp.c:1008, 1138).
THEOREM SilentOnceStopped == TcpDiscipline => (Spec => Silent)
<1> SUFFICES ASSUME TcpDiscipline PROVE Spec => Silent
  OBVIOUS
<1>1. TcpInv /\ [Next]_vars =>
        [/\ side = "stream" => Stream!SilentAfterStop
         /\ side = "server" => Server!SilentAfterClose]_vars
  <2> SUFFICES ASSUME TcpInv, Next
               PROVE  /\ side = "stream" => Stream!SilentAfterStop
                      /\ side = "server" => Server!SilentAfterClose
    OBVIOUS
  <2>1. CASE OnStream /\ Stream!Next
    BY <2>1, StreamSilent DEF OnStream, TcpInv, Stream!SilentAfterStop
  <2>2. CASE OnServer /\ Server!Next
    BY <2>2, ServerSilent DEF OnServer, TcpInv, Server!SilentAfterClose
  <2> QED
    BY <2>1, <2>2, Zenon DEF Next
<1> QED
  BY <1>1, TcpAlways, PTL DEF Spec, Silent
=============================================================================
