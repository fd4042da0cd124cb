-------------------------- MODULE ThreadPoolProofs --------------------------
(***************************************************************************)
(* Proofs about ThreadPool for any number of loops, requests and workers.  *)
(*                                                                         *)
(* IInv types the variables, PlaceInv says in which queue or with which    *)
(* thread each request is, LockInv who owns a loop's wq_mutex; together    *)
(* they are the inductive PoolInv, from which the theorems at the end and  *)
(* the refinement of WorkPool follow.                                      *)
(***************************************************************************)
EXTENDS ThreadPool, FiniteSetTheorems, SequenceTheorems, TLAPS

\* The workers that idle_threads counts: they gave up the mutex inside
\* uv_cond_wait and have not got it back.
Idle == {t \in Workers : wpc[t] \in {"wait", "wake"}}

IdleCount == idle_threads = Cardinality(Idle)

\* A worker past the queue holds a request.
Holds == {"work", "done_lock", "done", "async_post"}

CurOK == \A t \in Workers : wpc[t] \in Holds => cur[t] \in Reqs

\* A loop thread inside a call works on a request of its own loop.
InCall == {"post_lock", "post", "cancel_lock", "cancel_wq_lock", "cancel",
           "cancelled", "insert_lock", "insert", "async_post"}

ArgOK ==
  \A l \in Loops : lpc[l] \in InCall => arg[l] \in Reqs /\ LoopOf[arg[l]] = l

\* No thread exists before init_once.
InitOK == main = "running" /\ ~initialized => \A t \in Workers : wpc[t] = "none"

IInv == TypeOK /\ CurOK /\ ArgOK /\ InitOK /\ IdleCount

-----------------------------------------------------------------------------
(* Where a request is.                                                     *)

\* A request its loop's thread is about to put into a queue: post has not run
\* yet, or uv__work_cancel has unlinked it and not reinserted it yet.
Moving(r) ==
  /\ arg[LoopOf[r]] = r
  /\ lpc[LoopOf[r]] \in {"post_lock", "post", "cancelled", "insert_lock", "insert"}

\* A queued request is active, linked and not run yet.
QueueOK ==
  /\ IsInjective(wq)
  /\ exit_message \in Range(wq) => main \in {"join", "exited"}
  /\ \A r \in Reqs : r \in Range(wq) =>
       /\ r \in active_reqs /\ work[r] = "uv__queue_work" /\ linked[r]
       /\ ~Moving(r)

\* A worker has the request to itself, unlinked, until it hands it over.
Handling == {"work", "done_lock", "done"}

HeldOK ==
  /\ \A t \in Workers : wpc[t] \in Handling =>
       /\ cur[t] \in active_reqs /\ work[cur[t]] = "uv__queue_work"
       /\ ~linked[cur[t]] /\ ~Moving(cur[t])
  /\ \A t, u \in Workers :
       wpc[t] \in Handling /\ wpc[u] \in Handling /\ cur[t] = cur[u] => t = u

\* Finished and cancelled requests wait in a queue of their own loop.
OverAt(l, r) ==
  /\ LoopOf[r] = l
  /\ r \in active_reqs /\ work[r] # "uv__queue_work" /\ linked[r]
  /\ ~Moving(r)

OverOK ==
  \A l \in Loops :
    /\ IsInjective(loop_wq[l]) /\ IsInjective(local[l])
    /\ Range(loop_wq[l]) \cap Range(local[l]) = {}
    /\ \A r \in Range(loop_wq[l]) \cup Range(local[l]) : OverAt(l, r)

\* What a call knows of its request, step by step.
CallOK ==
  \A l \in Loops :
    /\ lpc[l] \in InCall => arg[l] \in active_reqs
    /\ lpc[l] \in {"post_lock", "post"} => work[arg[l]] = "uv__queue_work"
    /\ lpc[l] = "cancelled" => work[arg[l]] # "NULL" /\ linked[arg[l]]
    /\ lpc[l] \in {"insert_lock", "insert"} =>
         work[arg[l]] = "uv__cancelled" /\ linked[arg[l]]

\* The local queue is empty outside uv__work_done's while loop.
DrainOK ==
  \A l \in Loops :
    /\ ~draining[l] => local[l] = <<>>
    /\ lpc[l] \in {"done_lock", "done_move", "closed"} => ~draining[l]

PlaceInv == QueueOK /\ HeldOK /\ OverOK /\ CallOK /\ DrainOK

-----------------------------------------------------------------------------
(* The loop's wq_mutex, and the wake-ups sent under it.                    *)

\* Who is between uv_mutex_lock(&loop->wq_mutex) and the unlock owns it.
WqOwner ==
  /\ \A l \in Loops : lpc[l] \in {"cancel", "insert", "async_post", "done_move"} =>
       wq_mutex[l] = l
  /\ \A t \in Workers : wpc[t] \in {"done", "async_post"} =>
       wq_mutex[LoopOf[cur[t]]] = t

\* Only a worker past the queue has a request; it drops it when it is done.
CurNone == \A t \in Workers : wpc[t] \notin Holds => cur[t] = NoReq

\* A closed loop has no request, nor a wake-up a worker still has to post.
ClosedOK ==
  \A l \in Loops : lpc[l] = "closed" =>
    /\ \A r \in active_reqs : LoopOf[r] # l
    /\ \A t \in Workers : wpc[t] = "async_post" => LoopOf[cur[t]] # l

LockInv == WqOwner /\ CurNone /\ ClosedOK

PoolInv == IInv /\ PlaceInv /\ LockInv

-----------------------------------------------------------------------------
(* Operators.                                                              *)

\* The workers are finitely many.
LEMMA WorkersFinite == IsFiniteSet(Workers) /\ Workers \subseteq Nat
  BY ConstantsAssumption, FS_Interval DEF Workers

\* init_once never creates more threads than the array of handles holds.
LEMMA PoolSizeBound == \A n \in PoolSizes : n \in 1..MAX_THREADPOOL_SIZE
  BY ConstantsAssumption DEF PoolSizes, EnvSize

\* QUEUE_INSERT_TAIL adds the node, once.
LEMMA AppendQueue ==
  ASSUME NEW S, NEW q \in Seq(S), NEW x \in S
  PROVE  /\ Append(q, x) \in Seq(S)
         /\ Len(Append(q, x)) = Len(q) + 1
         /\ Range(Append(q, x)) = Range(q) \cup {x}
         /\ IsInjective(q) /\ x \notin Range(q) => IsInjective(Append(q, x))
<1>1. /\ Append(q, x) \in Seq(S)
      /\ Len(Append(q, x)) = Len(q) + 1
      /\ \A i \in 1..Len(q) : Append(q, x)[i] = q[i]
      /\ Append(q, x)[Len(q) + 1] = x
  BY AppendProperties
<1>2. /\ Len(q) \in Nat /\ DOMAIN q = 1..Len(q)
      /\ DOMAIN Append(q, x) = 1..(Len(q) + 1)
  BY <1>1, LenProperties
<1>3. Range(Append(q, x)) = Range(q) \cup {x}
  BY <1>1, <1>2 DEF Range
<1>4. ASSUME IsInjective(q), x \notin Range(q) PROVE IsInjective(Append(q, x))
  BY <1>1, <1>2, <1>4 DEF Range, IsInjective
<1> QED
  BY <1>1, <1>3, <1>4

\* Taking the first node off a queue.
LEMMA TailQueue ==
  ASSUME NEW S, NEW q \in Seq(S), q # <<>>, IsInjective(q)
  PROVE  /\ Head(q) \in Range(q)
         /\ Tail(q) \in Seq(S)
         /\ IsInjective(Tail(q))
         /\ Range(Tail(q)) = Range(q) \ {Head(q)}
<1>1. /\ Tail(q) \in Seq(S)
      /\ Len(Tail(q)) = Len(q) - 1
      /\ \A i \in 1..Len(Tail(q)) : Tail(q)[i] = q[i + 1]
  BY HeadTailProperties
<1>2. /\ Len(q) \in Nat \ {0} /\ DOMAIN q = 1..Len(q)
      /\ DOMAIN Tail(q) = 1..(Len(q) - 1)
      /\ Head(q) = q[1]
  BY <1>1, LenProperties, EmptySeq
<1>3. Head(q) \in Range(q)
  BY <1>2 DEF Range
<1>4. \A i \in 1..(Len(q) - 1) : Tail(q)[i] = q[i + 1] /\ i + 1 \in 1..Len(q)
  BY <1>1, <1>2
<1>5. IsInjective(Tail(q))
  BY <1>2, <1>4 DEF IsInjective
<1>6. Range(Tail(q)) \subseteq Range(q) \ {Head(q)}
  BY <1>2, <1>4 DEF IsInjective, Range
<1>7. ASSUME NEW x \in Range(q), x # Head(q) PROVE x \in Range(Tail(q))
  <2>1. PICK i \in 1..Len(q) : q[i] = x
    BY <1>2 DEF Range
  <2>2. i - 1 \in 1..(Len(q) - 1) /\ Tail(q)[i - 1] = x
    BY <1>2, <1>4, <1>7, <2>1
  <2> QED
    BY <1>2, <2>2 DEF Range
<1> QED
  BY <1>1, <1>3, <1>5, <1>6, <1>7

\* The part of a queue before its i-th node, and the part after it.
LEMMA CutQueue ==
  ASSUME NEW S, NEW q \in Seq(S), NEW i \in 1..Len(q)
  PROVE  /\ SubSeq(q, 1, i - 1) \in Seq(S)
         /\ Len(SubSeq(q, 1, i - 1)) = i - 1
         /\ \A k \in 1..(i - 1) : SubSeq(q, 1, i - 1)[k] = q[k]
         /\ SubSeq(q, i + 1, Len(q)) \in Seq(S)
         /\ Len(SubSeq(q, i + 1, Len(q))) = Len(q) - i
         /\ \A k \in 1..(Len(q) - i) : SubSeq(q, i + 1, Len(q))[k] = q[i + k]
<1>0. /\ Len(q) \in Nat /\ i \in Nat /\ 1 <= i /\ i <= Len(q)
      /\ \A k \in 1..Len(q) : q[k] \in S
  BY LenProperties, ElementOfSeq
<1>1. \A k \in 1..(i - 1) : q[k] \in S
  BY <1>0
<1>2. \A k \in (i + 1)..Len(q) : q[k] \in S
  BY <1>0
<1>3. PICK a : a = SubSeq(q, 1, i - 1)
  OBVIOUS
<1>4. PICK b : b = SubSeq(q, i + 1, Len(q))
  OBVIOUS
<1>5. /\ a \in Seq(S)
      /\ Len(a) = IF 1 <= i - 1 THEN (i - 1) - 1 + 1 ELSE 0
      /\ \A k \in 1..((i - 1) - 1 + 1) : a[k] = q[1 + k - 1]
  BY <1>0, <1>1, <1>3, SubSeqProperties
<1>6. /\ b \in Seq(S)
      /\ Len(b) = IF i + 1 <= Len(q) THEN Len(q) - (i + 1) + 1 ELSE 0
      /\ \A k \in 1..(Len(q) - (i + 1) + 1) : b[k] = q[(i + 1) + k - 1]
  BY <1>0, <1>2, <1>4, SubSeqProperties
<1>7. Len(a) = i - 1 /\ \A k \in 1..(i - 1) : a[k] = q[k]
  BY <1>0, <1>5
<1>8. Len(b) = Len(q) - i /\ \A k \in 1..(Len(q) - i) : b[k] = q[i + k]
  <2>1. ASSUME NEW k \in 1..(Len(q) - i) PROVE b[k] = q[i + k]
    <3>1. k \in 1..(Len(q) - (i + 1) + 1) /\ (i + 1) + k - 1 = i + k
      BY <1>0
    <3> QED
      BY <1>6, <3>1
  <2> QED
    BY <1>0, <1>6, <2>1
<1> QED
  BY <1>3, <1>4, <1>5, <1>6, <1>7, <1>8, Zenon

\* w is q without its i-th node.
CutFrom(w, q, i) ==
  /\ Len(w) = Len(q) - 1
  /\ \A k \in 1..(Len(q) - 1) : w[k] = IF k < i THEN q[k] ELSE q[k + 1]

\* The two parts put together again.
LEMMA JoinQueue ==
  ASSUME NEW S, NEW q \in Seq(S), NEW i \in 1..Len(q)
  PROVE  \E w : /\ w = SubSeq(q, 1, i - 1) \o SubSeq(q, i + 1, Len(q))
               /\ w \in Seq(S) /\ CutFrom(w, q, i)
<1>0. Len(q) \in Nat /\ i \in Nat /\ 1 <= i /\ i <= Len(q)
  BY LenProperties
<1>1. PICK a, b, w : a = SubSeq(q, 1, i - 1) /\ b = SubSeq(q, i + 1, Len(q)) /\ w = a \o b
  BY Zenon
<1>a. a \in Seq(S) /\ Len(a) = i - 1 /\ \A k \in 1..(i - 1) : a[k] = q[k]
  BY <1>1, CutQueue, Zenon
<1>b. b \in Seq(S) /\ Len(b) = Len(q) - i /\ \A k \in 1..(Len(q) - i) : b[k] = q[i + k]
  BY <1>1, CutQueue, Zenon
<1>c. w = a \o b
  BY <1>1, Zenon
<1>2. /\ w \in Seq(S) /\ Len(w) = Len(a) + Len(b)
      /\ \A k \in 1..(Len(a) + Len(b)) :
           w[k] = IF k <= Len(a) THEN a[k] ELSE b[k - Len(a)]
  BY <1>a, <1>b, <1>c, ConcatProperties, Zenon
<1>3. ASSUME NEW k \in 1..(Len(q) - 1) PROVE w[k] = IF k < i THEN q[k] ELSE q[k + 1]
  <2>0. k \in 1..(Len(a) + Len(b))
    BY <1>0, <1>a, <1>b
  <2>1. CASE k < i
    BY <1>0, <1>a, <1>2, <2>0, <2>1
  <2>2. CASE ~(k < i)
    <3>1. /\ k - (i - 1) \in 1..(Len(q) - i) /\ i + (k - (i - 1)) = k + 1
          /\ ~(k <= Len(a)) /\ k - Len(a) = k - (i - 1)
      BY <1>0, <1>a, <2>2
    <3>2. w[k] = b[k - (i - 1)]
      BY <1>2, <2>0, <3>1
    <3>3. b[k - (i - 1)] = q[k + 1]
      BY <1>b, <3>1
    <3> QED
      BY <2>2, <3>2, <3>3
  <2> QED
    BY <2>1, <2>2
<1>4. Len(w) = Len(q) - 1
  BY <1>0, <1>a, <1>b, <1>2
<1>5. w \in Seq(S) /\ CutFrom(w, q, i)
  BY <1>2, <1>3, <1>4 DEF CutFrom
<1> QED
  BY <1>1, <1>5, Zenon

\* What is left of a queue without its i-th node.
LEMMA CutContents ==
  ASSUME NEW S, NEW q \in Seq(S), NEW i \in 1..Len(q), IsInjective(q),
         NEW w \in Seq(S), CutFrom(w, q, i)
  PROVE  IsInjective(w) /\ Range(w) = Range(q) \ {q[i]}
<1>0. /\ Len(q) \in Nat /\ i \in Nat /\ 1 <= i /\ i <= Len(q)
      /\ DOMAIN q = 1..Len(q) /\ DOMAIN w = 1..(Len(q) - 1)
  BY LenProperties DEF CutFrom
<1>1. \A j, k \in 1..Len(q) : q[j] = q[k] => j = k
  BY <1>0 DEF IsInjective
<1>2. \A k \in 1..(Len(q) - 1) :
        /\ k < i => k \in 1..Len(q) /\ k # i /\ w[k] = q[k]
        /\ ~(k < i) => k + 1 \in 1..Len(q) /\ k + 1 # i /\ w[k] = q[k + 1]
  BY <1>0 DEF CutFrom
<1>3. IsInjective(w)
  <2> SUFFICES ASSUME NEW j \in 1..(Len(q) - 1), NEW k \in 1..(Len(q) - 1), w[j] = w[k]
               PROVE  j = k
    BY <1>0 DEF IsInjective
  <2> QED
    BY <1>0, <1>1, <1>2
<1>4. ASSUME NEW k \in 1..(Len(q) - 1) PROVE w[k] \in Range(q) /\ w[k] # q[i]
  <2>1. PICK j \in 1..Len(q) : j # i /\ w[k] = q[j]
    BY <1>0, <1>2
  <2> QED
    BY <1>0, <1>1, <2>1 DEF Range
<1>5. ASSUME NEW j \in 1..Len(q), j # i PROVE \E k \in 1..(Len(q) - 1) : w[k] = q[j]
  <2>1. CASE j < i
    <3>1. j \in 1..(Len(q) - 1) /\ w[j] = q[j]
      BY <1>0, <1>2, <2>1
    <3> QED
      BY <3>1
  <2>2. CASE ~(j < i)
    <3>1. j - 1 \in 1..(Len(q) - 1) /\ ~(j - 1 < i) /\ (j - 1) + 1 = j
      BY <1>0, <1>5, <2>2
    <3>2. w[j - 1] = q[j]
      BY <1>2, <3>1
    <3> QED
      BY <3>1, <3>2
  <2> QED
    BY <2>1, <2>2
<1>6. Range(w) \subseteq Range(q) \ {q[i]}
  BY <1>0, <1>4 DEF Range
<1>7. ASSUME NEW x \in Range(q), x # q[i] PROVE x \in Range(w)
  <2>1. PICK j \in 1..Len(q) : q[j] = x
    BY <1>0 DEF Range
  <2>2. \E k \in 1..(Len(q) - 1) : w[k] = x
    BY <1>5, <1>7, <2>1
  <2> QED
    BY <1>0, <2>2 DEF Range
<1> QED
  BY <1>3, <1>6, <1>7

\* QUEUE_REMOVE takes out the one node it is about.
LEMMA WithoutQueue ==
  ASSUME NEW S, NEW q \in Seq(S), NEW r
  PROVE  /\ Without(q, r) \in Seq(S)
         /\ Len(Without(q, r)) <= Len(q)
         /\ IsInjective(q) => /\ IsInjective(Without(q, r))
                              /\ Range(Without(q, r)) = Range(q) \ {r}
<1>0. Len(q) \in Nat /\ DOMAIN q = 1..Len(q)
  BY LenProperties
<1>1. CASE r \notin Range(q)
  BY <1>0, <1>1 DEF Without
<1>2. CASE r \in Range(q)
  <2>1. PICK i \in 1..Len(q) :
          q[i] = r /\ Without(q, r) = SubSeq(q, 1, i - 1) \o SubSeq(q, i + 1, Len(q))
    <3>1. \E k \in 1..Len(q) : q[k] = r
      BY <1>0, <1>2 DEF Range
    <3> QED
      BY <1>2, <3>1 DEF Without
  <2>2. PICK w : /\ w = SubSeq(q, 1, i - 1) \o SubSeq(q, i + 1, Len(q))
                 /\ w \in Seq(S) /\ CutFrom(w, q, i)
    BY JoinQueue, Zenon
  <2>3. w = Without(q, r) /\ w \in Seq(S)
    BY <2>1, <2>2, Zenon
  <2>4. Len(w) <= Len(q)
    <3>1. Len(w) = Len(q) - 1
      BY <2>2, Zenon DEF CutFrom
    <3> QED
      BY <1>0, <3>1
  <2>5. IsInjective(q) => IsInjective(w) /\ Range(w) = Range(q) \ {r}
    BY <2>1, <2>2, CutContents, Zenon
  <2> QED
    BY <2>3, <2>4, <2>5, Zenon
<1> QED
  BY <1>1, <1>2

\* uv_cond_signal moves at most one worker, from waiting to woken.
LEMMA CondSignalMoves ==
  ASSUME NEW pc \in [Workers -> WorkerPcs], CondSignal(pc)
  PROVE  /\ wpc' \in [Workers -> WorkerPcs]
         /\ \A t \in Workers : wpc'[t] = pc[t] \/ (wpc[t] = "wait" /\ wpc'[t] = "wake")
  BY DEF CondSignal, Waiting, WorkerPcs

-----------------------------------------------------------------------------

\* The pool's initial state satisfies the invariant.
LEMMA InitIInv == Init => IInv
<1> SUFFICES ASSUME Init PROVE IInv
  OBVIOUS
<1> USE ConstantsAssumption DEF Init
<1>1. TypeOK
  <2>1. <<>> \in Seq(Items) /\ <<>> \in Seq(Reqs)
    OBVIOUS
  <2>2. loop_wq \in [Loops -> Seq(Reqs)] /\ local \in [Loops -> Seq(Reqs)]
    BY <2>1
  <2>3. wq \in Seq(Items)
    BY <2>1
  <2>4. /\ mutex \in Threads \cup {NoThread}
        /\ idle_threads \in Nat
        /\ initialized \in BOOLEAN
        /\ active_reqs \subseteq Reqs
        /\ spurious \in Nat
        /\ main \in MainPcs
    BY DEF MainPcs
  <2>7. nthreads \in 0..MAX_THREADPOOL_SIZE
    OBVIOUS
  <2>5. /\ wpc \in [Workers -> WorkerPcs]
        /\ cur \in [Workers -> Reqs \cup {NoReq}]
        /\ work \in [Reqs -> {"NULL", "uv__queue_work", "uv__cancelled"}]
        /\ linked \in [Reqs -> BOOLEAN]
        /\ wq_mutex \in [Loops -> Threads \cup {NoThread}]
    BY DEF WorkerPcs
  <2>6. /\ async_sent \in [Loops -> BOOLEAN]
        /\ iocp \in [Loops -> Nat]
        /\ pending \in [Loops -> BOOLEAN]
        /\ lpc \in [Loops -> LoopPcs]
        /\ arg \in [Loops -> Reqs \cup {NoReq}]
        /\ draining \in [Loops -> BOOLEAN]
        /\ result \in [Reqs -> {"none", "0", "UV_ECANCELED"}]
        /\ calls \in [Reqs -> Nat]
    BY DEF LoopPcs
  <2> QED
    BY <2>2, <2>3, <2>4, <2>5, <2>6, <2>7 DEF TypeOK
<1>2. CurOK /\ ArgOK /\ InitOK
  BY DEF CurOK, ArgOK, InitOK, Holds, InCall
<1>3. IdleCount
  <2>1. Idle = {}
    BY DEF Idle
  <2> QED
    BY <2>1, FS_EmptySet DEF IdleCount
<1> QED
  BY <1>1, <1>2, <1>3 DEF IInv
-----------------------------------------------------------------------------
(* Steps.                                                                  *)

\* Threads that do not touch the condition variable leave idle_threads right.
LEMMA IdleUnchanged ==
  ASSUME IInv, idle_threads' = idle_threads, wpc' \in [Workers -> WorkerPcs],
         \A t \in Workers : wpc'[t] \in {"wait", "wake"} <=> wpc[t] \in {"wait", "wake"}
  PROVE  IdleCount'
<1>1. Idle' = Idle
  BY DEF Idle
<1> QED
  BY <1>1 DEF IInv, IdleCount

\* post() appends a node and wakes at most one worker.
LEMMA PostBodyEffect ==
  ASSUME IInv, NEW q \in Items, PostBody(q)
  PROVE  /\ wq' \in Seq(Items)
         /\ mutex' = NoThread
         /\ wpc' \in [Workers -> WorkerPcs]
         /\ \A t \in Workers : wpc'[t] = wpc[t] \/ (wpc[t] = "wait" /\ wpc'[t] = "wake")
<1>1. wq' \in Seq(Items) /\ mutex' = NoThread
  BY DEF IInv, TypeOK, PostBody
<1>2. wpc \in [Workers -> WorkerPcs]
  BY DEF IInv, TypeOK
<1> QED
  BY <1>1, <1>2, CondSignalMoves DEF PostBody

\* A loop thread's own steps keep the invariant.
LEMMA LoopStepIInv == ASSUME IInv, NEW l \in Loops, LoopStep(l) PROVE IInv'
<1> USE ConstantsAssumption
    DEF IInv, TypeOK, CurOK, ArgOK, InitOK, Holds, InCall, Threads, Items,
        WorkerPcs, LoopPcs, MainPcs, LoopAt, Between, LoopGoto, Return,
        Continue, WorkerGoto, poolVars, initVars, reqVars, loopVars, callVars
<1>1. CASE PostLock(l)
  <2>0. /\ mutex' \in Threads \cup {NoThread}
        /\ lpc' \in [Loops -> LoopPcs]
    BY <1>1 DEF PostLock
  <2>1. TypeOK'
    BY <1>1, <2>0 DEF PostLock
  <2>2. CurOK' /\ ArgOK' /\ InitOK'
    BY <1>1 DEF PostLock
  <2>3. IdleCount'
    BY <1>1, IdleUnchanged DEF PostLock
  <2> QED
    BY <2>1, <2>2, <2>3
<1>2. CASE post(l)
  <2>1. PostBody(arg[l]) /\ arg[l] \in Reqs
    BY <1>2 DEF post
  <2>2. /\ wq' \in Seq(Items)
        /\ mutex' = NoThread
        /\ wpc' \in [Workers -> WorkerPcs]
        /\ \A t \in Workers : wpc'[t] = wpc[t] \/ (wpc[t] = "wait" /\ wpc'[t] = "wake")
    BY <2>1, PostBodyEffect
  <2>3. TypeOK'
    BY <1>2, <2>2 DEF post
  <2>4. CurOK' /\ ArgOK' /\ InitOK'
    BY <1>2, <2>2 DEF post
  <2>5. IdleCount'
    BY <1>2, <2>2, IdleUnchanged DEF post
  <2> QED
    BY <2>3, <2>4, <2>5
<1>3. CASE CancelLock(l)
  <2>0. /\ mutex' \in Threads \cup {NoThread}
        /\ lpc' \in [Loops -> LoopPcs]
    BY <1>3 DEF CancelLock
  <2>1. TypeOK'
    BY <1>3, <2>0 DEF CancelLock
  <2>2. CurOK' /\ ArgOK' /\ InitOK'
    BY <1>3 DEF CancelLock
  <2>3. IdleCount'
    BY <1>3, IdleUnchanged DEF CancelLock
  <2> QED
    BY <2>1, <2>2, <2>3
<1>4. CASE CancelWqLock(l)
  <2>0. /\ wq_mutex' \in [Loops -> Threads \cup {NoThread}]
        /\ lpc' \in [Loops -> LoopPcs]
    BY <1>4 DEF CancelWqLock
  <2>1. TypeOK'
    BY <1>4, <2>0 DEF CancelWqLock
  <2>2. CurOK' /\ ArgOK' /\ InitOK'
    BY <1>4 DEF CancelWqLock
  <2>3. IdleCount'
    BY <1>4, IdleUnchanged DEF CancelWqLock
  <2> QED
    BY <2>1, <2>2, <2>3
<1>5. CASE uv__work_cancel(l)
  <2>1. /\ Without(wq, arg[l]) \in Seq(Items)
        /\ Without(loop_wq[l], arg[l]) \in Seq(Reqs)
        /\ Without(local[l], arg[l]) \in Seq(Reqs)
    BY WithoutQueue
  <2>2. TypeOK'
    <3>1. CASE /\ wq' = Without(wq, arg[l])
               /\ loop_wq' = [loop_wq EXCEPT ![l] = Without(@, arg[l])]
               /\ local' = [local EXCEPT ![l] = Without(@, arg[l])]
               /\ lpc' = [lpc EXCEPT ![l] = "cancelled"] /\ arg' = arg
      BY <1>5, <2>1, <3>1 DEF uv__work_cancel
    <3>2. CASE /\ wq' = wq /\ loop_wq' = loop_wq /\ local' = local
               /\ lpc' = [lpc EXCEPT ![l] = "user"]
               /\ arg' = [arg EXCEPT ![l] = NoReq]
      BY <1>5, <3>2 DEF uv__work_cancel
    <3> QED
      BY <1>5, <3>1, <3>2, Zenon DEF uv__work_cancel
  <2>3. CurOK' /\ ArgOK' /\ InitOK'
    BY <1>5 DEF uv__work_cancel
  <2>4. IdleCount'
    BY <1>5, IdleUnchanged DEF uv__work_cancel
  <2> QED
    BY <2>2, <2>3, <2>4
<1>6. CASE MarkCancelled(l)
  <2>0. /\ work' \in [Reqs -> {"NULL", "uv__queue_work", "uv__cancelled"}]
        /\ lpc' \in [Loops -> LoopPcs]
    BY <1>6 DEF MarkCancelled
  <2>1. TypeOK'
    BY <1>6, <2>0 DEF MarkCancelled
  <2>2. CurOK' /\ ArgOK' /\ InitOK'
    BY <1>6 DEF MarkCancelled
  <2>3. IdleCount'
    BY <1>6, IdleUnchanged DEF MarkCancelled
  <2> QED
    BY <2>1, <2>2, <2>3
<1>7. CASE InsertLock(l)
  <2>0. /\ wq_mutex' \in [Loops -> Threads \cup {NoThread}]
        /\ lpc' \in [Loops -> LoopPcs]
    BY <1>7 DEF InsertLock
  <2>1. TypeOK'
    BY <1>7, <2>0 DEF InsertLock
  <2>2. CurOK' /\ ArgOK' /\ InitOK'
    BY <1>7 DEF InsertLock
  <2>3. IdleCount'
    BY <1>7, IdleUnchanged DEF InsertLock
  <2> QED
    BY <2>1, <2>2, <2>3
<1>8. CASE InsertCancelled(l)
  <2>0. \/ /\ wq_mutex' = [wq_mutex EXCEPT ![l] = NoThread]
           /\ lpc' = [lpc EXCEPT ![l] = "user"]
           /\ arg' = [arg EXCEPT ![l] = NoReq]
        \/ /\ lpc' = [lpc EXCEPT ![l] = "async_post"]
           /\ arg' = arg /\ wq_mutex' = wq_mutex
    BY <1>8, Zenon DEF InsertCancelled
  <2>1. arg[l] \in Reqs /\ Append(loop_wq[l], arg[l]) \in Seq(Reqs)
    BY <1>8 DEF InsertCancelled
  <2>2. TypeOK'
    <3>1. /\ loop_wq' \in [Loops -> Seq(Reqs)]
          /\ linked' \in [Reqs -> BOOLEAN]
          /\ async_sent' \in [Loops -> BOOLEAN]
      BY <1>8, <2>1 DEF InsertCancelled, AsyncExchange
    <3>2. /\ wq_mutex' \in [Loops -> Threads \cup {NoThread}]
          /\ lpc' \in [Loops -> LoopPcs]
          /\ arg' \in [Loops -> Reqs \cup {NoReq}]
      <4>1. CASE wq_mutex' = wq_mutex /\ arg' = arg /\ lpc' = [lpc EXCEPT ![l] = "async_post"]
        BY <4>1
      <4>2. CASE /\ wq_mutex' = [wq_mutex EXCEPT ![l] = NoThread]
                 /\ lpc' = [lpc EXCEPT ![l] = "user"]
                 /\ arg' = [arg EXCEPT ![l] = NoReq]
        BY <4>2
      <4> QED
        BY <2>0, <4>1, <4>2, Zenon
    <3> QED
      BY <1>8, <3>1, <3>2 DEF InsertCancelled
  <2>3. CurOK' /\ InitOK'
    BY <1>8 DEF InsertCancelled
  <2>4. ArgOK'
    BY <1>8, <2>0 DEF InsertCancelled
  <2>5. IdleCount'
    BY <1>8, IdleUnchanged DEF InsertCancelled
  <2> QED
    BY <2>2, <2>3, <2>4, <2>5
<1>9. CASE LoopAsyncPost(l)
  <2>0. /\ iocp' \in [Loops -> Nat]
        /\ wq_mutex' \in [Loops -> Threads \cup {NoThread}]
        /\ lpc' \in [Loops -> LoopPcs]
        /\ arg' \in [Loops -> Reqs \cup {NoReq}]
    BY <1>9 DEF LoopAsyncPost
  <2>1. TypeOK'
    BY <1>9, <2>0 DEF LoopAsyncPost
  <2>2. CurOK' /\ ArgOK' /\ InitOK'
    BY <1>9 DEF LoopAsyncPost
  <2>3. IdleCount'
    BY <1>9, IdleUnchanged DEF LoopAsyncPost
  <2> QED
    BY <2>1, <2>2, <2>3
<1>10. CASE uv_poll(l)
  <2>0. /\ iocp' \in [Loops -> Nat]
        /\ pending' \in [Loops -> BOOLEAN]
    BY <1>10 DEF uv_poll
  <2>1. TypeOK'
    BY <1>10, <2>0 DEF uv_poll
  <2>2. CurOK' /\ ArgOK' /\ InitOK'
    BY <1>10 DEF uv_poll
  <2>3. IdleCount'
    BY <1>10, IdleUnchanged DEF uv_poll
  <2> QED
    BY <2>1, <2>2, <2>3
<1>11. CASE uv_process_async_wakeup_req(l)
  <2>0. /\ pending' \in [Loops -> BOOLEAN]
        /\ async_sent' \in [Loops -> BOOLEAN]
        /\ lpc' \in [Loops -> LoopPcs]
    BY <1>11 DEF uv_process_async_wakeup_req, ClearSent
  <2>1. TypeOK'
    BY <1>11, <2>0 DEF uv_process_async_wakeup_req
  <2>2. CurOK' /\ ArgOK' /\ InitOK'
    BY <1>11 DEF uv_process_async_wakeup_req
  <2>3. IdleCount'
    BY <1>11, IdleUnchanged DEF uv_process_async_wakeup_req
  <2> QED
    BY <2>1, <2>2, <2>3
<1>12. CASE WorkDoneLock(l)
  <2>0. /\ wq_mutex' \in [Loops -> Threads \cup {NoThread}]
        /\ lpc' \in [Loops -> LoopPcs]
    BY <1>12 DEF WorkDoneLock
  <2>1. TypeOK'
    BY <1>12, <2>0 DEF WorkDoneLock
  <2>2. CurOK' /\ ArgOK' /\ InitOK'
    BY <1>12 DEF WorkDoneLock
  <2>3. IdleCount'
    BY <1>12, IdleUnchanged DEF WorkDoneLock
  <2> QED
    BY <2>1, <2>2, <2>3
<1>13. CASE WorkDoneMove(l)
  <2>0. /\ local' \in [Loops -> Seq(Reqs)]
        /\ loop_wq' \in [Loops -> Seq(Reqs)]
        /\ wq_mutex' \in [Loops -> Threads \cup {NoThread}]
        /\ draining' \in [Loops -> BOOLEAN]
        /\ lpc' \in [Loops -> LoopPcs]
    BY <1>13 DEF WorkDoneMove
  <2>1. TypeOK'
    BY <1>13, <2>0 DEF WorkDoneMove
  <2>2. CurOK' /\ ArgOK' /\ InitOK'
    BY <1>13 DEF WorkDoneMove
  <2>3. IdleCount'
    BY <1>13, IdleUnchanged DEF WorkDoneMove
  <2> QED
    BY <2>1, <2>2, <2>3
<1>14. CASE uv__queue_done(l)
  <2>1. local' \in [Loops -> Seq(Reqs)]
    BY <1>14 DEF uv__queue_done
  <2>2. result' \in [Reqs -> {"none", "0", "UV_ECANCELED"}]
    BY <1>14 DEF uv__queue_done, DoneStatus
  <2>3. TypeOK'
    BY <1>14, <2>1, <2>2 DEF uv__queue_done
  <2>4. CurOK' /\ ArgOK' /\ InitOK'
    BY <1>14 DEF uv__queue_done
  <2>5. IdleCount'
    BY <1>14, IdleUnchanged DEF uv__queue_done
  <2> QED
    BY <2>3, <2>4, <2>5
<1>15. CASE WorkDoneReturn(l)
  <2>0. draining' \in [Loops -> BOOLEAN]
    BY <1>15 DEF WorkDoneReturn
  <2>1. TypeOK'
    BY <1>15, <2>0 DEF WorkDoneReturn
  <2>2. CurOK' /\ ArgOK' /\ InitOK'
    BY <1>15 DEF WorkDoneReturn
  <2>3. IdleCount'
    BY <1>15, IdleUnchanged DEF WorkDoneReturn
  <2> QED
    BY <2>1, <2>2, <2>3
<1> QED
  BY <1>1, <1>2, <1>3, <1>4, <1>5, <1>6, <1>7, <1>8, <1>9, <1>10, <1>11, <1>12, <1>13, <1>14, <1>15 DEF LoopStep

\* Calls into the pool, and the close of a loop, keep the invariant.
LEMMA CallIInv == ASSUME IInv, NEW l \in Loops, Call(l) \/ uv_loop_close(l) PROVE IInv'
<1> USE ConstantsAssumption
    DEF IInv, TypeOK, CurOK, ArgOK, InitOK, Holds, InCall, Threads, Items,
        WorkerPcs, LoopPcs, MainPcs, LoopAt, Between, LoopGoto, Return,
        Continue, WorkerGoto, poolVars, initVars, reqVars, loopVars, callVars
<1>1. ASSUME NEW r \in Reqs, uv_queue_work(l, r) PROVE IInv'
  <2>1. CASE initialized
    <3>0. /\ calls' \in [Reqs -> Nat]
          /\ work' \in [Reqs -> {"NULL", "uv__queue_work", "uv__cancelled"}]
          /\ arg' \in [Loops -> Reqs \cup {NoReq}]
          /\ lpc' \in [Loops -> LoopPcs]
      BY <1>1 DEF uv_queue_work
    <3>4. nthreads' = nthreads /\ initialized' = initialized /\ wpc' = wpc
      BY <1>1, <2>1 DEF uv_queue_work
    <3>1. TypeOK'
      BY <1>1, <3>0, <3>4 DEF uv_queue_work
    <3>2. CurOK' /\ ArgOK' /\ InitOK'
      BY <1>1, <3>4 DEF uv_queue_work
    <3>3. IdleCount'
      BY <1>1, <3>4, IdleUnchanged DEF uv_queue_work
    <3> QED
      BY <3>1, <3>2, <3>3
  <2>2. CASE ~initialized
    <3>1. PICK n \in PoolSizes :
            /\ nthreads' = n
            /\ wpc' = [t \in Workers |-> IF t <= n THEN "lock" ELSE "none"]
            /\ initialized' = TRUE
      BY <1>1, <2>2 DEF uv_queue_work, init_once
    <3>2. nthreads' \in 0..MAX_THREADPOOL_SIZE
      BY <3>1, PoolSizeBound
    <3>3. wpc' \in [Workers -> WorkerPcs] /\ initialized' \in BOOLEAN
      BY <3>1
    <3>0. /\ calls' \in [Reqs -> Nat]
          /\ work' \in [Reqs -> {"NULL", "uv__queue_work", "uv__cancelled"}]
          /\ arg' \in [Loops -> Reqs \cup {NoReq}]
          /\ lpc' \in [Loops -> LoopPcs]
      BY <1>1 DEF uv_queue_work
    <3>4. TypeOK'
      BY <1>1, <3>0, <3>2, <3>3 DEF uv_queue_work
    <3>5. \A t \in Workers : wpc'[t] \in {"lock", "none"} /\ wpc[t] = "none"
      BY <1>1, <2>2, <3>1 DEF uv_queue_work
    <3>6. CurOK' /\ ArgOK' /\ InitOK'
      BY <1>1, <3>1, <3>5 DEF uv_queue_work
    <3>7. IdleCount'
      BY <1>1, <3>3, <3>5, IdleUnchanged DEF uv_queue_work
    <3> QED
      BY <3>4, <3>6, <3>7
  <2> QED
    BY <2>1, <2>2
<1>2. ASSUME NEW r \in Reqs, uv_cancel(l, r) PROVE IInv'
  <2>1. TypeOK'
    BY <1>2 DEF uv_cancel
  <2>2. CurOK' /\ ArgOK' /\ InitOK'
    BY <1>2 DEF uv_cancel
  <2>3. IdleCount'
    BY <1>2, IdleUnchanged DEF uv_cancel
  <2> QED
    BY <2>1, <2>2, <2>3
<1>3. CASE uv_loop_close(l)
  <2>0. lpc' \in [Loops -> LoopPcs]
    BY <1>3 DEF uv_loop_close
  <2>1. TypeOK'
    BY <1>3, <2>0 DEF uv_loop_close
  <2>2. CurOK' /\ ArgOK' /\ InitOK'
    BY <1>3 DEF uv_loop_close
  <2>3. IdleCount'
    BY <1>3, IdleUnchanged DEF uv_loop_close
  <2> QED
    BY <2>1, <2>2, <2>3
<1> QED
  BY <1>1, <1>2, <1>3 DEF Call

\* A worker's steps keep the invariant.
LEMMA WorkerIInv == ASSUME IInv, NEW t \in Workers, worker(t) \/ SpuriousWake(t) PROVE IInv'
<1> USE ConstantsAssumption
    DEF IInv, TypeOK, CurOK, ArgOK, InitOK, Holds, InCall, Threads, Items,
        WorkerPcs, LoopPcs, MainPcs, LoopAt, Between, LoopGoto, Return,
        Continue, WorkerGoto, poolVars, initVars, reqVars, loopVars, callVars
<1>1. CASE WorkerLock(t)
  <2>0. /\ mutex' \in Threads \cup {NoThread}
        /\ wpc' \in [Workers -> WorkerPcs]
    BY <1>1 DEF WorkerLock
  <2>1. TypeOK'
    BY <1>1, <2>0 DEF WorkerLock
  <2>2. CurOK' /\ ArgOK' /\ InitOK'
    BY <1>1 DEF WorkerLock
  <2>3. IdleCount'
    BY <1>1, IdleUnchanged DEF WorkerLock
  <2> QED
    BY <2>1, <2>2, <2>3
<1>2. CASE WorkerWait(t)
  <2>1. TypeOK'
    BY <1>2 DEF WorkerWait
  <2>2. CurOK' /\ ArgOK' /\ InitOK'
    BY <1>2 DEF WorkerWait
  <2>3. t \notin Idle /\ Idle' = Idle \cup {t}
    BY <1>2 DEF WorkerWait, Idle
  <2>4. IsFiniteSet(Idle)
    BY WorkersFinite, FS_Subset DEF Idle
  <2>5. IdleCount'
    BY <1>2, <2>3, <2>4, FS_AddElement DEF WorkerWait, IdleCount
  <2> QED
    BY <2>1, <2>2, <2>5
<1>3. CASE WorkerWake(t)
  <2>1. t \in Idle /\ Idle' = Idle \ {t}
    BY <1>3 DEF WorkerWake, Idle
  <2>2. IsFiniteSet(Idle)
    BY WorkersFinite, FS_Subset DEF Idle
  <2>3. Cardinality(Idle) \in Nat /\ Cardinality(Idle') = Cardinality(Idle) - 1
    BY <2>1, <2>2, FS_RemoveElement, FS_CardinalityType
  <2>4. Cardinality(Idle') \in Nat
    BY <2>1, <2>2, FS_RemoveElement, FS_CardinalityType
  <2>5. IdleCount'
    BY <1>3, <2>3 DEF WorkerWake, IdleCount
  <2>6. TypeOK'
    BY <1>3, <2>4, <2>5 DEF WorkerWake, IdleCount
  <2>7. CurOK' /\ ArgOK' /\ InitOK'
    BY <1>3 DEF WorkerWake
  <2> QED
    BY <2>5, <2>6, <2>7
<1>4. CASE WorkerTake(t)
  <2>0. /\ wq' \in Seq(Items)
        /\ linked' \in [Reqs -> BOOLEAN]
        /\ cur' \in [Workers -> Reqs \cup {NoReq}]
        /\ mutex' \in Threads \cup {NoThread}
        /\ wpc' \in [Workers -> WorkerPcs]
    BY <1>4 DEF WorkerTake
  <2>1. TypeOK'
    BY <1>4, <2>0 DEF WorkerTake
  <2>2. CurOK' /\ ArgOK' /\ InitOK'
    BY <1>4 DEF WorkerTake
  <2>3. IdleCount'
    BY <1>4, IdleUnchanged DEF WorkerTake
  <2> QED
    BY <2>1, <2>2, <2>3
<1>5. CASE WorkerExit(t)
  <2>1. [wpc EXCEPT ![t] = "exited"] \in [Workers -> WorkerPcs]
    OBVIOUS
  <2>2. /\ wpc' \in [Workers -> WorkerPcs]
        /\ \A u \in Workers : wpc'[u] = (IF u = t THEN "exited" ELSE wpc[u])
                               \/ (wpc[u] = "wait" /\ wpc'[u] = "wake")
    <3>1. CondSignal([wpc EXCEPT ![t] = "exited"])
      BY <1>5 DEF WorkerExit
    <3> DEFINE pc == [wpc EXCEPT ![t] = "exited"]
    <3>2. pc \in [Workers -> WorkerPcs] /\ CondSignal(pc)
      BY <2>1, <3>1
    <3> HIDE DEF pc, WorkerPcs
    <3>3. /\ wpc' \in [Workers -> WorkerPcs]
          /\ \A u \in Workers : wpc'[u] = pc[u] \/ (wpc[u] = "wait" /\ wpc'[u] = "wake")
      BY <3>2, CondSignalMoves, Zenon
    <3>4. \A u \in Workers : pc[u] = IF u = t THEN "exited" ELSE wpc[u]
      BY DEF pc
    <3> QED
      BY <3>3, <3>4
  <2>3. TypeOK'
    BY <1>5, <2>2 DEF WorkerExit
  <2>6. \A u \in Workers : wpc'[u] \in Holds => wpc[u] \in Holds
    BY <2>2
  <2>4. CurOK' /\ ArgOK'
    BY <1>5, <2>6 DEF WorkerExit
  <2>7. InitOK'
    BY <1>5 DEF WorkerExit
  <2>5. IdleCount'
    BY <1>5, <2>2, IdleUnchanged DEF WorkerExit
  <2> QED
    BY <2>3, <2>4, <2>5, <2>7
<1>6. CASE WorkerWork(t)
  <2>0. wpc' \in [Workers -> WorkerPcs]
    BY <1>6 DEF WorkerWork
  <2>1. TypeOK'
    BY <1>6, <2>0 DEF WorkerWork
  <2>2. CurOK' /\ ArgOK' /\ InitOK'
    BY <1>6 DEF WorkerWork
  <2>3. IdleCount'
    BY <1>6, IdleUnchanged DEF WorkerWork
  <2> QED
    BY <2>1, <2>2, <2>3
<1>7. CASE WorkerDoneLock(t)
  <2>0. /\ wq_mutex' \in [Loops -> Threads \cup {NoThread}]
        /\ wpc' \in [Workers -> WorkerPcs]
    BY <1>7 DEF WorkerDoneLock
  <2>1. TypeOK'
    BY <1>7, <2>0 DEF WorkerDoneLock
  <2>2. CurOK' /\ ArgOK' /\ InitOK'
    BY <1>7 DEF WorkerDoneLock
  <2>3. IdleCount'
    BY <1>7, IdleUnchanged DEF WorkerDoneLock
  <2> QED
    BY <2>1, <2>2, <2>3
<1>8. CASE WorkerDone(t)
  <2>0. \/ /\ wq_mutex' = [wq_mutex EXCEPT ![LoopOf[cur[t]]] = NoThread]
           /\ cur' = [cur EXCEPT ![t] = NoReq]
           /\ wpc' = [wpc EXCEPT ![t] = "lock"]
        \/ /\ wpc' = [wpc EXCEPT ![t] = "async_post"]
           /\ cur' = cur /\ wq_mutex' = wq_mutex
    BY <1>8, Zenon DEF WorkerDone
  <2>1. cur[t] \in Reqs /\ LoopOf[cur[t]] \in Loops
    BY <1>8 DEF WorkerDone
  <2>2. Append(loop_wq[LoopOf[cur[t]]], cur[t]) \in Seq(Reqs)
    BY <2>1
  <2>3. /\ work' \in [Reqs -> {"NULL", "uv__queue_work", "uv__cancelled"}]
        /\ linked' \in [Reqs -> BOOLEAN]
        /\ loop_wq' \in [Loops -> Seq(Reqs)]
        /\ async_sent' \in [Loops -> BOOLEAN]
    BY <1>8, <2>1, <2>2 DEF WorkerDone, AsyncExchange
  <2>4. /\ wq_mutex' \in [Loops -> Threads \cup {NoThread}]
        /\ cur' \in [Workers -> Reqs \cup {NoReq}]
        /\ wpc' \in [Workers -> WorkerPcs]
        /\ CurOK'
    <3>1. CASE /\ wpc' = [wpc EXCEPT ![t] = "async_post"]
               /\ cur' = cur /\ wq_mutex' = wq_mutex
      BY <2>1, <3>1
    <3>2. CASE /\ wq_mutex' = [wq_mutex EXCEPT ![LoopOf[cur[t]]] = NoThread]
               /\ cur' = [cur EXCEPT ![t] = NoReq]
               /\ wpc' = [wpc EXCEPT ![t] = "lock"]
      BY <2>1, <3>2
    <3> QED
      BY <2>0, <3>1, <3>2, Zenon
  <2>5. TypeOK'
    BY <1>8, <2>3, <2>4 DEF WorkerDone
  <2>7. ArgOK' /\ InitOK'
    BY <1>8 DEF WorkerDone
  <2>8. IdleCount'
    BY <1>8, <2>4, IdleUnchanged DEF WorkerDone
  <2> QED
    BY <2>4, <2>5, <2>7, <2>8
<1>9. CASE WorkerAsyncPost(t)
  <2>1. cur[t] \in Reqs /\ LoopOf[cur[t]] \in Loops
    BY <1>9 DEF WorkerAsyncPost
  <2>5. /\ iocp' \in [Loops -> Nat]
        /\ wq_mutex' \in [Loops -> Threads \cup {NoThread}]
        /\ cur' \in [Workers -> Reqs \cup {NoReq}]
        /\ wpc' \in [Workers -> WorkerPcs]
    BY <1>9, <2>1 DEF WorkerAsyncPost
  <2>2. TypeOK'
    BY <1>9, <2>5 DEF WorkerAsyncPost
  <2>3. CurOK' /\ ArgOK' /\ InitOK'
    BY <1>9 DEF WorkerAsyncPost
  <2>4. IdleCount'
    BY <1>9, IdleUnchanged DEF WorkerAsyncPost
  <2> QED
    BY <2>2, <2>3, <2>4
<1>10. CASE SpuriousWake(t)
  <2>0. /\ spurious' \in Nat
        /\ wpc' \in [Workers -> WorkerPcs]
    BY <1>10 DEF SpuriousWake
  <2>1. TypeOK'
    BY <1>10, <2>0 DEF SpuriousWake
  <2>2. CurOK' /\ ArgOK' /\ InitOK'
    BY <1>10 DEF SpuriousWake
  <2>3. IdleCount'
    BY <1>10, IdleUnchanged DEF SpuriousWake
  <2> QED
    BY <2>1, <2>2, <2>3
<1> QED
  BY <1>1, <1>2, <1>3, <1>4, <1>5, <1>6, <1>7, <1>8, <1>9, <1>10 DEF worker

\* cleanup() keeps the invariant.
LEMMA CleanupIInv == ASSUME IInv, CleanupStart \/ cleanup PROVE IInv'
<1> USE ConstantsAssumption
    DEF IInv, TypeOK, CurOK, ArgOK, InitOK, Holds, InCall, Threads, Items,
        WorkerPcs, LoopPcs, MainPcs, LoopAt, Between, LoopGoto, Return,
        Continue, WorkerGoto, poolVars, initVars, reqVars, loopVars, callVars
<1>1. CASE CleanupStart
  <2>0. main' \in MainPcs
    BY <1>1 DEF CleanupStart
  <2>1. TypeOK'
    BY <1>1, <2>0 DEF CleanupStart
  <2>2. CurOK' /\ ArgOK' /\ InitOK'
    BY <1>1 DEF CleanupStart
  <2>3. IdleCount'
    BY <1>1, IdleUnchanged DEF CleanupStart
  <2> QED
    BY <2>1, <2>2, <2>3
<1>2. CASE CleanupLock
  <2>0. /\ mutex' \in Threads \cup {NoThread}
        /\ main' \in MainPcs
    BY <1>2 DEF CleanupLock
  <2>1. TypeOK'
    BY <1>2, <2>0 DEF CleanupLock
  <2>2. CurOK' /\ ArgOK' /\ InitOK'
    BY <1>2 DEF CleanupLock
  <2>3. IdleCount'
    BY <1>2, IdleUnchanged DEF CleanupLock
  <2> QED
    BY <2>1, <2>2, <2>3
<1>3. CASE CleanupPost
  <2>1. /\ wq' \in Seq(Items)
        /\ mutex' = NoThread
        /\ wpc' \in [Workers -> WorkerPcs]
        /\ \A t \in Workers : wpc'[t] = wpc[t] \/ (wpc[t] = "wait" /\ wpc'[t] = "wake")
    BY <1>3, PostBodyEffect DEF CleanupPost
  <2>2. TypeOK'
    BY <1>3, <2>1 DEF CleanupPost
  <2>3. CurOK' /\ ArgOK' /\ InitOK'
    BY <1>3, <2>1 DEF CleanupPost
  <2>4. IdleCount'
    BY <1>3, <2>1, IdleUnchanged DEF CleanupPost
  <2> QED
    BY <2>2, <2>3, <2>4
<1>4. CASE CleanupJoin
  <2>1. nthreads' \in 0..MAX_THREADPOOL_SIZE /\ initialized' \in BOOLEAN
    <3>1. nthreads' = 0 /\ initialized' = FALSE
      BY <1>4 DEF CleanupJoin
    <3>2. 0 \in 0..MAX_THREADPOOL_SIZE
      OBVIOUS
    <3> QED
      BY <3>1, <3>2
  <2>2. TypeOK'
    BY <1>4, <2>1 DEF CleanupJoin
  <2>3. CurOK' /\ ArgOK' /\ InitOK'
    BY <1>4 DEF CleanupJoin
  <2>4. IdleCount'
    BY <1>4, IdleUnchanged DEF CleanupJoin
  <2> QED
    BY <2>2, <2>3, <2>4
<1> QED
  BY <1>1, <1>2, <1>3, <1>4 DEF cleanup

\* Every step keeps the invariant.
LEMMA NextIInv == IInv /\ [Next]_vars => IInv'
<1> SUFFICES ASSUME IInv, [Next]_vars PROVE IInv'
  OBVIOUS
<1>1. CASE Next
  BY <1>1, LoopStepIInv, CallIInv, WorkerIInv, CleanupIInv DEF Next
<1>2. CASE UNCHANGED vars
  BY <1>2 DEF vars, poolVars, initVars, reqVars, loopVars, callVars, IInv,
              TypeOK, CurOK, ArgOK, InitOK, IdleCount, Idle
<1> QED
  BY <1>1, <1>2

-----------------------------------------------------------------------------
(* Where a request is: steps.                                              *)

\* At first no request is anywhere.
LEMMA InitPlace == Init => PlaceInv
<1> SUFFICES ASSUME Init PROVE PlaceInv
  OBVIOUS
<1>1. Range(<<>>) = {} /\ IsInjective(<<>>)
  BY DEF Range, IsInjective
<1>2. QueueOK /\ OverOK
  BY <1>1 DEF Init, QueueOK, OverOK
<1>3. HeldOK /\ CallOK /\ DrainOK
  BY DEF Init, HeldOK, CallOK, DrainOK, Handling, InCall
<1> QED
  BY <1>2, <1>3 DEF PlaceInv

\* A step that moves no request leaves every request where it was.
LEMMA PlaceFrame ==
  ASSUME IInv, PlaceInv,
         UNCHANGED <<wq, work, linked, active_reqs, loop_wq, local>>,
         main \in {"join", "exited"} => main' \in {"join", "exited"},
         \A t \in Workers : wpc'[t] \in Handling => wpc[t] \in Handling /\ cur'[t] = cur[t],
         \A r \in Reqs : Moving(r)' => Moving(r)
  PROVE  QueueOK' /\ HeldOK' /\ OverOK'
<1>1. QueueOK'
  BY DEF PlaceInv, QueueOK
<1>2. HeldOK'
  BY DEF IInv, CurOK, PlaceInv, HeldOK, Handling, Holds
<1>3. OverOK'
  <2>1. active_reqs \subseteq Reqs
    BY DEF IInv, TypeOK
  <2>2. \A k \in Loops, r \in Reqs : OverAt(k, r) => OverAt(k, r)'
    BY DEF OverAt
  <2>3. \A r : \A k \in Loops : OverAt(k, r) => r \in Reqs
    BY <2>1 DEF OverAt
  <2> QED
    BY <2>2, <2>3 DEF PlaceInv, OverOK
<1> QED
  BY <1>1, <1>2, <1>3

\* The steps of a loop's thread that touch no queue.
LEMMA LoopFramePlace ==
  ASSUME IInv, PlaceInv, NEW l \in Loops,
         \/ PostLock(l) \/ CancelLock(l) \/ CancelWqLock(l) \/ InsertLock(l)
         \/ LoopAsyncPost(l) \/ uv_poll(l) \/ uv_process_async_wakeup_req(l)
         \/ WorkDoneLock(l) \/ WorkDoneReturn(l) \/ uv_loop_close(l)
  PROVE  PlaceInv'
<1> USE DEF LoopAt, LoopGoto, Return, Continue, WorkerGoto, poolVars, initVars,
           reqVars, loopVars, callVars
<1>a. /\ lpc \in [Loops -> LoopPcs] /\ arg \in [Loops -> Reqs \cup {NoReq}]
      /\ LoopOf \in [Reqs -> Loops] /\ draining \in [Loops -> BOOLEAN]
      /\ wpc \in [Workers -> WorkerPcs] /\ cur \in [Workers -> Reqs \cup {NoReq}]
  BY ConstantsAssumption DEF IInv, TypeOK
<1>1. CASE PostLock(l)
  <2>1. QueueOK' /\ HeldOK' /\ OverOK'
    <3>1. \A r \in Reqs : Moving(r)' => Moving(r)
      BY <1>1, <1>a DEF PostLock, Moving
    <3> QED
      BY <1>1, <3>1, PlaceFrame DEF PostLock
  <2>2. CallOK'
    BY <1>1, <1>a DEF PostLock, PlaceInv, CallOK, InCall
  <2>3. DrainOK'
    BY <1>1, <1>a DEF PostLock, PlaceInv, DrainOK
  <2> QED
    BY <2>1, <2>2, <2>3 DEF PlaceInv
<1>2. CASE CancelLock(l)
  <2>1. QueueOK' /\ HeldOK' /\ OverOK'
    <3>1. \A r \in Reqs : Moving(r)' => Moving(r)
      BY <1>2, <1>a DEF CancelLock, Moving
    <3> QED
      BY <1>2, <3>1, PlaceFrame DEF CancelLock
  <2>2. CallOK'
    BY <1>2, <1>a DEF CancelLock, PlaceInv, CallOK, InCall
  <2>3. DrainOK'
    BY <1>2, <1>a DEF CancelLock, PlaceInv, DrainOK
  <2> QED
    BY <2>1, <2>2, <2>3 DEF PlaceInv
<1>3. CASE CancelWqLock(l)
  <2>1. QueueOK' /\ HeldOK' /\ OverOK'
    <3>1. \A r \in Reqs : Moving(r)' => Moving(r)
      BY <1>3, <1>a DEF CancelWqLock, Moving
    <3> QED
      BY <1>3, <3>1, PlaceFrame DEF CancelWqLock
  <2>2. CallOK'
    BY <1>3, <1>a DEF CancelWqLock, PlaceInv, CallOK, InCall
  <2>3. DrainOK'
    BY <1>3, <1>a DEF CancelWqLock, PlaceInv, DrainOK
  <2> QED
    BY <2>1, <2>2, <2>3 DEF PlaceInv
<1>4. CASE InsertLock(l)
  <2>1. QueueOK' /\ HeldOK' /\ OverOK'
    <3>1. \A r \in Reqs : Moving(r)' => Moving(r)
      BY <1>4, <1>a DEF InsertLock, Moving
    <3> QED
      BY <1>4, <3>1, PlaceFrame DEF InsertLock
  <2>2. CallOK'
    BY <1>4, <1>a DEF InsertLock, PlaceInv, CallOK, InCall
  <2>3. DrainOK'
    BY <1>4, <1>a DEF InsertLock, PlaceInv, DrainOK
  <2> QED
    BY <2>1, <2>2, <2>3 DEF PlaceInv
<1>5. CASE LoopAsyncPost(l)
  <2>1. QueueOK' /\ HeldOK' /\ OverOK'
    <3>1. \A r \in Reqs : Moving(r)' => Moving(r)
      BY <1>5, <1>a DEF LoopAsyncPost, Moving
    <3> QED
      BY <1>5, <3>1, PlaceFrame DEF LoopAsyncPost
  <2>2. CallOK'
    BY <1>5, <1>a DEF LoopAsyncPost, PlaceInv, CallOK, InCall
  <2>3. DrainOK'
    BY <1>5, <1>a DEF LoopAsyncPost, PlaceInv, DrainOK
  <2> QED
    BY <2>1, <2>2, <2>3 DEF PlaceInv
<1>6. CASE uv_poll(l)
  <2>1. QueueOK' /\ HeldOK' /\ OverOK'
    <3>1. \A r \in Reqs : Moving(r)' => Moving(r)
      BY <1>6, <1>a DEF uv_poll, Between, Moving
    <3> QED
      BY <1>6, <3>1, PlaceFrame DEF uv_poll, Between
  <2>2. CallOK'
    BY <1>6, <1>a DEF uv_poll, Between, PlaceInv, CallOK, InCall
  <2>3. DrainOK'
    BY <1>6, <1>a DEF uv_poll, Between, PlaceInv, DrainOK
  <2> QED
    BY <2>1, <2>2, <2>3 DEF PlaceInv
<1>7. CASE uv_process_async_wakeup_req(l)
  <2>1. QueueOK' /\ HeldOK' /\ OverOK'
    <3>1. \A r \in Reqs : Moving(r)' => Moving(r)
      BY <1>7, <1>a DEF uv_process_async_wakeup_req, Between, Moving
    <3> QED
      BY <1>7, <3>1, PlaceFrame DEF uv_process_async_wakeup_req, Between
  <2>2. CallOK'
    BY <1>7, <1>a DEF uv_process_async_wakeup_req, Between, PlaceInv, CallOK, InCall
  <2>3. DrainOK'
    BY <1>7, <1>a DEF uv_process_async_wakeup_req, Between, PlaceInv, DrainOK
  <2> QED
    BY <2>1, <2>2, <2>3 DEF PlaceInv
<1>8. CASE WorkDoneLock(l)
  <2>1. QueueOK' /\ HeldOK' /\ OverOK'
    <3>1. \A r \in Reqs : Moving(r)' => Moving(r)
      BY <1>8, <1>a DEF WorkDoneLock, Moving
    <3> QED
      BY <1>8, <3>1, PlaceFrame DEF WorkDoneLock
  <2>2. CallOK'
    BY <1>8, <1>a DEF WorkDoneLock, PlaceInv, CallOK, InCall
  <2>3. DrainOK'
    BY <1>8, <1>a DEF WorkDoneLock, PlaceInv, DrainOK
  <2> QED
    BY <2>1, <2>2, <2>3 DEF PlaceInv
<1>9. CASE WorkDoneReturn(l)
  <2>1. QueueOK' /\ HeldOK' /\ OverOK'
    <3>1. \A r \in Reqs : Moving(r)' => Moving(r)
      BY <1>9, <1>a DEF WorkDoneReturn, Moving
    <3> QED
      BY <1>9, <3>1, PlaceFrame DEF WorkDoneReturn
  <2>2. CallOK'
    BY <1>9, <1>a DEF WorkDoneReturn, PlaceInv, CallOK, InCall
  <2>3. DrainOK'
    BY <1>9, <1>a DEF WorkDoneReturn, PlaceInv, DrainOK
  <2> QED
    BY <2>1, <2>2, <2>3 DEF PlaceInv
<1>10. CASE uv_loop_close(l)
  <2>1. QueueOK' /\ HeldOK' /\ OverOK'
    <3>1. \A r \in Reqs : Moving(r)' => Moving(r)
      BY <1>10, <1>a DEF uv_loop_close, Between, Moving
    <3> QED
      BY <1>10, <3>1, PlaceFrame DEF uv_loop_close, Between
  <2>2. CallOK'
    BY <1>10, <1>a DEF uv_loop_close, Between, PlaceInv, CallOK, InCall
  <2>3. DrainOK'
    BY <1>10, <1>a DEF uv_loop_close, Between, PlaceInv, DrainOK
  <2> QED
    BY <2>1, <2>2, <2>3 DEF PlaceInv
<1> QED
  BY <1>1, <1>2, <1>3, <1>4, <1>5, <1>6, <1>7, <1>8, <1>9, <1>10

\* uv_cancel begins; it is legal for an active request only.
LEMMA CancelPlace ==
  ASSUME IInv, PlaceInv, NEW l \in Loops, NEW r \in Reqs, uv_cancel(l, r)
  PROVE  PlaceInv'
<1> USE DEF LoopAt, LoopGoto, Return, Continue, WorkerGoto, poolVars, initVars,
           reqVars, loopVars, callVars
<1>a. /\ lpc \in [Loops -> LoopPcs] /\ arg \in [Loops -> Reqs \cup {NoReq}]
      /\ LoopOf \in [Reqs -> Loops] /\ draining \in [Loops -> BOOLEAN]
      /\ wpc \in [Workers -> WorkerPcs] /\ cur \in [Workers -> Reqs \cup {NoReq}]
  BY ConstantsAssumption DEF IInv, TypeOK
<1>1. QueueOK' /\ HeldOK' /\ OverOK'
  <2>1. \A x \in Reqs : Moving(x)' => Moving(x)
    BY <1>a DEF uv_cancel, Moving
  <2> QED
    BY <2>1, PlaceFrame DEF uv_cancel
<1>2. CallOK' /\ DrainOK'
  BY <1>a DEF uv_cancel, PlaceInv, CallOK, DrainOK, InCall
<1> QED
  BY <1>1, <1>2 DEF PlaceInv

\* A worker's steps that move no request.
LEMMA WorkerFramePlace ==
  ASSUME IInv, PlaceInv, NEW t \in Workers,
         \/ WorkerLock(t) \/ WorkerWait(t) \/ WorkerWake(t) \/ SpuriousWake(t)
         \/ WorkerExit(t) \/ WorkerWork(t) \/ WorkerDoneLock(t) \/ WorkerAsyncPost(t)
  PROVE  PlaceInv'
<1> USE DEF LoopAt, LoopGoto, Return, Continue, WorkerGoto, poolVars, initVars,
           reqVars, loopVars, callVars
<1>a. /\ lpc \in [Loops -> LoopPcs] /\ arg \in [Loops -> Reqs \cup {NoReq}]
      /\ LoopOf \in [Reqs -> Loops] /\ draining \in [Loops -> BOOLEAN]
      /\ wpc \in [Workers -> WorkerPcs] /\ cur \in [Workers -> Reqs \cup {NoReq}]
  BY ConstantsAssumption DEF IInv, TypeOK
<1>1. CASE WorkerLock(t)
  <2>1. QueueOK' /\ HeldOK' /\ OverOK'
    <3>1. \A r \in Reqs : Moving(r)' => Moving(r)
      BY <1>1 DEF WorkerLock, Moving
    <3>2. \A u \in Workers : wpc'[u] \in Handling => wpc[u] \in Handling /\ cur'[u] = cur[u]
      BY <1>1, <1>a DEF WorkerLock, Handling
    <3> QED
      BY <1>1, <3>1, <3>2, PlaceFrame DEF WorkerLock
  <2>2. CallOK' /\ DrainOK'
    BY <1>1, <1>a DEF WorkerLock, PlaceInv, CallOK, DrainOK
  <2> QED
    BY <2>1, <2>2 DEF PlaceInv
<1>2. CASE WorkerWait(t)
  <2>1. QueueOK' /\ HeldOK' /\ OverOK'
    <3>1. \A r \in Reqs : Moving(r)' => Moving(r)
      BY <1>2 DEF WorkerWait, Moving
    <3>2. \A u \in Workers : wpc'[u] \in Handling => wpc[u] \in Handling /\ cur'[u] = cur[u]
      BY <1>2, <1>a DEF WorkerWait, Handling
    <3> QED
      BY <1>2, <3>1, <3>2, PlaceFrame DEF WorkerWait
  <2>2. CallOK' /\ DrainOK'
    BY <1>2, <1>a DEF WorkerWait, PlaceInv, CallOK, DrainOK
  <2> QED
    BY <2>1, <2>2 DEF PlaceInv
<1>3. CASE WorkerWake(t)
  <2>1. QueueOK' /\ HeldOK' /\ OverOK'
    <3>1. \A r \in Reqs : Moving(r)' => Moving(r)
      BY <1>3 DEF WorkerWake, Moving
    <3>2. \A u \in Workers : wpc'[u] \in Handling => wpc[u] \in Handling /\ cur'[u] = cur[u]
      BY <1>3, <1>a DEF WorkerWake, Handling
    <3> QED
      BY <1>3, <3>1, <3>2, PlaceFrame DEF WorkerWake
  <2>2. CallOK' /\ DrainOK'
    BY <1>3, <1>a DEF WorkerWake, PlaceInv, CallOK, DrainOK
  <2> QED
    BY <2>1, <2>2 DEF PlaceInv
<1>4. CASE SpuriousWake(t)
  <2>1. QueueOK' /\ HeldOK' /\ OverOK'
    <3>1. \A r \in Reqs : Moving(r)' => Moving(r)
      BY <1>4 DEF SpuriousWake, Moving
    <3>2. \A u \in Workers : wpc'[u] \in Handling => wpc[u] \in Handling /\ cur'[u] = cur[u]
      BY <1>4, <1>a DEF SpuriousWake, Handling
    <3> QED
      BY <1>4, <3>1, <3>2, PlaceFrame DEF SpuriousWake
  <2>2. CallOK' /\ DrainOK'
    BY <1>4, <1>a DEF SpuriousWake, PlaceInv, CallOK, DrainOK
  <2> QED
    BY <2>1, <2>2 DEF PlaceInv
<1>5. CASE WorkerWork(t)
  <2>1. QueueOK' /\ HeldOK' /\ OverOK'
    <3>1. \A r \in Reqs : Moving(r)' => Moving(r)
      BY <1>5 DEF WorkerWork, Moving
    <3>2. \A u \in Workers : wpc'[u] \in Handling => wpc[u] \in Handling /\ cur'[u] = cur[u]
      BY <1>5, <1>a DEF WorkerWork, Handling
    <3> QED
      BY <1>5, <3>1, <3>2, PlaceFrame DEF WorkerWork
  <2>2. CallOK' /\ DrainOK'
    BY <1>5, <1>a DEF WorkerWork, PlaceInv, CallOK, DrainOK
  <2> QED
    BY <2>1, <2>2 DEF PlaceInv
<1>6. CASE WorkerDoneLock(t)
  <2>1. QueueOK' /\ HeldOK' /\ OverOK'
    <3>1. \A r \in Reqs : Moving(r)' => Moving(r)
      BY <1>6 DEF WorkerDoneLock, Moving
    <3>2. \A u \in Workers : wpc'[u] \in Handling => wpc[u] \in Handling /\ cur'[u] = cur[u]
      BY <1>6, <1>a DEF WorkerDoneLock, Handling
    <3> QED
      BY <1>6, <3>1, <3>2, PlaceFrame DEF WorkerDoneLock
  <2>2. CallOK' /\ DrainOK'
    BY <1>6, <1>a DEF WorkerDoneLock, PlaceInv, CallOK, DrainOK
  <2> QED
    BY <2>1, <2>2 DEF PlaceInv
<1>7. CASE WorkerAsyncPost(t)
  <2>1. QueueOK' /\ HeldOK' /\ OverOK'
    <3>1. \A r \in Reqs : Moving(r)' => Moving(r)
      BY <1>7 DEF WorkerAsyncPost, Moving
    <3>2. \A u \in Workers : wpc'[u] \in Handling => wpc[u] \in Handling /\ cur'[u] = cur[u]
      BY <1>7, <1>a DEF WorkerAsyncPost, Handling
    <3> QED
      BY <1>7, <3>1, <3>2, PlaceFrame DEF WorkerAsyncPost
  <2>2. CallOK' /\ DrainOK'
    BY <1>7, <1>a DEF WorkerAsyncPost, PlaceInv, CallOK, DrainOK
  <2> QED
    BY <2>1, <2>2 DEF PlaceInv
<1>8. CASE WorkerExit(t)
  <2>1. QueueOK' /\ HeldOK' /\ OverOK'
    <3>1. \A r \in Reqs : Moving(r)' => Moving(r)
      BY <1>8 DEF WorkerExit, CondSignal, Waiting, Moving
    <3>2. \A u \in Workers : wpc'[u] \in Handling => wpc[u] \in Handling /\ cur'[u] = cur[u]
      BY <1>8, <1>a DEF WorkerExit, CondSignal, Waiting, Handling
    <3> QED
      BY <1>8, <3>1, <3>2, PlaceFrame DEF WorkerExit, CondSignal, Waiting
  <2>2. CallOK' /\ DrainOK'
    BY <1>8, <1>a DEF WorkerExit, CondSignal, Waiting, PlaceInv, CallOK, DrainOK
  <2> QED
    BY <2>1, <2>2 DEF PlaceInv
<1> QED
  BY <1>1, <1>2, <1>3, <1>4, <1>5, <1>6, <1>7, <1>8

\* The steps of cleanup() that move no request, and stuttering.
LEMMA CleanupFramePlace ==
  ASSUME IInv, PlaceInv, CleanupStart \/ CleanupLock \/ CleanupJoin \/ UNCHANGED vars
  PROVE  PlaceInv'
<1> USE DEF LoopAt, LoopGoto, Return, Continue, WorkerGoto, poolVars, initVars,
           reqVars, loopVars, callVars
<1>a. /\ lpc \in [Loops -> LoopPcs] /\ arg \in [Loops -> Reqs \cup {NoReq}]
      /\ LoopOf \in [Reqs -> Loops] /\ draining \in [Loops -> BOOLEAN]
      /\ wpc \in [Workers -> WorkerPcs] /\ cur \in [Workers -> Reqs \cup {NoReq}]
  BY ConstantsAssumption DEF IInv, TypeOK
<1>1. CASE CleanupStart
  <2>1. QueueOK' /\ HeldOK' /\ OverOK'
    <3>1. \A r \in Reqs : Moving(r)' => Moving(r)
      BY <1>1 DEF CleanupStart, Moving
    <3>2. \A u \in Workers : wpc'[u] \in Handling => wpc[u] \in Handling /\ cur'[u] = cur[u]
      BY <1>1, <1>a DEF CleanupStart, Handling
    <3> QED
      BY <1>1, <3>1, <3>2, PlaceFrame DEF CleanupStart
  <2>2. CallOK' /\ DrainOK'
    BY <1>1, <1>a DEF CleanupStart, PlaceInv, CallOK, DrainOK
  <2> QED
    BY <2>1, <2>2 DEF PlaceInv
<1>2. CASE CleanupLock
  <2>1. QueueOK' /\ HeldOK' /\ OverOK'
    <3>1. \A r \in Reqs : Moving(r)' => Moving(r)
      BY <1>2 DEF CleanupLock, Moving
    <3>2. \A u \in Workers : wpc'[u] \in Handling => wpc[u] \in Handling /\ cur'[u] = cur[u]
      BY <1>2, <1>a DEF CleanupLock, Handling
    <3> QED
      BY <1>2, <3>1, <3>2, PlaceFrame DEF CleanupLock
  <2>2. CallOK' /\ DrainOK'
    BY <1>2, <1>a DEF CleanupLock, PlaceInv, CallOK, DrainOK
  <2> QED
    BY <2>1, <2>2 DEF PlaceInv
<1>3. CASE CleanupJoin
  <2>1. QueueOK' /\ HeldOK' /\ OverOK'
    <3>1. \A r \in Reqs : Moving(r)' => Moving(r)
      BY <1>3 DEF CleanupJoin, Moving
    <3>2. \A u \in Workers : wpc'[u] \in Handling => wpc[u] \in Handling /\ cur'[u] = cur[u]
      BY <1>3, <1>a DEF CleanupJoin, Handling
    <3> QED
      BY <1>3, <3>1, <3>2, PlaceFrame DEF CleanupJoin
  <2>2. CallOK' /\ DrainOK'
    BY <1>3, <1>a DEF CleanupJoin, PlaceInv, CallOK, DrainOK
  <2> QED
    BY <2>1, <2>2 DEF PlaceInv
<1>4. CASE UNCHANGED vars
  <2>1. QueueOK' /\ HeldOK' /\ OverOK'
    <3>1. \A r \in Reqs : Moving(r)' => Moving(r)
      BY <1>4 DEF vars, Moving
    <3>2. \A u \in Workers : wpc'[u] \in Handling => wpc[u] \in Handling /\ cur'[u] = cur[u]
      BY <1>4, <1>a DEF vars, Handling
    <3> QED
      BY <1>4, <3>1, <3>2, PlaceFrame DEF vars
  <2>2. CallOK' /\ DrainOK'
    BY <1>4, <1>a DEF vars, PlaceInv, CallOK, DrainOK
  <2> QED
    BY <2>1, <2>2 DEF PlaceInv
<1> QED
  BY <1>1, <1>2, <1>3, <1>4

\* post() links the request at the end of the queue.
LEMMA PostPlace ==
  ASSUME IInv, PlaceInv, NEW l \in Loops, post(l)
  PROVE  PlaceInv'
<1> USE DEF LoopAt, LoopGoto, Return, Continue, WorkerGoto, poolVars, initVars,
           reqVars, loopVars, callVars
<1>a. /\ lpc \in [Loops -> LoopPcs] /\ arg \in [Loops -> Reqs \cup {NoReq}]
      /\ LoopOf \in [Reqs -> Loops] /\ draining \in [Loops -> BOOLEAN]
      /\ wpc \in [Workers -> WorkerPcs] /\ cur \in [Workers -> Reqs \cup {NoReq}]
  BY ConstantsAssumption DEF IInv, TypeOK
<1>0. arg[l] \in Reqs /\ LoopOf[arg[l]] = l /\ Moving(arg[l]) /\ arg[l] # exit_message
  BY ConstantsAssumption DEF post, IInv, ArgOK, InCall, Moving
<1>b. /\ wq' = Append(wq, arg[l])
      /\ \A t \in Workers : wpc'[t] \in Handling <=> wpc[t] \in Handling
  BY <1>a DEF post, PostBody, CondSignal, Waiting, Handling
<1>c. \A x \in Reqs : Moving(x)' <=> Moving(x) /\ x # arg[l]
  BY <1>0, <1>a, ConstantsAssumption DEF post, Moving, TypeOK, IInv, Items
<1>1. QueueOK'
  <2>1. wq \in Seq(Items) /\ arg[l] \in Items
    BY <1>0 DEF IInv, TypeOK, Items
  <2>2. arg[l] \notin Range(wq)
    BY <1>0 DEF PlaceInv, QueueOK
  <2>3. IsInjective(wq') /\ Range(wq') = Range(wq) \cup {arg[l]}
    BY <1>b, <2>1, <2>2, AppendQueue DEF PlaceInv, QueueOK
  <2>4. work[arg[l]] = "uv__queue_work" /\ arg[l] \in active_reqs
    BY DEF post, PlaceInv, CallOK, InCall
  <2>5. linked \in [Reqs -> BOOLEAN]
    BY DEF IInv, TypeOK
  <2> QED
    BY <1>0, <1>c, <2>3, <2>4, <2>5 DEF post, PlaceInv, QueueOK
<1>2. HeldOK'
  <2>1. \A t \in Workers : wpc[t] \in Handling => cur[t] \in Reqs /\ cur[t] # arg[l]
    BY <1>0 DEF PlaceInv, HeldOK, IInv, CurOK, Handling, Holds
  <2> QED
    BY <1>0, <1>b, <1>c, <2>1 DEF post, PlaceInv, HeldOK, IInv, TypeOK
<1>3. OverOK'
  <2>1. \A r : \A k \in Loops : OverAt(k, r) => r \in Reqs /\ OverAt(k, r)'
    BY <1>0, <1>c DEF post, OverAt, IInv, TypeOK
  <2> QED
    BY <2>1 DEF post, PlaceInv, OverOK
<1>4. CallOK'
  <2>1. \A k \in Loops : k # l /\ lpc[k] \in InCall => arg[k] # arg[l]
    BY <1>0 DEF IInv, ArgOK
  <2> QED
    BY <1>a, <2>1 DEF post, PlaceInv, CallOK, InCall, IInv, TypeOK
<1>5. DrainOK'
  BY <1>a DEF post, PlaceInv, DrainOK
<1> QED
  BY <1>1, <1>2, <1>3, <1>4, <1>5 DEF PlaceInv

\* uv__work_cancel unlinks the request, from whichever queue it is in.
LEMMA UnlinkPlace ==
  ASSUME IInv, PlaceInv, NEW l \in Loops, uv__work_cancel(l)
  PROVE  PlaceInv'
<1> USE DEF LoopAt, LoopGoto, Return, Continue, WorkerGoto, poolVars, initVars,
           reqVars, loopVars, callVars
<1>a. /\ lpc \in [Loops -> LoopPcs] /\ arg \in [Loops -> Reqs \cup {NoReq}]
      /\ LoopOf \in [Reqs -> Loops] /\ draining \in [Loops -> BOOLEAN]
      /\ wpc \in [Workers -> WorkerPcs] /\ cur \in [Workers -> Reqs \cup {NoReq}]
  BY ConstantsAssumption DEF IInv, TypeOK
<1>0. arg[l] \in Reqs /\ LoopOf[arg[l]] = l /\ arg[l] \in active_reqs
  BY DEF uv__work_cancel, IInv, ArgOK, PlaceInv, CallOK, InCall
<1>b. CASE ~Cancellable(arg[l])
  <2>0. /\ lpc' = [lpc EXCEPT ![l] = "user"] /\ arg' = [arg EXCEPT ![l] = NoReq]
        /\ UNCHANGED <<wq, work, linked, active_reqs, loop_wq, local, main, wpc, cur, draining>>
    BY <1>b DEF uv__work_cancel
  <2>1. QueueOK' /\ HeldOK' /\ OverOK'
    <3>1. \A r \in Reqs : Moving(r)' => Moving(r)
      BY <1>a, <2>0 DEF Moving
    <3> QED
      BY <2>0, <3>1, PlaceFrame
  <2>2. CallOK' /\ DrainOK'
    BY <1>a, <2>0 DEF uv__work_cancel, PlaceInv, CallOK, DrainOK, InCall
  <2> QED
    BY <2>1, <2>2 DEF PlaceInv
<1>c. CASE Cancellable(arg[l])
  <2>0. /\ wq' = Without(wq, arg[l])
        /\ loop_wq' = [loop_wq EXCEPT ![l] = Without(@, arg[l])]
        /\ local' = [local EXCEPT ![l] = Without(@, arg[l])]
        /\ lpc' = [lpc EXCEPT ![l] = "cancelled"] /\ arg' = arg
        /\ UNCHANGED <<work, linked, active_reqs, main, wpc, cur, draining>>
    BY <1>c DEF uv__work_cancel
  <2>a. linked[arg[l]] /\ work[arg[l]] # "NULL" /\ lpc[l] = "cancel"
    BY <1>c DEF Cancellable, uv__work_cancel
  <2>b. \A x \in Reqs : Moving(x)' => Moving(x) \/ x = arg[l]
    BY <1>a, <2>0 DEF Moving
  <2>1. QueueOK'
    <3>1. IsInjective(wq') /\ Range(wq') = Range(wq) \ {arg[l]}
      BY <2>0, WithoutQueue DEF IInv, TypeOK, PlaceInv, QueueOK
    <3> QED
      BY <2>0, <2>b, <3>1 DEF PlaceInv, QueueOK
  <2>2. HeldOK'
    <3>1. \A t \in Workers : wpc[t] \in Handling => cur[t] \in Reqs /\ cur[t] # arg[l]
      BY <2>a DEF PlaceInv, HeldOK, IInv, CurOK, Handling, Holds
    <3> QED
      BY <2>0, <2>b, <3>1 DEF PlaceInv, HeldOK
  <2>3. OverOK'
    <3>0. loop_wq \in [Loops -> Seq(Reqs)] /\ local \in [Loops -> Seq(Reqs)]
      BY DEF IInv, TypeOK
    <3>1. \A k \in Loops :
            /\ IsInjective(loop_wq'[k]) /\ IsInjective(local'[k])
            /\ Range(loop_wq'[k]) = Range(loop_wq[k]) \ {arg[l]}
            /\ Range(local'[k]) = Range(local[k]) \ {arg[l]}
      <4> SUFFICES ASSUME NEW k \in Loops
                   PROVE  /\ IsInjective(loop_wq'[k]) /\ IsInjective(local'[k])
                          /\ Range(loop_wq'[k]) = Range(loop_wq[k]) \ {arg[l]}
                          /\ Range(local'[k]) = Range(local[k]) \ {arg[l]}
        OBVIOUS
      <4>1. IsInjective(loop_wq[k]) /\ IsInjective(local[k])
        BY DEF PlaceInv, OverOK
      <4>2. CASE k = l
        BY <2>0, <3>0, <4>1, <4>2, WithoutQueue
      <4>3. CASE k # l
        <5>1. arg[l] \notin Range(loop_wq[k]) /\ arg[l] \notin Range(local[k])
          BY <1>0, <4>3 DEF PlaceInv, OverOK, OverAt
        <5> QED
          BY <2>0, <3>0, <4>1, <4>3, <5>1
      <4> QED
        BY <4>2, <4>3
    <3>2. \A r : \A k \in Loops : OverAt(k, r) /\ r # arg[l] => OverAt(k, r)'
      <4>1. active_reqs \subseteq Reqs
        BY DEF IInv, TypeOK
      <4> QED
        BY <2>0, <2>b, <4>1 DEF OverAt
    <3> QED
      BY <3>1, <3>2 DEF PlaceInv, OverOK
  <2>4. CallOK'
    BY <1>0, <1>a, <2>0, <2>a DEF PlaceInv, CallOK, InCall
  <2>5. DrainOK'
    <3>1. draining[l] \/ local[l] = <<>>
      BY DEF PlaceInv, DrainOK
    <3>2. local[l] = <<>> => Without(local[l], arg[l]) = <<>>
      <4>1. Range(<<>>) = {}
        BY DEF Range
      <4> QED
        BY <4>1 DEF Without
    <3>3. local \in [Loops -> Seq(Reqs)]
      BY DEF IInv, TypeOK
    <3> QED
      BY <1>a, <2>0, <2>a, <3>1, <3>2, <3>3 DEF PlaceInv, DrainOK
  <2> QED
    BY <2>1, <2>2, <2>3, <2>4, <2>5 DEF PlaceInv
<1> QED
  BY <1>b, <1>c

\* The unlinked request is marked; it is in no queue and with no worker.
LEMMA MarkPlace ==
  ASSUME IInv, PlaceInv, NEW l \in Loops, MarkCancelled(l)
  PROVE  PlaceInv'
<1> USE DEF LoopAt, LoopGoto, Return, Continue, WorkerGoto, poolVars, initVars,
           reqVars, loopVars, callVars
<1>a. /\ lpc \in [Loops -> LoopPcs] /\ arg \in [Loops -> Reqs \cup {NoReq}]
      /\ LoopOf \in [Reqs -> Loops] /\ draining \in [Loops -> BOOLEAN]
      /\ wpc \in [Workers -> WorkerPcs] /\ cur \in [Workers -> Reqs \cup {NoReq}]
  BY ConstantsAssumption DEF IInv, TypeOK
<1>0. arg[l] \in Reqs /\ LoopOf[arg[l]] = l /\ Moving(arg[l]) /\ linked[arg[l]]
  BY DEF MarkCancelled, IInv, ArgOK, InCall, Moving, PlaceInv, CallOK
<1>b. \A x \in Reqs : Moving(x)' <=> Moving(x)
  BY <1>a DEF MarkCancelled, Moving
<1>c. \A x \in Reqs : x # arg[l] => work'[x] = work[x]
  BY DEF MarkCancelled, IInv, TypeOK
<1>1. QueueOK'
  BY <1>0, <1>b, <1>c DEF MarkCancelled, PlaceInv, QueueOK
<1>2. HeldOK'
  <2>1. \A t \in Workers : wpc[t] \in Handling => cur[t] \in Reqs /\ cur[t] # arg[l]
    BY <1>0 DEF PlaceInv, HeldOK, IInv, CurOK, Handling, Holds
  <2> QED
    BY <1>b, <1>c, <2>1 DEF MarkCancelled, PlaceInv, HeldOK
<1>3. OverOK'
  <2>1. \A r : \A k \in Loops : OverAt(k, r) => r \in Reqs /\ OverAt(k, r)'
    BY <1>0, <1>b, <1>c DEF MarkCancelled, OverAt, IInv, TypeOK
  <2> QED
    BY <2>1 DEF MarkCancelled, PlaceInv, OverOK
<1>4. CallOK'
  <2>1. \A k \in Loops : k # l /\ lpc[k] \in InCall => arg[k] \in Reqs /\ arg[k] # arg[l]
    BY <1>0 DEF IInv, ArgOK
  <2>2. work'[arg[l]] = "uv__cancelled"
    BY <1>0 DEF MarkCancelled, IInv, TypeOK
  <2> QED
    BY <1>0, <1>a, <1>c, <2>1, <2>2 DEF MarkCancelled, PlaceInv, CallOK, InCall
<1>5. DrainOK'
  BY <1>a DEF MarkCancelled, PlaceInv, DrainOK
<1> QED
  BY <1>1, <1>2, <1>3, <1>4, <1>5 DEF PlaceInv

\* The cancelled request joins the finished ones.
LEMMA InsertPlace ==
  ASSUME IInv, PlaceInv, NEW l \in Loops, InsertCancelled(l)
  PROVE  PlaceInv'
<1> USE DEF LoopAt, LoopGoto, Return, Continue, WorkerGoto, poolVars, initVars,
           reqVars, loopVars, callVars
<1>a. /\ lpc \in [Loops -> LoopPcs] /\ arg \in [Loops -> Reqs \cup {NoReq}]
      /\ LoopOf \in [Reqs -> Loops] /\ draining \in [Loops -> BOOLEAN]
      /\ wpc \in [Workers -> WorkerPcs] /\ cur \in [Workers -> Reqs \cup {NoReq}]
  BY ConstantsAssumption DEF IInv, TypeOK
<1>0. /\ arg[l] \in Reqs /\ LoopOf[arg[l]] = l /\ Moving(arg[l])
      /\ linked[arg[l]] /\ work[arg[l]] = "uv__cancelled" /\ arg[l] \in active_reqs
  BY DEF InsertCancelled, IInv, ArgOK, InCall, Moving, PlaceInv, CallOK
<1>b. /\ lpc' = [lpc EXCEPT ![l] = lpc'[l]] /\ lpc'[l] \in {"user", "async_post"}
      /\ \A k \in Loops : k # l => arg'[k] = arg[k] /\ lpc'[k] = lpc[k]
      /\ arg'[l] \in {arg[l], NoReq} /\ (lpc'[l] = "async_post" => arg'[l] = arg[l])
  BY <1>a DEF InsertCancelled
<1>c. /\ loop_wq' = [loop_wq EXCEPT ![l] = Append(@, arg[l])]
      /\ linked' = [linked EXCEPT ![arg[l]] = TRUE]
      /\ UNCHANGED <<wq, work, active_reqs, local, main, wpc, cur, draining>>
  BY DEF InsertCancelled
<1>d. \A x \in Reqs : Moving(x)' <=> Moving(x) /\ x # arg[l]
  BY <1>0, <1>a, <1>b DEF InsertCancelled, Moving
<1>e. \A x \in Reqs : linked'[x] = linked[x]
  BY <1>0, <1>c DEF IInv, TypeOK
<1>1. QueueOK'
  BY <1>c, <1>d, <1>e DEF PlaceInv, QueueOK
<1>2. HeldOK'
  <2>1. \A t \in Workers : wpc[t] \in Handling => cur[t] \in Reqs
    BY DEF IInv, CurOK, Handling, Holds
  <2> QED
    BY <1>c, <1>d, <1>e, <2>1 DEF PlaceInv, HeldOK
<1>3. OverOK'
  <2>0. loop_wq \in [Loops -> Seq(Reqs)] /\ active_reqs \subseteq Reqs
    BY DEF IInv, TypeOK
  <2>1. arg[l] \notin Range(loop_wq[l]) /\ arg[l] \notin Range(local[l])
    BY <1>0 DEF PlaceInv, OverOK, OverAt
  <2>2. IsInjective(loop_wq'[l]) /\ Range(loop_wq'[l]) = Range(loop_wq[l]) \cup {arg[l]}
    <3>1. loop_wq'[l] = Append(loop_wq[l], arg[l]) /\ loop_wq[l] \in Seq(Reqs)
      BY <1>c, <2>0
    <3>2. IsInjective(loop_wq[l])
      BY DEF PlaceInv, OverOK
    <3> QED
      BY <1>0, <2>1, <3>1, <3>2, AppendQueue
  <2>3. \A k \in Loops : k # l => loop_wq'[k] = loop_wq[k]
    BY <1>c, <2>0
  <2>4. \A r : \A k \in Loops : OverAt(k, r) => OverAt(k, r)'
    BY <1>c, <1>d, <1>e, <2>0 DEF OverAt
  <2>5. \A r : r = arg[l] => OverAt(l, r)'
    BY <1>0, <1>c, <1>d, <1>e DEF OverAt
  <2>6. ASSUME NEW k \in Loops
        PROVE  /\ IsInjective(loop_wq'[k]) /\ IsInjective(local'[k])
               /\ Range(loop_wq'[k]) \cap Range(local'[k]) = {}
               /\ \A r \in Range(loop_wq'[k]) \cup Range(local'[k]) : OverAt(k, r)'
    <3>1. /\ IsInjective(loop_wq[k]) /\ IsInjective(local[k])
          /\ Range(loop_wq[k]) \cap Range(local[k]) = {}
          /\ \A r \in Range(loop_wq[k]) \cup Range(local[k]) : OverAt(k, r)'
      BY <2>4 DEF PlaceInv, OverOK
    <3>2. CASE k = l
      <4>1. Range(loop_wq'[k]) \cap Range(local'[k]) = {}
        BY <1>c, <2>1, <2>2, <3>1, <3>2
      <4>2. \A r \in Range(loop_wq'[k]) \cup Range(local'[k]) : OverAt(k, r)'
        BY <1>c, <2>2, <2>5, <3>1, <3>2
      <4> QED
        BY <1>c, <2>2, <3>1, <3>2, <4>1, <4>2
    <3>3. CASE k # l
      BY <1>c, <2>3, <3>1, <3>3
    <3> QED
      BY <3>2, <3>3
  <2> QED
    BY <2>6, Zenon DEF OverOK, OverAt, Moving
<1>4. CallOK'
  <2>1. \A k \in Loops : lpc[k] \in InCall => arg[k] \in Reqs
    BY DEF IInv, ArgOK
  <2>2. ASSUME NEW k \in Loops
        PROVE  /\ lpc'[k] \in InCall => arg'[k] \in active_reqs'
               /\ lpc'[k] \in {"post_lock", "post"} => work'[arg'[k]] = "uv__queue_work"
               /\ lpc'[k] = "cancelled" => work'[arg'[k]] # "NULL" /\ linked'[arg'[k]]
               /\ lpc'[k] \in {"insert_lock", "insert"} =>
                    work'[arg'[k]] = "uv__cancelled" /\ linked'[arg'[k]]
    <3>1. CASE k = l
      BY <1>0, <1>b, <1>c, <3>1 DEF InCall
    <3>2. CASE k # l
      BY <1>b, <1>c, <1>e, <2>1, <3>2 DEF PlaceInv, CallOK, InCall
    <3> QED
      BY <3>1, <3>2
  <2> QED
    BY <2>2 DEF CallOK
<1>5. DrainOK'
  BY <1>b, <1>c DEF InsertCancelled, PlaceInv, DrainOK
<1> QED
  BY <1>1, <1>2, <1>3, <1>4, <1>5 DEF PlaceInv

\* uv__work_done takes over the finished requests.
LEMMA MovePlace ==
  ASSUME IInv, PlaceInv, NEW l \in Loops, WorkDoneMove(l)
  PROVE  PlaceInv'
<1> USE DEF LoopAt, LoopGoto, Return, Continue, WorkerGoto, poolVars, initVars,
           reqVars, loopVars, callVars
<1>a. /\ lpc \in [Loops -> LoopPcs] /\ arg \in [Loops -> Reqs \cup {NoReq}]
      /\ LoopOf \in [Reqs -> Loops] /\ draining \in [Loops -> BOOLEAN]
      /\ wpc \in [Workers -> WorkerPcs] /\ cur \in [Workers -> Reqs \cup {NoReq}]
  BY ConstantsAssumption DEF IInv, TypeOK
<1>0. local[l] = <<>> /\ ~draining[l]
  BY <1>a DEF WorkDoneMove, PlaceInv, DrainOK
<1>b. \A x \in Reqs : Moving(x)' => Moving(x)
  BY <1>a DEF WorkDoneMove, Moving
<1>1. QueueOK'
  BY <1>b DEF WorkDoneMove, PlaceInv, QueueOK
<1>2. HeldOK'
  <2>1. \A t \in Workers : wpc[t] \in Handling => cur[t] \in Reqs
    BY DEF IInv, CurOK, Handling, Holds
  <2> QED
    BY <1>b, <2>1 DEF WorkDoneMove, PlaceInv, HeldOK
<1>3. OverOK'
  <2>0. /\ loop_wq \in [Loops -> Seq(Reqs)] /\ local \in [Loops -> Seq(Reqs)]
        /\ active_reqs \subseteq Reqs
    BY DEF IInv, TypeOK
  <2>1. \A r : \A k \in Loops : OverAt(k, r) => OverAt(k, r)'
    BY <1>b, <2>0 DEF WorkDoneMove, OverAt
  <2>2. Range(<<>>) = {} /\ IsInjective(<<>>)
    BY DEF Range, IsInjective
  <2>3. /\ loop_wq'[l] = <<>> /\ local'[l] = loop_wq[l]
        /\ \A k \in Loops : k # l => loop_wq'[k] = loop_wq[k] /\ local'[k] = local[k]
    BY <2>0 DEF WorkDoneMove
  <2> QED
    BY <2>1, <2>2, <2>3 DEF PlaceInv, OverOK
<1>4. CallOK'
  BY <1>a DEF WorkDoneMove, PlaceInv, CallOK, InCall
<1>5. DrainOK'
  <2>1. local \in [Loops -> Seq(Reqs)]
    BY DEF IInv, TypeOK
  <2> QED
    BY <1>a, <2>1 DEF WorkDoneMove, PlaceInv, DrainOK
<1> QED
  BY <1>1, <1>2, <1>3, <1>4, <1>5 DEF PlaceInv

\* One request is delivered and is nowhere any more.
LEMMA DonePlace ==
  ASSUME IInv, PlaceInv, NEW l \in Loops, uv__queue_done(l)
  PROVE  PlaceInv'
<1> USE DEF LoopAt, LoopGoto, Return, Continue, WorkerGoto, poolVars, initVars,
           reqVars, loopVars, callVars
<1>a. /\ lpc \in [Loops -> LoopPcs] /\ arg \in [Loops -> Reqs \cup {NoReq}]
      /\ LoopOf \in [Reqs -> Loops] /\ draining \in [Loops -> BOOLEAN]
      /\ wpc \in [Workers -> WorkerPcs] /\ cur \in [Workers -> Reqs \cup {NoReq}]
  BY ConstantsAssumption DEF IInv, TypeOK
<1> DEFINE r == Head(local[l])
<1>0. /\ local \in [Loops -> Seq(Reqs)] /\ local[l] # <<>> /\ IsInjective(local[l])
      /\ active_reqs \subseteq Reqs
  BY DEF uv__queue_done, IInv, TypeOK, PlaceInv, OverOK
<1>b. /\ r \in Range(local[l]) /\ IsInjective(Tail(local[l]))
      /\ Range(Tail(local[l])) = Range(local[l]) \ {r}
  BY <1>0, TailQueue
<1>c. OverAt(l, r)
  BY <1>b DEF PlaceInv, OverOK
<1>d. /\ local' = [local EXCEPT ![l] = Tail(@)] /\ active_reqs' = active_reqs \ {r}
      /\ UNCHANGED <<wq, work, linked, loop_wq, main, wpc, cur, lpc, arg, draining>>
      /\ lpc[l] = "user" /\ draining[l]
  BY DEF uv__queue_done
<1> HIDE DEF r
<1>1. QueueOK'
  BY <1>c, <1>d DEF PlaceInv, QueueOK, OverAt, Moving
<1>2. HeldOK'
  BY <1>c, <1>d DEF PlaceInv, HeldOK, OverAt, Moving
<1>3. OverOK'
  <2>1. \A x : \A k \in Loops : OverAt(k, x) /\ x # r => OverAt(k, x)'
    BY <1>d DEF OverAt, Moving
  <2>2. \A k \in Loops : r \in Range(loop_wq[k]) \cup Range(local[k]) => k = l
    BY <1>c DEF PlaceInv, OverOK, OverAt
  <2>3. r \notin Range(loop_wq[l])
    BY <1>b DEF PlaceInv, OverOK
  <2>4. ASSUME NEW k \in Loops
        PROVE  /\ IsInjective(local'[k]) /\ Range(local'[k]) = Range(local[k]) \ {r}
               /\ r \notin Range(loop_wq[k])
    <3>1. CASE k = l
      BY <1>0, <1>b, <1>d, <2>3, <3>1
    <3>2. CASE k # l
      BY <1>0, <1>d, <2>2, <3>2 DEF PlaceInv, OverOK
    <3> QED
      BY <3>1, <3>2
  <2> QED
    BY <1>d, <2>1, <2>4 DEF PlaceInv, OverOK
<1>4. CallOK'
  <2>1. \A k \in Loops : lpc[k] \in InCall => arg[k] # r
    BY <1>c, <1>d DEF IInv, ArgOK, OverAt, InCall
  <2> QED
    BY <1>d, <2>1 DEF PlaceInv, CallOK
<1>5. DrainOK'
  BY <1>0, <1>d DEF PlaceInv, DrainOK
<1> QED
  BY <1>1, <1>2, <1>3, <1>4, <1>5 DEF PlaceInv

\* A submitted request is on its way to the queue; an inactive one is nowhere.
LEMMA SubmitPlace ==
  ASSUME IInv, PlaceInv, NEW l \in Loops, NEW r \in Reqs, uv_queue_work(l, r)
  PROVE  PlaceInv'
<1> USE DEF LoopAt, LoopGoto, Return, Continue, WorkerGoto, poolVars, initVars,
           reqVars, loopVars, callVars
<1>a. /\ lpc \in [Loops -> LoopPcs] /\ arg \in [Loops -> Reqs \cup {NoReq}]
      /\ LoopOf \in [Reqs -> Loops] /\ draining \in [Loops -> BOOLEAN]
      /\ wpc \in [Workers -> WorkerPcs] /\ cur \in [Workers -> Reqs \cup {NoReq}]
  BY ConstantsAssumption DEF IInv, TypeOK
<1>0. /\ r \notin active_reqs /\ LoopOf[r] = l /\ lpc[l] = "user"
      /\ active_reqs' = active_reqs \cup {r}
      /\ \A x \in Reqs : work'[x] = IF x = r THEN "uv__queue_work" ELSE work[x]
      /\ lpc' = [lpc EXCEPT ![l] = "post_lock"] /\ arg' = [arg EXCEPT ![l] = r]
      /\ UNCHANGED <<wq, linked, loop_wq, main, local, cur, draining>>
  BY DEF uv_queue_work, IInv, TypeOK
<1>b. \A x \in Reqs : Moving(x)' => Moving(x) \/ x = r
  BY <1>0, <1>a DEF Moving
<1>c. \A t \in Workers : wpc'[t] \in Handling => wpc[t] \in Handling
  BY DEF uv_queue_work, init_once, Handling
<1>1. QueueOK'
  BY <1>0, <1>b DEF PlaceInv, QueueOK
<1>2. HeldOK'
  <2>1. \A t \in Workers : wpc[t] \in Handling => cur[t] \in Reqs /\ cur[t] # r
    BY <1>0 DEF IInv, CurOK, Handling, Holds, PlaceInv, HeldOK
  <2> QED
    BY <1>0, <1>b, <1>c, <2>1 DEF PlaceInv, HeldOK
<1>3. OverOK'
  <2>0. active_reqs \subseteq Reqs
    BY DEF IInv, TypeOK
  <2>1. \A x : \A k \in Loops : OverAt(k, x) => OverAt(k, x)'
    BY <1>0, <1>b, <2>0 DEF OverAt
  <2> QED
    BY <1>0, <2>1 DEF PlaceInv, OverOK
<1>4. CallOK'
  <2>1. \A k \in Loops : k # l /\ lpc[k] \in InCall => arg[k] \in Reqs /\ arg[k] # r
    BY <1>0 DEF IInv, ArgOK
  <2>2. ASSUME NEW k \in Loops
        PROVE  /\ lpc'[k] \in InCall => arg'[k] \in active_reqs'
               /\ lpc'[k] \in {"post_lock", "post"} => work'[arg'[k]] = "uv__queue_work"
               /\ lpc'[k] = "cancelled" => work'[arg'[k]] # "NULL" /\ linked'[arg'[k]]
               /\ lpc'[k] \in {"insert_lock", "insert"} =>
                    work'[arg'[k]] = "uv__cancelled" /\ linked'[arg'[k]]
    <3>1. CASE k = l
      BY <1>0, <1>a, <3>1
    <3>2. CASE k # l
      BY <1>0, <1>a, <2>1, <3>2 DEF PlaceInv, CallOK, InCall
    <3> QED
      BY <3>1, <3>2
  <2> QED
    BY <2>2 DEF CallOK
<1>5. DrainOK'
  BY <1>0, <1>a DEF PlaceInv, DrainOK
<1> QED
  BY <1>1, <1>2, <1>3, <1>4, <1>5 DEF PlaceInv

\* A worker takes the first request of the queue for itself.
LEMMA TakePlace ==
  ASSUME IInv, PlaceInv, NEW t \in Workers, WorkerTake(t)
  PROVE  PlaceInv'
<1> USE DEF LoopAt, LoopGoto, Return, Continue, WorkerGoto, poolVars, initVars,
           reqVars, loopVars, callVars
<1>a. /\ lpc \in [Loops -> LoopPcs] /\ arg \in [Loops -> Reqs \cup {NoReq}]
      /\ LoopOf \in [Reqs -> Loops] /\ draining \in [Loops -> BOOLEAN]
      /\ wpc \in [Workers -> WorkerPcs] /\ cur \in [Workers -> Reqs \cup {NoReq}]
  BY ConstantsAssumption DEF IInv, TypeOK
<1>r. PICK r : r = Head(wq)
  OBVIOUS
<1>0. /\ wq \in Seq(Items) /\ wq # <<>> /\ IsInjective(wq) /\ r # exit_message
  BY <1>r DEF WorkerTake, IInv, TypeOK, PlaceInv, QueueOK
<1>b. /\ r \in Range(wq) /\ IsInjective(Tail(wq)) /\ Range(Tail(wq)) = Range(wq) \ {r}
      /\ r \in Items
  BY <1>0, <1>r, TailQueue, HeadTailProperties
<1>c. /\ r \in Reqs /\ r \in active_reqs /\ work[r] = "uv__queue_work" /\ linked[r]
      /\ ~Moving(r)
  BY <1>0, <1>b DEF Items, PlaceInv, QueueOK
<1>d. /\ wq' = Tail(wq)
      /\ cur' = [cur EXCEPT ![t] = r] /\ wpc' = [wpc EXCEPT ![t] = "work"]
      /\ UNCHANGED <<active_reqs, work, loop_wq, local, main, lpc, arg, draining>>
      /\ wpc[t] \notin Handling
  BY <1>r DEF WorkerTake, Handling
<1>e. \A x \in Reqs : linked'[x] = IF x = r THEN FALSE ELSE linked[x]
  BY <1>r DEF WorkerTake, IInv, TypeOK
<1>f. \A x \in Reqs : Moving(x)' <=> Moving(x)
  BY <1>d DEF Moving
<1>1. QueueOK'
  BY <1>b, <1>d, <1>e, <1>f DEF PlaceInv, QueueOK
<1>2. HeldOK'
  <2>1. \A u \in Workers : wpc[u] \in Handling => cur[u] \in Reqs /\ cur[u] # r
    BY <1>c DEF IInv, CurOK, Handling, Holds, PlaceInv, HeldOK
  <2>2. \A u \in Workers : u # t => wpc'[u] = wpc[u] /\ cur'[u] = cur[u]
    BY <1>a, <1>d
  <2>3. wpc'[t] = "work" /\ cur'[t] = r
    BY <1>a, <1>d
  <2>4. ASSUME NEW u \in Workers, wpc'[u] \in Handling
        PROVE  \E x \in Reqs : /\ x = cur'[u] /\ x \in active_reqs'
                              /\ work'[x] = "uv__queue_work" /\ ~linked'[x] /\ ~Moving(x)'
    <3>1. CASE u = t
      BY <1>c, <1>d, <1>e, <1>f, <2>3, <3>1
    <3>2. CASE u # t
      <4>1. PICK x \in Reqs : x = cur[u] /\ x = cur'[u] /\ x # r /\ wpc[u] \in Handling
        BY <2>1, <2>2, <2>4, <3>2
      <4>2. x \in active_reqs /\ work[x] = "uv__queue_work" /\ ~linked[x] /\ ~Moving(x)
        BY <4>1 DEF PlaceInv, HeldOK
      <4> QED
        BY <1>d, <1>e, <1>f, <4>1, <4>2
    <3> QED
      BY <3>1, <3>2
  <2>5. \A u, v \in Workers :
          wpc'[u] \in Handling /\ wpc'[v] \in Handling /\ cur'[u] = cur'[v] => u = v
    BY <2>1, <2>2, <2>3 DEF PlaceInv, HeldOK
  <2> QED
    BY <2>4, <2>5 DEF HeldOK, Moving
<1>3. OverOK'
  <2>0. active_reqs \subseteq Reqs
    BY DEF IInv, TypeOK
  <2>1. \A x : \A k \in Loops : OverAt(k, x) => OverAt(k, x)'
    BY <1>c, <1>d, <1>e, <1>f, <2>0 DEF OverAt
  <2> QED
    BY <1>d, <2>1 DEF PlaceInv, OverOK
<1>4. CallOK'
  <2>1. \A k \in Loops : lpc[k] \in {"cancelled", "insert_lock", "insert"} =>
          arg[k] \in Reqs /\ arg[k] # r
    BY <1>c DEF IInv, ArgOK, InCall, Moving
  <2> QED
    BY <1>d, <1>e, <2>1 DEF PlaceInv, CallOK
<1>5. DrainOK'
  BY <1>d DEF PlaceInv, DrainOK
<1> QED
  BY <1>1, <1>2, <1>3, <1>4, <1>5 DEF PlaceInv

\* A worker hands the request it ran over to its loop.
LEMMA HandOverPlace ==
  ASSUME IInv, PlaceInv, NEW t \in Workers, WorkerDone(t)
  PROVE  PlaceInv'
<1> USE DEF LoopAt, LoopGoto, Return, Continue, WorkerGoto, poolVars, initVars,
           reqVars, loopVars, callVars
<1>a. /\ lpc \in [Loops -> LoopPcs] /\ arg \in [Loops -> Reqs \cup {NoReq}]
      /\ LoopOf \in [Reqs -> Loops] /\ draining \in [Loops -> BOOLEAN]
      /\ wpc \in [Workers -> WorkerPcs] /\ cur \in [Workers -> Reqs \cup {NoReq}]
  BY ConstantsAssumption DEF IInv, TypeOK
<1>r. PICK r, l : r = cur[t] /\ l = LoopOf[r]
  OBVIOUS
<1>0. /\ r \in Reqs /\ l \in Loops /\ r \in active_reqs /\ work[r] = "uv__queue_work"
      /\ ~linked[r] /\ ~Moving(r) /\ wpc[t] = "done"
  BY <1>a, <1>r DEF WorkerDone, IInv, CurOK, Holds, Handling, PlaceInv, HeldOK
<1>b. /\ loop_wq' = [loop_wq EXCEPT ![l] = Append(@, r)]
      /\ UNCHANGED <<wq, active_reqs, local, main, lpc, arg, draining>>
      /\ \A x \in Reqs : work'[x] = IF x = r THEN "NULL" ELSE work[x]
      /\ \A x \in Reqs : linked'[x] = IF x = r THEN TRUE ELSE linked[x]
  BY <1>r DEF WorkerDone, IInv, TypeOK
<1>c. /\ wpc'[t] \notin Handling
      /\ \A u \in Workers : u # t => wpc'[u] = wpc[u] /\ cur'[u] = cur[u]
  BY <1>a DEF WorkerDone, Handling
<1>f. \A u \in Workers : u # t /\ wpc[u] \in Handling => cur[u] # r
  BY <1>0, <1>r DEF PlaceInv, HeldOK, Handling
<1>d. \A x \in Reqs : Moving(x)' <=> Moving(x)
  BY <1>b DEF Moving
<1>e. LoopOf[r] = l
  BY <1>r
<1>1. QueueOK'
  BY <1>0, <1>b, <1>d DEF PlaceInv, QueueOK
<1>2. HeldOK'
  <2>1. \A u \in Workers : wpc'[u] \in Handling =>
          u # t /\ wpc[u] \in Handling /\ cur'[u] = cur[u] /\ cur[u] \in Reqs /\ cur[u] # r
    BY <1>c, <1>f DEF IInv, CurOK, Handling, Holds
  <2>2. ASSUME NEW u \in Workers, wpc'[u] \in Handling
        PROVE  \E x \in Reqs : /\ x = cur'[u] /\ x \in active_reqs'
                              /\ work'[x] = "uv__queue_work" /\ ~linked'[x] /\ ~Moving(x)'
    <3>1. PICK x \in Reqs : x = cur[u] /\ x = cur'[u] /\ x # r /\ wpc[u] \in Handling
      BY <2>1, <2>2
    <3>2. x \in active_reqs /\ work[x] = "uv__queue_work" /\ ~linked[x] /\ ~Moving(x)
      BY <3>1 DEF PlaceInv, HeldOK
    <3> QED
      BY <1>b, <1>d, <3>1, <3>2
  <2>4. \A u, v \in Workers :
          wpc'[u] \in Handling /\ wpc'[v] \in Handling /\ cur'[u] = cur'[v] => u = v
    BY <2>1 DEF PlaceInv, HeldOK
  <2> QED
    BY <2>2, <2>4 DEF HeldOK, Moving
<1>3. OverOK'
  <2>0. loop_wq \in [Loops -> Seq(Reqs)] /\ active_reqs \subseteq Reqs
    BY DEF IInv, TypeOK
  <2>1. \A x : \A k \in Loops : OverAt(k, x) => OverAt(k, x)' /\ x # r
    BY <1>0, <1>b, <1>d, <2>0 DEF OverAt
  <2>2. OverAt(l, r)'
    BY <1>0, <1>b, <1>d, <1>e DEF OverAt
  <2>3. r \notin Range(loop_wq[l]) /\ r \notin Range(local[l])
    BY <1>0, <2>1 DEF PlaceInv, OverOK
  <2>4. IsInjective(loop_wq'[l]) /\ Range(loop_wq'[l]) = Range(loop_wq[l]) \cup {r}
    <3>1. loop_wq'[l] = Append(loop_wq[l], r) /\ loop_wq[l] \in Seq(Reqs)
      BY <1>0, <1>b, <2>0
    <3>2. IsInjective(loop_wq[l])
      BY <1>0 DEF PlaceInv, OverOK
    <3> QED
      BY <1>0, <2>3, <3>1, <3>2, AppendQueue
  <2>5. \A k \in Loops : k # l => loop_wq'[k] = loop_wq[k]
    BY <1>b, <2>0
  <2>6. ASSUME NEW k \in Loops
        PROVE  /\ IsInjective(loop_wq'[k]) /\ IsInjective(local'[k])
               /\ Range(loop_wq'[k]) \cap Range(local'[k]) = {}
               /\ \A x \in Range(loop_wq'[k]) \cup Range(local'[k]) : OverAt(k, x)'
    <3>1. /\ IsInjective(loop_wq[k]) /\ IsInjective(local[k])
          /\ Range(loop_wq[k]) \cap Range(local[k]) = {}
          /\ \A x \in Range(loop_wq[k]) \cup Range(local[k]) : OverAt(k, x)'
      BY <2>1 DEF PlaceInv, OverOK
    <3>2. CASE k = l
      <4>1. Range(loop_wq'[k]) \cap Range(local'[k]) = {}
        BY <1>b, <2>3, <2>4, <3>1, <3>2
      <4>2. \A x \in Range(loop_wq'[k]) \cup Range(local'[k]) : OverAt(k, x)'
        BY <1>b, <2>2, <2>4, <3>1, <3>2
      <4> QED
        BY <1>b, <2>4, <3>1, <3>2, <4>1, <4>2
    <3>3. CASE k # l
      BY <1>b, <2>5, <3>1, <3>3
    <3> QED
      BY <3>2, <3>3
  <2> QED
    BY <2>6, Zenon DEF OverOK, OverAt, Moving
<1>4. CallOK'
  <2>1. \A k \in Loops : lpc[k] \in {"post_lock", "post", "cancelled", "insert_lock", "insert"} =>
          arg[k] \in Reqs /\ arg[k] # r
    BY <1>0 DEF IInv, ArgOK, InCall, Moving
  <2> QED
    BY <1>b, <2>1 DEF PlaceInv, CallOK
<1>5. DrainOK'
  BY <1>b DEF PlaceInv, DrainOK
<1> QED
  BY <1>1, <1>2, <1>3, <1>4, <1>5 DEF PlaceInv

\* cleanup() posts the exit message, once.
LEMMA ExitPlace == ASSUME IInv, PlaceInv, CleanupPost PROVE PlaceInv'
<1> USE DEF LoopAt, LoopGoto, Return, Continue, WorkerGoto, poolVars, initVars,
           reqVars, loopVars, callVars
<1>a. /\ lpc \in [Loops -> LoopPcs] /\ arg \in [Loops -> Reqs \cup {NoReq}]
      /\ LoopOf \in [Reqs -> Loops] /\ draining \in [Loops -> BOOLEAN]
      /\ wpc \in [Workers -> WorkerPcs] /\ cur \in [Workers -> Reqs \cup {NoReq}]
  BY ConstantsAssumption DEF IInv, TypeOK
<1>0. /\ wq' = Append(wq, exit_message) /\ main = "post" /\ main' = "join"
      /\ UNCHANGED <<active_reqs, work, linked, loop_wq, local, lpc, arg, draining, cur>>
      /\ \A t \in Workers : wpc'[t] \in Handling => wpc[t] \in Handling
  BY <1>a DEF CleanupPost, PostBody, CondSignal, Waiting, Handling
<1>1. QueueOK'
  <2>1. wq \in Seq(Items) /\ exit_message \in Items /\ exit_message \notin Range(wq)
    BY <1>0 DEF IInv, TypeOK, Items, PlaceInv, QueueOK
  <2>2. IsInjective(wq') /\ Range(wq') = Range(wq) \cup {exit_message}
    BY <1>0, <2>1, AppendQueue DEF PlaceInv, QueueOK
  <2> QED
    BY <1>0, <2>2, ConstantsAssumption DEF PlaceInv, QueueOK, Moving
<1>2. HeldOK'
  BY <1>0 DEF PlaceInv, HeldOK, Moving
<1>3. OverOK'
  BY <1>0 DEF PlaceInv, OverOK, OverAt, Moving
<1>4. CallOK'
  BY <1>0 DEF PlaceInv, CallOK
<1>5. DrainOK'
  BY <1>0 DEF PlaceInv, DrainOK
<1> QED
  BY <1>1, <1>2, <1>3, <1>4, <1>5 DEF PlaceInv

\* Every step keeps every request at one place.
LEMMA NextPlace == IInv /\ PlaceInv /\ [Next]_vars => PlaceInv'
<1> SUFFICES ASSUME IInv, PlaceInv, [Next]_vars PROVE PlaceInv'
  OBVIOUS
<1>1. ASSUME NEW l \in Loops, LoopStep(l) PROVE PlaceInv'
  BY <1>1, LoopFramePlace, PostPlace, UnlinkPlace, MarkPlace, InsertPlace, MovePlace,
     DonePlace DEF LoopStep
<1>2. ASSUME NEW l \in Loops, Call(l) \/ uv_loop_close(l) PROVE PlaceInv'
  BY <1>2, LoopFramePlace, SubmitPlace, CancelPlace DEF Call
<1>3. ASSUME NEW t \in Workers, worker(t) \/ SpuriousWake(t) PROVE PlaceInv'
  BY <1>3, WorkerFramePlace, TakePlace, HandOverPlace DEF worker
<1>4. CASE CleanupStart \/ cleanup \/ UNCHANGED vars
  BY <1>4, CleanupFramePlace, ExitPlace DEF cleanup
<1> QED
  BY <1>1, <1>2, <1>3, <1>4 DEF Next

-----------------------------------------------------------------------------
(* The loop's wq_mutex: steps.                                             *)

\* At first nobody owns a lock or a request, and no loop is closed.
LEMMA InitLock == Init => LockInv
  BY DEF Init, LockInv, WqOwner, CurNone, ClosedOK

\* A loop's thread locks and unlocks its own wq_mutex.
LEMMA LoopStepLock ==
  ASSUME IInv, PlaceInv, LockInv, NEW l \in Loops, LoopStep(l)
  PROVE  LockInv'
<1> USE DEF LoopAt, LoopGoto, Return, Continue, WorkerGoto, poolVars, initVars,
           reqVars, loopVars, callVars
<1>a. /\ lpc \in [Loops -> LoopPcs] /\ wq_mutex \in [Loops -> Threads \cup {NoThread}]
      /\ LoopOf \in [Reqs -> Loops]
      /\ wpc \in [Workers -> WorkerPcs] /\ cur \in [Workers -> Reqs \cup {NoReq}]
      /\ Loops \cap Workers = {} /\ NoThread \notin Loops \cup Workers
      /\ \A t \in Workers : wpc[t] \in Holds => cur[t] \in Reqs
  BY ConstantsAssumption DEF IInv, TypeOK, CurOK, Threads
<1>1. CASE PostLock(l)
  <2>1. WqOwner'
    BY <1>1, <1>a DEF PostLock, LockInv, WqOwner, Holds
  <2>2. CurNone'
    BY <1>1, <1>a DEF PostLock, LockInv, CurNone, Holds
  <2>3. ClosedOK'
    BY <1>1, <1>a DEF PostLock, LockInv, ClosedOK, Holds
  <2> QED
    BY <2>1, <2>2, <2>3 DEF LockInv
<1>2. CASE post(l)
  <2>1. WqOwner'
    BY <1>2, <1>a DEF post, LockInv, WqOwner, Holds, PostBody, CondSignal, Waiting
  <2>2. CurNone'
    BY <1>2, <1>a DEF post, LockInv, CurNone, Holds, PostBody, CondSignal, Waiting
  <2>3. ClosedOK'
    BY <1>2, <1>a DEF post, LockInv, ClosedOK, Holds, PostBody, CondSignal, Waiting
  <2> QED
    BY <2>1, <2>2, <2>3 DEF LockInv
<1>3. CASE CancelLock(l)
  <2>1. WqOwner'
    BY <1>3, <1>a DEF CancelLock, LockInv, WqOwner, Holds
  <2>2. CurNone'
    BY <1>3, <1>a DEF CancelLock, LockInv, CurNone, Holds
  <2>3. ClosedOK'
    BY <1>3, <1>a DEF CancelLock, LockInv, ClosedOK, Holds
  <2> QED
    BY <2>1, <2>2, <2>3 DEF LockInv
<1>4. CASE CancelWqLock(l)
  <2>1. WqOwner'
    BY <1>4, <1>a DEF CancelWqLock, LockInv, WqOwner, Holds
  <2>2. CurNone'
    BY <1>4, <1>a DEF CancelWqLock, LockInv, CurNone, Holds
  <2>3. ClosedOK'
    BY <1>4, <1>a DEF CancelWqLock, LockInv, ClosedOK, Holds
  <2> QED
    BY <2>1, <2>2, <2>3 DEF LockInv
<1>5. CASE uv__work_cancel(l)
  <2>1. WqOwner'
    BY <1>5, <1>a DEF uv__work_cancel, LockInv, WqOwner, Holds
  <2>2. CurNone'
    BY <1>5, <1>a DEF uv__work_cancel, LockInv, CurNone, Holds
  <2>3. ClosedOK'
    BY <1>5, <1>a DEF uv__work_cancel, LockInv, ClosedOK, Holds
  <2> QED
    BY <2>1, <2>2, <2>3 DEF LockInv
<1>6. CASE MarkCancelled(l)
  <2>1. WqOwner'
    BY <1>6, <1>a DEF MarkCancelled, LockInv, WqOwner, Holds
  <2>2. CurNone'
    BY <1>6, <1>a DEF MarkCancelled, LockInv, CurNone, Holds
  <2>3. ClosedOK'
    BY <1>6, <1>a DEF MarkCancelled, LockInv, ClosedOK, Holds
  <2> QED
    BY <2>1, <2>2, <2>3 DEF LockInv
<1>7. CASE InsertLock(l)
  <2>1. WqOwner'
    BY <1>7, <1>a DEF InsertLock, LockInv, WqOwner, Holds
  <2>2. CurNone'
    BY <1>7, <1>a DEF InsertLock, LockInv, CurNone, Holds
  <2>3. ClosedOK'
    BY <1>7, <1>a DEF InsertLock, LockInv, ClosedOK, Holds
  <2> QED
    BY <2>1, <2>2, <2>3 DEF LockInv
<1>8. CASE InsertCancelled(l)
  <2>1. WqOwner'
    BY <1>8, <1>a DEF InsertCancelled, LockInv, WqOwner, Holds
  <2>2. CurNone'
    BY <1>8, <1>a DEF InsertCancelled, LockInv, CurNone, Holds
  <2>3. ClosedOK'
    BY <1>8, <1>a DEF InsertCancelled, LockInv, ClosedOK, Holds
  <2> QED
    BY <2>1, <2>2, <2>3 DEF LockInv
<1>9. CASE LoopAsyncPost(l)
  <2>1. WqOwner'
    BY <1>9, <1>a DEF LoopAsyncPost, LockInv, WqOwner, Holds
  <2>2. CurNone'
    BY <1>9, <1>a DEF LoopAsyncPost, LockInv, CurNone, Holds
  <2>3. ClosedOK'
    BY <1>9, <1>a DEF LoopAsyncPost, LockInv, ClosedOK, Holds
  <2> QED
    BY <2>1, <2>2, <2>3 DEF LockInv
<1>10. CASE uv_poll(l)
  <2>1. WqOwner'
    BY <1>10, <1>a DEF uv_poll, LockInv, WqOwner, Holds
  <2>2. CurNone'
    BY <1>10, <1>a DEF uv_poll, LockInv, CurNone, Holds
  <2>3. ClosedOK'
    BY <1>10, <1>a DEF uv_poll, LockInv, ClosedOK, Holds
  <2> QED
    BY <2>1, <2>2, <2>3 DEF LockInv
<1>11. CASE uv_process_async_wakeup_req(l)
  <2>1. WqOwner'
    BY <1>11, <1>a DEF uv_process_async_wakeup_req, LockInv, WqOwner, Holds
  <2>2. CurNone'
    BY <1>11, <1>a DEF uv_process_async_wakeup_req, LockInv, CurNone, Holds
  <2>3. ClosedOK'
    BY <1>11, <1>a DEF uv_process_async_wakeup_req, LockInv, ClosedOK, Holds
  <2> QED
    BY <2>1, <2>2, <2>3 DEF LockInv
<1>12. CASE WorkDoneLock(l)
  <2>1. WqOwner'
    BY <1>12, <1>a DEF WorkDoneLock, LockInv, WqOwner, Holds
  <2>2. CurNone'
    BY <1>12, <1>a DEF WorkDoneLock, LockInv, CurNone, Holds
  <2>3. ClosedOK'
    BY <1>12, <1>a DEF WorkDoneLock, LockInv, ClosedOK, Holds
  <2> QED
    BY <2>1, <2>2, <2>3 DEF LockInv
<1>13. CASE WorkDoneMove(l)
  <2>1. WqOwner'
    BY <1>13, <1>a DEF WorkDoneMove, LockInv, WqOwner, Holds
  <2>2. CurNone'
    BY <1>13, <1>a DEF WorkDoneMove, LockInv, CurNone, Holds
  <2>3. ClosedOK'
    BY <1>13, <1>a DEF WorkDoneMove, LockInv, ClosedOK, Holds
  <2> QED
    BY <2>1, <2>2, <2>3 DEF LockInv
<1>14. CASE uv__queue_done(l)
  <2>1. WqOwner'
    BY <1>14, <1>a DEF uv__queue_done, LockInv, WqOwner, Holds
  <2>2. CurNone'
    BY <1>14, <1>a DEF uv__queue_done, LockInv, CurNone, Holds
  <2>3. ClosedOK'
    BY <1>14, <1>a DEF uv__queue_done, LockInv, ClosedOK, Holds
  <2> QED
    BY <2>1, <2>2, <2>3 DEF LockInv
<1>15. CASE WorkDoneReturn(l)
  <2>1. WqOwner'
    BY <1>15, <1>a DEF WorkDoneReturn, LockInv, WqOwner, Holds
  <2>2. CurNone'
    BY <1>15, <1>a DEF WorkDoneReturn, LockInv, CurNone, Holds
  <2>3. ClosedOK'
    BY <1>15, <1>a DEF WorkDoneReturn, LockInv, ClosedOK, Holds
  <2> QED
    BY <2>1, <2>2, <2>3 DEF LockInv
<1> QED
  BY <1>1, <1>2, <1>3, <1>4, <1>5, <1>6, <1>7, <1>8, <1>9, <1>10, <1>11, <1>12, <1>13, <1>14, <1>15 DEF LoopStep

\* Calls touch no lock; a loop closes when it has no request and its lock is free.
LEMMA CallLock ==
  ASSUME IInv, PlaceInv, LockInv, NEW l \in Loops, Call(l) \/ uv_loop_close(l)
  PROVE  LockInv'
<1> USE DEF LoopAt, LoopGoto, Return, Continue, WorkerGoto, poolVars, initVars,
           reqVars, loopVars, callVars
<1>a. /\ lpc \in [Loops -> LoopPcs] /\ wq_mutex \in [Loops -> Threads \cup {NoThread}]
      /\ LoopOf \in [Reqs -> Loops]
      /\ wpc \in [Workers -> WorkerPcs] /\ cur \in [Workers -> Reqs \cup {NoReq}]
      /\ Loops \cap Workers = {} /\ NoThread \notin Loops \cup Workers
      /\ \A t \in Workers : wpc[t] \in Holds => cur[t] \in Reqs
  BY ConstantsAssumption DEF IInv, TypeOK, CurOK, Threads
<1>1. ASSUME NEW r \in Reqs, uv_queue_work(l, r) PROVE LockInv'
  <2>0. initialized \/ \A t \in Workers : wpc[t] = "none" /\ wpc'[t] \in {"lock", "none"}
    BY <1>1 DEF uv_queue_work, init_once, IInv, InitOK
  <2>1. WqOwner'
    BY <1>1, <1>a, <2>0 DEF uv_queue_work, LockInv, WqOwner, Holds
  <2>2. CurNone'
    BY <1>1, <1>a, <2>0 DEF uv_queue_work, LockInv, CurNone, Holds
  <2>3. ClosedOK'
    BY <1>1, <1>a, <2>0 DEF uv_queue_work, LockInv, ClosedOK, Holds
  <2> QED
    BY <2>1, <2>2, <2>3 DEF LockInv
<1>2. ASSUME NEW r \in Reqs, uv_cancel(l, r) PROVE LockInv'
  BY <1>2, <1>a DEF uv_cancel, LockInv, WqOwner, CurNone, ClosedOK
<1>3. CASE uv_loop_close(l)
  <2>1. WqOwner'
    BY <1>3, <1>a DEF uv_loop_close, Between, LockInv, WqOwner
  <2>2. CurNone'
    BY <1>3, <1>a DEF uv_loop_close, LockInv, CurNone
  <2>3. ClosedOK'
    BY <1>3, <1>a DEF uv_loop_close, NoActiveReqs, LockInv, ClosedOK, WqOwner
  <2> QED
    BY <2>1, <2>2, <2>3 DEF LockInv
<1> QED
  BY <1>1, <1>2, <1>3 DEF Call

\* A worker locks and unlocks the wq_mutex of its request's loop.
LEMMA WorkerLockInv ==
  ASSUME IInv, PlaceInv, LockInv, NEW t \in Workers, worker(t) \/ SpuriousWake(t)
  PROVE  LockInv'
<1> USE DEF LoopAt, LoopGoto, Return, Continue, WorkerGoto, poolVars, initVars,
           reqVars, loopVars, callVars
<1>a. /\ lpc \in [Loops -> LoopPcs] /\ wq_mutex \in [Loops -> Threads \cup {NoThread}]
      /\ LoopOf \in [Reqs -> Loops]
      /\ wpc \in [Workers -> WorkerPcs] /\ cur \in [Workers -> Reqs \cup {NoReq}]
      /\ Loops \cap Workers = {} /\ NoThread \notin Loops \cup Workers
      /\ \A w \in Workers : wpc[w] \in Holds => cur[w] \in Reqs
  BY ConstantsAssumption DEF IInv, TypeOK, CurOK, Threads
<1>1. CASE WorkerLock(t)
  <2>1. WqOwner'
    BY <1>1, <1>a DEF WorkerLock, LockInv, WqOwner, Holds
  <2>2. CurNone'
    BY <1>1, <1>a DEF WorkerLock, LockInv, CurNone, Holds
  <2>3. ClosedOK'
    BY <1>1, <1>a DEF WorkerLock, LockInv, ClosedOK, Holds
  <2> QED
    BY <2>1, <2>2, <2>3 DEF LockInv
<1>2. CASE WorkerWait(t)
  <2>1. WqOwner'
    BY <1>2, <1>a DEF WorkerWait, LockInv, WqOwner, Holds
  <2>2. CurNone'
    BY <1>2, <1>a DEF WorkerWait, LockInv, CurNone, Holds
  <2>3. ClosedOK'
    BY <1>2, <1>a DEF WorkerWait, LockInv, ClosedOK, Holds
  <2> QED
    BY <2>1, <2>2, <2>3 DEF LockInv
<1>3. CASE WorkerWake(t)
  <2>1. WqOwner'
    BY <1>3, <1>a DEF WorkerWake, LockInv, WqOwner, Holds
  <2>2. CurNone'
    BY <1>3, <1>a DEF WorkerWake, LockInv, CurNone, Holds
  <2>3. ClosedOK'
    BY <1>3, <1>a DEF WorkerWake, LockInv, ClosedOK, Holds
  <2> QED
    BY <2>1, <2>2, <2>3 DEF LockInv
<1>4. CASE WorkerTake(t)
  <2>1. WqOwner'
    BY <1>4, <1>a DEF WorkerTake, LockInv, WqOwner, Holds
  <2>2. CurNone'
    BY <1>4, <1>a DEF WorkerTake, LockInv, CurNone, Holds
  <2>3. ClosedOK'
    BY <1>4, <1>a DEF WorkerTake, LockInv, ClosedOK, Holds
  <2> QED
    BY <2>1, <2>2, <2>3 DEF LockInv
<1>5. CASE WorkerExit(t)
  <2>1. WqOwner'
    BY <1>5, <1>a DEF WorkerExit, LockInv, WqOwner, Holds, CondSignal, Waiting
  <2>2. CurNone'
    BY <1>5, <1>a DEF WorkerExit, LockInv, CurNone, Holds, CondSignal, Waiting
  <2>3. ClosedOK'
    BY <1>5, <1>a DEF WorkerExit, LockInv, ClosedOK, Holds, CondSignal, Waiting
  <2> QED
    BY <2>1, <2>2, <2>3 DEF LockInv
<1>6. CASE WorkerWork(t)
  <2>1. WqOwner'
    BY <1>6, <1>a DEF WorkerWork, LockInv, WqOwner, Holds
  <2>2. CurNone'
    BY <1>6, <1>a DEF WorkerWork, LockInv, CurNone, Holds
  <2>3. ClosedOK'
    BY <1>6, <1>a DEF WorkerWork, LockInv, ClosedOK, Holds
  <2> QED
    BY <2>1, <2>2, <2>3 DEF LockInv
<1>7. CASE WorkerDoneLock(t)
  <2>1. WqOwner'
    BY <1>7, <1>a DEF WorkerDoneLock, LockInv, WqOwner, Holds
  <2>2. CurNone'
    BY <1>7, <1>a DEF WorkerDoneLock, LockInv, CurNone, Holds
  <2>3. ClosedOK'
    BY <1>7, <1>a DEF WorkerDoneLock, LockInv, ClosedOK, Holds
  <2> QED
    BY <2>1, <2>2, <2>3 DEF LockInv
<1>8. CASE WorkerDone(t)
  <2>1. WqOwner'
    BY <1>8, <1>a DEF WorkerDone, LockInv, WqOwner, Holds
  <2>2. CurNone'
    BY <1>8, <1>a DEF WorkerDone, LockInv, CurNone, Holds
  <2>3. ClosedOK'
    <3>1. cur[t] \in active_reqs /\ cur[t] \in Reqs
      BY <1>8, <1>a DEF WorkerDone, PlaceInv, HeldOK, Handling, Holds
    <3>2. lpc[LoopOf[cur[t]]] # "closed"
      BY <1>a, <3>1 DEF LockInv, ClosedOK
    <3>3. \A u \in Workers : wpc'[u] = "async_post" =>
            cur'[u] = cur[u] /\ (wpc[u] = "async_post" \/ u = t)
      BY <1>8, <1>a DEF WorkerDone
    <3>4. lpc' = lpc /\ active_reqs' = active_reqs
      BY <1>8 DEF WorkerDone
    <3> QED
      BY <3>2, <3>3, <3>4 DEF LockInv, ClosedOK
  <2> QED
    BY <2>1, <2>2, <2>3 DEF LockInv
<1>9. CASE WorkerAsyncPost(t)
  <2>1. WqOwner'
    BY <1>9, <1>a DEF WorkerAsyncPost, LockInv, WqOwner, Holds
  <2>2. CurNone'
    BY <1>9, <1>a DEF WorkerAsyncPost, LockInv, CurNone, Holds
  <2>3. ClosedOK'
    BY <1>9, <1>a DEF WorkerAsyncPost, LockInv, ClosedOK, Holds
  <2> QED
    BY <2>1, <2>2, <2>3 DEF LockInv
<1>10. CASE SpuriousWake(t)
  <2>1. WqOwner'
    BY <1>10, <1>a DEF SpuriousWake, LockInv, WqOwner, Holds
  <2>2. CurNone'
    BY <1>10, <1>a DEF SpuriousWake, LockInv, CurNone, Holds
  <2>3. ClosedOK'
    BY <1>10, <1>a DEF SpuriousWake, LockInv, ClosedOK, Holds
  <2> QED
    BY <2>1, <2>2, <2>3 DEF LockInv
<1> QED
  BY <1>1, <1>2, <1>3, <1>4, <1>5, <1>6, <1>7, <1>8, <1>9, <1>10 DEF worker

\* cleanup() and stuttering.
LEMMA CleanupLockInv ==
  ASSUME IInv, PlaceInv, LockInv, CleanupStart \/ cleanup \/ UNCHANGED vars
  PROVE  LockInv'
<1> USE DEF LoopAt, LoopGoto, Return, Continue, WorkerGoto, poolVars, initVars,
           reqVars, loopVars, callVars
<1>a. /\ lpc \in [Loops -> LoopPcs] /\ wq_mutex \in [Loops -> Threads \cup {NoThread}]
      /\ LoopOf \in [Reqs -> Loops]
      /\ wpc \in [Workers -> WorkerPcs] /\ cur \in [Workers -> Reqs \cup {NoReq}]
      /\ Loops \cap Workers = {} /\ NoThread \notin Loops \cup Workers
      /\ \A t \in Workers : wpc[t] \in Holds => cur[t] \in Reqs
  BY ConstantsAssumption DEF IInv, TypeOK, CurOK, Threads
<1>1. CASE CleanupStart
  <2>1. WqOwner'
    BY <1>1, <1>a DEF CleanupStart, LockInv, WqOwner, Holds
  <2>2. CurNone'
    BY <1>1, <1>a DEF CleanupStart, LockInv, CurNone, Holds
  <2>3. ClosedOK'
    BY <1>1, <1>a DEF CleanupStart, LockInv, ClosedOK, Holds
  <2> QED
    BY <2>1, <2>2, <2>3 DEF LockInv
<1>2. CASE CleanupLock
  <2>1. WqOwner'
    BY <1>2, <1>a DEF CleanupLock, LockInv, WqOwner, Holds
  <2>2. CurNone'
    BY <1>2, <1>a DEF CleanupLock, LockInv, CurNone, Holds
  <2>3. ClosedOK'
    BY <1>2, <1>a DEF CleanupLock, LockInv, ClosedOK, Holds
  <2> QED
    BY <2>1, <2>2, <2>3 DEF LockInv
<1>3. CASE CleanupPost
  <2>1. WqOwner'
    BY <1>3, <1>a DEF CleanupPost, LockInv, WqOwner, Holds, PostBody, CondSignal, Waiting
  <2>2. CurNone'
    BY <1>3, <1>a DEF CleanupPost, LockInv, CurNone, Holds, PostBody, CondSignal, Waiting
  <2>3. ClosedOK'
    BY <1>3, <1>a DEF CleanupPost, LockInv, ClosedOK, Holds, PostBody, CondSignal, Waiting
  <2> QED
    BY <2>1, <2>2, <2>3 DEF LockInv
<1>4. CASE CleanupJoin
  <2>1. WqOwner'
    BY <1>4, <1>a DEF CleanupJoin, LockInv, WqOwner, Holds
  <2>2. CurNone'
    BY <1>4, <1>a DEF CleanupJoin, LockInv, CurNone, Holds
  <2>3. ClosedOK'
    BY <1>4, <1>a DEF CleanupJoin, LockInv, ClosedOK, Holds
  <2> QED
    BY <2>1, <2>2, <2>3 DEF LockInv
<1>5. CASE UNCHANGED vars
  <2>1. WqOwner'
    BY <1>5, <1>a DEF vars, LockInv, WqOwner, Holds
  <2>2. CurNone'
    BY <1>5, <1>a DEF vars, LockInv, CurNone, Holds
  <2>3. ClosedOK'
    BY <1>5, <1>a DEF vars, LockInv, ClosedOK, Holds
  <2> QED
    BY <2>1, <2>2, <2>3 DEF LockInv
<1> QED
  BY <1>1, <1>2, <1>3, <1>4, <1>5 DEF cleanup

\* Every step keeps the pool's invariant.
LEMMA NextPoolInv == PoolInv /\ [Next]_vars => PoolInv'
<1> SUFFICES ASSUME PoolInv, [Next]_vars PROVE PoolInv'
  OBVIOUS
<1>0. IInv /\ PlaceInv /\ LockInv
  BY DEF PoolInv
<1>1. IInv' /\ PlaceInv'
  BY <1>0, NextIInv, NextPlace
<1>2. LockInv'
  <2>1. CASE \E l \in Loops : Call(l) \/ LoopStep(l) \/ uv_loop_close(l)
    BY <1>0, <2>1, LoopStepLock, CallLock
  <2>2. CASE \E t \in Workers : worker(t) \/ SpuriousWake(t)
    BY <1>0, <2>2, WorkerLockInv
  <2>3. CASE CleanupStart \/ cleanup \/ UNCHANGED vars
    BY <1>0, <2>3, CleanupLockInv
  <2> QED
    BY <2>1, <2>2, <2>3 DEF Next
<1> QED
  BY <1>1, <1>2 DEF PoolInv

\* The pool's invariant holds in every state.
LEMMA PoolInvariant == Spec => []PoolInv
<1>1. Init => PoolInv
  BY InitIInv, InitPlace, InitLock DEF PoolInv
<1> QED
  BY <1>1, NextPoolInv, PTL DEF Spec

-----------------------------------------------------------------------------
(* Wake-ups.                                                               *)

\* No step leaves results behind that nobody was told of.
LEMMA AnnouncedStep ==
  PoolInv /\ ResultsAnnounced /\ [Next]_vars => ResultsAnnounced'
<1> SUFFICES ASSUME PoolInv, ResultsAnnounced, [Next]_vars PROVE ResultsAnnounced'
  OBVIOUS
<1> USE DEF LoopAt, LoopGoto, Return, Continue, WorkerGoto, poolVars, initVars,
           reqVars, loopVars, callVars
<1>a. /\ lpc \in [Loops -> LoopPcs] /\ async_sent \in [Loops -> BOOLEAN]
      /\ loop_wq \in [Loops -> Seq(Reqs)]
      /\ LoopOf \in [Reqs -> Loops]
      /\ \A t \in Workers : wpc[t] \in Holds => cur[t] \in Reqs
  BY ConstantsAssumption DEF PoolInv, IInv, TypeOK, CurOK
<1>b. ASSUME loop_wq' = loop_wq, async_sent' = async_sent,
             \A k \in Loops : lpc[k] \in {"done_lock", "done_move"} =>
                             lpc'[k] \in {"done_lock", "done_move"}
      PROVE  ResultsAnnounced'
  BY <1>b DEF ResultsAnnounced
<1>1. ASSUME NEW l \in Loops, LoopStep(l) PROVE ResultsAnnounced'
  <2>1. CASE PostLock(l) \/ post(l) \/ CancelLock(l) \/ CancelWqLock(l)
    BY <1>a, <1>b, <2>1 DEF PostLock, post, CancelLock, CancelWqLock
  <2>2. CASE uv__work_cancel(l)
    <3>1. \A k \in Loops : lpc[k] \in {"done_lock", "done_move"} => lpc'[k] = lpc[k]
      BY <1>a, <2>2 DEF uv__work_cancel
    <3>2. \A k \in Loops : loop_wq[k] = <<>> => loop_wq'[k] = <<>>
      <4>1. Range(<<>>) = {}
        BY DEF Range
      <4>2. \A r : Without(<<>>, r) = <<>>
        BY <4>1 DEF Without
      <4> QED
        BY <1>a, <2>2, <4>2 DEF uv__work_cancel
    <3> QED
      BY <2>2, <3>1, <3>2 DEF uv__work_cancel, ResultsAnnounced
  <2>3. CASE MarkCancelled(l) \/ InsertLock(l) \/ LoopAsyncPost(l) \/ uv_poll(l)
    BY <1>a, <1>b, <2>3 DEF MarkCancelled, InsertLock, LoopAsyncPost, uv_poll
  <2>4. CASE InsertCancelled(l)
    BY <1>a, <2>4 DEF InsertCancelled, AsyncExchange, ResultsAnnounced
  <2>5. CASE uv_process_async_wakeup_req(l)
    BY <1>a, <2>5 DEF uv_process_async_wakeup_req, ClearSent, ResultsAnnounced
  <2>6. CASE WorkDoneLock(l)
    BY <1>a, <1>b, <2>6 DEF WorkDoneLock
  <2>7. CASE WorkDoneMove(l)
    BY <1>a, <2>7 DEF WorkDoneMove, ResultsAnnounced
  <2>8. CASE uv__queue_done(l) \/ WorkDoneReturn(l)
    BY <1>a, <1>b, <2>8 DEF uv__queue_done, WorkDoneReturn
  <2> QED
    BY <1>1, <2>1, <2>2, <2>3, <2>4, <2>5, <2>6, <2>7, <2>8 DEF LoopStep
<1>2. ASSUME NEW l \in Loops, Call(l) \/ uv_loop_close(l) PROVE ResultsAnnounced'
  BY <1>2, <1>a, <1>b DEF Call, uv_queue_work, uv_cancel, uv_loop_close, Between
<1>3. ASSUME NEW t \in Workers, worker(t) \/ SpuriousWake(t) PROVE ResultsAnnounced'
  <2>1. CASE WorkerDone(t)
    <3>1. LoopOf[cur[t]] \in Loops
      BY <1>a, <2>1 DEF WorkerDone, Holds
    <3> QED
      BY <1>a, <2>1, <3>1 DEF WorkerDone, AsyncExchange, ResultsAnnounced
  <2>2. CASE ~WorkerDone(t)
    BY <1>3, <1>b, <2>2
       DEF worker, WorkerLock, WorkerWait, WorkerWake, WorkerTake, WorkerExit,
           WorkerWork, WorkerDoneLock, WorkerAsyncPost, SpuriousWake
  <2> QED
    BY <2>1, <2>2
<1>4. CASE CleanupStart \/ cleanup \/ UNCHANGED vars
  BY <1>4, <1>b DEF CleanupStart, cleanup, CleanupLock, CleanupPost, CleanupJoin, vars
<1> QED
  BY <1>1, <1>2, <1>3, <1>4 DEF Next

-----------------------------------------------------------------------------
(* The one request of wq_async.                                            *)

One(b) == IF b THEN 1 ELSE 0

\* OnePacket, with "somebody is posting" for the number of threads that are.
OneWake ==
  \A l \in Loops :
    One(Posting(l) # {}) + iocp[l] + One(pending[l]) = One(async_sent[l])

\* Who posts a wake-up owns the loop's wq_mutex, so that there is one of them.
LEMMA PostingOwner ==
  ASSUME PoolInv, NEW l \in Loops, NEW x \in Posting(l)
  PROVE  wq_mutex[l] = x
BY DEF Posting, PoolInv, LockInv, WqOwner

\* OneWake says as much as OnePacket.
LEMMA OneWakeSuffices == PoolInv /\ OneWake => OnePacket
<1> SUFFICES ASSUME PoolInv, OneWake, NEW l \in Loops
             PROVE  Cardinality(Posting(l)) = One(Posting(l) # {})
  BY Zenon DEF OnePacket, OneWake, One
<1>1. CASE Posting(l) = {}
  BY <1>1, FS_EmptySet DEF One
<1>2. CASE Posting(l) # {}
  <2>1. Posting(l) = {wq_mutex[l]}
    BY <1>2, PostingOwner
  <2> QED
    BY <1>2, <2>1, FS_Singleton DEF One
<1> QED
  BY <1>1, <1>2

\* Every step keeps the request outstanding at most once.
LEMMA OneWakeStep == PoolInv /\ OneWake /\ [Next]_vars => OneWake'
<1> SUFFICES ASSUME PoolInv, OneWake, [Next]_vars PROVE OneWake'
  OBVIOUS
<1> USE DEF LoopAt, LoopGoto, Return, Continue, WorkerGoto, poolVars, initVars,
           reqVars, loopVars, callVars
<1>a. /\ lpc \in [Loops -> LoopPcs] /\ async_sent \in [Loops -> BOOLEAN]
      /\ iocp \in [Loops -> Nat] /\ pending \in [Loops -> BOOLEAN]
      /\ wpc \in [Workers -> WorkerPcs] /\ cur \in [Workers -> Reqs \cup {NoReq}]
      /\ LoopOf \in [Reqs -> Loops] /\ Loops \cap Workers = {}
      /\ \A t \in Workers : wpc[t] \in Holds => cur[t] \in Reqs
  BY ConstantsAssumption DEF PoolInv, IInv, TypeOK, CurOK
<1>b. ASSUME UNCHANGED <<iocp, pending, async_sent>>,
             \A k \in Loops : lpc[k] = "async_post" <=> lpc'[k] = "async_post",
             \A t \in Workers : /\ wpc[t] = "async_post" <=> wpc'[t] = "async_post"
                                /\ wpc[t] = "async_post" => cur'[t] = cur[t]
      PROVE  OneWake'
  <2>1. \A k \in Loops : Posting(k)' = Posting(k)
    BY <1>b DEF Posting
  <2> QED
    BY <1>b, <2>1, Zenon DEF OneWake
<1>1. ASSUME NEW l \in Loops, LoopStep(l) PROVE OneWake'
  <2>1. CASE InsertCancelled(l)
    <3>1. \A k \in Loops : k # l => /\ Posting(k)' = Posting(k)
                                    /\ async_sent'[k] = async_sent[k]
                                    /\ iocp'[k] = iocp[k] /\ pending'[k] = pending[k]
      BY <1>a, <2>1 DEF InsertCancelled, AsyncExchange, Posting
    <3>2. async_sent'[l] = TRUE /\ iocp'[l] = iocp[l] /\ pending'[l] = pending[l]
      BY <1>a, <2>1 DEF InsertCancelled, AsyncExchange
    <3>3. CASE async_sent[l]
      <4>1. Posting(l)' = Posting(l)
        BY <1>a, <2>1, <3>3 DEF InsertCancelled, Posting
      <4> QED
        BY <1>a, <3>1, <3>2, <3>3, <4>1 DEF OneWake, One
    <3>4. CASE ~async_sent[l]
      <4>1. l \in Posting(l)'
        BY <1>a, <2>1, <3>4 DEF InsertCancelled, Posting
      <4>2. Posting(l) = {} /\ iocp[l] = 0 /\ ~pending[l]
        BY <1>a, <3>4 DEF OneWake, One
      <4> QED
        BY <1>a, <3>1, <3>2, <3>4, <4>1, <4>2 DEF OneWake, One
    <3> QED
      BY <3>3, <3>4
  <2>2. CASE LoopAsyncPost(l)
    <3>1. \A k \in Loops : k # l => /\ Posting(k)' = Posting(k)
                                    /\ async_sent'[k] = async_sent[k]
                                    /\ iocp'[k] = iocp[k] /\ pending'[k] = pending[k]
      BY <1>a, <2>2 DEF LoopAsyncPost, Posting
    <3>2. iocp'[l] = iocp[l] + 1 /\ async_sent'[l] = async_sent[l] /\ pending'[l] = pending[l]
      BY <1>a, <2>2 DEF LoopAsyncPost
    <3>3. l \in Posting(l)
      BY <2>2 DEF LoopAsyncPost, Posting
    <3>4. Posting(l)' \subseteq Posting(l) \ {l}
      BY <1>a, <2>2 DEF LoopAsyncPost, Posting
    <3>5. Posting(l)' = {}
      BY <3>3, <3>4, PostingOwner
    <3> QED
      BY <1>a, <3>1, <3>2, <3>3, <3>5 DEF OneWake, One
  <2>3. CASE uv_poll(l)
    <3>1. \A k \in Loops : Posting(k)' = Posting(k)
      BY <2>3 DEF uv_poll, Posting
    <3>2. iocp[l] > 0 /\ iocp' = [iocp EXCEPT ![l] = @ - 1]
          /\ pending' = [pending EXCEPT ![l] = TRUE] /\ async_sent' = async_sent
      BY <2>3 DEF uv_poll
    <3>3. ~pending[l]
      BY <1>a, <3>2 DEF OneWake, One
    <3> QED
      BY <1>a, <3>1, <3>2, <3>3 DEF OneWake, One
  <2>4. CASE uv_process_async_wakeup_req(l)
    <3>1. \A k \in Loops : Posting(k)' = Posting(k)
      BY <1>a, <2>4 DEF uv_process_async_wakeup_req, Between, Posting
    <3>2. pending[l] /\ pending' = [pending EXCEPT ![l] = FALSE] /\ iocp' = iocp
          /\ async_sent' = [async_sent EXCEPT ![l] = FALSE]
      BY <2>4 DEF uv_process_async_wakeup_req, ClearSent
    <3> QED
      BY <1>a, <3>1, <3>2 DEF OneWake, One
  <2>5. CASE PostLock(l) \/ CancelLock(l) \/ CancelWqLock(l) \/ uv__work_cancel(l)
    BY <1>a, <1>b, <2>5 DEF PostLock, CancelLock, CancelWqLock, uv__work_cancel
  <2>6. CASE MarkCancelled(l) \/ InsertLock(l) \/ WorkDoneLock(l) \/ WorkDoneMove(l)
    BY <1>a, <1>b, <2>6 DEF MarkCancelled, InsertLock, WorkDoneLock, WorkDoneMove
  <2>7. CASE uv__queue_done(l) \/ WorkDoneReturn(l)
    BY <1>a, <1>b, <2>7 DEF uv__queue_done, WorkDoneReturn
  <2>8. CASE post(l)
    BY <1>a, <1>b, <2>8 DEF post, PostBody, CondSignal, Waiting
  <2> QED
    BY <1>1, <2>1, <2>2, <2>3, <2>4, <2>5, <2>6, <2>7, <2>8 DEF LoopStep
<1>2. ASSUME NEW l \in Loops, Call(l) \/ uv_loop_close(l) PROVE OneWake'
  <2>1. ASSUME NEW r \in Reqs, uv_queue_work(l, r) PROVE OneWake'
    <3>1. \A t \in Workers : wpc[t] = "async_post" <=> wpc'[t] = "async_post"
      BY <2>1 DEF uv_queue_work, init_once, PoolInv, IInv, InitOK
    <3> QED
      BY <1>a, <1>b, <2>1, <3>1 DEF uv_queue_work
  <2>2. ASSUME NEW r \in Reqs, uv_cancel(l, r) PROVE OneWake'
    BY <1>a, <1>b, <2>2 DEF uv_cancel
  <2>3. CASE uv_loop_close(l)
    BY <1>a, <1>b, <2>3 DEF uv_loop_close, Between
  <2> QED
    BY <1>2, <2>1, <2>2, <2>3 DEF Call
<1>3. ASSUME NEW t \in Workers, worker(t) \/ SpuriousWake(t) PROVE OneWake'
  <2>1. CASE WorkerDone(t)
    <3>0. PICK l \in Loops : l = LoopOf[cur[t]]
      BY <1>a, <2>1 DEF WorkerDone, Holds
    <3>1. \A k \in Loops : k # l => /\ Posting(k)' = Posting(k)
                                    /\ async_sent'[k] = async_sent[k]
                                    /\ iocp'[k] = iocp[k] /\ pending'[k] = pending[k]
      BY <1>a, <2>1, <3>0 DEF WorkerDone, AsyncExchange, Posting
    <3>2. async_sent'[l] = TRUE /\ iocp'[l] = iocp[l] /\ pending'[l] = pending[l]
      BY <1>a, <2>1, <3>0 DEF WorkerDone, AsyncExchange
    <3>3. CASE async_sent[l]
      <4>1. Posting(l)' = Posting(l)
        BY <1>a, <2>1, <3>0, <3>3 DEF WorkerDone, Posting
      <4> QED
        BY <1>a, <3>1, <3>2, <3>3, <4>1 DEF OneWake, One
    <3>4. CASE ~async_sent[l]
      <4>1. t \in Posting(l)'
        BY <1>a, <2>1, <3>0, <3>4 DEF WorkerDone, Posting
      <4>2. Posting(l) = {} /\ iocp[l] = 0 /\ ~pending[l]
        BY <1>a, <3>4 DEF OneWake, One
      <4> QED
        BY <1>a, <3>1, <3>2, <3>4, <4>1, <4>2 DEF OneWake, One
    <3> QED
      BY <3>3, <3>4
  <2>2. CASE WorkerAsyncPost(t)
    <3>0. PICK l \in Loops : l = LoopOf[cur[t]]
      BY <1>a, <2>2 DEF WorkerAsyncPost, Holds
    <3>1. \A k \in Loops : k # l => /\ Posting(k)' = Posting(k)
                                    /\ async_sent'[k] = async_sent[k]
                                    /\ iocp'[k] = iocp[k] /\ pending'[k] = pending[k]
      BY <1>a, <2>2, <3>0 DEF WorkerAsyncPost, Posting
    <3>2. iocp'[l] = iocp[l] + 1 /\ async_sent'[l] = async_sent[l] /\ pending'[l] = pending[l]
      BY <1>a, <2>2, <3>0 DEF WorkerAsyncPost
    <3>3. t \in Posting(l)
      BY <2>2, <3>0 DEF WorkerAsyncPost, Posting
    <3>4. Posting(l)' \subseteq Posting(l) \ {t}
      BY <1>a, <2>2, <3>0 DEF WorkerAsyncPost, Posting
    <3>5. Posting(l)' = {}
      BY <3>3, <3>4, PostingOwner
    <3> QED
      BY <1>a, <3>1, <3>2, <3>3, <3>5 DEF OneWake, One
  <2>3. CASE WorkerExit(t)
    BY <1>a, <1>b, <2>3 DEF WorkerExit, CondSignal, Waiting
  <2>4. CASE WorkerLock(t) \/ WorkerWait(t) \/ WorkerWake(t) \/ SpuriousWake(t)
    BY <1>a, <1>b, <2>4 DEF WorkerLock, WorkerWait, WorkerWake, SpuriousWake
  <2>5. CASE WorkerTake(t) \/ WorkerWork(t) \/ WorkerDoneLock(t)
    BY <1>a, <1>b, <2>5 DEF WorkerTake, WorkerWork, WorkerDoneLock
  <2> QED
    BY <1>3, <2>1, <2>2, <2>3, <2>4, <2>5 DEF worker
<1>4. CASE CleanupStart \/ cleanup \/ UNCHANGED vars
  BY <1>a, <1>4, <1>b DEF CleanupStart, cleanup, CleanupLock, CleanupPost, CleanupJoin, vars,
                          PostBody, CondSignal, Waiting
<1> QED
  BY <1>1, <1>2, <1>3, <1>4 DEF Next

-----------------------------------------------------------------------------
(* Nobody sleeps while there is work.                                      *)

\* More workers look at the queue, or as many, and nothing was queued.
LEMMA ConservingFrame ==
  ASSUME PoolInv, WorkConserving, Len(wq') <= Len(wq), wq' \in Seq(Items),
         Waiting' \subseteq Waiting, Looking \subseteq Looking', Looking' \subseteq Workers
  PROVE  WorkConserving'
<1>1. Waiting' # {} => Len(wq) <= Cardinality(Looking)
  BY DEF WorkConserving
<1>2. IsFiniteSet(Looking') /\ Cardinality(Looking) <= Cardinality(Looking')
  BY WorkersFinite, FS_Subset
<1>3. Cardinality(Looking) \in Nat /\ Cardinality(Looking') \in Nat
  BY <1>2, FS_Subset, FS_CardinalityType
<1>4. Len(wq) \in Nat /\ Len(wq') \in Nat
  BY LenProperties DEF PoolInv, IInv, TypeOK
<1> QED
  BY <1>1, <1>2, <1>3, <1>4 DEF WorkConserving

\* post() appends one node and, if anybody sleeps, wakes one worker.
LEMMA ConservingPost ==
  ASSUME PoolInv, WorkConserving, NEW q \in Items, PostBody(q)
  PROVE  WorkConserving'
<1>1. /\ wq \in Seq(Items) /\ wpc \in [Workers -> WorkerPcs] /\ IdleCount
  BY DEF PoolInv, IInv, TypeOK
<1>2. Len(wq') = Len(wq) + 1 /\ Len(wq) \in Nat
  BY <1>1, AppendProperties, LenProperties DEF PostBody
<1>3. IsFiniteSet(Looking) /\ Cardinality(Looking) \in Nat
  BY WorkersFinite, FS_Subset, FS_CardinalityType DEF Looking
<1>4. CASE Waiting = {}
  <2>1. wpc' = wpc
    BY <1>4 DEF PostBody, CondSignal
  <2> QED
    BY <1>4, <2>1 DEF WorkConserving, Waiting
<1>5. CASE Waiting # {}
  <2>1. idle_threads > 0
    <3>1. IsFiniteSet(Idle) /\ Idle # {}
      BY <1>5, WorkersFinite, FS_Subset DEF Idle, Waiting
    <3> QED
      BY <1>1, <3>1, FS_EmptySet, FS_CardinalityType DEF IdleCount
  <2>2. PICK t \in Waiting : wpc' = [wpc EXCEPT ![t] = "wake"]
    BY <1>5, <2>1 DEF PostBody, CondSignal
  <2>3. t \notin Looking /\ Looking' = Looking \cup {t}
    BY <1>1, <2>2 DEF Waiting, Looking
  <2>4. Cardinality(Looking') = Cardinality(Looking) + 1
    BY <1>3, <2>3, FS_AddElement
  <2> QED
    BY <1>2, <1>3, <1>5, <2>4 DEF WorkConserving
<1> QED
  BY <1>4, <1>5

\* Every step conserves work.
LEMMA ConservingStep == PoolInv /\ WorkConserving /\ [Next]_vars => WorkConserving'
<1> SUFFICES ASSUME PoolInv, WorkConserving, [Next]_vars PROVE WorkConserving'
  OBVIOUS
<1> USE DEF LoopAt, LoopGoto, Return, Continue, WorkerGoto, poolVars, initVars,
           reqVars, loopVars, callVars
<1>a. /\ wpc \in [Workers -> WorkerPcs] /\ wq \in Seq(Items) /\ Len(wq) \in Nat
  BY LenProperties DEF PoolInv, IInv, TypeOK
<1>c. IsFiniteSet(Looking) /\ Cardinality(Looking) \in Nat
  BY WorkersFinite, FS_Subset, FS_CardinalityType DEF Looking
<1>b. ASSUME wq' = wq, Waiting' \subseteq Waiting, Looking \subseteq Looking'
      PROVE  WorkConserving'
  BY <1>a, <1>b, ConservingFrame DEF Looking
<1>1. ASSUME NEW l \in Loops, LoopStep(l) PROVE WorkConserving'
  <2>1. CASE post(l)
    <3>1. arg[l] \in Items
      BY <2>1 DEF post, PoolInv, IInv, ArgOK, InCall, Items
    <3> QED
      BY <2>1, <3>1, ConservingPost DEF post
  <2>2. CASE uv__work_cancel(l)
    <3>1. wpc' = wpc /\ wq' \in {wq, Without(wq, arg[l])}
      BY <2>2 DEF uv__work_cancel
    <3>2. Len(wq') <= Len(wq) /\ wq' \in Seq(Items)
      BY <1>a, <3>1, WithoutQueue
    <3> QED
      BY <3>1, <3>2, ConservingFrame DEF Waiting, Looking
  <2>3. CASE ~post(l) /\ ~uv__work_cancel(l)
    <3>1. wq' = wq /\ wpc' = wpc
      BY <1>1, <2>3
         DEF LoopStep, PostLock, CancelLock, CancelWqLock, MarkCancelled, InsertLock,
             InsertCancelled, LoopAsyncPost, uv_poll, uv_process_async_wakeup_req,
             WorkDoneLock, WorkDoneMove, uv__queue_done, WorkDoneReturn
    <3> QED
      BY <1>b, <3>1 DEF Waiting, Looking
  <2> QED
    BY <2>1, <2>2, <2>3
<1>2. ASSUME NEW l \in Loops, Call(l) \/ uv_loop_close(l) PROVE WorkConserving'
  <2>1. wq' = wq /\ (wpc' = wpc \/ \A t \in Workers : wpc[t] = "none" /\ wpc'[t] # "wait")
    BY <1>2 DEF Call, uv_queue_work, init_once, uv_cancel, uv_loop_close, Between,
                PoolInv, IInv, InitOK
  <2> QED
    BY <1>b, <2>1 DEF Waiting, Looking
<1>3. ASSUME NEW t \in Workers, worker(t) \/ SpuriousWake(t) PROVE WorkConserving'
  <2>1. CASE WorkerWait(t)
    <3>1. Len(wq') = 0
      BY <2>1, EmptySeq DEF WorkerWait
    <3>2. Looking' \subseteq Workers
      BY DEF Looking
    <3>3. Cardinality(Looking') \in Nat
      BY <3>2, WorkersFinite, FS_Subset, FS_CardinalityType
    <3> QED
      BY <3>1, <3>3 DEF WorkConserving
  <2>2. CASE WorkerTake(t)
    <3>1. Len(wq') = Len(wq) - 1
      BY <1>a, <2>2, HeadTailProperties DEF WorkerTake
    <3>2. t \in Looking /\ Looking' = Looking \ {t} /\ Waiting' = Waiting
      BY <1>a, <2>2 DEF WorkerTake, Looking, Waiting
    <3>3. Cardinality(Looking') = Cardinality(Looking) - 1
      BY <1>c, <3>2, FS_RemoveElement
    <3> QED
      BY <1>a, <1>c, <3>1, <3>2, <3>3 DEF WorkConserving
  <2>3. CASE WorkerExit(t)
    <3>0. t \in Looking /\ t \notin Waiting
      BY <2>3 DEF WorkerExit, Looking, Waiting
    <3>1. CASE Waiting = {}
      BY <1>a, <2>3, <3>1 DEF WorkerExit, CondSignal, WorkConserving, Waiting
    <3>2. CASE Waiting # {}
      <4>1. PICK u \in Waiting : wpc' = [[wpc EXCEPT ![t] = "exited"] EXCEPT ![u] = "wake"]
        BY <2>3, <3>2 DEF WorkerExit, CondSignal
      <4>2. u # t /\ u \notin Looking /\ Looking' = (Looking \ {t}) \cup {u}
        BY <1>a, <3>0, <4>1 DEF Waiting, Looking
      <4>3. Cardinality(Looking') = Cardinality(Looking)
        <5>1. /\ IsFiniteSet(Looking \ {t})
              /\ Cardinality(Looking \ {t}) = Cardinality(Looking) - 1
          BY <1>c, <3>0, FS_RemoveElement
        <5>2. Cardinality((Looking \ {t}) \cup {u}) = Cardinality(Looking \ {t}) + 1
          BY <4>2, <5>1, FS_AddElement
        <5> QED
          BY <1>c, <4>2, <5>1, <5>2
      <4> QED
        BY <2>3, <3>2, <4>3 DEF WorkerExit, WorkConserving
    <3> QED
      BY <3>1, <3>2
  <2>4. CASE WorkerLock(t) \/ WorkerWake(t) \/ SpuriousWake(t)
    BY <1>a, <1>b, <2>4 DEF WorkerLock, WorkerWake, SpuriousWake, Waiting, Looking
  <2>5. CASE WorkerWork(t) \/ WorkerDoneLock(t) \/ WorkerDone(t) \/ WorkerAsyncPost(t)
    BY <1>a, <1>b, <2>5
       DEF WorkerWork, WorkerDoneLock, WorkerDone, WorkerAsyncPost, Waiting, Looking
  <2> QED
    BY <1>3, <2>1, <2>2, <2>3, <2>4, <2>5 DEF worker
<1>4. CASE CleanupPost
  BY <1>4, ConservingPost DEF CleanupPost, Items
<1>5. CASE CleanupStart \/ CleanupLock \/ CleanupJoin \/ UNCHANGED vars
  BY <1>5, <1>b DEF CleanupStart, CleanupLock, CleanupJoin, vars, Waiting, Looking
<1> QED
  BY <1>1, <1>2, <1>3, <1>4, <1>5 DEF Next, cleanup

-----------------------------------------------------------------------------
(* The pool implements WorkPool: steps.                                    *)

\* The call of the request's loop that makes it "free" or "cancelled".
Posted(r) == arg[LoopOf[r]] = r /\ lpc[LoopOf[r]] \in {"post_lock", "post"}
Unlinked(r) == arg[LoopOf[r]] = r /\ lpc[LoopOf[r]] = "cancelled"
Held(r) == \E t \in Workers : cur[t] = r /\ wpc[t] \in Handling

\* Phase in these terms.
LEMMA PhaseCases ==
  ASSUME NEW r \in Reqs
  PROVE  Phase(r) = IF r \notin active_reqs \/ Posted(r) THEN "free"
                    ELSE IF Held(r) THEN "running"
                    ELSE IF work[r] = "NULL" THEN "finished"
                    ELSE IF work[r] = "uv__cancelled" \/ Unlinked(r) THEN "cancelled"
                    ELSE "queued"
<1>1. HeldBy(r) # {} <=> Held(r)
  BY DEF HeldBy, Held, Handling
<1>2. Phase(r) = IF r \notin active_reqs \/ Posted(r) THEN "free"
                 ELSE IF HeldBy(r) # {} THEN "running"
                 ELSE IF work[r] = "NULL" THEN "finished"
                 ELSE IF work[r] = "uv__cancelled" \/ Unlinked(r) THEN "cancelled"
                 ELSE "queued"
  BY DEF Phase, Posted, Unlinked
<1> QED
  BY <1>1, <1>2

\* The same for the state after a step.
LEMMA PhaseCasesNext ==
  ASSUME NEW r \in Reqs
  PROVE  Phase(r)' = IF r \notin active_reqs' \/ Posted(r)' THEN "free"
                     ELSE IF Held(r)' THEN "running"
                     ELSE IF work'[r] = "NULL" THEN "finished"
                     ELSE IF work'[r] = "uv__cancelled" \/ Unlinked(r)' THEN "cancelled"
                     ELSE "queued"
<1>1. HeldBy(r)' # {} <=> Held(r)'
  BY DEF HeldBy, Held, Handling
<1>2. Phase(r)' = IF r \notin active_reqs' \/ Posted(r)' THEN "free"
                  ELSE IF HeldBy(r)' # {} THEN "running"
                  ELSE IF work'[r] = "NULL" THEN "finished"
                  ELSE IF work'[r] = "uv__cancelled" \/ Unlinked(r)' THEN "cancelled"
                  ELSE "queued"
  BY DEF Phase, Posted, Unlinked
<1> QED
  BY <1>1, <1>2

\* What Phase looks at stays as it is.
Same(r) ==
  /\ r \in active_reqs' <=> r \in active_reqs
  /\ work'[r] = work[r]
  /\ Posted(r)' <=> Posted(r)
  /\ Unlinked(r)' <=> Unlinked(r)
  /\ Held(r)' <=> Held(r)

LEMMA SamePhase == ASSUME NEW r \in Reqs, Same(r) PROVE Phase(r)' = Phase(r)
  BY PhaseCases, PhaseCasesNext DEF Same

\* A step that changes no phase and no result is a stutter of WorkPool.
LEMMA Stutters ==
  ASSUME \A r \in Reqs : Phase(r)' = Phase(r), result' = result
  PROVE  UNCHANGED Abstract!vars
BY DEF Abstract!vars

\* A step that changes the phase of one request.
LEMMA Becomes ==
  ASSUME NEW r \in Reqs, NEW to, Phase(r)' = to,
         \A x \in Reqs : x # r => Phase(x)' = Phase(x)
  PROVE  Abstract!Become(r, Phase(r), to)
BY DEF Abstract!Become

\* The initial states are WorkPool's.
LEMMA InitMaps == Init => Abstract!Init
<1> SUFFICES ASSUME Init PROVE Abstract!Init
  OBVIOUS
<1>1. \A r \in Reqs : Phase(r) = "free"
  BY PhaseCases DEF Init
<1> QED
  BY <1>1 DEF Init, Abstract!Init

\* The steps of a loop's thread that are none of WorkPool's.
LEMMA LoopStutters ==
  ASSUME PoolInv, NEW l \in Loops,
         \/ PostLock(l) \/ CancelLock(l) \/ CancelWqLock(l) \/ InsertLock(l)
         \/ InsertCancelled(l) \/ LoopAsyncPost(l) \/ uv_poll(l)
         \/ uv_process_async_wakeup_req(l) \/ WorkDoneLock(l) \/ WorkDoneMove(l)
         \/ WorkDoneReturn(l) \/ uv_loop_close(l)
         \/ \E r \in Reqs : uv_cancel(l, r)
  PROVE  [Abstract!Next]_Abstract!vars
<1> USE DEF LoopAt, LoopGoto, Return, Continue, WorkerGoto, poolVars, initVars,
           reqVars, loopVars, callVars
<1>a. /\ lpc \in [Loops -> LoopPcs] /\ arg \in [Loops -> Reqs \cup {NoReq}]
      /\ LoopOf \in [Reqs -> Loops]
      /\ wpc \in [Workers -> WorkerPcs] /\ cur \in [Workers -> Reqs \cup {NoReq}]
      /\ work \in [Reqs -> {"NULL", "uv__queue_work", "uv__cancelled"}]
      /\ \A t \in Workers : wpc[t] \in Holds => cur[t] \in Reqs
      /\ IInv /\ PlaceInv /\ LockInv
  BY ConstantsAssumption DEF PoolInv, IInv, TypeOK, CurOK
<1>1. UNCHANGED <<active_reqs, work, cur, wpc, result>>
  BY DEF PostLock, CancelLock, CancelWqLock, InsertLock, InsertCancelled, LoopAsyncPost,
         uv_poll, uv_process_async_wakeup_req, WorkDoneLock, WorkDoneMove, WorkDoneReturn,
         uv_loop_close, uv_cancel, Between
<1>2. ASSUME NEW r \in Reqs PROVE (Posted(r)' <=> Posted(r)) /\ (Unlinked(r)' <=> Unlinked(r))
  <2>1. CASE PostLock(l) \/ CancelLock(l) \/ CancelWqLock(l) \/ InsertLock(l)
    BY <1>a, <2>1 DEF PostLock, CancelLock, CancelWqLock, InsertLock, Posted, Unlinked
  <2>2. CASE InsertCancelled(l)
    BY <1>a, <2>2 DEF InsertCancelled, Posted, Unlinked
  <2>3. CASE LoopAsyncPost(l) \/ uv_poll(l) \/ uv_process_async_wakeup_req(l)
    BY <1>a, <2>3 DEF LoopAsyncPost, uv_poll, uv_process_async_wakeup_req, Between,
                      Posted, Unlinked
  <2>4. CASE WorkDoneLock(l) \/ WorkDoneMove(l) \/ WorkDoneReturn(l)
    BY <1>a, <2>4 DEF WorkDoneLock, WorkDoneMove, WorkDoneReturn, Posted, Unlinked
  <2>5. CASE uv_loop_close(l)
    BY <1>a, <2>5 DEF uv_loop_close, Between, Posted, Unlinked
  <2>6. ASSUME NEW x \in Reqs, uv_cancel(l, x)
        PROVE  (Posted(r)' <=> Posted(r)) /\ (Unlinked(r)' <=> Unlinked(r))
    BY <1>a, <2>6 DEF uv_cancel, Posted, Unlinked
  <2> QED
    BY <2>1, <2>2, <2>3, <2>4, <2>5, <2>6
<1>3. \A r \in Reqs : Same(r)
  BY <1>1, <1>2 DEF Same, Held
<1> QED
  BY <1>1, <1>3, SamePhase, Stutters

\* The steps of a worker, and of cleanup(), that are none of WorkPool's.
LEMMA WorkerStutters ==
  ASSUME PoolInv, 
         \/ CleanupStart \/ cleanup \/ UNCHANGED vars
         \/ \E t \in Workers :
              \/ WorkerLock(t) \/ WorkerWait(t) \/ WorkerWake(t) \/ SpuriousWake(t)
              \/ WorkerExit(t) \/ WorkerWork(t) \/ WorkerDoneLock(t) \/ WorkerAsyncPost(t)
  PROVE  [Abstract!Next]_Abstract!vars
<1> USE DEF LoopAt, LoopGoto, Return, Continue, WorkerGoto, poolVars, initVars,
           reqVars, loopVars, callVars
<1>a. /\ lpc \in [Loops -> LoopPcs] /\ arg \in [Loops -> Reqs \cup {NoReq}]
      /\ LoopOf \in [Reqs -> Loops]
      /\ wpc \in [Workers -> WorkerPcs] /\ cur \in [Workers -> Reqs \cup {NoReq}]
      /\ work \in [Reqs -> {"NULL", "uv__queue_work", "uv__cancelled"}]
      /\ \A t \in Workers : wpc[t] \in Holds => cur[t] \in Reqs
      /\ IInv /\ PlaceInv /\ LockInv
  BY ConstantsAssumption DEF PoolInv, IInv, TypeOK, CurOK
<1>1. UNCHANGED <<active_reqs, work, lpc, arg, result>>
  BY DEF CleanupStart, cleanup, CleanupLock, CleanupPost, CleanupJoin, vars, WorkerLock,
         WorkerWait, WorkerWake, SpuriousWake, WorkerExit, WorkerWork, WorkerDoneLock,
         WorkerAsyncPost
<1>2. \A u \in Workers : /\ wpc'[u] \in Handling <=> wpc[u] \in Handling
                         /\ wpc[u] \in Handling => cur'[u] = cur[u]
  <2>1. CASE CleanupStart \/ cleanup \/ UNCHANGED vars
    BY <1>a, <2>1 DEF CleanupStart, cleanup, CleanupLock, CleanupPost, CleanupJoin, vars,
                      PostBody, CondSignal, Waiting, Handling
  <2>2. ASSUME NEW t \in Workers,
               \/ WorkerLock(t) \/ WorkerWait(t) \/ WorkerWake(t) \/ SpuriousWake(t)
               \/ WorkerWork(t) \/ WorkerDoneLock(t) \/ WorkerAsyncPost(t)
        PROVE  \A u \in Workers : /\ wpc'[u] \in Handling <=> wpc[u] \in Handling
                                  /\ wpc[u] \in Handling => cur'[u] = cur[u]
    BY <1>a, <2>2 DEF WorkerLock, WorkerWait, WorkerWake, SpuriousWake, WorkerWork,
                      WorkerDoneLock, WorkerAsyncPost, Handling
  <2>3. ASSUME NEW t \in Workers, WorkerExit(t)
        PROVE  \A u \in Workers : /\ wpc'[u] \in Handling <=> wpc[u] \in Handling
                                  /\ wpc[u] \in Handling => cur'[u] = cur[u]
    BY <1>a, <2>3 DEF WorkerExit, CondSignal, Waiting, Handling
  <2> QED
    BY <2>1, <2>2, <2>3
<1>3. \A r \in Reqs : Held(r)' <=> Held(r)
  BY <1>2 DEF Held
<1>4. \A r \in Reqs : Same(r)
  BY <1>1, <1>3 DEF Same, Posted, Unlinked
<1> QED
  BY <1>1, <1>4, SamePhase, Stutters

\* Submitting a request registers it; it is queued when post() links it.
LEMMA SubmitMaps ==
  ASSUME PoolInv, NEW l \in Loops, NEW r \in Reqs, uv_queue_work(l, r)
  PROVE  [Abstract!Next]_Abstract!vars
<1> USE DEF LoopAt, LoopGoto, Return, Continue, WorkerGoto, poolVars, initVars,
           reqVars, loopVars, callVars
<1>a. /\ lpc \in [Loops -> LoopPcs] /\ arg \in [Loops -> Reqs \cup {NoReq}]
      /\ LoopOf \in [Reqs -> Loops]
      /\ wpc \in [Workers -> WorkerPcs] /\ cur \in [Workers -> Reqs \cup {NoReq}]
      /\ work \in [Reqs -> {"NULL", "uv__queue_work", "uv__cancelled"}]
      /\ \A t \in Workers : wpc[t] \in Holds => cur[t] \in Reqs
      /\ IInv /\ PlaceInv /\ LockInv
  BY ConstantsAssumption DEF PoolInv, IInv, TypeOK, CurOK
<1>1. /\ r \notin active_reqs /\ LoopOf[r] = l /\ lpc[l] = "user" /\ result' = result
      /\ active_reqs' = active_reqs \cup {r} /\ cur' = cur
      /\ \A x \in Reqs : x # r => work'[x] = work[x]
      /\ lpc' = [lpc EXCEPT ![l] = "post_lock"] /\ arg' = [arg EXCEPT ![l] = r]
  BY <1>a DEF uv_queue_work
<1>2. Phase(r) = "free" /\ Phase(r)' = "free"
  <2>1. Posted(r)'
    BY <1>a, <1>1 DEF Posted
  <2> QED
    BY <1>1, <2>1, PhaseCases, PhaseCasesNext
<1>3. \A t \in Workers : wpc'[t] \in Handling <=> wpc[t] \in Handling
  BY DEF uv_queue_work, init_once, Handling, PoolInv, IInv, InitOK
<1>4. \A x \in Reqs : x # r => Same(x)
  BY <1>a, <1>1, <1>3 DEF Same, Posted, Unlinked, Held
<1> QED
  BY <1>1, <1>2, <1>4, SamePhase, Stutters

\* post() is Submit.
LEMMA PostMaps ==
  ASSUME PoolInv, NEW l \in Loops, post(l)
  PROVE  [Abstract!Next]_Abstract!vars
<1> USE DEF LoopAt, LoopGoto, Return, Continue, WorkerGoto, poolVars, initVars,
           reqVars, loopVars, callVars
<1>a. /\ lpc \in [Loops -> LoopPcs] /\ arg \in [Loops -> Reqs \cup {NoReq}]
      /\ LoopOf \in [Reqs -> Loops]
      /\ wpc \in [Workers -> WorkerPcs] /\ cur \in [Workers -> Reqs \cup {NoReq}]
      /\ work \in [Reqs -> {"NULL", "uv__queue_work", "uv__cancelled"}]
      /\ \A t \in Workers : wpc[t] \in Holds => cur[t] \in Reqs
      /\ IInv /\ PlaceInv /\ LockInv
  BY ConstantsAssumption DEF PoolInv, IInv, TypeOK, CurOK
<1>r. PICK r \in Reqs : r = arg[l] /\ LoopOf[r] = l
  BY <1>a DEF post, IInv, ArgOK, InCall
<1>1. /\ lpc' = [lpc EXCEPT ![l] = "user"] /\ arg' = [arg EXCEPT ![l] = NoReq]
      /\ lpc[l] = "post" /\ UNCHANGED <<active_reqs, work, cur, result>>
      /\ \A t \in Workers : wpc'[t] \in Handling <=> wpc[t] \in Handling
  BY <1>a DEF post, PostBody, CondSignal, Waiting, Handling
<1>2. Phase(r) = "free"
  BY <1>r, <1>1, PhaseCases DEF Posted
<1>3. Phase(r)' = "queued"
  <2>1. r \in active_reqs' /\ work'[r] = "uv__queue_work"
    BY <1>a, <1>r, <1>1 DEF PlaceInv, CallOK, InCall
  <2>2. ~Posted(r)' /\ ~Unlinked(r)'
    BY <1>a, <1>r, <1>1 DEF Posted, Unlinked
  <2>3. ~Held(r)'
    <3>1. Moving(r)
      BY <1>r, <1>1 DEF Moving
    <3> QED
      BY <1>a, <1>1, <3>1 DEF Held, PlaceInv, HeldOK
  <2> QED
    BY <2>1, <2>2, <2>3, PhaseCasesNext
<1>4. \A x \in Reqs : x # r => Same(x)
  BY <1>a, <1>r, <1>1 DEF Same, Posted, Unlinked, Held
<1>5. Abstract!Become(r, "free", "queued")
  BY <1>2, <1>3, <1>4, SamePhase, Becomes
<1> QED
  BY <1>1, <1>5 DEF Abstract!Next, Abstract!Submit

\* Taking a request off the queue is Start.
LEMMA TakeMaps ==
  ASSUME PoolInv, NEW t \in Workers, WorkerTake(t)
  PROVE  [Abstract!Next]_Abstract!vars
<1> USE DEF LoopAt, LoopGoto, Return, Continue, WorkerGoto, poolVars, initVars,
           reqVars, loopVars, callVars
<1>a. /\ lpc \in [Loops -> LoopPcs] /\ arg \in [Loops -> Reqs \cup {NoReq}]
      /\ LoopOf \in [Reqs -> Loops]
      /\ wpc \in [Workers -> WorkerPcs] /\ cur \in [Workers -> Reqs \cup {NoReq}]
      /\ work \in [Reqs -> {"NULL", "uv__queue_work", "uv__cancelled"}]
      /\ \A w \in Workers : wpc[w] \in Holds => cur[w] \in Reqs
      /\ IInv /\ PlaceInv /\ LockInv
  BY ConstantsAssumption DEF PoolInv, IInv, TypeOK, CurOK
<1>r. PICK r \in Reqs : r = Head(wq) /\ r \in Range(wq)
  <2>1. /\ wq \in Seq(Items) /\ wq # <<>> /\ IsInjective(wq) /\ Head(wq) # exit_message
    BY <1>a DEF WorkerTake, IInv, TypeOK, PlaceInv, QueueOK
  <2>2. Head(wq) \in Range(wq) /\ Head(wq) \in Items
    BY <2>1, TailQueue, HeadTailProperties
  <2> QED
    BY <2>1, <2>2 DEF Items
<1>1. /\ cur' = [cur EXCEPT ![t] = r] /\ wpc' = [wpc EXCEPT ![t] = "work"]
      /\ wpc[t] = "head" /\ UNCHANGED <<active_reqs, work, lpc, arg, result>>
  BY <1>r DEF WorkerTake
<1>2. r \in active_reqs /\ work[r] = "uv__queue_work" /\ linked[r] /\ ~Moving(r)
  BY <1>a, <1>r DEF PlaceInv, QueueOK
<1>3. ~Posted(r) /\ ~Unlinked(r)
  BY <1>2 DEF Moving, Posted, Unlinked
<1>4. Phase(r) = "queued"
  <2>1. ~Held(r)
    BY <1>a, <1>2 DEF Held, PlaceInv, HeldOK
  <2> QED
    BY <1>2, <1>3, <2>1, PhaseCases
<1>5. Phase(r)' = "running"
  <2>1. Held(r)'
    BY <1>a, <1>1 DEF Held, Handling
  <2>2. ~Posted(r)' /\ r \in active_reqs'
    BY <1>1, <1>2, <1>3 DEF Posted
  <2> QED
    BY <2>1, <2>2, PhaseCasesNext
<1>6. \A x \in Reqs : x # r => Same(x)
  <2>1. ASSUME NEW x \in Reqs, x # r PROVE Held(x)' <=> Held(x)
    <3>1. \A u \in Workers : u # t => wpc'[u] = wpc[u] /\ cur'[u] = cur[u]
      BY <1>a, <1>1
    <3>2. wpc[t] \notin Handling /\ cur'[t] = r
      BY <1>a, <1>1 DEF Handling
    <3> QED
      BY <2>1, <3>1, <3>2 DEF Held
  <2> QED
    BY <1>1, <2>1 DEF Same, Posted, Unlinked
<1>7. Abstract!Become(r, "queued", "running")
  BY <1>4, <1>5, <1>6, SamePhase, Becomes
<1> QED
  BY <1>1, <1>7 DEF Abstract!Next, Abstract!Start

\* Handing a request over is Finish.
LEMMA HandOverMaps ==
  ASSUME PoolInv, NEW t \in Workers, WorkerDone(t)
  PROVE  [Abstract!Next]_Abstract!vars
<1> USE DEF LoopAt, LoopGoto, Return, Continue, WorkerGoto, poolVars, initVars,
           reqVars, loopVars, callVars
<1>a. /\ lpc \in [Loops -> LoopPcs] /\ arg \in [Loops -> Reqs \cup {NoReq}]
      /\ LoopOf \in [Reqs -> Loops]
      /\ wpc \in [Workers -> WorkerPcs] /\ cur \in [Workers -> Reqs \cup {NoReq}]
      /\ work \in [Reqs -> {"NULL", "uv__queue_work", "uv__cancelled"}]
      /\ \A w \in Workers : wpc[w] \in Holds => cur[w] \in Reqs
      /\ IInv /\ PlaceInv /\ LockInv
  BY ConstantsAssumption DEF PoolInv, IInv, TypeOK, CurOK
<1>r. PICK r \in Reqs : r = cur[t]
  BY <1>a DEF WorkerDone, Holds
<1>1. /\ wpc[t] = "done" /\ UNCHANGED <<active_reqs, lpc, arg, result>>
      /\ work' = [work EXCEPT ![r] = "NULL"]
      /\ wpc'[t] \notin Handling
      /\ \A u \in Workers : u # t => wpc'[u] = wpc[u] /\ cur'[u] = cur[u]
  BY <1>a, <1>r DEF WorkerDone, Handling
<1>2. r \in active_reqs /\ ~Moving(r) /\ wpc[t] \in Handling
  BY <1>a, <1>r, <1>1 DEF PlaceInv, HeldOK, Handling
<1>3. ~Posted(r)
  BY <1>2 DEF Moving, Posted
<1>4. Phase(r) = "running"
  <2>1. Held(r)
    BY <1>r, <1>2 DEF Held
  <2> QED
    BY <1>2, <1>3, <2>1, PhaseCases
<1>5. Phase(r)' = "finished"
  <2>1. ~Held(r)'
    BY <1>a, <1>r, <1>1, <1>2 DEF Held, PlaceInv, HeldOK
  <2>2. ~Posted(r)' /\ r \in active_reqs' /\ work'[r] = "NULL"
    BY <1>a, <1>1, <1>2, <1>3 DEF Posted
  <2> QED
    BY <2>1, <2>2, PhaseCasesNext
<1>6. \A x \in Reqs : x # r => Same(x)
  <2>1. ASSUME NEW x \in Reqs, x # r PROVE Held(x)' <=> Held(x)
    BY <1>r, <1>1, <2>1 DEF Held
  <2>2. \A x \in Reqs : x # r => work'[x] = work[x]
    BY <1>a, <1>1
  <2> QED
    BY <1>1, <2>1, <2>2 DEF Same, Posted, Unlinked
<1>7. Abstract!Become(r, "running", "finished")
  BY <1>4, <1>5, <1>6, SamePhase, Becomes
<1> QED
  BY <1>1, <1>7 DEF Abstract!Next, Abstract!Finish

\* The unlinking by uv__work_cancel is Cancel, unless the request was cancelled before.
LEMMA CancelMaps ==
  ASSUME PoolInv, NEW l \in Loops, uv__work_cancel(l)
  PROVE  [Abstract!Next]_Abstract!vars
<1> USE DEF LoopAt, LoopGoto, Return, Continue, WorkerGoto, poolVars, initVars,
           reqVars, loopVars, callVars
<1>a. /\ lpc \in [Loops -> LoopPcs] /\ arg \in [Loops -> Reqs \cup {NoReq}]
      /\ LoopOf \in [Reqs -> Loops]
      /\ wpc \in [Workers -> WorkerPcs] /\ cur \in [Workers -> Reqs \cup {NoReq}]
      /\ work \in [Reqs -> {"NULL", "uv__queue_work", "uv__cancelled"}]
      /\ \A t \in Workers : wpc[t] \in Holds => cur[t] \in Reqs
      /\ IInv /\ PlaceInv /\ LockInv
  BY ConstantsAssumption DEF PoolInv, IInv, TypeOK, CurOK
<1>r. PICK r \in Reqs : r = arg[l] /\ LoopOf[r] = l /\ r \in active_reqs /\ lpc[l] = "cancel"
  BY <1>a DEF uv__work_cancel, IInv, ArgOK, InCall, PlaceInv, CallOK
<1>1. UNCHANGED <<active_reqs, work, cur, wpc, result>>
  BY DEF uv__work_cancel
<1>2. \A x \in Reqs : x # r => Same(x)
  BY <1>a, <1>r, <1>1 DEF uv__work_cancel, Same, Posted, Unlinked, Held
<1>3. ~Posted(r) /\ ~Unlinked(r) /\ ~Posted(r)'
  BY <1>a, <1>r DEF uv__work_cancel, Posted, Unlinked
<1>4. Held(r)' <=> Held(r)
  BY <1>1 DEF Held
<1>5. CASE ~Cancellable(r)
  <2>1. ~Unlinked(r)'
    BY <1>a, <1>r, <1>5 DEF uv__work_cancel, Unlinked
  <2>2. Same(r)
    BY <1>1, <1>3, <1>4, <2>1 DEF Same
  <2> QED
    BY <1>1, <1>2, <2>2, SamePhase, Stutters
<1>6. CASE Cancellable(r)
  <2>1. Unlinked(r)'
    BY <1>a, <1>r, <1>6 DEF uv__work_cancel, Unlinked
  <2>2. work[r] # "NULL" /\ ~Held(r)
    BY <1>a, <1>6 DEF Cancellable, Held, PlaceInv, HeldOK
  <2>3. Phase(r)' = "cancelled"
    BY <1>r, <1>1, <1>3, <1>4, <2>1, <2>2, PhaseCasesNext
  <2>4. CASE work[r] = "uv__cancelled"
    <3>1. Phase(r) = "cancelled"
      BY <1>r, <1>3, <2>2, <2>4, PhaseCases
    <3> QED
      BY <1>1, <1>2, <2>3, <3>1, SamePhase, Stutters
  <2>5. CASE work[r] # "uv__cancelled"
    <3>1. Phase(r) = "queued"
      BY <1>r, <1>3, <2>2, <2>5, PhaseCases
    <3>2. Abstract!Become(r, "queued", "cancelled")
      BY <1>2, <2>3, <3>1, SamePhase, Becomes
    <3> QED
      BY <1>1, <3>2 DEF Abstract!Next, Abstract!Cancel
  <2> QED
    BY <2>4, <2>5
<1> QED
  BY <1>5, <1>6

\* The request uv__work_cancel marks is cancelled already.
LEMMA MarkMaps ==
  ASSUME PoolInv, NEW l \in Loops, MarkCancelled(l)
  PROVE  [Abstract!Next]_Abstract!vars
<1> USE DEF LoopAt, LoopGoto, Return, Continue, WorkerGoto, poolVars, initVars,
           reqVars, loopVars, callVars
<1>a. /\ lpc \in [Loops -> LoopPcs] /\ arg \in [Loops -> Reqs \cup {NoReq}]
      /\ LoopOf \in [Reqs -> Loops]
      /\ wpc \in [Workers -> WorkerPcs] /\ cur \in [Workers -> Reqs \cup {NoReq}]
      /\ work \in [Reqs -> {"NULL", "uv__queue_work", "uv__cancelled"}]
      /\ \A t \in Workers : wpc[t] \in Holds => cur[t] \in Reqs
      /\ IInv /\ PlaceInv /\ LockInv
  BY ConstantsAssumption DEF PoolInv, IInv, TypeOK, CurOK
<1>r. PICK r \in Reqs : /\ r = arg[l] /\ LoopOf[r] = l /\ r \in active_reqs
                      /\ lpc[l] = "cancelled" /\ work[r] # "NULL" /\ linked[r]
  BY <1>a DEF MarkCancelled, IInv, ArgOK, InCall, PlaceInv, CallOK
<1>1. /\ UNCHANGED <<active_reqs, arg, cur, wpc, result>>
      /\ work' = [work EXCEPT ![r] = "uv__cancelled"]
      /\ lpc' = [lpc EXCEPT ![l] = "insert_lock"]
  BY <1>r DEF MarkCancelled
<1>2. \A x \in Reqs : x # r => Same(x)
  BY <1>a, <1>r, <1>1 DEF Same, Posted, Unlinked, Held
<1>3. ~Posted(r) /\ Unlinked(r) /\ ~Posted(r)' /\ work'[r] = "uv__cancelled"
  BY <1>a, <1>r, <1>1 DEF Posted, Unlinked
<1>4. ~Held(r) /\ ~Held(r)'
  BY <1>a, <1>r, <1>1 DEF Held, PlaceInv, HeldOK
<1>5. Phase(r)' = Phase(r)
  BY <1>r, <1>1, <1>3, <1>4, PhaseCases, PhaseCasesNext
<1> QED
  BY <1>1, <1>2, <1>5, SamePhase, Stutters

\* Calling after_work_cb is Done, with the status that fits.
LEMMA DoneMaps ==
  ASSUME PoolInv, NEW l \in Loops, uv__queue_done(l)
  PROVE  [Abstract!Next]_Abstract!vars
<1> USE DEF LoopAt, LoopGoto, Return, Continue, WorkerGoto, poolVars, initVars,
           reqVars, loopVars, callVars
<1>a. /\ lpc \in [Loops -> LoopPcs] /\ arg \in [Loops -> Reqs \cup {NoReq}]
      /\ LoopOf \in [Reqs -> Loops]
      /\ wpc \in [Workers -> WorkerPcs] /\ cur \in [Workers -> Reqs \cup {NoReq}]
      /\ work \in [Reqs -> {"NULL", "uv__queue_work", "uv__cancelled"}]
      /\ \A t \in Workers : wpc[t] \in Holds => cur[t] \in Reqs
      /\ IInv /\ PlaceInv /\ LockInv
  BY ConstantsAssumption DEF PoolInv, IInv, TypeOK, CurOK
<1>r. PICK r \in Reqs : r = Head(local[l]) /\ OverAt(l, r)
  <2>1. local[l] \in Seq(Reqs) /\ local[l] # <<>> /\ IsInjective(local[l])
    BY <1>a DEF uv__queue_done, IInv, TypeOK, PlaceInv, OverOK
  <2>2. Head(local[l]) \in Range(local[l]) /\ Head(local[l]) \in Reqs
    BY <2>1, TailQueue, HeadTailProperties
  <2> QED
    BY <1>a, <2>2 DEF PlaceInv, OverOK
<1>1. /\ UNCHANGED <<work, lpc, arg, cur, wpc>> /\ active_reqs' = active_reqs \ {r}
      /\ result' = [result EXCEPT ![r] = DoneStatus(r)]
  BY <1>r DEF uv__queue_done
<1>2. r \in active_reqs /\ work[r] # "uv__queue_work" /\ ~Posted(r) /\ ~Unlinked(r)
  BY <1>r DEF OverAt, Moving, Posted, Unlinked
<1>3. ~Held(r)
  BY <1>a, <1>2 DEF Held, PlaceInv, HeldOK
<1>4. Phase(r)' = "free"
  BY <1>1, PhaseCasesNext
<1>5. \A x \in Reqs : x # r => Same(x)
  BY <1>1 DEF Same, Posted, Unlinked, Held
<1>6. Abstract!Become(r, Phase(r), "free")
  BY <1>4, <1>5, SamePhase, Becomes
<1>7. Abstract!Done(r)
  <2>1. CASE work[r] = "NULL"
    <3>1. Phase(r) = "finished" /\ DoneStatus(r) = "0"
      BY <1>2, <1>3, <2>1, PhaseCases DEF DoneStatus
    <3> QED
      BY <1>1, <1>6, <3>1 DEF Abstract!Done
  <2>2. CASE work[r] = "uv__cancelled"
    <3>1. Phase(r) = "cancelled" /\ DoneStatus(r) = "UV_ECANCELED"
      BY <1>2, <1>3, <2>2, PhaseCases DEF DoneStatus
    <3> QED
      BY <1>1, <1>6, <3>1 DEF Abstract!Done
  <2> QED
    BY <1>a, <1>2, <2>1, <2>2
<1> QED
  BY <1>7 DEF Abstract!Next

\* Every step of the pool is a step of WorkPool or a stutter.
LEMMA StepMaps == PoolInv /\ [Next]_vars => [Abstract!Next]_Abstract!vars
<1> SUFFICES ASSUME PoolInv, [Next]_vars PROVE [Abstract!Next]_Abstract!vars
  OBVIOUS
<1>1. ASSUME NEW l \in Loops, LoopStep(l) PROVE [Abstract!Next]_Abstract!vars
  BY <1>1, LoopStutters, PostMaps, CancelMaps, MarkMaps, DoneMaps DEF LoopStep
<1>2. ASSUME NEW l \in Loops, Call(l) \/ uv_loop_close(l) PROVE [Abstract!Next]_Abstract!vars
  BY <1>2, LoopStutters, SubmitMaps DEF Call
<1>3. ASSUME NEW t \in Workers, worker(t) \/ SpuriousWake(t)
      PROVE  [Abstract!Next]_Abstract!vars
  BY <1>3, WorkerStutters, TakeMaps, HandOverMaps DEF worker
<1>4. CASE CleanupStart \/ cleanup \/ UNCHANGED vars
  BY <1>4, WorkerStutters
<1> QED
  BY <1>1, <1>2, <1>3, <1>4 DEF Next

-----------------------------------------------------------------------------
(* Theorems.                                                               *)

\* Every variable of the pool keeps its type, whatever the number of loops,
\* requests and threads; in particular the unsigned idle_threads never wraps
\* below zero and init_once never writes past the array of thread handles
\* (threadpool.c:74-76, 150-153).
THEOREM TypeCorrect == Spec => []TypeOK
<1>1. IInv => TypeOK
  BY DEF IInv
<1> QED
  BY <1>1, InitIInv, NextIInv, PTL DEF Spec

\* idle_threads is at all times the number of workers inside uv_cond_wait, so
\* post() signals whenever a worker is waiting (threadpool.c:73-77, 110).
THEOREM IdleThreadsExact == Spec => []IdleCount
<1>1. IInv => IdleCount
  BY DEF IInv
<1> QED
  BY <1>1, InitIInv, NextIInv, PTL DEF Spec

\* A worker runs only work that no uv_cancel got hold of, however many loops
\* cancel while the workers take requests: the abort() of uv__cancelled is
\* unreachable (threadpool.c:56-57, 80-95, 195-208).
THEOREM CancelledNeverRuns == Spec => []NeverRunsCancelled
<1>1. PoolInv => NeverRunsCancelled
  BY DEF PoolInv, PlaceInv, HeldOK, Handling, NeverRunsCancelled
<1> QED
  BY <1>1, PoolInvariant, PTL

\* No worker sleeps while there is more queued work than workers who are on
\* their way to it, for any size of the pool and any number of spurious
\* wake-ups (threadpool.c:73-77, 81-82, 110).
THEOREM NobodySleepsOverWork == Spec => []WorkConserving
<1>1. Init => WorkConserving
  BY DEF Init, WorkConserving, Waiting
<1> QED
  BY <1>1, ConservingStep, PoolInvariant, PTL DEF Spec

\* Finished or cancelled work always has a wake-up of its loop on the way, or
\* the loop is about to fetch it (threadpool.c:97-102, 209-212, 226-228;
\* async.c:79, 92).
THEOREM ResultsAreAnnounced == Spec => []ResultsAnnounced
<1>1. Init => ResultsAnnounced
  BY DEF Init, ResultsAnnounced
<1> QED
  BY <1>1, AnnouncedStep, PoolInvariant, PTL DEF Spec

\* The overlapped request of a loop's wq_async is in at most one place at a
\* time: with the thread that posts it, in the completion port or in the
\* loop's pending queue, and async_sent tells whether it is in any (async.c:79,
\* 92; req-inl.h:97).
THEOREM WakeupOutstandingOnce == Spec => []OnePacket
<1>1. Init => OneWake
  <2> SUFFICES ASSUME Init, NEW l \in Loops
               PROVE  One(Posting(l) # {}) + iocp[l] + One(pending[l]) = One(async_sent[l])
    BY DEF OneWake
  <2>1. Posting(l) = {}
    BY DEF Init, Posting
  <2>2. iocp[l] = 0 /\ pending[l] = FALSE /\ async_sent[l] = FALSE
    BY DEF Init
  <2> QED
    BY <2>1, <2>2 DEF One
<1> QED
  BY <1>1, OneWakeStep, OneWakeSuffices, PoolInvariant, PTL DEF Spec

\* A loop that closed is out of the pool's reach: no worker handles its work,
\* none of it is queued, and the assertion on loop->wq holds (win/core.c:316).
THEOREM ClosedLoopIsLeft == Spec => []ClosedLoopUnused
<1>1. PoolInv => ClosedLoopUnused
  <2> SUFFICES ASSUME PoolInv, NEW l \in Loops, lpc[l] = "closed"
               PROVE  /\ loop_wq[l] = <<>> /\ local[l] = <<>>
                      /\ \A t \in Workers : cur[t] # NoReq => LoopOf[cur[t]] # l
                      /\ \A i \in 1..Len(wq) : wq[i] # exit_message => LoopOf[wq[i]] # l
    BY DEF ClosedLoopUnused
  <2>a. /\ loop_wq[l] \in Seq(Reqs) /\ wq \in Seq(Items)
        /\ wpc \in [Workers -> WorkerPcs] /\ cur \in [Workers -> Reqs \cup {NoReq}]
    BY DEF PoolInv, IInv, TypeOK
  <2>b. \A r \in active_reqs : LoopOf[r] # l
    BY DEF PoolInv, LockInv, ClosedOK
  <2>1. loop_wq[l] = <<>>
    <3>1. SUFFICES ASSUME loop_wq[l] # <<>> PROVE FALSE
      OBVIOUS
    <3>2. 1 \in DOMAIN loop_wq[l]
      BY <2>a, <3>1
    <3>3. loop_wq[l][1] \in Range(loop_wq[l])
      BY <3>2 DEF Range
    <3>4. OverAt(l, loop_wq[l][1])
      BY <3>3 DEF PoolInv, PlaceInv, OverOK
    <3> QED
      BY <2>b, <3>4 DEF OverAt
  <2>2. local[l] = <<>>
    BY DEF PoolInv, PlaceInv, DrainOK
  <2>3. ASSUME NEW t \in Workers, cur[t] # NoReq PROVE LoopOf[cur[t]] # l
    <3>1. wpc[t] \in Holds
      BY <2>3 DEF PoolInv, LockInv, CurNone
    <3>2. CASE wpc[t] \in Handling
      BY <2>b, <3>2 DEF PoolInv, PlaceInv, HeldOK
    <3>3. CASE wpc[t] = "async_post"
      BY <3>3 DEF PoolInv, LockInv, ClosedOK
    <3> QED
      BY <3>1, <3>2, <3>3 DEF Holds, Handling
  <2>4. ASSUME NEW i \in 1..Len(wq), wq[i] # exit_message PROVE LoopOf[wq[i]] # l
    <3>1. wq[i] \in Reqs /\ wq[i] \in Range(wq)
      BY <2>a, <2>4 DEF Items, Range
    <3> QED
      BY <2>b, <3>1 DEF PoolInv, PlaceInv, QueueOK
  <2> QED
    BY <2>1, <2>2, <2>3, <2>4
<1> QED
  BY <1>1, PoolInvariant, PTL

\* The pool implements WorkPool: a request is started by one worker or
\* cancelled by its loop, never both, and its owner gets one after_work_cb with
\* the status that tells which (threadpool.c:65-114, 180-250).
THEOREM PoolImplements == Spec => ImplementsWorkPool
<1>1. Init => Abstract!Init
  BY InitMaps
<1>2. PoolInv /\ [Next]_vars => [Abstract!Next]_Abstract!vars
  BY StepMaps
<1> QED
  BY <1>1, <1>2, PoolInvariant, PTL DEF Spec, ImplementsWorkPool, Abstract!Spec
=============================================================================
